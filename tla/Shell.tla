------------------------------- MODULE Shell -------------------------------
(***************************************************************************)
(* The activity- and input-method-manager half of wandr-arbiter: the verbs *)
(* of wandr-arbiter-shell and the launch, home and child-exit flows the    *)
(* daemon runs around them.                                                *)
(*                                                                         *)
(* Every handler holds the process-wide arbiter_lock from its first read   *)
(* to its last effect, so a handler is one step. Application processes run *)
(* on their own: they die at any moment, and the arbiter may be handling a *)
(* command of a process that is already gone. What the arbiter saves, and  *)
(* what it does after a crash of its own, is in module Persist.            *)
(***************************************************************************)
EXTENDS SurfaceModel

CONSTANTS
    NumApps,      \* bound: how many application ids there are
    ChromeApps,   \* CHROME_APP_IDS: never in the task ring, never task-killed
    LaunchModes,  \* bound: the <<app, kind>> pairs that are launched
    ImeApps,      \* bound: the apps that are ever designated the IME
    HomeApps,     \* bound: the apps that are ever designated home
    EditorApps,   \* bound: the apps that have text fields
    Enabled       \* bound: the verbs of OperatorVerbs that are used

OperatorVerbs == {"kill", "task-kill", "overlay"}
App == 1 .. NumApps        \* in app-id order
NoApp == 0
LaunchKind == {"Gui", "Headless", "GuiOverlay"}

ASSUME NumAppsAssumption == NumApps \in Nat
ASSUME ChromeAssumption == ChromeApps \subseteq App
ASSUME LaunchAssumption == LaunchModes \subseteq App \X LaunchKind
ASSUME RoleAppsAssumption ==
    ImeApps \subseteq App /\ HomeApps \subseteq App /\ EditorApps \subseteq App
ASSUME EnabledAssumption == Enabled \subseteq OperatorVerbs

VARIABLES
    ds,        \* the primary DisplayState
    apps,      \* registry: app id -> pid, NoPid when it is not running
    home,      \* the designated home app, or NoApp
    appOf,     \* the app id a process was started for (Surface.app_id)
    alive,     \* the processes that are running
    started    \* how many processes were started; pids are never reused

vars == <<ds, apps, home, appOf, alive, started>>
Processes == <<apps, appOf, alive, started>>

Registry == [App -> Pid \cup {NoPid}]

Registered == {apps[a] : a \in App} \ {NoPid}

\* The app id shown in the foreground slot of display d.
SlotApp(d) == IF ForegroundSlot(d) = NoPid THEN NoApp ELSE appOf[ForegroundSlot(d)]

Init ==
    /\ ds = EmptyDisplay
    /\ apps = [a \in App |-> NoPid]
    /\ home = NoApp
    /\ appOf = [p \in Pid |-> NoApp]
    /\ alive = {}
    /\ started = 0

-----------------------------------------------------------------------------
(* Building blocks of the handlers *)

\* The zygote forks app a as process p.
Fork(a, p) ==
    /\ p \in Pid
    /\ p = started + 1
    /\ started' = p
    /\ alive' = alive \cup {p}
    /\ appOf' = [appOf EXCEPT ![p] = a]

\* ensure_home_foreground, run from display d, registry r and designation h.
EnsureHomeForeground(d, r, h) ==
    \/ /\ h = NoApp \/ SlotApp(d) = h
       /\ ds' = d
       /\ apps' = r
       /\ UNCHANGED <<appOf, alive, started>>
    \/ /\ h # NoApp /\ SlotApp(d) # h
       /\ r[h] # NoPid
       /\ ds' = PromoteToForeground(d, r[h])
       /\ apps' = r
       /\ UNCHANGED <<appOf, alive, started>>
    \/ /\ h # NoApp /\ SlotApp(d) # h
       /\ r[h] = NoPid
       /\ \E p \in Pid :
            /\ Fork(h, p)
            /\ ds' = PromoteToForeground(PutSurface(d, p, "Background"), p)
            /\ apps' = [r EXCEPT ![h] = p]
    \/ /\ h # NoApp /\ SlotApp(d) # h         \* launch_gui failed
       /\ r[h] = NoPid
       /\ ds' = d
       /\ apps' = r
       /\ UNCHANGED <<appOf, alive, started>>

-----------------------------------------------------------------------------
(* Activity manager *)

Foreground(a) ==
    /\ apps[a] # NoPid
    /\ ds' = PromoteToForeground(ds, apps[a])
    /\ UNCHANGED <<Processes, home>>

\* A chrome overlay the host spawned registers itself.
RegisterChrome(a) ==
    /\ a \in ChromeApps
    /\ \E p \in Pid :
         /\ Fork(a, p)
         /\ apps' = [apps EXCEPT ![a] = p]
         /\ ds' = PutSurface(ds, p, "Chrome")
    /\ UNCHANGED home

\* Model pruned at once; the process dies when the zygote's signal arrives.
PruneApp(a) ==
    /\ apps[a] # NoPid
    /\ apps' = [apps EXCEPT ![a] = NoPid]
    /\ ds' = RemoveSurface(ds, apps[a])
    /\ UNCHANGED <<home, appOf, alive, started>>

Kill(a) == "kill" \in Enabled /\ PruneApp(a)

TaskKill(a) ==
    /\ "task-kill" \in Enabled
    /\ a \notin ChromeApps
    /\ a # home
    /\ PruneApp(a)

\* BACK with the keyboard up dismisses it; otherwise the app gets a key event.
Back ==
    /\ OverlayEngaged(ds)
    /\ ds' = ReconcileOverlay(IF ds.editor = NoPid THEN ds
                              ELSE DropEditorFocusOf(ds, ds.editor))
    /\ UNCHANGED <<Processes, home>>

\* The switchable apps, and the one cycle-task moves to: the app after the
\* visible one in app-id order, the first one from the end or from elsewhere.
TaskRing == {a \in App \ ChromeApps : apps[a] # NoPid}

\* Mutant of CycleNext: always the first of the ring.
CycleFirst == CHOOSE a \in TaskRing : \A b \in TaskRing : a <= b

CycleNext ==
    LET later == {b \in TaskRing : \E a \in TaskRing :
                      apps[a] = VisibleApp(ds) /\ a < b}
    IN  CHOOSE a \in IF later = {} THEN TaskRing ELSE later :
            \A b \in IF later = {} THEN TaskRing ELSE later : a <= b

CycleTask ==
    /\ \E a, b \in TaskRing : a # b
    /\ ds' = PromoteToForeground(ds, apps[CycleNext])
    /\ UNCHANGED <<Processes, home>>

-----------------------------------------------------------------------------
(* Input-method manager *)

SetIme(a) ==
    /\ a \in ImeApps
    /\ apps[a] # NoPid
    /\ ds' = [ds EXCEPT !.ime = apps[a]]
    /\ UNCHANGED <<Processes, home>>

ClearIme ==
    /\ ds' = [ds EXCEPT !.ime = NoPid]
    /\ UNCHANGED <<Processes, home>>

\* The IME is told even when the editor's app is not the visible one.
AttachEditor(p) ==
    /\ p \in Registered
    /\ appOf[p] \in EditorApps
    /\ ds' = Tell(ReconcileOverlay([ds EXCEPT !.editor = p]), ActiveImeSurface(ds))
    /\ UNCHANGED <<Processes, home>>

\* Mutant of DetachEditor: the IME is not told.
DetachQuietly(p) ==
    /\ ds.editor = p
    /\ ds' = ReconcileOverlay([ds EXCEPT !.editor = NoPid])
    /\ UNCHANGED <<Processes, home>>

DetachEditor(p) ==
    /\ ds.editor = p
    /\ ds' = Untell(ReconcileOverlay([ds EXCEPT !.editor = NoPid]),
                    ActiveImeSurface(ds))
    /\ UNCHANGED <<Processes, home>>

Overlay(a) ==
    /\ "overlay" \in Enabled
    /\ apps[a] # NoPid
    /\ ds' = PromoteToOverlay(ds, apps[a], ForegroundSlot(ds))
    /\ UNCHANGED <<Processes, home>>

OverlayClear ==
    /\ "overlay" \in Enabled
    /\ ds' = DemoteFromOverlay(ds)
    /\ UNCHANGED <<Processes, home>>

-----------------------------------------------------------------------------
(* Launch and home, in the daemon *)

\* The display after a launch of process p: GUI comes forward, an overlay is
\* hidden by a bare signal, a headless process has no surface to show.
Launched(d, p, kind) ==
    CASE kind = "Gui"        -> PromoteToForeground(PutSurface(d, p, "Background"), p)
      [] kind = "GuiOverlay" -> ApplyRole(PutSurface(d, p, "Background"), p, "Background")
      [] kind = "Headless"   -> PutSurface(d, p, "Headless")

Launch(a, kind) ==
    /\ <<a, kind>> \in LaunchModes
    /\ \/ /\ kind = "Gui" /\ apps[a] # NoPid /\ apps[a] \in alive
          /\ ds' = PromoteToForeground(ds, apps[a])
          /\ UNCHANGED Processes
       \/ /\ ~(kind = "Gui" /\ apps[a] # NoPid /\ apps[a] \in alive)
          /\ \E p \in Pid :
               /\ Fork(a, p)
               /\ apps' = [apps EXCEPT ![a] = p]
               /\ ds' = Launched(ds, p, kind)
    /\ UNCHANGED home

\* Effect::Launch, which an alarm tick requests for an app that is not running:
\* the process starts hidden. A tick with two due alarms of one app requests it
\* twice, and the second launch replaces the registry entry of the first.
WakeLaunch(a, kind) ==
    /\ <<a, kind>> \in LaunchModes
    /\ \E p \in Pid :
         LET role == IF kind = "Headless" THEN "Headless" ELSE "Background"
         IN  /\ Fork(a, p)
             /\ apps' = [apps EXCEPT ![a] = p]
             /\ ds' = ApplyRole(PutSurface(ds, p, role), p, role)
    /\ UNCHANGED home

SetHome(a) ==
    /\ a \in HomeApps
    /\ home' = a
    /\ EnsureHomeForeground(ds, apps, a)

ClearHome == home' = NoApp /\ UNCHANGED <<ds, Processes>>

GoHome ==
    /\ home # NoApp
    /\ EnsureHomeForeground(ds, apps, home)
    /\ UNCHANGED home

-----------------------------------------------------------------------------
(* Process exit *)

Die(p) ==
    /\ p \in alive
    /\ alive' = alive \ {p}
    /\ UNCHANGED <<ds, apps, home, appOf, started>>

\* Mutant of HandleChildExit: no fallback to home.
HandleChildExitOnly(p) ==
    /\ p \in Registered \ alive
    /\ ds' = OnSurfaceRemoved(ds, p)
    /\ apps' = [a \in App |-> IF apps[a] = p THEN NoPid ELSE apps[a]]
    /\ UNCHANGED <<home, appOf, alive, started>>

\* handle_child_exit of a tracked process, from the zygote's push or from the
\* poller. An untracked one changes nothing.
HandleChildExit(p) ==
    /\ p \in Registered \ alive
    /\ LET d == OnSurfaceRemoved(ds, p)
           r == [a \in App |-> IF apps[a] = p THEN NoPid ELSE apps[a]]
       IN  EnsureHomeForeground(d, r, IF ForegroundSlot(d) = NoPid THEN home ELSE NoApp)
    /\ UNCHANGED home

-----------------------------------------------------------------------------

AppCommand(a) ==
    \/ Foreground(a)
    \/ RegisterChrome(a)
    \/ Kill(a)
    \/ TaskKill(a)
    \/ SetIme(a)
    \/ Overlay(a)
    \/ SetHome(a)
    \/ \E kind \in LaunchKind : Launch(a, kind)

\* The commands of the control socket.
Command ==
    \/ \E a \in App : AppCommand(a)
    \/ \E p \in Pid : AttachEditor(p) \/ DetachEditor(p)
    \/ Back
    \/ CycleTask
    \/ ClearIme
    \/ OverlayClear
    \/ ClearHome
    \/ GoHome

Wake == \E a \in App, kind \in LaunchKind : WakeLaunch(a, kind)

Next ==
    \/ Command
    \/ Wake
    \/ \E p \in Pid : Die(p) \/ HandleChildExit(p)

Spec == Init /\ [][Next]_vars

-----------------------------------------------------------------------------
(* Properties *)

\* Registry, roles, editor and IME name apps and processes, or nothing.
TypeOK ==
    /\ ds \in Display
    /\ apps \in Registry
    /\ home \in App \cup {NoApp}
    /\ appOf \in [Pid -> App \cup {NoApp}]
    /\ alive \subseteq Pid
    /\ started \in 0 .. MaxPid

\* The focus slot is unambiguous: at most one surface is shown focused, as
\* Foreground or as Overlay, whatever verbs, kills, exits and restarts occurred.
\* foreground_slot(), which back, persistence and home fallback read, depends
\* on it.
SlotUnique == \A p, q \in Focused(ds) : p = q

\* Everything the arbiter points at is tracked: a registered process, the IME
\* and the focused editor all own a surface. overlay_desired() does not check
\* the IME's surface, so this is what keeps reconcile_overlay's
\* expect("desired implies ime") from panicking.
PointersTracked ==
    /\ \A a \in App : apps[a] # NoPid => apps[a] \in Surfaces(ds) /\ appOf[apps[a]] = a
    /\ ds.ime # NoPid => ds.ime \in Surfaces(ds)
    /\ ds.editor # NoPid => ds.editor \in Surfaces(ds)

\* At most one app is behind an overlay, and only while one is engaged.
BehindUnique ==
    /\ \A p, q \in WithRole(ds, "OverlayBehind") : p = q
    /\ WithRole(ds, "OverlayBehind") # {} => OverlayEngaged(ds)

\* A process that is running was last told the role the model gives it.
HostAgrees ==
    \A p \in Surfaces(ds) \cap alive :
        ds.host[p] = Mechanism(ds.role[p], ds.host[p])

\* Switching works from every reachable state: the app that foreground is asked
\* for becomes the visible one, whatever split, editor or IME was active, and
\* cycle-task moves to another app.
SwitchShows ==
    /\ \A p \in Registered : VisibleApp(PromoteToForeground(ds, p)) = p
    /\ (\E a, b \in TaskRing : a # b) => apps[CycleNext] # VisibleApp(ds)

\* Focus follows foreground: when the visible app changes, no editor of an
\* app that is not visible any more keeps the input focus.
FinishInput ==
    [][(/\ VisibleApp(ds') # VisibleApp(ds)
        /\ ds.editor # NoPid
        /\ ds.editor = VisibleApp(ds)) => ds'.editor # ds.editor]_vars

\* The keyboard is up exactly when the visible app's editor wants it.
Reconciled(d) == WithRole(d, "Overlay") = {OverlayDesired(d)} \ {NoPid}

\* Every handler keeps it so, except set-ime, which designates an IME without
\* re-deriving the overlay.
KeyboardReconciled ==
    [][Reconciled(ds) /\ ds.ime = ds'.ime => Reconciled(ds')]_vars

\* The IME hears that an editor lost the focus: when an app that is still
\* tracked stops being the editor and nobody takes its place, the active IME
\* has been told to drop its composing state.
ImeTold ==
    [][(/\ ds.editor \in Surfaces(ds')
        /\ ds'.editor = NoPid
        /\ ds'.ime = ds.ime) => ds'.ime \notin ds'.told]_vars

\* The screen is not left empty: no step takes the last surface out of the
\* foreground slot while the designated home app is running.
NeverEmpty ==
    [][(/\ ForegroundSlot(ds) # NoPid
        /\ home' # NoApp
        /\ apps'[home'] # NoPid) => ForegroundSlot(ds') # NoPid]_vars
=============================================================================
