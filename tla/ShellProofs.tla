---------------------------- MODULE ShellProofs ----------------------------
(***************************************************************************)
(* Safety of Shell for every number of processes and apps, every set of    *)
(* chrome ids and every set of verbs.                                      *)
(*                                                                         *)
(* SlotUnique and PointersTracked hold only together: reconcile_overlay    *)
(* keeps the slot unique because the IME it promotes is tracked. They are  *)
(* inductive once a process that was not started yet is known to own no    *)
(* surface, so that a fork never takes a registered pid.                   *)
(***************************************************************************)
EXTENDS Shell, SurfaceProofs

\* Display d, registry r, owners o and n started processes fit together.
StateOK(d, r, o, n) ==
    /\ d \in Display
    /\ Unique(d)
    /\ Tracked(d)
    /\ r \in Registry
    /\ o \in [Pid -> App \cup {NoApp}]
    /\ n \in 0 .. MaxPid
    /\ Surfaces(d) \subseteq 1 .. n
    /\ \A a \in App : r[a] # NoPid => r[a] \in Surfaces(d) /\ o[r[a]] = a

\* The inductive invariant of Shell.
IInv ==
    /\ StateOK(ds, apps, appOf, started)
    /\ home \in App \cup {NoApp}
    /\ alive \subseteq Pid

-----------------------------------------------------------------------------
(* Displays and registries *)

\* Pids are positive numbers, so none of them is NoPid.
LEMMA PidNat ==
    /\ Pid \subseteq Nat \ {0}
    /\ \A n \in 0 .. MaxPid : 1 .. n \subseteq Pid
BY MaxPidAssumption DEF Pid

\* Replacing the display by one that tracks at least as much.
LEMMA DisplayStep ==
    ASSUME NEW d, NEW r, NEW o, NEW n, StateOK(d, r, o, n),
           NEW e \in Display, Unique(e), Tracked(e),
           Surfaces(d) \subseteq Surfaces(e), Surfaces(e) \subseteq 1 .. n
    PROVE  StateOK(e, r, o, n)
BY DEF StateOK

\* The same when the new display tracks exactly the same surfaces.
LEMMA KeepsStep ==
    ASSUME NEW d, NEW r, NEW o, NEW n, StateOK(d, r, o, n),
           NEW e, Keeps(d, e), Unique(e)
    PROVE  StateOK(e, r, o, n)
<1>1. e \in Display /\ Tracked(e)
  BY KeepsTracked DEF StateOK
<1>. QED
  BY <1>1 DEF StateOK, Keeps

\* A display that gains a surface still tracks its IME and its editor.
LEMMA GrowsTracked ==
    ASSUME NEW d, NEW e, NEW p, Grows(d, e, p), Tracked(d)
    PROVE  e \in Display /\ Tracked(e)
BY DEF Grows, Tracked

\* foreground of a tracked process.
LEMMA PromoteStep ==
    ASSUME NEW d, NEW r, NEW o, NEW n, StateOK(d, r, o, n),
           NEW p \in Surfaces(d)
    PROVE  StateOK(PromoteToForeground(d, p), r, o, n)
<1> DEFINE e == PromoteToForeground(d, p)
<1>1. p \in Pid
  BY DEF Surfaces
<1>2. Grows(d, e, p) /\ Unique(e)
  BY <1>1, PromoteToForegroundFacts DEF StateOK
<1> HIDE DEF e
<1>3. Keeps(d, e)
  BY <1>2 DEF Grows, Keeps
<1>. QED
  BY <1>2, <1>3, KeepsStep DEF e

\* A process started for app a: its pid is fresh, so no other app owns it.
LEMMA ForkStep ==
    ASSUME NEW d, NEW r, NEW o, NEW n, StateOK(d, r, o, n),
           NEW a \in App, NEW p \in Pid, p = n + 1,
           NEW e, Grows(d, e, p), Unique(e)
    PROVE  StateOK(e, [r EXCEPT ![a] = p], [o EXCEPT ![p] = a], p)
<1>1. n \in Nat /\ p \in 0 .. MaxPid
  BY PidNat, MaxPidAssumption DEF StateOK, Pid
<1>2. e \in Display /\ Tracked(e)
  BY GrowsTracked DEF StateOK
<1>3. Surfaces(e) \subseteq 1 .. p
  BY <1>1 DEF Grows, StateOK
<1>4. \A b \in App : r[b] # p
  <2> SUFFICES ASSUME NEW b \in App, r[b] = p
               PROVE  FALSE
    OBVIOUS
  <2>1. p # NoPid
    BY DEF Pid, NoPid
  <2>2. p \in 1 .. n
    BY <2>1 DEF StateOK
  <2>. QED
    BY <1>1, <2>2
<1>5. /\ [r EXCEPT ![a] = p] \in Registry
      /\ [o EXCEPT ![p] = a] \in [Pid -> App \cup {NoApp}]
  BY DEF StateOK, Registry
<1>6. ASSUME NEW b \in App, [r EXCEPT ![a] = p][b] # NoPid
      PROVE  /\ [r EXCEPT ![a] = p][b] \in Surfaces(e)
             /\ [o EXCEPT ![p] = a][[r EXCEPT ![a] = p][b]] = b
  <2>1. CASE b = a
    BY <2>1 DEF StateOK, Registry, Grows
  <2>2. CASE b # a
    <3>1. [r EXCEPT ![a] = p][b] = r[b]
      BY <2>2 DEF StateOK, Registry
    <3>2. r[b] \in Pid /\ r[b] \in Surfaces(d) /\ o[r[b]] = b /\ r[b] # p
      BY <1>4, <1>6, <3>1 DEF StateOK, Surfaces
    <3>. QED
      BY <3>1, <3>2 DEF StateOK, Grows
  <2>. QED
    BY <2>1, <2>2
<1>. QED
  BY <1>1, <1>2, <1>3, <1>5, <1>6 DEF StateOK

\* A surface put in a role without focus.
LEMMA PutUnfocused ==
    ASSUME NEW d \in Display, NEW p \in Pid, NEW r \in Role, Unique(d),
           r # "Foreground", r # "Overlay"
    PROVE  Grows(d, PutSurface(d, p, r), p) /\ Unique(PutSurface(d, p, r))
<1> DEFINE e == PutSurface(d, p, r)
<1>1. /\ e \in Display /\ e.ime = d.ime /\ e.editor = d.editor
      /\ Surfaces(e) = Surfaces(d) \cup {p}
      /\ \A q \in Pid : e.role[q] = IF q = p THEN r ELSE d.role[q]
  BY PutFacts
<1>2. Focused(e) \subseteq Focused(d)
  BY <1>1 DEF Focused, WithRole
<1>. QED
  BY <1>1, <1>2 DEF Grows, Unique

\* A GUI launch: tracked in the background, then brought forward.
LEMMA LaunchGui ==
    ASSUME NEW d \in Display, NEW p \in Pid, Unique(d), Tracked(d)
    PROVE  LET e == PromoteToForeground(PutSurface(d, p, "Background"), p)
           IN  Grows(d, e, p) /\ Unique(e)
<1> DEFINE f == PutSurface(d, p, "Background")
           e == PromoteToForeground(f, p)
<1>1. Grows(d, f, p) /\ Unique(f)
  BY PutUnfocused DEF Role
<1>2. f \in Display /\ Tracked(f)
  BY <1>1, GrowsTracked
<1> HIDE DEF f
<1>3. Grows(f, e, p) /\ Unique(e)
  BY <1>1, <1>2, PromoteToForegroundFacts
<1>. QED
  BY <1>1, <1>3 DEF Grows, f

\* A hidden launch: tracked in the background or headless, and signalled.
LEMMA LaunchHidden ==
    ASSUME NEW d \in Display, NEW p \in Pid, NEW r \in Role, Unique(d),
           r # "Foreground", r # "Overlay"
    PROVE  LET e == ApplyRole(PutSurface(d, p, r), p, r)
           IN  Grows(d, e, p) /\ Unique(e)
<1> DEFINE f == PutSurface(d, p, r)
           e == ApplyRole(f, p, r)
<1>1. Grows(d, f, p) /\ Unique(f)
  BY PutUnfocused
<1>2. f \in Display
  BY <1>1 DEF Grows
<1> HIDE DEF f
<1>3. Keeps(f, e) /\ e.role = f.role
  BY <1>2, ApplyRoleFacts
<1>4. Unique(e)
  BY <1>1, <1>3, SameRoles
<1>. QED
  BY <1>1, <1>3, <1>4 DEF Grows, Keeps, f

-----------------------------------------------------------------------------
(* Handlers *)

\* The exit and home flows, from any consistent display and registry.
LEMMA EnsureHomeStep ==
    ASSUME IInv, NEW d, NEW r, StateOK(d, r, appOf, started),
           NEW h \in App \cup {NoApp}, EnsureHomeForeground(d, r, h)
    PROVE  StateOK(ds', apps', appOf', started') /\ alive' \subseteq Pid
<1>1. CASE ds' = d /\ apps' = r /\ UNCHANGED <<appOf, alive, started>>
  BY <1>1 DEF IInv
<1>2. CASE /\ h # NoApp /\ r[h] # NoPid
           /\ ds' = PromoteToForeground(d, r[h]) /\ apps' = r
           /\ UNCHANGED <<appOf, alive, started>>
  <2>1. r[h] \in Surfaces(d)
    BY <1>2 DEF StateOK
  <2>2. StateOK(PromoteToForeground(d, r[h]), r, appOf, started)
    BY <2>1, PromoteStep
  <2>. QED
    BY <1>2, <2>2 DEF IInv
<1>3. CASE /\ h # NoApp
           /\ \E p \in Pid :
                /\ Fork(h, p)
                /\ ds' = PromoteToForeground(PutSurface(d, p, "Background"), p)
                /\ apps' = [r EXCEPT ![h] = p]
  <2>1. PICK p \in Pid :
                /\ Fork(h, p)
                /\ ds' = PromoteToForeground(PutSurface(d, p, "Background"), p)
                /\ apps' = [r EXCEPT ![h] = p]
    BY <1>3
  <2>2. Grows(d, ds', p) /\ Unique(ds')
    BY <2>1, LaunchGui DEF StateOK
  <2>3. StateOK(ds', [r EXCEPT ![h] = p], [appOf EXCEPT ![p] = h], p)
    BY <1>3, <2>1, <2>2, ForkStep DEF Fork
  <2>. QED
    BY <2>1, <2>3 DEF Fork, IInv
<1>. QED
  BY <1>1, <1>2, <1>3 DEF EnsureHomeForeground

\* A registered process is a pid that owns a surface.
LEMMA RegisteredTracked ==
    ASSUME IInv
    PROVE  /\ Registered \subseteq Surfaces(ds)
           /\ \A a \in App : apps[a] # NoPid => apps[a] \in Surfaces(ds)
BY DEF IInv, StateOK, Registered

\* The foreground verb promotes a registered, hence tracked, process.
LEMMA ForegroundStep ==
    ASSUME IInv, NEW a \in App, Foreground(a)
    PROVE  IInv'
<1>1. apps[a] \in Surfaces(ds)
  BY RegisteredTracked DEF Foreground
<1>2. StateOK(PromoteToForeground(ds, apps[a]), apps, appOf, started)
  BY <1>1, PromoteStep DEF IInv
<1>. QED
  BY <1>2 DEF IInv, Foreground, Processes

\* A chrome overlay that registers adds an unfocused surface.
LEMMA RegisterChromeStep ==
    ASSUME IInv, NEW a \in App, RegisterChrome(a)
    PROVE  IInv'
<1>1. PICK p \in Pid : /\ Fork(a, p)
                       /\ apps' = [apps EXCEPT ![a] = p]
                       /\ ds' = PutSurface(ds, p, "Chrome")
  BY DEF RegisterChrome
<1>2. Grows(ds, ds', p) /\ Unique(ds')
  BY <1>1, PutUnfocused DEF IInv, StateOK, Role
<1>3. StateOK(ds', [apps EXCEPT ![a] = p], [appOf EXCEPT ![p] = a], p)
  BY <1>1, <1>2, ForkStep DEF Fork, IInv
<1>. QED
  BY <1>1, <1>3 DEF Fork, IInv, RegisterChrome

\* Kill and TaskKill: no other app owned the pruned process.
LEMMA PruneStep ==
    ASSUME IInv, NEW a \in App, PruneApp(a)
    PROVE  IInv'
<1> DEFINE p == apps[a]
           e == RemoveSurface(ds, p)
<1>1. p \in Surfaces(ds) /\ p \in Pid /\ appOf[p] = a
  BY DEF IInv, StateOK, PruneApp, Surfaces
<1>2. e \in Display /\ Surfaces(e) = Surfaces(ds) \ {p} /\ Unique(e) /\ Tracked(e)
  BY <1>1, RemoveSurfaceFacts DEF IInv, StateOK
<1>3. apps' = [apps EXCEPT ![a] = NoPid] /\ ds' = e /\ UNCHANGED <<home, appOf, alive, started>>
  BY DEF PruneApp
<1> HIDE DEF e
<1>4. apps' \in Registry
  BY <1>3 DEF IInv, StateOK, Registry
<1>5. \A b \in App : apps'[b] # NoPid =>
          b # a /\ apps'[b] = apps[b] /\ apps[b] \in Surfaces(ds) /\ appOf[apps[b]] = b
  BY <1>3 DEF IInv, StateOK, Registry
<1>6. \A b \in App : apps'[b] # NoPid => apps'[b] \in Surfaces(e) /\ appOf[apps'[b]] = b
  BY <1>1, <1>2, <1>5
<1>. QED
  BY <1>2, <1>3, <1>4, <1>6 DEF IInv, StateOK

\* BACK drops the editor focus and tears the overlay down.
LEMMA BackStep ==
    ASSUME IInv, Back
    PROVE  IInv'
<1> DEFINE e == IF ds.editor = NoPid THEN ds ELSE DropEditorFocusOf(ds, ds.editor)
<1>1. Keeps(ds, e) /\ e.role = ds.role
  BY DropFacts DEF IInv, StateOK, Keeps
<1>2. ds' = ReconcileOverlay(e) /\ UNCHANGED <<Processes, home>>
  BY DEF Back
<1> HIDE DEF e
<1>3. e \in Display /\ Tracked(e) /\ Unique(e)
  BY <1>1, KeepsTracked, SameRoles DEF IInv, StateOK
<1>4. Keeps(e, ds') /\ Unique(ds')
  BY <1>2, <1>3, ReconcileFacts
<1>5. Keeps(ds, ds')
  BY <1>1, <1>4 DEF Keeps
<1>6. StateOK(ds', apps, appOf, started)
  BY <1>4, <1>5, KeepsStep DEF IInv
<1>. QED
  BY <1>2, <1>6 DEF IInv, Processes

\* cycle-task moves to an app of the task ring, the first one of those after the
\* visible app or of the whole ring.
LEMMA CycleNextFound ==
    ASSUME \E a, b \in TaskRing : a # b
    PROVE  LET later == {b \in TaskRing : \E a \in TaskRing :
                            apps[a] = VisibleApp(ds) /\ a < b}
               T == IF later = {} THEN TaskRing ELSE later
           IN  CycleNext \in T /\ CycleNext \in TaskRing /\ \A b \in T : CycleNext <= b
<1> DEFINE later == {b \in TaskRing : \E a \in TaskRing :
                        apps[a] = VisibleApp(ds) /\ a < b}
           T == IF later = {} THEN TaskRing ELSE later
<1>1. T \in SUBSET Nat /\ T # {} /\ T \subseteq TaskRing
  BY NumAppsAssumption DEF TaskRing, App
<1>2. \E a \in T : \A b \in T : a <= b
  BY <1>1, LeastNat
<1>3. CycleNext = CHOOSE a \in T : \A b \in T : a <= b
  BY DEF CycleNext
<1>. QED
  BY <1>1, <1>2, <1>3

\* cycle-task promotes a process of the task ring.
LEMMA CycleTaskStep ==
    ASSUME IInv, CycleTask
    PROVE  IInv'
<1>1. CycleNext \in TaskRing
  BY CycleNextFound DEF CycleTask
<1>2. apps[CycleNext] \in Surfaces(ds)
  BY <1>1, RegisteredTracked DEF TaskRing
<1>3. StateOK(PromoteToForeground(ds, apps[CycleNext]), apps, appOf, started)
  BY <1>2, PromoteStep DEF IInv
<1>. QED
  BY <1>3 DEF IInv, CycleTask, Processes

\* set-ime designates a tracked process, or none.
LEMMA ImeStep ==
    ASSUME IInv, NEW p \in Surfaces(ds) \cup {NoPid},
           ds' = [ds EXCEPT !.ime = p], UNCHANGED <<Processes, home>>
    PROVE  IInv'
<1>1. p \in Pid \cup {NoPid}
  BY DEF Surfaces
<1>2. /\ ds' \in Display /\ ds'.role = ds.role /\ ds'.ime = p
      /\ ds'.editor = ds.editor
  BY <1>1 DEF IInv, StateOK, Display
<1>3. Surfaces(ds') = Surfaces(ds) /\ Unique(ds')
  BY <1>2 DEF Surfaces, IInv, StateOK, Unique, Focused, WithRole
<1>4. Tracked(ds')
  BY <1>2, <1>3 DEF Tracked, IInv, StateOK
<1>. QED
  BY <1>2, <1>3, <1>4 DEF IInv, StateOK, Processes

\* attach-editor and detach-editor: move the focus, reconcile, tell the IME.
LEMMA EditorStep ==
    ASSUME IInv, NEW p \in Surfaces(ds) \cup {NoPid}, NEW e,
           e = ReconcileOverlay([ds EXCEPT !.editor = p]),
           \/ ds' = Tell(e, ActiveImeSurface(ds))
           \/ ds' = Untell(e, ActiveImeSurface(ds)),
           UNCHANGED <<Processes, home>>
    PROVE  IInv'
<1> DEFINE f == [ds EXCEPT !.editor = p]
<1>1. p \in Pid \cup {NoPid} /\ ds \in Display
  BY DEF Surfaces, IInv, StateOK
<1>2. /\ f \in Display /\ f.role = ds.role /\ f.ime = ds.ime /\ f.editor = p
      /\ Surfaces(f) = Surfaces(ds)
  BY <1>1, EditorFacts
<1>3. e = ReconcileOverlay(f)
  OBVIOUS
<1> HIDE DEF f
<1>4. Unique(f) /\ Tracked(f)
  BY <1>2, SameRoles DEF Tracked, IInv, StateOK
<1>5. Keeps(f, e) /\ Unique(e)
  BY <1>2, <1>3, <1>4, ReconcileFacts
<1>6. e \in Display /\ Tracked(e)
  BY <1>4, <1>5, KeepsTracked
<1>7. Keeps(e, ds') /\ ds'.role = e.role
  BY <1>1, <1>6, ActiveImeType, TellFacts
<1>8. ds' \in Display /\ Tracked(ds') /\ Unique(ds')
  BY <1>5, <1>6, <1>7, KeepsTracked, SameRoles
<1>9. Surfaces(ds') = Surfaces(ds)
  BY <1>2, <1>5, <1>7 DEF Keeps
<1>. QED
  BY <1>8, <1>9 DEF IInv, StateOK, Processes

\* The overlay verb replaces the focused surface by the overlay.
LEMMA OverlayStep ==
    ASSUME IInv, NEW a \in App, Overlay(a)
    PROVE  IInv'
<1> DEFINE p == apps[a]
           hint == ForegroundSlot(ds)
           e == PromoteToOverlay(ds, p, hint)
<1>1. ds \in Display /\ Unique(ds) /\ Tracked(ds)
  BY DEF IInv, StateOK
<1>2. p \in Pid /\ p \in Surfaces(ds)
  BY RegisteredTracked DEF Overlay, Surfaces
<1>3. hint \in Pid \cup {NoPid}
  BY <1>1, VisibleType
<1>4. WithRole(ds, "Overlay") \subseteq {hint, p}
  BY <1>1, FirstFound DEF ForegroundSlot, Unique, Focused
<1>5. /\ e \in Display /\ e.ime = ds.ime /\ e.editor = ds.editor
      /\ Surfaces(e) = Surfaces(ds) \cup {p} /\ Unique(e)
  BY <1>1, <1>2, <1>3, <1>4, PromoteToOverlayFacts
<1>6. ds' = e /\ UNCHANGED <<Processes, home>>
  BY DEF Overlay
<1> HIDE DEF e
<1>7. Keeps(ds, e)
  BY <1>2, <1>5 DEF Keeps
<1>8. StateOK(e, apps, appOf, started)
  BY <1>5, <1>7, KeepsStep DEF IInv
<1>. QED
  BY <1>6, <1>8 DEF IInv, Processes

\* overlay-clear tears the split down.
LEMMA OverlayClearStep ==
    ASSUME IInv, OverlayClear
    PROVE  IInv'
<1>1. Keeps(ds, DemoteFromOverlay(ds)) /\ Unique(DemoteFromOverlay(ds))
  BY DemoteFacts DEF IInv, StateOK
<1>2. StateOK(DemoteFromOverlay(ds), apps, appOf, started)
  BY <1>1, KeepsStep DEF IInv
<1>. QED
  BY <1>2 DEF IInv, OverlayClear, Processes

\* A launch promotes the running process or registers a new one.
LEMMA LaunchStep ==
    ASSUME IInv, NEW a \in App, NEW kind \in LaunchKind, Launch(a, kind)
    PROVE  IInv'
<1>1. CASE apps[a] # NoPid /\ ds' = PromoteToForeground(ds, apps[a]) /\ UNCHANGED Processes
  <2>1. apps[a] \in Surfaces(ds)
    BY <1>1, RegisteredTracked
  <2>2. StateOK(PromoteToForeground(ds, apps[a]), apps, appOf, started)
    BY <2>1, PromoteStep DEF IInv
  <2>. QED
    BY <1>1, <2>2 DEF IInv, Launch, Processes
<1>2. CASE \E p \in Pid : /\ Fork(a, p)
                          /\ apps' = [apps EXCEPT ![a] = p]
                          /\ ds' = Launched(ds, p, kind)
  <2>1. PICK p \in Pid : /\ Fork(a, p)
                         /\ apps' = [apps EXCEPT ![a] = p]
                         /\ ds' = Launched(ds, p, kind)
    BY <1>2
  <2>2. ds \in Display /\ Unique(ds) /\ Tracked(ds)
    BY DEF IInv, StateOK
  <2>3. Grows(ds, ds', p) /\ Unique(ds')
    <3>1. CASE kind = "Gui"
      <4>1. ds' = PromoteToForeground(PutSurface(ds, p, "Background"), p)
        BY <2>1, <3>1 DEF Launched
      <4>. QED
        BY <2>2, <4>1, LaunchGui
    <3>2. CASE kind = "GuiOverlay"
      <4>1. ds' = ApplyRole(PutSurface(ds, p, "Background"), p, "Background")
        BY <2>1, <3>2 DEF Launched
      <4>. QED
        BY <2>2, <4>1, LaunchHidden DEF Role
    <3>3. CASE kind = "Headless"
      <4>1. ds' = PutSurface(ds, p, "Headless")
        BY <2>1, <3>3 DEF Launched
      <4>. QED
        BY <2>2, <4>1, PutUnfocused DEF Role
    <3>. QED
      BY <3>1, <3>2, <3>3 DEF LaunchKind
  <2>4. StateOK(ds', [apps EXCEPT ![a] = p], [appOf EXCEPT ![p] = a], p)
    BY <2>1, <2>3, ForkStep DEF Fork, IInv
  <2>. QED
    BY <2>1, <2>4 DEF Fork, IInv, Launch
<1>. QED
  BY <1>1, <1>2 DEF Launch

\* An alarm's launch registers a new process that is not focused.
LEMMA WakeStep ==
    ASSUME IInv, Wake
    PROVE  IInv'
<1>1. PICK a \in App, kind \in LaunchKind : WakeLaunch(a, kind)
  BY DEF Wake
<1> DEFINE role == IF kind = "Headless" THEN "Headless" ELSE "Background"
<1>2. PICK p \in Pid : /\ Fork(a, p)
                       /\ apps' = [apps EXCEPT ![a] = p]
                       /\ ds' = ApplyRole(PutSurface(ds, p, role), p, role)
  BY <1>1 DEF WakeLaunch
<1>3. role \in Role /\ role # "Foreground" /\ role # "Overlay"
  BY DEF Role
<1> HIDE DEF role
<1>4. Grows(ds, ds', p) /\ Unique(ds')
  BY <1>2, <1>3, LaunchHidden DEF IInv, StateOK
<1>5. StateOK(ds', [apps EXCEPT ![a] = p], [appOf EXCEPT ![p] = a], p)
  BY <1>2, <1>4, ForkStep DEF Fork, IInv
<1>. QED
  BY <1>1, <1>2, <1>5 DEF Fork, IInv, WakeLaunch

\* set-home designates home and runs ensure_home_foreground.
LEMMA SetHomeStep ==
    ASSUME IInv, NEW a \in App, SetHome(a)
    PROVE  IInv'
<1>1. StateOK(ds', apps', appOf', started') /\ alive' \subseteq Pid
  BY EnsureHomeStep DEF SetHome, IInv
<1>. QED
  BY <1>1 DEF SetHome, IInv

\* go-home runs ensure_home_foreground.
LEMMA GoHomeStep ==
    ASSUME IInv, GoHome
    PROVE  IInv'
<1>1. StateOK(ds', apps', appOf', started') /\ alive' \subseteq Pid
  BY EnsureHomeStep DEF GoHome, IInv
<1>. QED
  BY <1>1 DEF GoHome, IInv

\* The exit of a process clears its registry entry and its surface together.
LEMMA ExitStep ==
    ASSUME IInv, NEW p \in Pid, HandleChildExit(p)
    PROVE  IInv'
<1> DEFINE d == OnSurfaceRemoved(ds, p)
           r == [a \in App |-> IF apps[a] = p THEN NoPid ELSE apps[a]]
           h == IF ForegroundSlot(d) = NoPid THEN home ELSE NoApp
<1>1. /\ d \in Display /\ Surfaces(d) = Surfaces(ds) \ {p}
      /\ Unique(d) /\ Tracked(d)
  BY OnSurfaceRemovedFacts DEF IInv, StateOK
<1>2. EnsureHomeForeground(d, r, h) /\ UNCHANGED home
  BY DEF HandleChildExit
<1> HIDE DEF d
<1>3. StateOK(d, r, appOf, started)
  <2>1. r \in Registry
    BY DEF IInv, StateOK, Registry
  <2>2. \A a \in App : r[a] # NoPid => r[a] \in Surfaces(d) /\ appOf[r[a]] = a
    BY <1>1 DEF IInv, StateOK
  <2>. QED
    BY <1>1, <2>1, <2>2 DEF IInv, StateOK
<1>4. h \in App \cup {NoApp}
  BY DEF IInv
<1> HIDE DEF r, h
<1>5. StateOK(ds', apps', appOf', started') /\ alive' \subseteq Pid
  BY <1>2, <1>3, <1>4, EnsureHomeStep
<1>. QED
  BY <1>2, <1>5 DEF IInv

\* A process's death touches nothing the arbiter keeps.
LEMMA DieStep ==
    ASSUME IInv, NEW p \in Pid, Die(p)
    PROVE  IInv'
BY DEF IInv, Die

\* Every verb of the control socket keeps the invariant.
LEMMA CommandStep ==
    ASSUME IInv, Command
    PROVE  IInv'
<1>1. ASSUME NEW a \in App, AppCommand(a)
      PROVE  IInv'
  <2>1. CASE Foreground(a)
    BY <2>1, ForegroundStep
  <2>2. CASE RegisterChrome(a)
    BY <2>2, RegisterChromeStep
  <2>3. CASE Kill(a) \/ TaskKill(a)
    BY <2>3, PruneStep DEF Kill, TaskKill
  <2>4. CASE SetIme(a)
    <3>1. apps[a] \in Surfaces(ds)
      BY <2>4, RegisteredTracked DEF SetIme
    <3>. QED
      BY <2>4, <3>1, ImeStep DEF SetIme
  <2>5. CASE Overlay(a)
    BY <2>5, OverlayStep
  <2>6. CASE SetHome(a)
    BY <2>6, SetHomeStep
  <2>7. CASE \E kind \in LaunchKind : Launch(a, kind)
    BY <2>7, LaunchStep
  <2>. QED
    BY <1>1, <2>1, <2>2, <2>3, <2>4, <2>5, <2>6, <2>7 DEF AppCommand
<1>2. ASSUME NEW p \in Pid, AttachEditor(p)
      PROVE  IInv'
  <2>1. p \in Surfaces(ds)
    BY <1>2, RegisteredTracked DEF AttachEditor
  <2>. QED
    BY <1>2, <2>1, EditorStep DEF AttachEditor
<1>3. ASSUME NEW p \in Pid, DetachEditor(p)
      PROVE  IInv'
  BY <1>3, EditorStep DEF DetachEditor
<1>4. CASE ClearIme
  BY <1>4, ImeStep DEF ClearIme
<1>5. CASE ClearHome
  BY <1>5 DEF ClearHome, IInv, Processes
<1>. QED
  BY <1>1, <1>2, <1>3, <1>4, <1>5, BackStep, CycleTaskStep, OverlayClearStep, GoHomeStep
     DEF Command

-----------------------------------------------------------------------------
(* Theorems *)

\* The empty arbiter satisfies the invariant.
LEMMA InitIInv ==
    ASSUME Init
    PROVE  IInv
<1>1. StateOK(EmptyDisplay, apps, appOf, started)
  BY EmptyDisplayFacts, MaxPidAssumption DEF Init, StateOK, Registry
<1>. QED
  BY <1>1 DEF Init, IInv

\* Every step of Shell keeps the invariant.
LEMMA NextIInv ==
    ASSUME IInv, [Next]_vars
    PROVE  IInv'
<1>1. CASE Command
  BY <1>1, CommandStep
<1>2. CASE Wake
  BY <1>2, WakeStep
<1>3. CASE \E p \in Pid : Die(p) \/ HandleChildExit(p)
  BY <1>3, DieStep, ExitStep
<1>4. CASE UNCHANGED vars
  BY <1>4 DEF vars, IInv
<1>. QED
  BY <1>1, <1>2, <1>3, <1>4 DEF Next

\* The inductive invariant holds in every reachable state of Shell.
THEOREM ShellInvariant == Spec => []IInv
<1>. QED
  BY InitIInv, NextIInv, PTL DEF Spec

\* Every state of the shell is well typed: no handler ever gives a role, an
\* editor or an IME to something that is not a process.
THEOREM ShellTypeOK == Spec => []TypeOK
<1>1. IInv => TypeOK
  BY DEF IInv, StateOK, TypeOK
<1>. QED
  BY <1>1, ShellInvariant, PTL

\* foreground_slot() is unambiguous: whatever commands, launches, deaths and
\* exits happened, at most one surface is Foreground or Overlay.
THEOREM ShellSlotUnique == Spec => []SlotUnique
<1>1. IInv => SlotUnique
  BY DEF IInv, StateOK, SlotUnique, Unique
<1>. QED
  BY <1>1, ShellInvariant, PTL

\* What the arbiter points at is tracked: registered processes, the IME and the
\* editor. reconcile_overlay's expect() never panics.
THEOREM ShellPointersTracked == Spec => []PointersTracked
<1>1. IInv => PointersTracked
  BY DEF IInv, StateOK, PointersTracked, Tracked
<1>. QED
  BY <1>1, ShellInvariant, PTL

-----------------------------------------------------------------------------
(* Without the operator verbs: kill, task-kill and overlay change roles that  *)
(* the shell does not reconcile. Everything else keeps a display coherent.    *)

\* The split is in shape and every process knows its role.
Coherent(d) == Neat(d) /\ Hosted(d)

\* The overlays a handler may leave up: those that were, and the IME's.
OverlaysFrom(d, e) == WithRole(e, "Overlay") \subseteq WithRole(d, "Overlay") \cup {d.ime}

\* What a handler that turns display d into e keeps: an overlay stays above an
\* app, a keyboard that was as its app wants it stays so, an app that is left
\* loses the input focus, the IME hears that an editor lost it, and only an IME
\* is ever an overlay.
Kept(d, e) ==
    /\ Coherent(e)
    /\ Backed(d) => Backed(e)
    /\ Settled(d) /\ e.ime = d.ime => Settled(e)
    /\ (/\ VisibleApp(e) # VisibleApp(d)
        /\ d.editor # NoPid
        /\ d.editor = VisibleApp(d)) => e.editor # d.editor
    /\ (/\ d.editor \in Surfaces(e)
        /\ e.editor = NoPid
        /\ e.ime = d.ime) => e.ime \notin e.told
    /\ OverlaysFrom(d, e)
    /\ e.ime \in {d.ime, NoPid} \cup {apps[a] : a \in ImeApps}

\* A handler that does not empty the screen.
Still(d, e) == VisibleApp(d) # NoPid => VisibleApp(e) # NoPid

\* Doing nothing keeps everything: what nobody is, was told nothing.
LEMMA NothingKept ==
    ASSUME NEW d \in Display, Coherent(d)
    PROVE  Kept(d, d) /\ Still(d, d)
BY DEF Kept, Still, OverlaysFrom, Surfaces, Pid, NoPid

\* Bringing a process forward shows it and keeps the rest in order.
LEMMA PromoteKept ==
    ASSUME NEW d \in Display, Tracked(d), Coherent(d), NEW p \in Pid
    PROVE  LET e == PromoteToForeground(d, p)
           IN  Kept(d, e) /\ VisibleApp(e) = p /\ Grows(d, e, p)
<1> DEFINE e == PromoteToForeground(d, p)
<1>1. /\ Grows(d, e, p) /\ Neat(e) /\ Backed(e) /\ Settled(e)
      /\ VisibleApp(e) = p /\ e.editor \in {NoPid, p}
  BY PromoteSlots DEF Coherent
<1>2. Retold(d, e) /\ Hosted(e)
  BY PromoteTold DEF Coherent
<1> HIDE DEF e
<1>3. d.editor # NoPid /\ e.editor = NoPid /\ e.ime = d.ime => e.ime \notin e.told
  BY <1>2 DEF Retold
<1>4. Surfaces(e) \subseteq Pid /\ NoPid \notin Pid
  BY DEF Surfaces, Pid, NoPid
<1>5. OverlaysFrom(d, e) /\ e.ime = d.ime
  BY <1>1 DEF OverlaysFrom, Settled, OverlayDesired, Grows
<1>6. Kept(d, e)
  BY <1>1, <1>2, <1>3, <1>4, <1>5 DEF Kept, Coherent
<1>. QED
  BY <1>1, <1>6 DEF e

\* A surface that is new and hidden: the one that is shown stays.
LEMMA FreshFacts ==
    ASSUME NEW d \in Display, Neat(d), NEW p \in Pid \ Surfaces(d),
           NEW r \in {"Background", "Chrome", "Headless"}, NEW e,
           \/ e = PutSurface(d, p, r)
           \/ e = ApplyRole(PutSurface(d, p, r), p, r)
    PROVE  /\ Grows(d, e, p) /\ e.editor = d.editor /\ e.told = d.told
           /\ Neat(e) /\ VisibleApp(e) = VisibleApp(d)
           /\ WithRole(e, "Overlay") = WithRole(d, "Overlay")
           /\ Backed(d) => Backed(e)
           /\ Settled(d) => Settled(e)
<1> DEFINE f == PutSurface(d, p, r)
<1>1. r \in Role
  BY DEF Role
<1>2. /\ f \in Display /\ f.ime = d.ime /\ f.editor = d.editor
      /\ Surfaces(f) = Surfaces(d) \cup {p}
      /\ \A q \in Pid : f.role[q] = IF q = p THEN r ELSE d.role[q]
  BY <1>1, PutFacts
<1>3. f.told = d.told /\ ApplyRole(f, p, r).told = d.told
  BY <1>1, FreshTold
<1>4. e = f \/ e = ApplyRole(f, p, r)
  OBVIOUS
<1> HIDE DEF f
<1>5. /\ e \in Display /\ e.ime = d.ime /\ e.editor = d.editor
      /\ Surfaces(e) = Surfaces(d) \cup {p} /\ e.told = d.told /\ e.role = f.role
  BY <1>1, <1>2, <1>3, <1>4, ApplyRoleFacts DEF Keeps
<1>6. /\ Neat(e) /\ VisibleApp(e) = VisibleApp(d)
      /\ WithRole(e, "Overlay") = WithRole(d, "Overlay")
  BY <1>2, <1>5, SlotsFresh
<1>7. OverlayDesired(e) = OverlayDesired(d)
  BY <1>5, <1>6, DesiredSame
<1>. QED
  BY <1>5, <1>6, <1>7 DEF Grows, Backed, OverlayEngaged, Settled

\* Registering a hidden surface keeps a display in order.
LEMMA FreshKept ==
    ASSUME NEW d \in Display, Coherent(d), NEW p \in Pid \ Surfaces(d), NEW e,
           \/ \E r \in {"Chrome", "Headless"} : e = PutSurface(d, p, r)
           \/ \E r \in {"Background", "Headless"} :
                  e = ApplyRole(PutSurface(d, p, r), p, r)
    PROVE  Kept(d, e) /\ Still(d, e)
<1>1. \E r \in {"Background", "Chrome", "Headless"} :
          \/ e = PutSurface(d, p, r)
          \/ e = ApplyRole(PutSurface(d, p, r), p, r)
  OBVIOUS
<1>2. /\ Grows(d, e, p) /\ e.editor = d.editor /\ e.told = d.told
      /\ Neat(e) /\ VisibleApp(e) = VisibleApp(d)
      /\ WithRole(e, "Overlay") = WithRole(d, "Overlay")
      /\ Backed(d) => Backed(e)
      /\ Settled(d) => Settled(e)
  BY <1>1, FreshFacts DEF Coherent
<1>3. Hosted(e)
  BY FreshTold DEF Coherent, Role
<1>4. Surfaces(e) \subseteq Pid /\ NoPid \notin Pid
  BY DEF Surfaces, Pid, NoPid
<1>. QED
  BY <1>2, <1>3, <1>4 DEF Kept, Still, Coherent, OverlaysFrom, Grows

\* A new process that is brought forward is shown.
LEMMA LaunchKept ==
    ASSUME NEW d \in Display, Tracked(d), Coherent(d), NEW p \in Pid \ Surfaces(d)
    PROVE  LET e == PromoteToForeground(PutSurface(d, p, "Background"), p)
           IN  Kept(d, e) /\ VisibleApp(e) = p /\ Grows(d, e, p)
<1> DEFINE f == PutSurface(d, p, "Background")
           e == PromoteToForeground(f, p)
<1>1. /\ Grows(d, f, p) /\ f.editor = d.editor /\ f.told = d.told
      /\ Neat(f) /\ VisibleApp(f) = VisibleApp(d)
  BY FreshFacts DEF Coherent
<1>2. HostedBut(f, p)
  BY FreshTold DEF Coherent, Role
<1> HIDE DEF f
<1>3. f \in Display /\ Tracked(f) /\ f.ime = d.ime
  BY <1>1, GrowsTracked DEF Grows
<1>4. /\ Grows(f, e, p) /\ Neat(e) /\ Backed(e) /\ Settled(e)
      /\ VisibleApp(e) = p /\ e.editor \in {NoPid, p}
  BY <1>1, <1>3, PromoteSlots
<1>5. Retold(f, e) /\ Hosted(e)
  BY <1>1, <1>2, <1>3, PromoteTold
<1> HIDE DEF e
<1>6. Grows(d, e, p)
  BY <1>1, <1>4 DEF Grows
<1>7. p # NoPid /\ (d.editor # NoPid => d.editor \in Surfaces(d))
  BY DEF Tracked, Pid, NoPid
<1>8. Surfaces(e) \subseteq Pid /\ NoPid \notin Pid
  BY DEF Surfaces, Pid, NoPid
<1>9. d.editor # NoPid /\ e.editor = NoPid /\ e.ime = d.ime => e.ime \notin e.told
  BY <1>1, <1>3, <1>5 DEF Retold
<1>10. OverlaysFrom(d, e) /\ e.ime = d.ime
  BY <1>4, <1>6 DEF OverlaysFrom, Settled, OverlayDesired, Grows
<1>11. Kept(d, e)
  BY <1>4, <1>5, <1>7, <1>8, <1>9, <1>10 DEF Kept, Coherent
<1>. QED
  BY <1>4, <1>6, <1>11 DEF e, f

\* What the home flow does to the display and the processes: the home app is
\* visible when it runs, unless it held the slot already.
LEMMA EnsureHomeKept ==
    ASSUME NEW d, NEW r, StateOK(d, r, appOf, started), Coherent(d),
           NEW h \in App \cup {NoApp}, EnsureHomeForeground(d, r, h)
    PROVE  /\ Kept(d, ds') /\ Still(d, ds')
           /\ ds'.ime = d.ime /\ ds'.editor \in {d.editor, NoPid}
           /\ Surfaces(ds') \subseteq Surfaces(d) \cup {started + 1}
           /\ h # NoApp /\ apps'[h] # NoPid /\ SlotApp(d) # h => VisibleApp(ds') # NoPid
<1>1. d \in Display /\ Tracked(d) /\ Surfaces(d) \subseteq 1 .. started /\ started \in Nat
  BY MaxPidAssumption DEF StateOK
<1>2. NoPid \notin Pid
  BY DEF Pid, NoPid
<1>3. CASE ds' = d /\ apps' = r /\ (h = NoApp \/ SlotApp(d) = h \/ r[h] = NoPid)
  BY <1>1, <1>3, NothingKept
<1>4. CASE h # NoApp /\ r[h] # NoPid /\ ds' = PromoteToForeground(d, r[h])
  <2>1. r[h] \in Pid /\ r[h] \in Surfaces(d)
    BY <1>4 DEF StateOK, Surfaces
  <2>2. Kept(d, ds') /\ VisibleApp(ds') = r[h] /\ Grows(d, ds', r[h])
    BY <1>1, <1>4, <2>1, PromoteKept
  <2>. QED
    BY <1>2, <2>1, <2>2 DEF Grows, Still
<1>5. ASSUME NEW p \in Pid, Fork(h, p),
             ds' = PromoteToForeground(PutSurface(d, p, "Background"), p)
      PROVE  Kept(d, ds') /\ VisibleApp(ds') = p /\ Grows(d, ds', p) /\ p = started + 1
  <2>1. p = started + 1 /\ p \notin Surfaces(d)
    BY <1>1, <1>5 DEF Fork
  <2>. QED
    BY <1>1, <1>5, <2>1, LaunchKept
<1>6. CASE \E p \in Pid : /\ Fork(h, p)
                          /\ ds' = PromoteToForeground(PutSurface(d, p, "Background"), p)
  BY <1>2, <1>5, <1>6 DEF Grows, Still
<1>. QED
  BY <1>3, <1>4, <1>6 DEF EnsureHomeForeground

\* foreground and cycle-task, and a launch of an app that runs.
LEMMA ForegroundKept ==
    ASSUME IInv, Coherent(ds), NEW a \in App, apps[a] # NoPid,
           ds' = PromoteToForeground(ds, apps[a])
    PROVE  Kept(ds, ds') /\ Still(ds, ds')
<1>1. apps[a] \in Pid /\ apps[a] # NoPid /\ ds \in Display /\ Tracked(ds)
  BY DEF IInv, StateOK, Surfaces
<1>. QED
  BY <1>1, PromoteKept DEF Still

\* A process that was just forked owns no surface yet.
LEMMA ForkFresh ==
    ASSUME IInv, NEW a, NEW p, Fork(a, p)
    PROVE  p \in Pid \ Surfaces(ds) /\ p = started + 1
<1>1. started \in Nat /\ Surfaces(ds) \subseteq 1 .. started
  BY MaxPidAssumption DEF IInv, StateOK
<1>. QED
  BY <1>1 DEF Fork

\* A launch shows a GUI app and hides the rest.
LEMMA LaunchedKept ==
    ASSUME IInv, Coherent(ds), NEW a \in App, NEW kind \in LaunchKind, Launch(a, kind)
    PROVE  Kept(ds, ds') /\ Still(ds, ds')
<1>1. CASE apps[a] # NoPid /\ ds' = PromoteToForeground(ds, apps[a])
  BY <1>1, ForegroundKept
<1>2. ASSUME NEW p \in Pid, Fork(a, p), ds' = Launched(ds, p, kind)
      PROVE  Kept(ds, ds') /\ Still(ds, ds')
  <2>1. ds \in Display /\ Tracked(ds) /\ p \in Pid \ Surfaces(ds) /\ p # NoPid
    BY <1>2, ForkFresh DEF IInv, StateOK, Pid, NoPid
  <2>2. CASE kind = "Gui"
    <3>1. ds' = PromoteToForeground(PutSurface(ds, p, "Background"), p)
      BY <1>2, <2>2 DEF Launched
    <3>. QED
      BY <2>1, <3>1, LaunchKept DEF Still
  <2>3. CASE kind = "GuiOverlay"
    <3>1. ds' = ApplyRole(PutSurface(ds, p, "Background"), p, "Background")
      BY <1>2, <2>3 DEF Launched
    <3>. QED
      BY <2>1, <3>1, FreshKept
  <2>4. CASE kind = "Headless"
    <3>1. ds' = PutSurface(ds, p, "Headless")
      BY <1>2, <2>4 DEF Launched
    <3>. QED
      BY <2>1, <3>1, FreshKept
  <2>. QED
    BY <2>2, <2>3, <2>4 DEF LaunchKind
<1>. QED
  BY <1>1, <1>2 DEF Launch

\* An alarm's launch and a chrome overlay's registration hide what they add.
LEMMA HiddenKept ==
    ASSUME IInv, Coherent(ds), Wake \/ \E a \in App : RegisterChrome(a)
    PROVE  Kept(ds, ds') /\ Still(ds, ds')
<1>1. \E a, p : /\ Fork(a, p)
                /\ \/ \E r \in {"Chrome", "Headless"} : ds' = PutSurface(ds, p, r)
                   \/ \E r \in {"Background", "Headless"} :
                          ds' = ApplyRole(PutSurface(ds, p, r), p, r)
  BY DEF Wake, WakeLaunch, RegisterChrome
<1>2. ds \in Display
  BY DEF IInv, StateOK
<1>. QED
  BY <1>1, <1>2, ForkFresh, FreshKept

\* set-ime and clear-ime move no role: the keyboard may now be unsettled.
LEMMA ImeKept ==
    ASSUME IInv, Coherent(ds), NEW p \in {NoPid} \cup {apps[a] : a \in ImeApps},
           ds' = [ds EXCEPT !.ime = p]
    PROVE  Kept(ds, ds') /\ Still(ds, ds')
<1>1. /\ ds' \in Display /\ ds \in Display
      /\ ds'.role = ds.role /\ ds'.editor = ds.editor
      /\ ds'.host = ds.host /\ ds'.told = ds.told /\ ds'.ime = p
  BY RoleAppsAssumption DEF IInv, StateOK, Display, Registry
<1>2. PICK f, o, b \in Pid \cup {NoPid} : Slots(ds, f, o, b)
  BY DEF Coherent, Neat
<1>3. Slots(ds', f, o, b) /\ VisibleApp(ds') = VisibleApp(ds)
  BY <1>1, <1>2, SlotsSame
<1>4. Neat(ds') /\ (Backed(ds) => Backed(ds'))
  BY <1>1, <1>2, <1>3, SlotsQueries DEF Backed
<1>5. Hosted(ds')
  BY <1>1, HostedSame DEF Coherent, Hosted
<1>6. OverlayDesired(ds') = OverlayDesired(ds) \/ ds'.ime # ds.ime
  BY <1>1, <1>3, DesiredSame
<1>7. WithRole(ds', "Overlay") = WithRole(ds, "Overlay")
  BY <1>1 DEF WithRole
<1>8. ds.editor \in Surfaces(ds') => ds.editor # NoPid
  BY DEF Surfaces, Pid, NoPid
<1>. QED
  BY <1>1, <1>3, <1>4, <1>5, <1>6, <1>7, <1>8
     DEF Kept, Still, Coherent, Settled, OverlaysFrom

\* reconcile_overlay puts nobody but the IME up.
LEMMA ReconcileOverlays ==
    ASSUME NEW d \in Display, Tracked(d), Neat(d)
    PROVE  OverlaysFrom(d, ReconcileOverlay(d))
<1> DEFINE e == ReconcileOverlay(d)
           w == OverlayDesired(d)
<1>1. PICK f, o, b \in Pid \cup {NoPid} : Slots(d, f, o, b)
  BY DEF Neat
<1>2. e \in Display /\ w \in {d.ime, NoPid}
  BY <1>1, ReconcileSlots DEF Keeps, OverlayDesired
<1>3. \/ e = d
      \/ Slots(e, NoPid, w, f)
      \/ Slots(e, b, NoPid, NoPid)
  BY <1>1, ReconcileSlots
<1> HIDE DEF e, w
<1>4. \/ e = d
      \/ WithRole(e, "Overlay") = {w} \ {NoPid}
      \/ WithRole(e, "Overlay") = {}
  BY <1>2, <1>3, SlotsQueries
<1>. QED
  BY <1>2, <1>4 DEF OverlaysFrom, e

\* BACK, detach-editor and attach-editor: the focus moves, then the overlay
\* follows it. Whoever takes the focus away tells the IME.
LEMMA RefocusKept ==
    ASSUME IInv, Coherent(ds), NEW g \in Display, Tracked(g), NEW e,
           g.role = ds.role, g.host = ds.host, g.ime = ds.ime,
           e = ReconcileOverlay(g), ds' \in Display, ds'.role = e.role,
           ds'.host = e.host, ds'.ime = e.ime, ds'.editor = e.editor,
           ds.editor # NoPid /\ g.editor = NoPid => ds.ime \notin ds'.told
    PROVE  Kept(ds, ds') /\ Still(ds, ds')
<1>1. ds \in Display
  BY DEF IInv, StateOK
<1>2. PICK f, o, b \in Pid \cup {NoPid} : Slots(ds, f, o, b)
  BY DEF Coherent, Neat
<1>3. Slots(g, f, o, b) /\ VisibleApp(g) = VisibleApp(ds) /\ Neat(g)
  BY <1>1, <1>2, SlotsSame, SlotsQueries
<1>4. /\ Keeps(g, e) /\ e.editor = g.editor /\ Neat(e)
      /\ VisibleApp(e) = VisibleApp(g) /\ OverlayDesired(e) = OverlayDesired(g)
      /\ o \in {NoPid, OverlayDesired(g)} \/ OverlayDesired(g) = NoPid => Settled(e)
  BY <1>3, ReconcileSlots
<1>5. Backed(e)
  BY <1>3, ReconcileBacks
<1>6. Hosted(e)
  <2>1. HostedBut(g, NoPid)
    BY HostedSame DEF Coherent, Hosted
  <2>. QED
    BY <1>3, <2>1, ReconcileTold DEF Hosted
<1>7. e \in Display
  BY <1>4 DEF Keeps
<1> HIDE DEF Keeps
<1>8. PICK x, y, z \in Pid \cup {NoPid} : Slots(e, x, y, z)
  BY <1>4 DEF Neat
<1>9. Slots(ds', x, y, z) /\ VisibleApp(ds') = VisibleApp(e)
  BY <1>7, <1>8, SlotsSame
<1>10. /\ Neat(ds') /\ (Backed(e) => Backed(ds'))
       /\ Settled(e) <=> y = OverlayDesired(e)
       /\ Settled(ds') <=> y = OverlayDesired(ds')
  BY <1>7, <1>8, <1>9, SlotsQueries DEF Backed
<1>11. OverlayDesired(ds') = OverlayDesired(e)
  BY <1>9, DesiredSame
<1>12. Hosted(ds')
  BY <1>6, HostedSame DEF Hosted
<1>13. Settled(ds) => Settled(ds')
  <2>1. SUFFICES ASSUME Settled(ds) PROVE Settled(e)
    BY <1>10, <1>11
  <2>2. o = OverlayDesired(ds)
    BY <1>1, <1>2, <2>1, SlotsQueries
  <2>3. o \in {NoPid, OverlayDesired(g)} \/ OverlayDesired(g) = NoPid
    BY <1>3, <2>2 DEF OverlayDesired
  <2>. QED
    BY <1>4, <2>3
<1>14. ds.editor \in Surfaces(ds') => ds.editor # NoPid
  BY DEF Surfaces, Pid, NoPid
<1>15. OverlaysFrom(ds, ds') /\ ds'.ime = ds.ime
  <2>1. e.ime = ds.ime /\ OverlaysFrom(g, e)
    BY <1>3, <1>4, ReconcileOverlays DEF Keeps
  <2>. QED
    BY <2>1 DEF OverlaysFrom, WithRole
<1>. QED
  BY <1>3, <1>4, <1>5, <1>9, <1>10, <1>12, <1>13, <1>14, <1>15 DEF Kept, Still, Coherent

\* attach-editor and detach-editor.
LEMMA EditorKept ==
    ASSUME IInv, Coherent(ds), NEW p \in Surfaces(ds) \cup {NoPid}, NEW e,
           e = ReconcileOverlay([ds EXCEPT !.editor = p]),
           \/ ds' = Tell(e, ActiveImeSurface(ds)) /\ p # NoPid
           \/ ds' = Untell(e, ActiveImeSurface(ds))
    PROVE  Kept(ds, ds') /\ Still(ds, ds')
<1> DEFINE g == [ds EXCEPT !.editor = p]
<1>1. p \in Pid \cup {NoPid} /\ ds \in Display /\ Unique(ds) /\ Tracked(ds)
  BY DEF Surfaces, IInv, StateOK
<1>2. /\ g \in Display /\ g.role = ds.role /\ g.ime = ds.ime /\ g.editor = p
      /\ Surfaces(g) = Surfaces(ds)
  BY <1>1, EditorFacts
<1>3. g.host = ds.host
  BY <1>1 DEF Display
<1>4. e = ReconcileOverlay(g)
  OBVIOUS
<1> HIDE DEF g
<1>5. Tracked(g) /\ Unique(g)
  BY <1>1, <1>2, SameRoles DEF Tracked
<1>6. e \in Display
  BY <1>2, <1>4, <1>5, ReconcileFacts DEF Keeps
<1>7. /\ ds' \in Display /\ ds'.role = e.role /\ ds'.ime = e.ime /\ ds'.editor = e.editor
  BY <1>1, <1>6, ActiveImeType, TellFacts DEF Keeps
<1>8. ds'.host = e.host
  BY <1>6 DEF Tell, Untell, Display
<1>9. ASSUME p = NoPid PROVE ds.ime \notin ds'.told
  <2>1. ds'.told = e.told \ {ActiveImeSurface(ds)} /\ NoPid \notin e.told
    BY <1>6, <1>9 DEF Untell, Display, Pid, NoPid
  <2>2. ActiveImeSurface(ds) = ds.ime
    BY <1>1 DEF ActiveImeSurface, Tracked
  <2>. QED
    BY <2>1, <2>2
<1>. QED
  BY <1>2, <1>3, <1>4, <1>5, <1>7, <1>8, <1>9, RefocusKept

\* BACK takes the focus from the editor, and the keyboard follows.
LEMMA BackKept ==
    ASSUME IInv, Coherent(ds), Back
    PROVE  Kept(ds, ds') /\ Still(ds, ds')
<1> DEFINE g == IF ds.editor = NoPid THEN ds ELSE DropEditorFocusOf(ds, ds.editor)
<1>1. ds \in Display /\ Tracked(ds)
  BY DEF IInv, StateOK
<1>2. Keeps(ds, g) /\ g.role = ds.role /\ g.host = ds.host /\ Retold(ds, g)
  BY <1>1, DropFacts, DropTold DEF Keeps, Retold
<1>3. ds' = ReconcileOverlay(g)
  BY DEF Back
<1> HIDE DEF g
<1>4. g \in Display /\ Tracked(g) /\ g.ime = ds.ime
  BY <1>1, <1>2, KeepsTracked DEF Keeps
<1>5. PICK f, o, b \in Pid \cup {NoPid} : Slots(ds, f, o, b)
  BY DEF Coherent, Neat
<1>6. Neat(g)
  BY <1>1, <1>2, <1>4, <1>5, SlotsSame, SlotsQueries
<1>7. ds'.told = g.told
  BY <1>3, <1>4, <1>6, ReconcileTold
<1>8. ds' \in Display
  BY <1>3, <1>4, <1>6, ReconcileSlots DEF Neat, Keeps
<1>9. ds.editor # NoPid /\ g.editor = NoPid => ds.ime \notin ds'.told
  BY <1>2, <1>7 DEF Retold
<1>. QED
  BY <1>2, <1>3, <1>4, <1>8, <1>9, RefocusKept

\* A display with its foreground slot empty shows no app, and the other way round.
LEMMA SlotShows ==
    ASSUME NEW d \in Display, Neat(d)
    PROVE  /\ VisibleApp(d) # NoPid => ForegroundSlot(d) # NoPid
           /\ Backed(d) /\ ForegroundSlot(d) # NoPid => VisibleApp(d) # NoPid
<1>1. PICK f, o, b \in Pid \cup {NoPid} : Slots(d, f, o, b)
  BY DEF Neat
<1>2. (o # NoPid => f = NoPid) /\ (b # NoPid => o # NoPid)
  BY <1>1 DEF Slots
<1>3. /\ OverlayEngaged(d) <=> o # NoPid
      /\ VisibleApp(d) = IF b # NoPid THEN b ELSE f
      /\ ForegroundSlot(d) = IF o # NoPid THEN o ELSE f
  BY <1>1, SlotsQueries
<1>. QED
  BY <1>2, <1>3 DEF Backed

\* The exit of a process puts no overlay up.
LEMMA RemovedOverlays ==
    ASSUME NEW d \in Display, Neat(d), NEW p \in Pid
    PROVE  WithRole(OnSurfaceRemoved(d, p), "Overlay") \subseteq WithRole(d, "Overlay")
<1> DEFINE involved == \/ FirstWithRole(d, "Overlay") = p
                       \/ FirstWithRole(d, "OverlayBehind") = p
           g == IF OverlayEngaged(d) /\ involved THEN DemoteFromOverlay(d) ELSE d
           e == OnSurfaceRemoved(d, p)
<1>1. PICK f, o, b \in Pid \cup {NoPid} : Slots(d, f, o, b)
  BY DEF Neat
<1>2. g \in Display /\ (g = d \/ Slots(g, b, NoPid, NoPid))
  BY <1>1, DemoteSlots DEF Keeps
<1>3. e = RemoveSurface(g, p)
  BY DEF OnSurfaceRemoved
<1> HIDE DEF g, e
<1>4. WithRole(g, "Overlay") \subseteq WithRole(d, "Overlay")
  BY <1>2, SlotsQueries
<1>5. \A q \in Pid : e.role[q] = IF q = p THEN NoSurface ELSE g.role[q]
  BY <1>2, <1>3, RemoveFields
<1>. QED
  BY <1>4, <1>5 DEF WithRole, NoSurface, e

\* The exit of a process hands the screen to the home app when it was the one
\* shown; the exits of editors and IMEs clear the pointers to them.
LEMMA ExitKept ==
    ASSUME IInv, Coherent(ds), NEW p \in Pid, HandleChildExit(p)
    PROVE  /\ Kept(ds, ds')
           /\ Backed(ds) /\ home' # NoApp /\ apps'[home'] # NoPid => Still(ds, ds')
<1> DEFINE d == OnSurfaceRemoved(ds, p)
           r == [a \in App |-> IF apps[a] = p THEN NoPid ELSE apps[a]]
           h == IF ForegroundSlot(d) = NoPid THEN home ELSE NoApp
<1>1. ds \in Display /\ Tracked(ds) /\ Unique(ds) /\ NoPid \notin Pid
  BY DEF IInv, StateOK, Pid, NoPid
<1>2. /\ d \in Display /\ Tracked(d) /\ Neat(d) /\ Unique(d)
      /\ Surfaces(d) = Surfaces(ds) \ {p}
      /\ VisibleApp(d) = IF VisibleApp(ds) = p THEN NoPid ELSE VisibleApp(ds)
      /\ d.ime = IF ds.ime = p THEN NoPid ELSE ds.ime
      /\ d.editor = IF ds.editor = p THEN NoPid ELSE ds.editor
      /\ Backed(ds) => Backed(d)
      /\ Settled(ds) /\ ds.ime # p => Settled(d)
  BY <1>1, RemovedSlots, OnSurfaceRemovedFacts DEF Coherent
<1>3. Coherent(d)
  BY <1>1, <1>2, RemovedTold DEF Coherent
<1>4. EnsureHomeForeground(d, r, h) /\ home' = home
  BY DEF HandleChildExit
<1> HIDE DEF d
<1>5. StateOK(d, r, appOf, started)
  <2>1. r \in Registry
    BY DEF IInv, StateOK, Registry
  <2>2. \A a \in App : r[a] # NoPid => r[a] \in Surfaces(d) /\ appOf[r[a]] = a
    BY <1>2 DEF IInv, StateOK
  <2>. QED
    BY <1>2, <2>1, <2>2 DEF IInv, StateOK
<1>6. h \in App \cup {NoApp}
  BY DEF IInv
<1> HIDE DEF r
<1>7. /\ Kept(d, ds') /\ Still(d, ds')
      /\ ds'.ime = d.ime /\ ds'.editor \in {d.editor, NoPid}
      /\ Surfaces(ds') \subseteq Surfaces(d) \cup {started + 1}
      /\ h # NoApp /\ apps'[h] # NoPid /\ SlotApp(d) # h => VisibleApp(ds') # NoPid
  BY <1>3, <1>4, <1>5, <1>6, EnsureHomeKept
<1>8. Settled(ds) /\ ds'.ime = ds.ime => Settled(ds')
  <2>1. SUFFICES ASSUME Settled(ds), ds'.ime = ds.ime PROVE Settled(ds')
    OBVIOUS
  <2>2. ds.ime # p
    BY <1>1, <1>2, <1>7, <2>1
  <2>. QED
    BY <1>2, <1>7, <2>1, <2>2 DEF Kept
<1>9. (/\ VisibleApp(ds') # VisibleApp(ds)
       /\ ds.editor # NoPid
       /\ ds.editor = VisibleApp(ds)) => ds'.editor # ds.editor
  <2>1. CASE VisibleApp(ds) = p
    BY <1>2, <1>7, <2>1
  <2>2. CASE VisibleApp(ds) # p
    BY <1>2, <1>7, <2>2 DEF Kept
  <2>. QED
    BY <2>1, <2>2
<1>10. (/\ ds.editor \in Surfaces(ds')
        /\ ds'.editor = NoPid
        /\ ds'.ime = ds.ime) => ds'.ime \notin ds'.told
  <2>1. SUFFICES ASSUME ds.editor \in Surfaces(ds'), ds'.editor = NoPid
                 PROVE  ds'.ime \notin ds'.told
    OBVIOUS
  <2>2. started \in Nat /\ Surfaces(ds) \subseteq 1 .. started
    BY MaxPidAssumption DEF IInv, StateOK
  <2>3. ds.editor \in Surfaces(ds)
    BY <1>1, <2>1 DEF Tracked, Surfaces
  <2>4. ds.editor # started + 1
    BY <2>2, <2>3
  <2>5. ds.editor # p
    BY <1>2, <1>7, <2>1, <2>4
  <2>6. d.editor = ds.editor
    BY <1>2, <2>5
  <2>. QED
    BY <1>7, <2>1, <2>6 DEF Kept
<1>11. ASSUME Backed(ds), home' # NoApp, apps'[home'] # NoPid PROVE Still(ds, ds')
  <2>1. CASE ForegroundSlot(d) = NoPid
    <3>1. h = home /\ SlotApp(d) = NoApp
      BY <2>1 DEF SlotApp
    <3>. QED
      BY <1>4, <1>7, <1>11, <3>1 DEF Still
  <2>2. CASE ForegroundSlot(d) # NoPid
    <3>1. VisibleApp(d) # NoPid
      BY <1>2, <1>11, <2>2, SlotShows
    <3>. QED
      BY <1>7, <3>1 DEF Still
  <2>. QED
    BY <2>1, <2>2
<1>12. Coherent(ds') /\ (Backed(ds) => Backed(ds'))
  BY <1>2, <1>7 DEF Kept
<1>13. ds'.ime \in {ds.ime, NoPid}
  BY <1>2, <1>7
<1>14. OverlaysFrom(ds, ds')
  <2>1. OverlaysFrom(ds, d) /\ d.ime \in {ds.ime, NoPid}
    BY <1>1, <1>2, RemovedOverlays DEF Coherent, OverlaysFrom, d
  <2>2. OverlaysFrom(d, ds')
    BY <1>7 DEF Kept
  <2>3. NoPid \notin WithRole(ds', "Overlay")
    BY <1>1 DEF WithRole
  <2>. QED
    BY <2>1, <2>2, <2>3 DEF OverlaysFrom
<1>. QED
  BY <1>8, <1>9, <1>10, <1>11, <1>12, <1>13, <1>14 DEF Kept

\* The verbs that are no operator verbs.
LEMMA CommandKept ==
    ASSUME Enabled = {}, IInv, Coherent(ds), Command
    PROVE  Kept(ds, ds') /\ Still(ds, ds')
<1>1. ds \in Display /\ StateOK(ds, apps, appOf, started) /\ home \in App \cup {NoApp}
  BY DEF IInv, StateOK
<1>2. ASSUME NEW a \in App, AppCommand(a)
      PROVE  Kept(ds, ds') /\ Still(ds, ds')
  <2>1. CASE Foreground(a)
    BY <2>1, ForegroundKept DEF Foreground
  <2>2. CASE RegisterChrome(a)
    BY <2>2, HiddenKept
  <2>3. CASE SetIme(a)
    BY <2>3, ImeKept DEF SetIme
  <2>4. CASE SetHome(a)
    BY <1>1, <2>4, EnsureHomeKept DEF SetHome
  <2>5. CASE \E kind \in LaunchKind : Launch(a, kind)
    BY <2>5, LaunchedKept
  <2>6. ~Kill(a) /\ ~TaskKill(a) /\ ~Overlay(a)
    BY DEF Kill, TaskKill, Overlay
  <2>. QED
    BY <1>2, <2>1, <2>2, <2>3, <2>4, <2>5, <2>6 DEF AppCommand
<1>3. ASSUME NEW p \in Pid, AttachEditor(p)
      PROVE  Kept(ds, ds') /\ Still(ds, ds')
  <2>1. p \in Surfaces(ds) /\ p # NoPid
    BY <1>3, RegisteredTracked DEF AttachEditor, Registered
  <2>. QED
    BY <1>3, <2>1, EditorKept DEF AttachEditor
<1>4. ASSUME NEW p \in Pid, DetachEditor(p)
      PROVE  Kept(ds, ds') /\ Still(ds, ds')
  BY <1>4, EditorKept DEF DetachEditor
<1>5. CASE CycleTask
  <2>1. CycleNext \in TaskRing
    BY <1>5, CycleNextFound DEF CycleTask
  <2>. QED
    BY <1>5, <2>1, ForegroundKept DEF CycleTask, TaskRing
<1>6. CASE ClearIme
  BY <1>6, ImeKept DEF ClearIme
<1>7. CASE ClearHome
  <2>1. ds' = ds
    BY <1>7 DEF ClearHome
  <2>. QED
    BY <1>1, <2>1, NothingKept
<1>8. CASE GoHome
  BY <1>1, <1>8, EnsureHomeKept DEF GoHome
<1>9. ~OverlayClear
  BY DEF OverlayClear
<1>. QED
  BY <1>2, <1>3, <1>4, <1>5, <1>6, <1>7, <1>8, <1>9, BackKept DEF Command

\* Every step keeps a coherent display; only an exit with no home to fall back
\* to leaves the screen empty.
LEMMA NextKept ==
    ASSUME Enabled = {}, IInv, Coherent(ds), [Next]_vars
    PROVE  /\ Kept(ds, ds')
           /\ Backed(ds) /\ home' # NoApp /\ apps'[home'] # NoPid => Still(ds, ds')
<1>1. CASE Command
  BY <1>1, CommandKept
<1>2. CASE Wake
  BY <1>2, HiddenKept
<1>3. CASE UNCHANGED vars \/ \E p \in Pid : Die(p)
  <2>1. ds' = ds /\ ds \in Display
    BY <1>3 DEF vars, Die, IInv, StateOK
  <2>. QED
    BY <2>1, NothingKept
<1>4. ASSUME NEW p \in Pid, HandleChildExit(p)
      PROVE  /\ Kept(ds, ds')
             /\ Backed(ds) /\ home' # NoApp /\ apps'[home'] # NoPid => Still(ds, ds')
  BY <1>4, ExitKept
<1>. QED
  BY <1>1, <1>2, <1>3, <1>4 DEF Next

\* The inductive invariant of the shell without the operator verbs.
THEOREM ShellCoherent ==
    ASSUME Enabled = {}
    PROVE  Spec => [](IInv /\ Coherent(ds) /\ Backed(ds))
<1>1. Init => IInv /\ Coherent(ds) /\ Backed(ds)
  <2>1. EmptyDisplay \in Display /\ Slots(EmptyDisplay, NoPid, NoPid, NoPid)
    BY EmptyDisplayFacts DEF EmptyDisplay, Slots, NoSurface, Pid, NoPid
  <2>2. Neat(EmptyDisplay) /\ Backed(EmptyDisplay)
    BY <2>1, SlotsQueries DEF Backed
  <2>3. Hosted(EmptyDisplay)
    BY EmptyDisplayFacts DEF Hosted, HostedBut
  <2>. QED
    BY <2>2, <2>3, InitIInv DEF Init, Coherent
<1>2. IInv /\ Coherent(ds) /\ Backed(ds) /\ [Next]_vars
        => (IInv /\ Coherent(ds) /\ Backed(ds))'
  BY NextIInv, NextKept DEF Kept
<1>. QED
  BY <1>1, <1>2, PTL DEF Spec

\* At most one app is behind an overlay, and only while an overlay is up: the
\* split that promote_to_overlay and demote_from_overlay move is never torn.
THEOREM ShellBehindUnique ==
    ASSUME Enabled = {}
    PROVE  Spec => []BehindUnique
<1>1. IInv /\ Coherent(ds) => BehindUnique
  <2>1. SUFFICES ASSUME IInv, Neat(ds) PROVE BehindUnique
    BY DEF Coherent
  <2>2. PICK f, o, b \in Pid \cup {NoPid} : Slots(ds, f, o, b)
    BY <2>1 DEF Neat
  <2>3. /\ WithRole(ds, "OverlayBehind") = {b} \ {NoPid}
        /\ OverlayEngaged(ds) <=> o # NoPid
    BY <2>1, <2>2, SlotsQueries DEF IInv, StateOK
  <2>4. b # NoPid => o # NoPid
    BY <2>2 DEF Slots
  <2>. QED
    BY <2>3, <2>4 DEF BehindUnique
<1>. QED
  BY <1>1, ShellCoherent, PTL

\* Every running process was last told the role the model gives it: no handler
\* changes a role without the signal, and no signal is sent for another role.
THEOREM ShellHostAgrees ==
    ASSUME Enabled = {}
    PROVE  Spec => []HostAgrees
<1>1. Coherent(ds) => HostAgrees
  BY DEF Coherent, Hosted, HostedBut, HostAgrees, Surfaces, Pid, NoPid
<1>. QED
  BY <1>1, ShellCoherent, PTL

\* The foreground verb shows the app it names from every reachable state, and
\* cycle-task moves to another app than the one that is visible.
THEOREM ShellSwitchShows ==
    ASSUME Enabled = {}
    PROVE  Spec => []SwitchShows
<1>1. IInv /\ Coherent(ds) => SwitchShows
  <2>1. SUFFICES ASSUME IInv, Coherent(ds) PROVE SwitchShows
    OBVIOUS
  <2>2. ASSUME NEW p \in Registered
        PROVE  VisibleApp(PromoteToForeground(ds, p)) = p
    <3>1. p \in Pid /\ ds \in Display /\ Tracked(ds)
      BY <2>1, RegisteredTracked DEF IInv, StateOK, Surfaces
    <3>. QED
      BY <2>1, <3>1, PromoteKept
  <2>3. ASSUME \E a, b \in TaskRing : a # b, apps[CycleNext] = VisibleApp(ds)
        PROVE  FALSE
    <3> DEFINE later == {b \in TaskRing : \E a \in TaskRing :
                            apps[a] = VisibleApp(ds) /\ a < b}
               T == IF later = {} THEN TaskRing ELSE later
    <3>1. CycleNext \in T /\ CycleNext \in TaskRing /\ \A b \in T : CycleNext <= b
      BY <2>3, CycleNextFound
    <3>2. \A a, b \in TaskRing : apps[a] = apps[b] => a = b
      BY <2>1 DEF IInv, StateOK, TaskRing
    <3>3. TaskRing \subseteq Nat
      BY NumAppsAssumption DEF TaskRing, App
    <3>4. CASE later = {}
      <4>1. PICK b \in TaskRing : b # CycleNext
        BY <2>3
      <4>2. CycleNext < b
        BY <3>1, <3>3, <3>4, <4>1
      <4>. QED
        BY <2>3, <3>1, <3>4, <4>2
    <3>5. CASE later # {}
      <4>1. PICK a \in TaskRing : apps[a] = VisibleApp(ds) /\ a < CycleNext
        BY <3>1, <3>5
      <4>. QED
        BY <2>3, <3>1, <3>2, <3>3, <4>1
    <3>. QED
      BY <3>4, <3>5
  <2>. QED
    BY <2>2, <2>3 DEF SwitchShows
<1>. QED
  BY <1>1, ShellCoherent, PTL

\* Focus follows foreground: when the visible app changes, the editor of the app
\* that was left does not keep the input focus.
THEOREM ShellFinishInput ==
    ASSUME Enabled = {}
    PROVE  Spec => FinishInput
<1>1. IInv /\ Coherent(ds) /\ [Next]_vars =>
        [(/\ VisibleApp(ds') # VisibleApp(ds)
          /\ ds.editor # NoPid
          /\ ds.editor = VisibleApp(ds)) => ds'.editor # ds.editor]_vars
  BY NextKept DEF Kept
<1>. QED
  BY <1>1, ShellCoherent, PTL DEF Spec, FinishInput

\* The keyboard stays as the visible app's editor wants it through every step
\* that designates no other IME.
THEOREM ShellKeyboardReconciled ==
    ASSUME Enabled = {}
    PROVE  Spec => KeyboardReconciled
<1>1. IInv /\ Coherent(ds) /\ [Next]_vars =>
        [Reconciled(ds) /\ ds.ime = ds'.ime => Reconciled(ds')]_vars
  BY NextKept DEF Kept, Settled, Reconciled
<1>. QED
  BY <1>1, ShellCoherent, PTL DEF Spec, KeyboardReconciled

\* The IME is told whenever an app that is still there loses the editor focus
\* and nobody takes it.
THEOREM ShellImeTold ==
    ASSUME Enabled = {}
    PROVE  Spec => ImeTold
<1>1. IInv /\ Coherent(ds) /\ [Next]_vars =>
        [(/\ ds.editor \in Surfaces(ds')
          /\ ds'.editor = NoPid
          /\ ds'.ime = ds.ime) => ds'.ime \notin ds'.told]_vars
  BY NextKept DEF Kept
<1>. QED
  BY <1>1, ShellCoherent, PTL DEF Spec, ImeTold

\* No step empties the foreground slot while the designated home app runs: an
\* exit of the app that was shown brings home forward in the same step.
THEOREM ShellNeverEmpty ==
    ASSUME Enabled = {}
    PROVE  Spec => NeverEmpty
<1>1. IInv /\ Coherent(ds) /\ Backed(ds) /\ [Next]_vars =>
        [(/\ ForegroundSlot(ds) # NoPid
          /\ home' # NoApp
          /\ apps'[home'] # NoPid) => ForegroundSlot(ds') # NoPid]_vars
  <2>1. SUFFICES ASSUME IInv, Coherent(ds), Backed(ds), [Next]_vars,
                        ForegroundSlot(ds) # NoPid, home' # NoApp,
                        apps'[home'] # NoPid
                 PROVE  ForegroundSlot(ds') # NoPid
    OBVIOUS
  <2>2. ds \in Display /\ ds' \in Display
    BY <2>1, NextIInv DEF IInv, StateOK
  <2>3. Still(ds, ds') /\ Neat(ds')
    BY <2>1, NextKept DEF Kept, Coherent
  <2>4. VisibleApp(ds) # NoPid
    BY <2>1, <2>2, SlotShows DEF Coherent
  <2>. QED
    BY <2>2, <2>3, <2>4, SlotShows DEF Still
<1>. QED
  BY <1>1, ShellCoherent, PTL DEF Spec, NeverEmpty
=============================================================================
