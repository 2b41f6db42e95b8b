------------------------------ MODULE Keyguard ------------------------------
(***************************************************************************)
(* The lock screen and the power menu (wandr-arbiter-keyguard) above the   *)
(* shell. Both are modal overlays that work the same way: the visible app  *)
(* is hidden and told to ignore input, the overlay is shown as Lockscreen, *)
(* and the way back restores what was covered.                             *)
(*                                                                         *)
(* The two overlays open and close independently, over each other, while   *)
(* the shell's commands and process exits go on underneath.                *)
(***************************************************************************)
EXTENDS Shell

CONSTANTS
    KeyguardApp,   \* KEYGUARD_APP_ID
    PowermenuApp   \* POWERMENU_APP_ID

ASSUME OverlayAppsAssumption ==
    KeyguardApp \in ChromeApps /\ PowermenuApp \in ChromeApps /\ KeyguardApp # PowermenuApp

ASSUME BootAssumption == NumApps <= MaxPid

VARIABLES
    kg,        \* the fields of KeyguardModule
    muted      \* the processes last sent "input-suppress 1" (not "0")

kvars == <<vars, kg, muted>>

Keyguard ==
    [locked         : BOOLEAN,
     saved_fg       : App \cup {NoApp},
     suppressed     : Pid \cup {NoPid},
     menu_shown     : BOOLEAN,
     menu_saved_fg  : App \cup {NoApp},
     menu_suppressed: Pid \cup {NoPid},
     menu_covered   : BOOLEAN]

\* A booted system: every app runs, as the process of its number; the overlays
\* registered themselves, the home app, if any, is shown, the others are hidden.
KeyguardInit ==
    /\ home \in HomeApps \cup {NoApp}
    /\ ds = [EmptyDisplay EXCEPT
               !.role = [p \in Pid |-> IF p \notin App THEN NoSurface
                                       ELSE IF p \in ChromeApps \ ImeApps THEN "Chrome"
                                       ELSE IF p = home THEN "Foreground"
                                       ELSE "Background"],
               !.rank = [p \in Pid |-> IF p \in App THEN p - 1 ELSE 0],
               !.next = NumApps,
               !.host = [p \in Pid |-> IF p \in App \ ((ChromeApps \ ImeApps) \cup {home})
                                       THEN "hidden" ELSE "shown"]]
    /\ apps = [a \in App |-> a]
    /\ appOf = [p \in Pid |-> IF p \in App THEN p ELSE NoApp]
    /\ alive = App
    /\ started = NumApps
    /\ kg = [locked |-> FALSE, saved_fg |-> NoApp, suppressed |-> NoPid,
             menu_shown |-> FALSE, menu_saved_fg |-> NoApp, menu_suppressed |-> NoPid,
             menu_covered |-> FALSE]
    /\ muted = {}

-----------------------------------------------------------------------------
(* The verbs act on a state [d, k, m] of the display, the module and the    *)
(* muted processes, so that pm-lock runs two of them in one step.           *)

State(d, k, m) == [d |-> d, k |-> k, m |-> m]

AppByPid(r, p) == IF \E a \in App : r[a] = p /\ p # NoPid
                  THEN CHOOSE a \in App : r[a] = p ELSE NoApp

\* Hide the visible app and let it ignore input.
Cover(d) == IF VisibleApp(d) = NoPid THEN d ELSE Apply(d, VisibleApp(d), "Background")

\* Mutant of Mute: no test for a visible app.
MuteAnyway(d, m) == m \cup {VisibleApp(d)}

Mute(d, m) == m \cup ({VisibleApp(d)} \cap alive)

\* Effect::Foreground: the shell's verb, which fails if the app is not running.
Restore(d, a) ==
    IF a # NoApp /\ apps[a] # NoPid THEN PromoteToForeground(d, apps[a]) ELSE d

Hide(d, a) == IF apps[a] # NoPid THEN Apply(d, apps[a], "Background") ELSE d

\* Mutant of DoLock: ForegroundChanged is not emitted.
DoLockQuietly(s) ==
    IF s.k.locked \/ apps[KeyguardApp] = NoPid THEN s
    ELSE State(Place(Cover(s.d), apps[KeyguardApp], "Lockscreen"),
               [s.k EXCEPT !.locked = TRUE,
                           !.saved_fg = AppByPid(apps, VisibleApp(s.d)),
                           !.suppressed = IF VisibleApp(s.d) = NoPid THEN @
                                          ELSE VisibleApp(s.d)],
               Mute(s.d, s.m))

DoLock(s) ==
    IF s.k.locked \/ apps[KeyguardApp] = NoPid THEN s
    ELSE State(OnForegroundChanged(Place(Cover(s.d), apps[KeyguardApp], "Lockscreen")),
               [s.k EXCEPT !.locked = TRUE,
                           !.saved_fg = AppByPid(apps, VisibleApp(s.d)),
                           !.suppressed = IF VisibleApp(s.d) = NoPid THEN @
                                          ELSE VisibleApp(s.d)],
               Mute(s.d, s.m))

\* Mutant of DoUnlock: the covered app is not told to take input again.
DoUnlockMuted(s) ==
    IF ~s.k.locked THEN s
    ELSE State(Restore(Hide(s.d, KeyguardApp), s.k.saved_fg),
               [s.k EXCEPT !.locked = FALSE, !.saved_fg = NoApp, !.suppressed = NoPid],
               s.m)

\* Mutant of DoUnlock: the covered app is forgotten before it is restored.
DoUnlockForgets(s) ==
    IF ~s.k.locked THEN s
    ELSE State(Hide(s.d, KeyguardApp),
               [s.k EXCEPT !.locked = FALSE, !.saved_fg = NoApp, !.suppressed = NoPid],
               s.m \ {s.k.suppressed})

DoUnlock(s) ==
    IF ~s.k.locked THEN s
    ELSE State(Restore(Hide(s.d, KeyguardApp), s.k.saved_fg),
               [s.k EXCEPT !.locked = FALSE, !.saved_fg = NoApp, !.suppressed = NoPid],
               s.m \ {s.k.suppressed})

\* Over the lock screen, the keyguard makes way for the menu.
DoShowMenu(s) ==
    LET covers == s.k.locked /\ apps[KeyguardApp] # NoPid
        below  == IF covers THEN Hide(Cover(s.d), KeyguardApp) ELSE Cover(s.d)
    IN  IF s.k.menu_shown \/ apps[PowermenuApp] = NoPid THEN s
        ELSE State(OnForegroundChanged(Place(below, apps[PowermenuApp], "Lockscreen")),
                   [s.k EXCEPT !.menu_shown = TRUE,
                               !.menu_saved_fg = AppByPid(apps, VisibleApp(s.d)),
                               !.menu_suppressed = IF VisibleApp(s.d) = NoPid THEN @
                                                   ELSE VisibleApp(s.d),
                               !.menu_covered = @ \/ covers],
                   Mute(s.d, s.m))

\* The menu is hidden even when it was not shown (the boot script's use).
DoHideMenu(s) ==
    LET hidden  == Hide(s.d, PowermenuApp)
        relock  == IF s.k.menu_covered /\ apps[KeyguardApp] # NoPid
                   THEN Place(hidden, apps[KeyguardApp], "Lockscreen") ELSE hidden
    IN  IF ~s.k.menu_shown THEN State(hidden, s.k, s.m)
        ELSE State(Restore(relock, s.k.menu_saved_fg),
                   [s.k EXCEPT !.menu_shown = FALSE, !.menu_saved_fg = NoApp,
                               !.menu_suppressed = NoPid, !.menu_covered = FALSE],
                   s.m \ {s.k.menu_suppressed})

Become(s) ==
    /\ ds' = s.d
    /\ kg' = s.k
    /\ muted' = s.m
    /\ UNCHANGED <<Processes, home>>

\* The lock verb, and the screen going off.
Lock     == Become(DoLock(State(ds, kg, muted)))
Unlock   == Become(DoUnlock(State(ds, kg, muted)))
ShowMenu == Become(DoShowMenu(State(ds, kg, muted)))

\* pm-dismiss, and pm-emergency.
HideMenu == Become(DoHideMenu(State(ds, kg, muted)))

\* The menu's lock button.
PmLock == Become(DoLock(DoHideMenu(State(ds, kg, muted))))

\* The module's reaction to SurfaceRemoved comes after the shell's, which has
\* taken process p out of the registry.
KeyguardExit(p) ==
    LET r    == [a \in App |-> IF apps[a] = p THEN NoPid ELSE apps[a]]
        gone == AppByPid(r, p)
    IN  /\ HandleChildExit(p)
        /\ kg' = [kg EXCEPT !.saved_fg = IF gone = @ THEN NoApp ELSE @,
                            !.menu_saved_fg = IF gone = @ THEN NoApp ELSE @]
        /\ UNCHANGED muted

\* A process ends; nobody listens to what it was told.
KeyguardDie(p) ==
    /\ Die(p)
    /\ muted' = muted \ {p}
    /\ UNCHANGED kg

KeyguardNext ==
    \/ Lock
    \/ Unlock
    \/ ShowMenu
    \/ HideMenu
    \/ PmLock
    \/ (Command \/ Wake) /\ UNCHANGED <<kg, muted>>
    \/ \E p \in Pid : KeyguardDie(p) \/ KeyguardExit(p)

KeyguardSpec == KeyguardInit /\ [][KeyguardNext]_kvars

-----------------------------------------------------------------------------
(* Properties *)

\* The module remembers apps and processes, and only processes are muted.
KeyguardTypeOK == TypeOK /\ kg \in Keyguard /\ muted \subseteq alive

\* Input comes back: once neither overlay is up, no running app is left
\* ignoring input, in whatever order they opened, closed, covered each other
\* and apps switched or died below.
InputRestored == ~kg.locked /\ ~kg.menu_shown => muted = {}

\* Unlocking shows the app that was covered, if it still runs, ready for input
\* unless the menu covers it too. The app is remembered by its name, and on_event
\* finds none for the pid of an exit: a later process of the app is shown, where
\* the comment there has home revealed (KeyguardExit).
UnlockRestores ==
    [][LET a == kg.saved_fg
       IN  (kg.locked /\ ~kg'.locked /\ a # NoApp /\ apps[a] # NoPid) =>
             /\ VisibleApp(ds') = apps[a]
             /\ apps[a] \in alive => ds'.host[apps[a]] \in {"shown", "behind"}
             /\ apps[a] \in muted' => apps[a] = kg'.menu_suppressed]_kvars

\* A keyboard that was up does not stay over the lock screen or the menu: when
\* one of them comes up, no overlay is left and no editor has the focus.
OverlayHidesKeyboard ==
    [][(~kg.locked /\ kg'.locked) \/ (~kg.menu_shown /\ kg'.menu_shown) =>
         ~OverlayEngaged(ds') /\ ds'.editor = NoPid]_kvars

\* "Unlocking hides the keyguard": the lock screen is up only while locked.
LockscreenOnlyLocked ==
    apps[KeyguardApp] # NoPid /\ ds.role[apps[KeyguardApp]] = "Lockscreen" => kg.locked
=============================================================================
