--------------------------- MODULE KeyguardProofs ---------------------------
(***************************************************************************)
(* Safety of the lock screen and the power menu for every number of        *)
(* processes and apps.                                                     *)
(*                                                                         *)
(* That input comes back is not inductive: it also takes that the muted    *)
(* processes are those that an overlay which is up remembers, and that an  *)
(* overlay that is down remembers none. The shell's invariant is carried   *)
(* along, since an overlay acts on the display below the commands.         *)
(***************************************************************************)
EXTENDS Keyguard, ShellProofs

\* The processes that the overlays of module k will let take input again.
Ignoring(k) ==
    (IF k.locked THEN {k.suppressed} ELSE {}) \cup
    (IF k.menu_shown THEN {k.menu_suppressed} ELSE {})

\* The module is well typed, it remembers whom it muted, and forgot the rest.
Remembered(k, m) ==
    /\ k \in Keyguard
    /\ m \subseteq Ignoring(k)
    /\ ~k.locked => k.suppressed = NoPid
    /\ ~k.menu_shown => k.menu_suppressed = NoPid

\* The inductive invariant of Keyguard.
KInv == IInv /\ Remembered(kg, muted) /\ muted \subseteq alive

-----------------------------------------------------------------------------
(* What the verbs do to the display *)

\* A display reached within a verb: it tracks what the verb found.
Sound(d) == Keeps(ds, d) /\ Unique(d)

\* Before a verb, the display is the shell's.
LEMMA SoundStart ==
    ASSUME IInv
    PROVE  Sound(ds)
BY DEF IInv, StateOK, Sound, Keeps

\* What is sound is a display that tracks its IME and its editor.
LEMMA SoundFacts ==
    ASSUME IInv, NEW d, Sound(d)
    PROVE  d \in Display /\ Tracked(d) /\ Unique(d) /\ Surfaces(d) = Surfaces(ds)
BY KeepsTracked DEF IInv, StateOK, Sound, Keeps

\* A role without focus leaves the slot unambiguous.
LEMMA UnfocusSound ==
    ASSUME IInv, NEW d, Sound(d), NEW p \in Surfaces(ds),
           NEW r \in {"Background", "Lockscreen"},
           NEW e, e = Apply(d, p, r) \/ e = Place(d, p, r)
    PROVE  Sound(e)
<1>1. d \in Display /\ Unique(d) /\ Surfaces(d) = Surfaces(ds) /\ p \in Pid /\ r \in Role
  BY SoundFacts DEF Surfaces, Role
<1>2. /\ e \in Display /\ e.ime = d.ime /\ e.editor = d.editor
      /\ Surfaces(e) = Surfaces(d)
      /\ \A q \in Pid : e.role[q] = IF q = p THEN r ELSE d.role[q]
  <2>1. CASE e = Apply(d, p, r)
    BY <1>1, <2>1, ApplyFacts DEF Keeps
  <2>2. CASE e = Place(d, p, r)
    <3>1. /\ e \in Display /\ e.ime = d.ime /\ e.editor = d.editor
          /\ Surfaces(e) = Surfaces(d) \cup {p}
          /\ \A q \in Pid : e.role[q] = IF q = p THEN r ELSE d.role[q]
      BY <1>1, <2>2, PlaceFacts
    <3>2. Surfaces(d) \cup {p} = Surfaces(d)
      BY <1>1
    <3>. QED
      BY <3>1, <3>2
  <2>. QED
    BY <2>1, <2>2
<1>3. Focused(e) \subseteq Focused(d)
  BY <1>2 DEF Focused, WithRole
<1>. QED
  BY <1>1, <1>2, <1>3 DEF Sound, Keeps, Unique

\* The visible app owns a surface, behind an overlay or in the foreground.
LEMMA VisibleTracked ==
    ASSUME NEW d \in Display, VisibleApp(d) # NoPid
    PROVE  /\ VisibleApp(d) \in Surfaces(d)
           /\ d.role[VisibleApp(d)] \in {"OverlayBehind", "Foreground"}
<1>1. \/ VisibleApp(d) \in WithRole(d, "OverlayBehind")
      \/ VisibleApp(d) \in WithRole(d, "Foreground")
  BY FirstFound DEF VisibleApp
<1>. QED
  BY <1>1 DEF WithRole, Surfaces, NoSurface

\* Covering the app that is shown.
LEMMA CoverSound ==
    ASSUME IInv, NEW d, Sound(d)
    PROVE  Sound(Cover(d))
<1>1. d \in Display /\ Surfaces(d) = Surfaces(ds)
  BY SoundFacts
<1>2. CASE VisibleApp(d) = NoPid
  BY <1>2 DEF Cover
<1>3. CASE VisibleApp(d) # NoPid
  <2>1. VisibleApp(d) \in Surfaces(ds)
    BY <1>1, <1>3, VisibleTracked
  <2>2. Cover(d) = Apply(d, VisibleApp(d), "Background")
    BY <1>3 DEF Cover
  <2>. QED
    BY <2>1, <2>2, UnfocusSound
<1>. QED
  BY <1>2, <1>3

\* Hiding an overlay's app, and showing it.
LEMMA HideSound ==
    ASSUME IInv, NEW d, Sound(d), NEW a \in App
    PROVE  /\ Sound(Hide(d, a))
           /\ apps[a] # NoPid => Sound(Place(d, apps[a], "Lockscreen"))
BY RegisteredTracked, UnfocusSound DEF Hide

\* The reaction to ForegroundChanged.
LEMMA ReactSound ==
    ASSUME IInv, NEW d, Sound(d)
    PROVE  Sound(OnForegroundChanged(d))
<1>1. d \in Display /\ Tracked(d) /\ Unique(d)
  BY SoundFacts
<1>2. Keeps(d, OnForegroundChanged(d)) /\ Unique(OnForegroundChanged(d))
  BY <1>1, OnForegroundChangedFacts
<1>. QED
  BY <1>2 DEF Sound, Keeps

\* Bringing the covered app back.
LEMMA RestoreSound ==
    ASSUME IInv, NEW d, Sound(d), NEW a \in App \cup {NoApp}
    PROVE  Sound(Restore(d, a))
<1>1. CASE a # NoApp /\ apps[a] # NoPid
  <2>1. Restore(d, a) = PromoteToForeground(d, apps[a])
    BY <1>1 DEF Restore
  <2>2. apps[a] \in Surfaces(d) /\ apps[a] \in Pid
    BY <1>1, RegisteredTracked, SoundFacts DEF Surfaces
  <2>3. /\ Grows(d, Restore(d, a), apps[a])
        /\ Unique(Restore(d, a))
    BY <2>1, <2>2, SoundFacts, PromoteToForegroundFacts
  <2>. QED
    BY <2>2, <2>3 DEF Sound, Keeps, Grows
<1>2. CASE ~(a # NoApp /\ apps[a] # NoPid)
  BY <1>2 DEF Restore
<1>. QED
  BY <1>1, <1>2

-----------------------------------------------------------------------------
(* The verbs *)

\* The overlays are registered as apps.
LEMMA OverlayApps == KeyguardApp \in App /\ PowermenuApp \in App /\ NoApp \notin App
BY OverlayAppsAssumption, ChromeAssumption DEF App, NoApp

\* The app that owns a process, if one does.
LEMMA AppByPidType ==
    ASSUME NEW r, NEW p
    PROVE  AppByPid(r, p) \in App \cup {NoApp}
BY DEF AppByPid

\* What a verb may make of the state it found.
Kempt(s) ==
    /\ Sound(s.d)
    /\ Remembered(s.k, s.m)
    /\ s.m \subseteq alive

\* A lock remembers the app it mutes; the lock screen was not up before.
LEMMA LockKempt ==
    ASSUME IInv, NEW s, Kempt(s)
    PROVE  Kempt(DoLock(s))
<1>1. CASE s.k.locked \/ apps[KeyguardApp] = NoPid
  BY <1>1 DEF DoLock
<1>2. CASE ~(s.k.locked \/ apps[KeyguardApp] = NoPid)
  <2> DEFINE v == VisibleApp(s.d)
             k == [s.k EXCEPT !.locked = TRUE,
                              !.saved_fg = AppByPid(apps, v),
                              !.suppressed = IF v = NoPid THEN @ ELSE v]
             e == OnForegroundChanged(Place(Cover(s.d), apps[KeyguardApp], "Lockscreen"))
  <2>1. DoLock(s).d = e /\ DoLock(s).k = k /\ DoLock(s).m = Mute(s.d, s.m)
    BY <1>2 DEF DoLock, State
  <2>2. Sound(e)
    BY <1>2, CoverSound, HideSound, ReactSound, OverlayApps DEF Kempt
  <2>3. v \in Pid \cup {NoPid} /\ NoPid \notin alive
    BY SoundFacts, VisibleType DEF Kempt, IInv, Pid, NoPid
  <2>4. s.k \in Keyguard /\ s.k.suppressed = NoPid
    BY <1>2 DEF Kempt, Remembered
  <2>5. AppByPid(apps, v) \in App \cup {NoApp}
    BY AppByPidType
  <2> HIDE DEF v
  <2>6. /\ k \in Keyguard /\ k.locked /\ k.suppressed = v
        /\ k.menu_shown = s.k.menu_shown /\ k.menu_suppressed = s.k.menu_suppressed
    BY <2>3, <2>4, <2>5 DEF Keyguard
  <2>7. Mute(s.d, s.m) = s.m \cup ({v} \cap alive)
    BY DEF Mute, v
  <2> HIDE DEF k
  <2>8. Mute(s.d, s.m) \subseteq Ignoring(k) /\ Mute(s.d, s.m) \subseteq alive
    BY <1>2, <2>3, <2>6, <2>7 DEF Kempt, Remembered, Ignoring
  <2>9. Remembered(k, Mute(s.d, s.m))
    BY <2>6, <2>8 DEF Kempt, Remembered
  <2>. QED
    BY <2>1, <2>2, <2>8, <2>9 DEF Kempt
<1>. QED
  BY <1>1, <1>2

\* Unlocking lets the app it muted take input again, unless the menu muted it.
LEMMA UnlockKempt ==
    ASSUME IInv, NEW s, Kempt(s)
    PROVE  Kempt(DoUnlock(s))
<1>1. CASE ~s.k.locked
  BY <1>1 DEF DoUnlock
<1>2. CASE s.k.locked
  <2> DEFINE k == [s.k EXCEPT !.locked = FALSE, !.saved_fg = NoApp, !.suppressed = NoPid]
             e == Restore(Hide(s.d, KeyguardApp), s.k.saved_fg)
             m == s.m \ {s.k.suppressed}
  <2>1. DoUnlock(s).d = e /\ DoUnlock(s).k = k /\ DoUnlock(s).m = m
    BY <1>2 DEF DoUnlock, State
  <2>2. s.k \in Keyguard
    BY DEF Kempt, Remembered
  <2>3. Sound(e)
    BY <2>2, HideSound, RestoreSound, OverlayApps DEF Kempt, Keyguard
  <2>4. /\ k \in Keyguard /\ ~k.locked /\ k.suppressed = NoPid
        /\ k.menu_shown = s.k.menu_shown /\ k.menu_suppressed = s.k.menu_suppressed
    BY <2>2 DEF Keyguard
  <2> HIDE DEF k, e
  <2>5. Remembered(k, m) /\ m \subseteq alive
    BY <1>2, <2>4 DEF Kempt, Remembered, Ignoring
  <2>. QED
    BY <2>1, <2>3, <2>5 DEF Kempt
<1>. QED
  BY <1>1, <1>2

\* The menu remembers the app it mutes; it was not up before.
LEMMA ShowMenuKempt ==
    ASSUME IInv, NEW s, Kempt(s)
    PROVE  Kempt(DoShowMenu(s))
<1>1. CASE s.k.menu_shown \/ apps[PowermenuApp] = NoPid
  BY <1>1 DEF DoShowMenu
<1>2. CASE ~(s.k.menu_shown \/ apps[PowermenuApp] = NoPid)
  <2> DEFINE v == VisibleApp(s.d)
             covers == s.k.locked /\ apps[KeyguardApp] # NoPid
             below  == IF covers THEN Hide(Cover(s.d), KeyguardApp) ELSE Cover(s.d)
             k == [s.k EXCEPT !.menu_shown = TRUE,
                              !.menu_saved_fg = AppByPid(apps, v),
                              !.menu_suppressed = IF v = NoPid THEN @ ELSE v,
                              !.menu_covered = @ \/ covers]
             e == OnForegroundChanged(Place(below, apps[PowermenuApp], "Lockscreen"))
  <2>1. DoShowMenu(s).d = e /\ DoShowMenu(s).k = k /\ DoShowMenu(s).m = Mute(s.d, s.m)
    BY <1>2 DEF DoShowMenu, State
  <2>2. Sound(below)
    BY CoverSound, HideSound, OverlayApps DEF Kempt
  <2>3. Sound(e)
    <3> HIDE DEF below
    <3>. QED
      BY <1>2, <2>2, HideSound, ReactSound, OverlayApps
  <2>4. v \in Pid \cup {NoPid} /\ NoPid \notin alive
    BY SoundFacts, VisibleType DEF Kempt, IInv, Pid, NoPid
  <2>5. s.k \in Keyguard /\ s.k.menu_suppressed = NoPid
    BY <1>2 DEF Kempt, Remembered
  <2>6. AppByPid(apps, v) \in App \cup {NoApp}
    BY AppByPidType
  <2>7. (s.k.menu_covered \/ covers) \in BOOLEAN
    BY <2>5 DEF Keyguard
  <2> HIDE DEF v, covers, e
  <2>8. /\ k \in Keyguard /\ k.menu_shown /\ k.menu_suppressed = v
        /\ k.locked = s.k.locked /\ k.suppressed = s.k.suppressed
    BY <2>4, <2>5, <2>6, <2>7 DEF Keyguard
  <2>9. Mute(s.d, s.m) = s.m \cup ({v} \cap alive)
    BY DEF Mute, v
  <2> HIDE DEF k
  <2>10. Mute(s.d, s.m) \subseteq Ignoring(k) /\ Mute(s.d, s.m) \subseteq alive
    BY <1>2, <2>4, <2>8, <2>9 DEF Kempt, Remembered, Ignoring
  <2>11. Remembered(k, Mute(s.d, s.m))
    BY <2>8, <2>10 DEF Kempt, Remembered
  <2>. QED
    BY <2>1, <2>3, <2>10, <2>11 DEF Kempt
<1>. QED
  BY <1>1, <1>2

\* Leaving the menu lets the app it muted take input again.
LEMMA HideMenuKempt ==
    ASSUME IInv, NEW s, Kempt(s)
    PROVE  Kempt(DoHideMenu(s))
<1> DEFINE hidden == Hide(s.d, PowermenuApp)
           relock == IF s.k.menu_covered /\ apps[KeyguardApp] # NoPid
                     THEN Place(hidden, apps[KeyguardApp], "Lockscreen") ELSE hidden
           k == [s.k EXCEPT !.menu_shown = FALSE, !.menu_saved_fg = NoApp,
                            !.menu_suppressed = NoPid, !.menu_covered = FALSE]
           e == Restore(relock, s.k.menu_saved_fg)
           m == s.m \ {s.k.menu_suppressed}
<1>1. Sound(hidden) /\ s.k \in Keyguard
  BY HideSound, OverlayApps DEF Kempt, Remembered
<1>2. CASE ~s.k.menu_shown
  <2>1. DoHideMenu(s).d = hidden /\ DoHideMenu(s).k = s.k /\ DoHideMenu(s).m = s.m
    BY <1>2 DEF DoHideMenu, State
  <2>. QED
    BY <1>1, <2>1 DEF Kempt
<1>3. CASE s.k.menu_shown
  <2>1. DoHideMenu(s).d = e /\ DoHideMenu(s).k = k /\ DoHideMenu(s).m = m
    BY <1>3 DEF DoHideMenu, State
  <2>2. Sound(e)
    <3> HIDE DEF hidden
    <3>1. Sound(relock)
      BY <1>1, HideSound, OverlayApps
    <3> HIDE DEF relock
    <3>. QED
      BY <1>1, <3>1, RestoreSound DEF Keyguard
  <2>3. /\ k \in Keyguard /\ ~k.menu_shown /\ k.menu_suppressed = NoPid
        /\ k.locked = s.k.locked /\ k.suppressed = s.k.suppressed
    BY <1>1 DEF Keyguard
  <2> HIDE DEF k, e
  <2>4. Remembered(k, m) /\ m \subseteq alive
    BY <1>3, <2>3 DEF Kempt, Remembered, Ignoring
  <2>. QED
    BY <2>1, <2>2, <2>4 DEF Kempt
<1>. QED
  BY <1>2, <1>3

\* A verb that ends in a kempt state keeps the invariant.
LEMMA BecomeStep ==
    ASSUME IInv, NEW s, Kempt(s), Become(s)
    PROVE  KInv'
<1>1. ds' = s.d /\ kg' = s.k /\ muted' = s.m /\ UNCHANGED <<Processes, home>>
  BY DEF Become
<1>2. StateOK(s.d, apps, appOf, started)
  BY KeepsStep DEF IInv, Kempt, Sound
<1>. QED
  BY <1>1, <1>2 DEF KInv, IInv, Kempt, Processes

-----------------------------------------------------------------------------
(* Steps *)

\* Lock, unlock, the power menu and its lock button.
LEMMA VerbStep ==
    ASSUME KInv, Lock \/ Unlock \/ ShowMenu \/ HideMenu \/ PmLock
    PROVE  KInv'
<1> DEFINE s == State(ds, kg, muted)
<1>1. IInv /\ Kempt(s)
  BY SoundStart DEF KInv, Kempt, State
<1>2. Kempt(DoHideMenu(s))
  BY <1>1, HideMenuKempt
<1>3. /\ Kempt(DoLock(s)) /\ Kempt(DoUnlock(s)) /\ Kempt(DoShowMenu(s))
      /\ Kempt(DoLock(DoHideMenu(s)))
  BY <1>1, <1>2, LockKempt, UnlockKempt, ShowMenuKempt
<1>. QED
  BY <1>1, <1>2, <1>3, BecomeStep DEF Lock, Unlock, ShowMenu, HideMenu, PmLock

\* A step of the shell starts a process, or leaves all of them as they are.
LEMMA ProcessesStep ==
    ASSUME Command \/ Wake \/ \E p \in Pid : HandleChildExit(p)
    PROVE  UNCHANGED <<appOf, alive>> \/ \E a, p : Fork(a, p)
<1> DEFINE starts == UNCHANGED <<appOf, alive>> \/ \E a, p : Fork(a, p)
<1>1. \A d, r, h : EnsureHomeForeground(d, r, h) => starts
  BY DEF EnsureHomeForeground
<1>2. ASSUME NEW a \in App, AppCommand(a) PROVE starts
  <2>1. ASSUME NEW kind \in LaunchKind, Launch(a, kind) PROVE starts
    BY <2>1 DEF Launch, Processes
  <2>. QED
    BY <1>1, <1>2, <2>1
       DEF AppCommand, Foreground, RegisterChrome, Kill, TaskKill, PruneApp, SetIme,
           Overlay, SetHome, Processes
<1>3. ASSUME Wake PROVE starts
  BY <1>3 DEF Wake, WakeLaunch
<1>4. ASSUME NEW p \in Pid, HandleChildExit(p) PROVE starts
  BY <1>1, <1>4 DEF HandleChildExit
<1>. QED
  BY <1>1, <1>2, <1>3, <1>4
     DEF Command, AttachEditor, DetachEditor, Back, CycleTask, ClearIme, OverlayClear,
         ClearHome, GoHome, Processes

\* Every step of Keyguard keeps the invariant.
LEMMA NextKInv ==
    ASSUME KInv, [KeyguardNext]_kvars
    PROVE  KInv'
<1>1. CASE Lock \/ Unlock \/ ShowMenu \/ HideMenu \/ PmLock
  BY <1>1, VerbStep
<1>2. CASE (Command \/ Wake) /\ UNCHANGED <<kg, muted>>
  <2>1. IInv'
    BY <1>2, NextIInv DEF KInv, Next
  <2>. QED
    BY <1>2, <2>1, ProcessesStep DEF KInv, Fork
<1>3. ASSUME NEW p \in Pid, KeyguardDie(p)
      PROVE  KInv'
  <2>1. IInv'
    BY <1>3, DieStep DEF KInv, KeyguardDie
  <2>2. kg' = kg /\ muted' = muted \ {p} /\ alive' = alive \ {p}
    BY <1>3 DEF KeyguardDie, Die
  <2>. QED
    BY <2>1, <2>2 DEF KInv, Remembered
<1>4. ASSUME NEW p \in Pid, KeyguardExit(p)
      PROVE  KInv'
  <2> DEFINE r    == [a \in App |-> IF apps[a] = p THEN NoPid ELSE apps[a]]
             gone == AppByPid(r, p)
  <2>1. HandleChildExit(p) /\ muted' = muted
    BY <1>4 DEF KeyguardExit
  <2>2. IInv' /\ alive \subseteq alive'
    BY <2>1, ExitStep, ProcessesStep DEF KInv, Fork
  <2>3. kg' = [kg EXCEPT !.saved_fg = IF gone = @ THEN NoApp ELSE @,
                         !.menu_saved_fg = IF gone = @ THEN NoApp ELSE @]
    BY <1>4 DEF KeyguardExit
  <2> HIDE DEF gone
  <2>4. kg \in Keyguard
    BY DEF KInv, Remembered
  <2>5. /\ kg' \in Keyguard /\ kg'.locked = kg.locked /\ kg'.suppressed = kg.suppressed
        /\ kg'.menu_shown = kg.menu_shown /\ kg'.menu_suppressed = kg.menu_suppressed
    BY <2>3, <2>4 DEF Keyguard
  <2>6. Ignoring(kg') = Ignoring(kg)
    BY <2>5 DEF Ignoring
  <2>. QED
    BY <2>1, <2>2, <2>5, <2>6 DEF KInv, Remembered
<1>5. CASE UNCHANGED kvars
  BY <1>5 DEF kvars, vars, KInv, IInv
<1>. QED
  BY <1>1, <1>2, <1>3, <1>4, <1>5 DEF KeyguardNext

-----------------------------------------------------------------------------
(* Input comes back *)

\* The display of a booted system, surface by surface.
LEMMA BootDisplay ==
    ASSUME KeyguardInit
    PROVE  /\ App \subseteq Pid /\ ds \in Display
           /\ ds.ime = NoPid /\ ds.editor = NoPid
           /\ Surfaces(ds) = App
           /\ \A p \in App : ds.role[p] =
                  IF p \in ChromeApps \ ImeApps THEN "Chrome"
                  ELSE IF p = home THEN "Foreground" ELSE "Background"
           /\ \A p \in App : ds.host[p] =
                  IF p \in App \ ((ChromeApps \ ImeApps) \cup {home})
                  THEN "hidden" ELSE "shown"
<1> DEFINE role == [p \in Pid |-> IF p \notin App THEN NoSurface
                                  ELSE IF p \in ChromeApps \ ImeApps THEN "Chrome"
                                  ELSE IF p = home THEN "Foreground"
                                  ELSE "Background"]
           rank == [p \in Pid |-> IF p \in App THEN p - 1 ELSE 0]
           host == [p \in Pid |-> IF p \in App \ ((ChromeApps \ ImeApps) \cup {home})
                                  THEN "hidden" ELSE "shown"]
<1>1. App \subseteq Pid
  BY BootAssumption, NumAppsAssumption, MaxPidAssumption DEF App, Pid
<1>2. /\ role \in [Pid -> Role \cup {NoSurface}]
      /\ rank \in [Pid -> Nat]
      /\ host \in [Pid -> HostRole]
  <2>1. role \in [Pid -> Role \cup {NoSurface}] /\ host \in [Pid -> HostRole]
    BY DEF Role, HostRole
  <2>2. \A p \in App : p - 1 \in Nat
    BY NumAppsAssumption DEF App
  <2>. QED
    BY <2>1, <2>2
<1>3. ds = [EmptyDisplay EXCEPT !.role = role, !.rank = rank, !.next = NumApps, !.host = host]
  BY DEF KeyguardInit
<1> HIDE DEF role, rank, host
<1>4. /\ ds.role = role /\ ds.rank = rank /\ ds.next = NumApps /\ ds.host = host
      /\ ds.ime = NoPid /\ ds.editor = NoPid /\ ds.told = {}
      /\ ds = [role |-> role, rank |-> rank, next |-> NumApps, editor |-> NoPid,
               ime |-> NoPid, host |-> host, told |-> {}]
  BY <1>3 DEF EmptyDisplay
<1>5. ds \in Display
  BY <1>2, <1>4, NumAppsAssumption DEF Display
<1>6. Surfaces(ds) = App
  BY <1>1, <1>4 DEF Surfaces, role, NoSurface
<1>. QED
  BY <1>1, <1>4, <1>5, <1>6 DEF role, host

\* The booted system satisfies the shell's invariant, and nothing is muted.
LEMMA InitKInv ==
    ASSUME KeyguardInit
    PROVE  KInv
<1>1. home \in App \cup {NoApp}
  BY RoleAppsAssumption DEF KeyguardInit
<1>2. /\ Unique(ds) /\ Tracked(ds)
  BY BootDisplay DEF Unique, Focused, WithRole, Surfaces, Tracked, NoSurface
<1>3. /\ apps = [a \in App |-> a]
      /\ appOf = [p \in Pid |-> IF p \in App THEN p ELSE NoApp]
      /\ started = NumApps /\ alive = App /\ muted = {}
  BY DEF KeyguardInit
<1>4. apps \in Registry /\ appOf \in [Pid -> App \cup {NoApp}] /\ started \in 0 .. MaxPid
  BY <1>3, BootDisplay, BootAssumption, NumAppsAssumption, MaxPidAssumption DEF Registry
<1>5. Surfaces(ds) \subseteq 1 .. started
  BY <1>3, BootDisplay DEF App
<1>6. \A a \in App : apps[a] # NoPid => apps[a] \in Surfaces(ds) /\ appOf[apps[a]] = a
  BY <1>3, BootDisplay
<1>7. IInv
  BY <1>1, <1>2, <1>3, <1>4, <1>5, <1>6, BootDisplay DEF IInv, StateOK
<1>8. Remembered(kg, muted)
  BY <1>3 DEF KeyguardInit, Remembered, Keyguard, Ignoring
<1>. QED
  BY <1>3, <1>7, <1>8 DEF KInv

\* The inductive invariant holds in every reachable state of Keyguard.
THEOREM KeyguardInvariant == KeyguardSpec => []KInv
<1>. QED
  BY InitKInv, NextKInv, PTL DEF KeyguardSpec

\* Whatever the overlays remember is an app or a process, and only running
\* processes are muted: none is left in the set after its exit.
THEOREM KeyguardTyped == KeyguardSpec => []KeyguardTypeOK
<1>1. KInv => KeyguardTypeOK
  BY DEF KInv, IInv, StateOK, Remembered, KeyguardTypeOK, TypeOK
<1>. QED
  BY <1>1, KeyguardInvariant, PTL

\* Once the lock screen and the power menu are both down, every running app
\* takes input again.
THEOREM InputComesBack == KeyguardSpec => []InputRestored
<1>1. KInv => InputRestored
  BY DEF KInv, Remembered, Ignoring, InputRestored
<1>. QED
  BY <1>1, KeyguardInvariant, PTL

-----------------------------------------------------------------------------
(* Without the operator verbs, and with overlays that are no keyboards, the   *)
(* split below the lock screen and the menu stays in shape.                   *)

Ordinary == Enabled = {} /\ KeyguardApp \notin ImeApps /\ PowermenuApp \notin ImeApps

\* Only processes of apps that are ever designated the IME serve as overlays.
Served(d, o) == \A p \in Pid : p = d.ime \/ d.role[p] = "Overlay" => o[p] \in ImeApps

\* A display reached within a verb: in shape, and with the surfaces it found.
Fit(d) ==
    /\ d \in Display
    /\ Tracked(d)
    /\ Coherent(d)
    /\ Served(d, appOf)
    /\ Surfaces(d) = Surfaces(ds)

\* What puts nobody but the IME up keeps the overlays served.
LEMMA ServedFrom ==
    ASSUME NEW d, NEW e, OverlaysFrom(d, e), e.ime \in {d.ime, NoPid},
           NEW o, Served(d, o)
    PROVE  Served(e, o)
<1>1. NoPid \notin Pid
  BY DEF Pid, NoPid
<1>. QED
  BY <1>1 DEF Served, OverlaysFrom, WithRole

\* Hiding or covering a surface that is no overlay.
LEMMA VeilFit ==
    ASSUME NEW d, Fit(d), NEW p \in Surfaces(ds), d.role[p] # "Overlay",
           NEW r \in {"Background", "Lockscreen"},
           NEW e, e = Apply(d, p, r) \/ e = Place(d, p, r)
    PROVE  /\ Fit(e)
           /\ VisibleApp(e) = IF VisibleApp(d) = p THEN NoPid ELSE VisibleApp(d)
<1>1. /\ d \in Display /\ Surfaces(d) = Surfaces(ds) /\ p \in Pid /\ r \in Role
      /\ NoPid \notin Pid
  BY DEF Fit, Surfaces, Role, Pid, NoPid
<1>2. /\ e \in Display /\ e.ime = d.ime /\ e.editor = d.editor
      /\ Surfaces(e) = Surfaces(d)
      /\ \A q \in Pid : e.role[q] = IF q = p THEN r ELSE d.role[q]
  <2>1. CASE e = Apply(d, p, r)
    BY <1>1, <2>1, ApplyFacts DEF Keeps
  <2>2. CASE e = Place(d, p, r)
    <3>1. /\ e \in Display /\ e.ime = d.ime /\ e.editor = d.editor
          /\ Surfaces(e) = Surfaces(d) \cup {p}
          /\ \A q \in Pid : e.role[q] = IF q = p THEN r ELSE d.role[q]
      BY <1>1, <2>2, PlaceFacts
    <3>2. Surfaces(d) \cup {p} = Surfaces(d)
      BY <1>1
    <3>. QED
      BY <3>1, <3>2
  <2>. QED
    BY <2>1, <2>2
<1>3. Hosted(e)
  BY <1>1, HostedStep DEF Hosted, Fit, Coherent
<1>4. PICK f, o, b \in Pid \cup {NoPid} : Slots(d, f, o, b)
  BY DEF Fit, Coherent, Neat
<1>5. p # o /\ (b # NoPid => f = NoPid)
  BY <1>1, <1>4 DEF Slots
<1> DEFINE x == IF f = p THEN NoPid ELSE f
           y == IF b = p THEN NoPid ELSE b
<1>6. Slots(e, x, o, y)
  <2>1. e.role[p] \notin {"Foreground", "Overlay", "OverlayBehind"}
    BY <1>1, <1>2
  <2>2. \A q \in Pid : q # p => e.role[q] = d.role[q]
    BY <1>2
  <2>3. p \in Pid /\ p # o
    BY <1>1, <1>5
  <2>4. x \in Pid \cup {NoPid} /\ y \in Pid \cup {NoPid} /\ o \in Pid \cup {NoPid}
    OBVIOUS
  <2>5. ASSUME NEW q \in Pid
        PROVE  /\ e.role[q] = "Foreground" <=> q = x
               /\ e.role[q] = "Overlay" <=> q = o
               /\ e.role[q] = "OverlayBehind" <=> q = y
    BY <1>1, <1>4, <2>1, <2>2, <2>3 DEF Slots
  <2>6. (o # NoPid => x = NoPid) /\ (y # NoPid => o # NoPid)
    BY <1>4 DEF Slots
  <2> HIDE DEF x, y
  <2>. QED
    BY <2>4, <2>5, <2>6 DEF Slots
<1>7. Neat(e) /\ VisibleApp(e) = IF y # NoPid THEN y ELSE x
  <2> HIDE DEF x, y
  <2>. QED
    BY <1>1, <1>2, <1>6, SlotsQueries
<1>8. VisibleApp(d) = IF b # NoPid THEN b ELSE f
  BY <1>1, <1>4, SlotsQueries
<1>9. Served(e, appOf)
  BY <1>2 DEF Fit, Served
<1>10. VisibleApp(e) = IF VisibleApp(d) = p THEN NoPid ELSE VisibleApp(d)
  BY <1>1, <1>5, <1>7, <1>8
<1>. QED
  BY <1>1, <1>2, <1>3, <1>7, <1>9, <1>10 DEF Fit, Coherent, Tracked

\* After the visible app is covered nothing is visible.
LEMMA CoverFit ==
    ASSUME NEW d, Fit(d)
    PROVE  Fit(Cover(d)) /\ VisibleApp(Cover(d)) = NoPid
<1>1. CASE VisibleApp(d) = NoPid
  BY <1>1 DEF Cover
<1>2. CASE VisibleApp(d) # NoPid
  <2>1. VisibleApp(d) \in Surfaces(ds) /\ d.role[VisibleApp(d)] # "Overlay"
    BY <1>2, VisibleTracked DEF Fit
  <2>2. Cover(d) = Apply(d, VisibleApp(d), "Background")
    BY <1>2 DEF Cover
  <2>. QED
    BY <2>1, <2>2, VeilFit
<1>. QED
  BY <1>1, <1>2

\* The lock screen's and the menu's surfaces are never the keyboard, so hiding
\* and showing them leaves the split alone.
LEMMA HideFit ==
    ASSUME Ordinary, IInv, NEW d, Fit(d), NEW a \in {KeyguardApp, PowermenuApp}
    PROVE  /\ Fit(Hide(d, a))
           /\ VisibleApp(d) = NoPid => VisibleApp(Hide(d, a)) = NoPid
           /\ apps[a] # NoPid =>
                LET e == Place(d, apps[a], "Lockscreen")
                IN  Fit(e) /\ (VisibleApp(d) = NoPid => VisibleApp(e) = NoPid)
<1>1. CASE apps[a] = NoPid
  BY <1>1 DEF Hide
<1>2. CASE apps[a] # NoPid
  <2>1. apps[a] \in Surfaces(ds) /\ appOf[apps[a]] = a /\ a \notin ImeApps
    BY <1>2, OverlayApps DEF IInv, StateOK, Ordinary
  <2>2. d.role[apps[a]] # "Overlay"
    BY <2>1 DEF Fit, Served, Surfaces
  <2>3. Hide(d, a) = Apply(d, apps[a], "Background")
    BY <1>2 DEF Hide
  <2>. QED
    BY <2>1, <2>2, <2>3, VeilFit
<1>. QED
  BY <1>1, <1>2

\* No overlay is up and no editor has the focus.
Quiet(d) == ~OverlayEngaged(d) /\ d.editor = NoPid

\* The reaction to ForegroundChanged, with nothing visible, quiets the display.
LEMMA ReactFit ==
    ASSUME NEW d, Fit(d)
    PROVE  /\ Fit(OnForegroundChanged(d))
           /\ VisibleApp(d) = NoPid => Quiet(OnForegroundChanged(d))
<1> DEFINE g == IF d.editor # NoPid /\ d.editor # VisibleApp(d)
                THEN DropEditorFocusOf(d, d.editor) ELSE d
           e == OnForegroundChanged(d)
<1>1. d \in Display /\ Tracked(d) /\ Neat(d) /\ HostedBut(d, NoPid)
  BY DEF Fit, Coherent, Hosted
<1>2. PICK f, o, b \in Pid \cup {NoPid} : Slots(d, f, o, b)
  BY <1>1 DEF Neat
<1>3. /\ Keeps(d, e) /\ Neat(e) /\ Backed(e) /\ VisibleApp(e) = VisibleApp(d)
      /\ e.editor = IF d.editor = VisibleApp(d) THEN d.editor ELSE NoPid
  BY <1>1, <1>2, OnForegroundChangedSlots
<1>4. Hosted(e)
  BY <1>1, OnForegroundChangedTold DEF Hosted
<1>5. Keeps(d, g) /\ g.role = d.role
  BY <1>1, DropFacts DEF Keeps
<1>6. e = ReconcileOverlay(g)
  BY DEF OnForegroundChanged
<1> HIDE DEF g, e
<1>7. g \in Display /\ Tracked(g)
  BY <1>1, <1>5, KeepsTracked
<1>8. Neat(g)
  BY <1>1, <1>2, <1>5, <1>7, SlotsSame, SlotsQueries
<1>9. OverlaysFrom(g, e)
  BY <1>6, <1>7, <1>8, ReconcileOverlays
<1>10. OverlaysFrom(d, e) /\ e.ime = d.ime
  BY <1>3, <1>5, <1>9 DEF OverlaysFrom, WithRole, Keeps
<1>11. Served(e, appOf)
  BY <1>10, ServedFrom DEF Fit
<1>12. e \in Display /\ Tracked(e) /\ Surfaces(e) = Surfaces(ds)
  BY <1>1, <1>3, KeepsTracked DEF Keeps, Fit
<1>13. VisibleApp(d) = NoPid => Quiet(e)
  BY <1>3 DEF Quiet, Backed
<1>. QED
  BY <1>3, <1>4, <1>11, <1>12, <1>13 DEF Fit, Coherent, e

\* Bringing the covered app back shows it.
LEMMA RestoreFit ==
    ASSUME IInv, NEW d, Fit(d), NEW a \in App \cup {NoApp}
    PROVE  /\ Fit(Restore(d, a))
           /\ a # NoApp /\ apps[a] # NoPid => VisibleApp(Restore(d, a)) = apps[a]
<1>1. CASE a # NoApp /\ apps[a] # NoPid
  <2> DEFINE e == Restore(d, a)
  <2>1. e = PromoteToForeground(d, apps[a])
    BY <1>1 DEF Restore
  <2>2. apps[a] \in Surfaces(d) /\ apps[a] \in Pid
    BY <1>1, RegisteredTracked DEF Surfaces, Fit
  <2>3. Kept(d, e) /\ VisibleApp(e) = apps[a] /\ Grows(d, e, apps[a])
    BY <2>1, <2>2, PromoteKept DEF Fit
  <2> HIDE DEF e
  <2>4. e \in Display /\ Tracked(e) /\ Surfaces(e) = Surfaces(ds) /\ e.ime = d.ime
    BY <2>2, <2>3, GrowsTracked DEF Grows, Fit
  <2>5. Served(e, appOf)
    BY <2>3, <2>4, ServedFrom DEF Kept, Fit
  <2>. QED
    BY <2>3, <2>4, <2>5 DEF Fit, Kept, e
<1>2. CASE ~(a # NoApp /\ apps[a] # NoPid)
  BY <1>2 DEF Restore
<1>. QED
  BY <1>1, <1>2

\* A lock covers what is visible, so that the keyboard goes with its app.
LEMMA LockFit ==
    ASSUME Ordinary, IInv, NEW s, Kempt(s), Fit(s.d)
    PROVE  LET t == DoLock(s)
           IN  /\ Fit(t.d)
               /\ s.k.locked => t.k.locked
               /\ t.k.menu_shown = s.k.menu_shown
               /\ ~s.k.locked /\ t.k.locked => Quiet(t.d)
<1>1. CASE s.k.locked \/ apps[KeyguardApp] = NoPid
  BY <1>1 DEF DoLock
<1>2. CASE ~(s.k.locked \/ apps[KeyguardApp] = NoPid)
  <2> DEFINE n == Place(Cover(s.d), apps[KeyguardApp], "Lockscreen")
  <2>1. DoLock(s).d = OnForegroundChanged(n)
    BY <1>2 DEF DoLock, State
  <2>2. Fit(n) /\ VisibleApp(n) = NoPid
    BY <1>2, CoverFit, HideFit
  <2>3. DoLock(s).k.menu_shown = s.k.menu_shown
    BY <1>2 DEF DoLock, State, Kempt, Remembered, Keyguard
  <2> HIDE DEF n
  <2>. QED
    BY <1>2, <2>1, <2>2, <2>3, ReactFit
<1>. QED
  BY <1>1, <1>2

\* Unlocking shows the covered app and leaves the menu's fields alone.
LEMMA UnlockFit ==
    ASSUME Ordinary, IInv, NEW s, Kempt(s), Fit(s.d)
    PROVE  LET t == DoUnlock(s)
           IN  /\ Fit(t.d)
               /\ s.k.locked /\ s.k.saved_fg # NoApp /\ apps[s.k.saved_fg] # NoPid
                    => VisibleApp(t.d) = apps[s.k.saved_fg]
               /\ s.k.locked => t.m = s.m \ {s.k.suppressed}
               /\ ~t.k.locked
               /\ t.k.menu_shown = s.k.menu_shown
               /\ t.k.menu_suppressed = s.k.menu_suppressed
<1>1. CASE ~s.k.locked
  BY <1>1 DEF DoUnlock
<1>2. CASE s.k.locked
  <2> DEFINE h == Hide(s.d, KeyguardApp)
  <2>1. /\ DoUnlock(s).d = Restore(h, s.k.saved_fg)
        /\ DoUnlock(s).m = s.m \ {s.k.suppressed}
    BY <1>2 DEF DoUnlock, State
  <2>2. Fit(h)
    BY HideFit
  <2>3. /\ ~DoUnlock(s).k.locked
        /\ DoUnlock(s).k.menu_shown = s.k.menu_shown
        /\ DoUnlock(s).k.menu_suppressed = s.k.menu_suppressed
    BY <1>2 DEF DoUnlock, State, Kempt, Remembered, Keyguard
  <2>4. s.k.saved_fg \in App \cup {NoApp}
    BY DEF Kempt, Remembered, Keyguard
  <2> HIDE DEF h
  <2>. QED
    BY <1>2, <2>1, <2>2, <2>3, <2>4, RestoreFit
<1>. QED
  BY <1>1, <1>2

\* The menu coming up hides the keyboard, whether or not the system is locked.
LEMMA ShowMenuFit ==
    ASSUME Ordinary, IInv, NEW s, Kempt(s), Fit(s.d)
    PROVE  LET t == DoShowMenu(s)
           IN  /\ Fit(t.d)
               /\ t.k.locked = s.k.locked
               /\ ~s.k.menu_shown /\ t.k.menu_shown => Quiet(t.d)
<1>1. CASE s.k.menu_shown \/ apps[PowermenuApp] = NoPid
  BY <1>1 DEF DoShowMenu
<1>2. CASE ~(s.k.menu_shown \/ apps[PowermenuApp] = NoPid)
  <2> DEFINE covers == s.k.locked /\ apps[KeyguardApp] # NoPid
             below  == IF covers THEN Hide(Cover(s.d), KeyguardApp) ELSE Cover(s.d)
             n == Place(below, apps[PowermenuApp], "Lockscreen")
  <2>1. DoShowMenu(s).d = OnForegroundChanged(n)
    BY <1>2 DEF DoShowMenu, State
  <2>2. Fit(below) /\ VisibleApp(below) = NoPid
    BY CoverFit, HideFit
  <2> HIDE DEF below
  <2>3. Fit(n) /\ VisibleApp(n) = NoPid
    BY <1>2, <2>2, HideFit
  <2>4. DoShowMenu(s).k.locked = s.k.locked
    BY <1>2 DEF DoShowMenu, State, Kempt, Remembered, Keyguard
  <2> HIDE DEF n
  <2>. QED
    BY <1>2, <2>1, <2>3, <2>4, ReactFit
<1>. QED
  BY <1>1, <1>2

\* Leaving the menu neither locks nor unlocks.
LEMMA HideMenuFit ==
    ASSUME Ordinary, IInv, NEW s, Kempt(s), Fit(s.d)
    PROVE  LET t == DoHideMenu(s)
           IN  /\ Fit(t.d)
               /\ t.k.locked = s.k.locked
               /\ ~t.k.menu_shown
<1> DEFINE hidden == Hide(s.d, PowermenuApp)
           relock == IF s.k.menu_covered /\ apps[KeyguardApp] # NoPid
                     THEN Place(hidden, apps[KeyguardApp], "Lockscreen") ELSE hidden
<1>1. Fit(hidden)
  BY HideFit
<1>2. CASE ~s.k.menu_shown
  BY <1>1, <1>2 DEF DoHideMenu, State
<1>3. CASE s.k.menu_shown
  <2>1. DoHideMenu(s).d = Restore(relock, s.k.menu_saved_fg)
    BY <1>3 DEF DoHideMenu, State
  <2>2. DoHideMenu(s).k.locked = s.k.locked /\ ~DoHideMenu(s).k.menu_shown
    BY <1>3 DEF DoHideMenu, State, Kempt, Remembered, Keyguard
  <2> HIDE DEF hidden
  <2>3. Fit(relock)
    BY <1>1, HideFit
  <2> HIDE DEF relock
  <2>4. s.k.menu_saved_fg \in App \cup {NoApp}
    BY DEF Kempt, Remembered, Keyguard
  <2>. QED
    BY <2>1, <2>2, <2>3, <2>4, RestoreFit
<1>. QED
  BY <1>2, <1>3

-----------------------------------------------------------------------------
(* Steps of an ordinary system *)

\* The shape that holds between the verbs.
KFit == Coherent(ds) /\ Served(ds, appOf)

\* Before a verb, the display fits.
LEMMA FitStart ==
    ASSUME KInv, KFit
    PROVE  Fit(ds) /\ Kempt(State(ds, kg, muted)) /\ IInv
BY SoundStart DEF KInv, KFit, IInv, StateOK, Fit, Kempt, State

\* The state a verb leaves behind.
LEMMA VerbOutcome ==
    ASSUME Ordinary, KInv, KFit, NEW t, Fit(t.d), Become(t)
    PROVE  KFit'
BY DEF Become, Processes, KFit, Fit

\* The shell's steps and the exits keep the split in shape and its overlays IMEs.
LEMMA ShellFit ==
    ASSUME Ordinary, KInv, KFit, Next
    PROVE  KFit'
<1>1. Kept(ds, ds') /\ IInv /\ Coherent(ds)
  BY NextKept DEF Ordinary, KInv, KFit
<1>2. \A p \in Surfaces(ds) : appOf'[p] = appOf[p]
  <2>1. UNCHANGED appOf \/ \E a, p : Fork(a, p)
    BY ProcessesStep DEF Next, Die
  <2>2. ASSUME NEW a, NEW p, Fork(a, p), NEW q \in Surfaces(ds)
        PROVE  appOf'[q] = appOf[q]
    <3>1. q # p /\ q \in Pid
      BY <1>1, <2>2, ForkFresh DEF Surfaces
    <3>. QED
      BY <1>1, <2>2, <3>1 DEF Fork, IInv, StateOK
  <2>. QED
    BY <2>1, <2>2
<1>3. ASSUME NEW p \in Pid, p = ds'.ime \/ ds'.role[p] = "Overlay"
      PROVE  appOf'[p] \in ImeApps
  <2>1. NoPid \notin Pid /\ NoSurface # "Overlay"
    BY DEF Pid, NoPid, NoSurface
  <2>2. \/ p = ds.ime \/ ds.role[p] = "Overlay"
        \/ \E a \in ImeApps : p = apps[a]
    BY <1>1, <1>3, <2>1 DEF Kept, OverlaysFrom, WithRole
  <2>3. CASE p = ds.ime \/ ds.role[p] = "Overlay"
    <3>1. p \in Surfaces(ds)
      BY <1>1, <2>1, <2>3 DEF IInv, StateOK, Tracked, Surfaces
    <3>. QED
      BY <1>2, <2>3, <3>1 DEF KFit, Served
  <2>4. ASSUME NEW a \in ImeApps, p = apps[a]
        PROVE  appOf'[p] \in ImeApps
    <3>1. a \in App /\ p \in Surfaces(ds) /\ appOf[p] = a
      BY <1>1, <2>1, <2>4, RoleAppsAssumption DEF IInv, StateOK
    <3>. QED
      BY <1>2, <2>4, <3>1
  <2>. QED
    BY <2>2, <2>3, <2>4
<1>. QED
  BY <1>1, <1>3 DEF KFit, Kept, Served

\* Every step of Keyguard keeps the shape.
LEMMA NextKFit ==
    ASSUME Ordinary, KInv, KFit, [KeyguardNext]_kvars
    PROVE  KFit'
<1> DEFINE s == State(ds, kg, muted)
<1>1. Fit(s.d) /\ Kempt(s) /\ IInv
  BY FitStart DEF State
<1>2. Fit(DoHideMenu(s).d) /\ Kempt(DoHideMenu(s))
  BY <1>1, HideMenuFit, HideMenuKempt
<1>3. /\ Fit(DoLock(s).d) /\ Fit(DoUnlock(s).d) /\ Fit(DoShowMenu(s).d)
      /\ Fit(DoLock(DoHideMenu(s)).d)
  BY <1>1, <1>2, LockFit, UnlockFit, ShowMenuFit
<1>4. CASE Lock \/ Unlock \/ ShowMenu \/ HideMenu \/ PmLock
  BY <1>2, <1>3, <1>4, VerbOutcome DEF Lock, Unlock, ShowMenu, HideMenu, PmLock
<1>5. CASE UNCHANGED kvars
  BY <1>5 DEF kvars, vars, KFit
<1>6. CASE KeyguardNext /\ Next
  BY <1>6, ShellFit
<1>. QED
  BY <1>4, <1>5, <1>6 DEF KeyguardNext, Next, KeyguardDie, KeyguardExit

\* The booted system is in shape: no overlay is up and no IME designated.
LEMMA InitKFit ==
    ASSUME KeyguardInit
    PROVE  KFit
<1>1. home \in App \cup {NoApp} /\ NoApp \notin App /\ NoPid \notin Pid
  BY RoleAppsAssumption DEF KeyguardInit, App, NoApp, Pid, NoPid
<1>2. \A p \in Pid : p \notin App => ds.role[p] = NoSurface
  BY BootDisplay DEF Surfaces
<1>3. \A p \in Pid : ds.role[p] \notin {"Overlay", "OverlayBehind"}
  BY <1>2, BootDisplay DEF NoSurface
<1> DEFINE f == IF home \in App \ (ChromeApps \ ImeApps) THEN home ELSE NoPid
<1>4. f \in Pid \cup {NoPid}
  BY BootDisplay
<1>5. \A p \in Pid : ds.role[p] = "Foreground" <=> p = f
  BY <1>1, <1>2, BootDisplay DEF NoSurface
<1> HIDE DEF f
<1>6. Slots(ds, f, NoPid, NoPid)
  BY <1>1, <1>3, <1>4, <1>5 DEF Slots
<1>7. Neat(ds)
  BY <1>4, <1>6, BootDisplay, SlotsQueries
<1>8. Hosted(ds)
  <2>1. ASSUME NEW p \in App
        PROVE  ds.host[p] = Mechanism(ds.role[p], ds.host[p])
    BY BootDisplay DEF Mechanism
  <2>. QED
    BY <2>1, BootDisplay DEF Hosted, HostedBut
<1>9. Served(ds, appOf)
  BY <1>1, <1>3, BootDisplay DEF Served
<1>. QED
  BY <1>7, <1>8, <1>9 DEF KFit, Coherent

\* The inductive invariant of an ordinary system.
THEOREM OrdinaryInvariant ==
    ASSUME Ordinary
    PROVE  KeyguardSpec => [](KInv /\ KFit)
<1>1. KeyguardInit => KInv /\ KFit
  BY InitKInv, InitKFit
<1>2. KInv /\ KFit /\ [KeyguardNext]_kvars => (KInv /\ KFit)'
  BY NextKInv, NextKFit
<1>. QED
  BY <1>1, <1>2, PTL DEF KeyguardSpec

\* The lock screen and the menu tell every process whose role they change: under
\* them too, each running process was last told the role the model gives it.
THEOREM OverlaysAgree ==
    ASSUME Ordinary
    PROVE  KeyguardSpec => []HostAgrees
<1>1. KFit => HostAgrees
  BY DEF KFit, Coherent, Hosted, HostedBut, HostAgrees, Surfaces, Pid, NoPid
<1>. QED
  BY <1>1, OrdinaryInvariant, PTL

\* What an unlock, and only an unlock, does when it ends the lock.
LEMMA UnlockStep ==
    ASSUME Ordinary, KInv, KFit, [KeyguardNext]_kvars, kg.locked, ~kg'.locked
    PROVE  /\ Unlock
           /\ muted' = muted \ {kg.suppressed}
           /\ kg'.menu_shown = kg.menu_shown /\ kg'.menu_suppressed = kg.menu_suppressed
           /\ kg.saved_fg # NoApp /\ apps[kg.saved_fg] # NoPid
                => VisibleApp(ds') = apps[kg.saved_fg]
<1> DEFINE s == State(ds, kg, muted)
<1>1. /\ Fit(s.d) /\ Kempt(s) /\ IInv
      /\ s.d = ds /\ s.k = kg /\ s.m = muted
  BY FitStart DEF State
<1> HIDE DEF s
<1>2. /\ Fit(DoHideMenu(s).d) /\ Kempt(DoHideMenu(s))
      /\ DoHideMenu(s).k.locked = s.k.locked
  BY <1>1, HideMenuFit, HideMenuKempt
<1>3. /\ DoLock(s).k.locked /\ DoShowMenu(s).k.locked
      /\ DoLock(DoHideMenu(s)).k.locked
  BY <1>1, <1>2, LockFit, ShowMenuFit
<1>4. ~Lock /\ ~ShowMenu /\ ~HideMenu /\ ~PmLock
  BY <1>1, <1>2, <1>3 DEF Lock, ShowMenu, HideMenu, PmLock, Become, s
<1>5. \A p \in Pid : ~KeyguardDie(p) /\ ~KeyguardExit(p)
  BY DEF KeyguardDie, KeyguardExit, KInv, Remembered, Keyguard
<1>6. Unlock
  BY <1>4, <1>5 DEF KeyguardNext, kvars
<1>7. ds' = DoUnlock(s).d /\ kg' = DoUnlock(s).k /\ muted' = DoUnlock(s).m
  BY <1>6 DEF Unlock, Become, s
<1>. QED
  BY <1>1, <1>6, <1>7, UnlockFit

\* Unlocking shows the app that the lock covered, in a role its process was told,
\* and lets it take input unless the menu above it is what it waits for.
THEOREM UnlockShows ==
    ASSUME Ordinary
    PROVE  KeyguardSpec => UnlockRestores
<1> DEFINE a == kg.saved_fg
<1>1. ASSUME KInv, KFit, [KeyguardNext]_kvars,
             kg.locked, ~kg'.locked, a # NoApp, apps[a] # NoPid
      PROVE  /\ VisibleApp(ds') = apps[a]
             /\ apps[a] \in alive => ds'.host[apps[a]] \in {"shown", "behind"}
             /\ apps[a] \in muted' => apps[a] = kg'.menu_suppressed
  <2>1. /\ VisibleApp(ds') = apps[a]
        /\ muted' = muted \ {kg.suppressed}
        /\ kg'.menu_suppressed = kg.menu_suppressed
    BY <1>1, UnlockStep
  <2>2. ds' \in Display /\ Hosted(ds') /\ NoPid \notin Pid
    <3>1. IInv' /\ KFit'
      BY <1>1, NextKInv, NextKFit DEF KInv
    <3>. QED
      BY <3>1 DEF IInv, StateOK, KFit, Coherent, Pid, NoPid
  <2>3. /\ apps[a] \in Surfaces(ds')
        /\ ds'.role[apps[a]] \in {"OverlayBehind", "Foreground"}
    BY <1>1, <2>1, <2>2, VisibleTracked
  <2>4. ds'.host[apps[a]] = Mechanism(ds'.role[apps[a]], ds'.host[apps[a]])
    BY <1>1, <2>2, <2>3 DEF Hosted, HostedBut
  <2>5. ds'.host[apps[a]] \in {"shown", "behind"}
    BY <2>3, <2>4 DEF Mechanism
  <2>6. apps[a] \in muted' => apps[a] = kg'.menu_suppressed
    BY <1>1, <2>1 DEF KInv, Remembered, Ignoring
  <2>. QED
    BY <2>1, <2>5, <2>6
<1>2. KInv /\ KFit /\ [KeyguardNext]_kvars =>
        [(kg.locked /\ ~kg'.locked /\ a # NoApp /\ apps[a] # NoPid) =>
           /\ VisibleApp(ds') = apps[a]
           /\ apps[a] \in alive => ds'.host[apps[a]] \in {"shown", "behind"}
           /\ apps[a] \in muted' => apps[a] = kg'.menu_suppressed]_kvars
  BY <1>1
<1>. QED
  BY <1>2, OrdinaryInvariant, PTL DEF KeyguardSpec, UnlockRestores

\* When the lock screen or the menu comes up, in whatever order, no keyboard is
\* left above it and no editor below it has the input focus.
THEOREM NoKeyboardAbove ==
    ASSUME Ordinary
    PROVE  KeyguardSpec => OverlayHidesKeyboard
<1>1. ASSUME KInv, KFit, [KeyguardNext]_kvars,
             \/ ~kg.locked /\ kg'.locked
             \/ ~kg.menu_shown /\ kg'.menu_shown
      PROVE  Quiet(ds')
  <2> DEFINE s == State(ds, kg, muted)
  <2>1. /\ Fit(s.d) /\ Kempt(s) /\ IInv
        /\ s.d = ds /\ s.k = kg /\ s.m = muted
    BY <1>1, FitStart DEF State
  <2> HIDE DEF s
  <2>2. /\ Fit(DoHideMenu(s).d) /\ Kempt(DoHideMenu(s))
        /\ DoHideMenu(s).k.locked = s.k.locked /\ ~DoHideMenu(s).k.menu_shown
    BY <2>1, HideMenuFit, HideMenuKempt
  <2>3. CASE Lock
    <3>1. ds' = DoLock(s).d /\ kg' = DoLock(s).k
      BY <2>3 DEF Lock, Become, s
    <3>. QED
      BY <1>1, <2>1, <3>1, LockFit
  <2>4. CASE PmLock
    <3>1. ds' = DoLock(DoHideMenu(s)).d /\ kg' = DoLock(DoHideMenu(s)).k
      BY <2>4 DEF PmLock, Become, s
    <3>. QED
      BY <1>1, <2>1, <2>2, <3>1, LockFit
  <2>5. CASE ShowMenu
    <3>1. ds' = DoShowMenu(s).d /\ kg' = DoShowMenu(s).k
      BY <2>5 DEF ShowMenu, Become, s
    <3>. QED
      BY <1>1, <2>1, <3>1, ShowMenuFit
  <2>6. ~Unlock
    <3>1. Unlock => kg' = DoUnlock(s).k
      BY DEF Unlock, Become, s
    <3>. QED
      BY <1>1, <2>1, <3>1, UnlockFit
  <2>7. ~HideMenu
    <3>1. HideMenu => kg' = DoHideMenu(s).k
      BY DEF HideMenu, Become, s
    <3>. QED
      BY <1>1, <2>1, <2>2, <3>1
  <2>8. \A p \in Pid : ~KeyguardDie(p) /\ ~KeyguardExit(p)
    BY <1>1 DEF KeyguardDie, KeyguardExit, KInv, Remembered, Keyguard
  <2>. QED
    BY <1>1, <2>3, <2>4, <2>5, <2>6, <2>7, <2>8 DEF KeyguardNext, kvars
<1>2. KInv /\ KFit /\ [KeyguardNext]_kvars =>
        [(~kg.locked /\ kg'.locked) \/ (~kg.menu_shown /\ kg'.menu_shown) =>
           ~OverlayEngaged(ds') /\ ds'.editor = NoPid]_kvars
  BY <1>1 DEF Quiet
<1>. QED
  BY <1>2, OrdinaryInvariant, PTL DEF KeyguardSpec, OverlayHidesKeyboard
=============================================================================
