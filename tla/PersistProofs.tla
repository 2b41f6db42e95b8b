--------------------------- MODULE PersistProofs ---------------------------
(***************************************************************************)
(* The guarantees of Shell survive crashes of the arbiter between a        *)
(* handler's effects and its save, failed saves, processes that die while  *)
(* it is down, and restarts from a stale file.                             *)
(*                                                                         *)
(* The strengthening is about the file: each process it names was started, *)
(* and was started for the app it is saved under.                          *)
(***************************************************************************)
EXTENDS Persist, ShellProofs

\* What the file says of processes is true of the processes ever started.
SavedOK ==
    /\ saved \in [apps : Registry, fg : App \cup {NoApp}, home : App \cup {NoApp}]
    /\ \A a \in App : saved.apps[a] # NoPid =>
           saved.apps[a] \in 1 .. started /\ appOf[saved.apps[a]] = a

\* The inductive invariant of Persist.
PInv ==
    /\ IInv
    /\ SavedOK
    /\ phase \in {"idle", "save", "down"}
    /\ booted \in BOOLEAN

-----------------------------------------------------------------------------
(* The file under the steps of Shell *)

\* A fork gives the next pid to an app and renames no process started before.
LEMMA ForkKeepsSaved ==
    ASSUME IInv, SavedOK, NEW a \in App, NEW p \in Pid, Fork(a, p), UNCHANGED saved
    PROVE  SavedOK'
<1>1. started \in Nat /\ p = started + 1 /\ appOf \in [Pid -> App \cup {NoApp}]
  BY DEF Fork, IInv, StateOK
<1>2. ASSUME NEW b \in App, saved.apps[b] # NoPid
      PROVE  saved.apps[b] \in 1 .. started' /\ appOf'[saved.apps[b]] = b
  <2>1. saved.apps[b] \in 1 .. started /\ appOf[saved.apps[b]] = b
    BY <1>2 DEF SavedOK
  <2>2. saved.apps[b] \in Pid /\ saved.apps[b] # p
    BY <1>1, <2>1, PidNat DEF IInv, StateOK
  <2>. QED
    BY <1>1, <2>1, <2>2 DEF Fork
<1>. QED
  BY <1>2 DEF SavedOK

\* A step that starts no process leaves the file as true as it was.
LEMMA QuietKeepsSaved ==
    ASSUME SavedOK, UNCHANGED <<appOf, started, saved>>
    PROVE  SavedOK'
BY DEF SavedOK

\* ensure_home_foreground forks home at most, so the file stays true.
LEMMA EnsureHomeKeepsSaved ==
    ASSUME IInv, SavedOK, UNCHANGED saved, NEW d, NEW r,
           NEW h \in App \cup {NoApp}, EnsureHomeForeground(d, r, h)
    PROVE  SavedOK'
<1>1. CASE UNCHANGED <<appOf, alive, started>>
  BY <1>1, QuietKeepsSaved
<1>2. CASE h # NoApp /\ \E p \in Pid : Fork(h, p)
  BY <1>2, ForkKeepsSaved
<1>. QED
  BY <1>1, <1>2 DEF EnsureHomeForeground

\* No command, wake or exit of Shell falsifies what the file says.
LEMMA ShellKeepsSaved ==
    ASSUME IInv, SavedOK, UNCHANGED saved,
           Command \/ Wake \/ \E p \in Pid : Die(p) \/ HandleChildExit(p)
    PROVE  SavedOK'
<1>1. CASE UNCHANGED <<appOf, started>>
  BY <1>1, QuietKeepsSaved
<1>2. CASE \E a \in App, p \in Pid : Fork(a, p)
  BY <1>2, ForkKeepsSaved
<1>3. ASSUME NEW d, NEW r, NEW h \in App \cup {NoApp}, EnsureHomeForeground(d, r, h)
      PROVE  SavedOK'
  BY <1>3, EnsureHomeKeepsSaved
<1>4. ASSUME NEW a \in App, AppCommand(a)
      PROVE  SavedOK'
  <2>1. CASE Foreground(a) \/ Kill(a) \/ TaskKill(a) \/ SetIme(a) \/ Overlay(a)
    <3>1. UNCHANGED <<appOf, started>>
      BY <2>1 DEF Foreground, Kill, TaskKill, PruneApp, SetIme, Overlay, Processes
    <3>. QED
      BY <1>1, <3>1
  <2>2. CASE RegisterChrome(a)
    BY <1>2, <2>2 DEF RegisterChrome
  <2>3. CASE SetHome(a)
    BY <1>3, <2>3 DEF SetHome
  <2>4. CASE \E kind \in LaunchKind : Launch(a, kind)
    <3>1. UNCHANGED <<appOf, started>> \/ \E p \in Pid : Fork(a, p)
      BY <2>4 DEF Launch, Processes
    <3>. QED
      BY <1>1, <1>2, <3>1
  <2>. QED
    BY <1>4, <2>1, <2>2, <2>3, <2>4 DEF AppCommand
<1>5. CASE \/ \E p \in Pid : AttachEditor(p) \/ DetachEditor(p) \/ Die(p)
           \/ Back \/ CycleTask \/ ClearIme \/ OverlayClear \/ ClearHome
  <2>1. UNCHANGED <<appOf, started>>
    BY <1>5 DEF AttachEditor, DetachEditor, Die, Back, CycleTask, ClearIme,
                OverlayClear, ClearHome, Processes
  <2>. QED
    BY <1>1, <2>1
<1>6. CASE GoHome
  BY <1>3, <1>6 DEF GoHome, IInv
<1>7. CASE Wake
  BY <1>2, <1>7 DEF Wake, WakeLaunch
<1>8. ASSUME NEW p \in Pid, HandleChildExit(p)
      PROVE  SavedOK'
  <2> DEFINE d == OnSurfaceRemoved(ds, p)
             r == [a \in App |-> IF apps[a] = p THEN NoPid ELSE apps[a]]
             h == IF ForegroundSlot(d) = NoPid THEN home ELSE NoApp
  <2>1. EnsureHomeForeground(d, r, h) /\ h \in App \cup {NoApp}
    BY <1>8 DEF HandleChildExit, IInv
  <2> HIDE DEF d, r, h
  <2>. QED
    BY <1>3, <2>1
<1>. QED
  BY <1>4, <1>5, <1>6, <1>7, <1>8 DEF Command

-----------------------------------------------------------------------------
(* Save, crash and restart *)

\* A save writes the registry, whose entries satisfy the invariant.
LEMMA SaveStep ==
    ASSUME PInv, Save
    PROVE  PInv'
<1>1. IInv' /\ phase' \in {"idle", "save", "down"} /\ booted' \in BOOLEAN
  BY DEF PInv, Save, IInv, vars
<1>2. SlotApp(ds) \in App \cup {NoApp}
  BY VisibleType DEF SlotApp, PInv, IInv, StateOK
<1>3. /\ saved' \in [apps : Registry, fg : App \cup {NoApp}, home : App \cup {NoApp}]
      /\ saved'.apps = apps
  BY <1>2 DEF Save, Snapshot, PInv, IInv, StateOK
<1>4. \A a \in App : apps[a] # NoPid => apps[a] \in 1 .. started /\ appOf[apps[a]] = a
  BY DEF PInv, IInv, StateOK
<1>. QED
  BY <1>1, <1>3, <1>4 DEF PInv, SavedOK, Save, vars

\* A crash leaves the empty display, which points at nothing.
LEMMA CrashStep ==
    ASSUME PInv, Crash
    PROVE  PInv'
<1> DEFINE e == [EmptyDisplay EXCEPT !.host = ds.host]
<1>1. /\ e \in Display /\ e.role = EmptyDisplay.role /\ e.ime = NoPid
      /\ e.editor = NoPid
  BY EmptyDisplayFacts DEF EmptyDisplay, Display, PInv, IInv, StateOK
<1>2. ds' = [e EXCEPT !.told = ds.told]
  BY DEF Crash
<1> HIDE DEF e
<1>3. /\ ds' \in Display /\ ds'.role = e.role /\ ds'.ime = NoPid /\ ds'.editor = NoPid
  BY <1>1, <1>2 DEF Display, PInv, IInv, StateOK
<1>4. \A p \in Pid : ds'.role[p] = NoSurface
  BY <1>1, <1>3 DEF EmptyDisplay
<1>5. Surfaces(ds') = {} /\ Focused(ds') = {}
  BY <1>4 DEF Surfaces, Focused, WithRole, NoSurface
<1>6. StateOK(ds', apps', appOf, started)
  BY <1>3, <1>5 DEF StateOK, Unique, Tracked, Crash, Registry, PInv, IInv
<1>. QED
  BY <1>6, QuietKeepsSaved DEF PInv, IInv, Crash

\* The seeded display is a consistent one.
LEMMA SeedOK ==
    ASSUME PInv, NEW rk \in Orders(RestoredApps)
    PROVE  StateOK(Seed(RestoredApps, RestoredFg, rk), RestoredApps, appOf, started)
<1> DEFINE r == RestoredApps
           fg == RestoredFg
           d == Seed(r, fg, rk)
<1>1. r \in Registry
  BY DEF RestoredApps, PInv, IInv, SavedOK, Registry
<1>2. \A a \in App : r[a] # NoPid => r[a] \in 1 .. started /\ appOf[r[a]] = a
  BY DEF RestoredApps, PInv, SavedOK
<1>3. fg \in App \cup {NoApp} /\ (fg # NoApp => r[fg] # NoPid)
  BY DEF RestoredFg, PInv, SavedOK
<1>4. rk \in [Pid -> Nat] /\ MaxPid + 1 \in Nat
  BY MaxPidAssumption DEF Orders
<1>5. Survivors(r) = {r[a] : a \in App} \ {NoPid}
  BY DEF Survivors
<1> HIDE DEF r, fg
<1>6. d \in Display
  BY <1>4 DEF Seed, Display, Role, PInv, IInv, StateOK
<1>7. /\ d.ime = NoPid /\ d.editor = NoPid
      /\ \A p \in Pid : d.role[p] = IF fg # NoApp /\ r[fg] = p THEN "Foreground"
                                    ELSE IF p \in Survivors(r) THEN "Background"
                                    ELSE NoSurface
  BY DEF Seed
<1> HIDE DEF d
<1>8. Surfaces(d) = Survivors(r) \cap Pid
  BY <1>3, <1>5, <1>7 DEF Surfaces, NoSurface, NoApp
<1>9. Unique(d) /\ Tracked(d)
  BY <1>7 DEF Unique, Focused, WithRole, Tracked, NoSurface
<1>10. Surfaces(d) \subseteq 1 .. started
  BY <1>2, <1>5, <1>8
<1>11. \A a \in App : r[a] # NoPid => r[a] \in Surfaces(d) /\ appOf[r[a]] = a
  BY <1>1, <1>2, <1>5, <1>8 DEF Registry
<1>12. StateOK(d, r, appOf, started)
  BY <1>1, <1>6, <1>9, <1>10, <1>11 DEF StateOK, PInv, IInv
<1>. QED
  BY <1>12 DEF d, r, fg

\* restore_from_json and seed_surface_model rebuild a consistent state.
LEMMA RestartStep ==
    ASSUME PInv, Restart
    PROVE  PInv'
<1>1. PICK rk \in Orders(RestoredApps) : ds' = Seed(RestoredApps, RestoredFg, rk)
  BY DEF Restart
<1>2. StateOK(ds', RestoredApps, appOf, started)
  BY <1>1, SeedOK
<1>3. home' \in App \cup {NoApp}
  BY DEF Restart, PInv, SavedOK
<1>. QED
  BY <1>2, <1>3, QuietKeepsSaved DEF PInv, IInv, Restart

\* The boot into home runs ensure_home_foreground on that state.
LEMMA BootStep ==
    ASSUME PInv, Boot
    PROVE  PInv'
<1>1. EnsureHomeForeground(ds, apps, home) /\ UNCHANGED <<home, saved>>
  BY DEF Boot
<1>2. StateOK(ds', apps', appOf', started') /\ alive' \subseteq Pid
  BY <1>1, EnsureHomeStep DEF PInv, IInv
<1>3. SavedOK'
  BY <1>1, EnsureHomeKeepsSaved DEF PInv, IInv
<1>. QED
  BY <1>1, <1>2, <1>3 DEF PInv, IInv, Boot

\* Every step of the daemon keeps the invariant.
LEMMA PersistStep ==
    ASSUME PInv, [PersistNext]_pvars
    PROVE  PInv'
<1>1. CASE Handler \/ ExitHandler
  <2>1. IInv'
    BY <1>1, CommandStep, ExitStep DEF Handler, ExitHandler, PInv
  <2>2. SavedOK'
    BY <1>1, ShellKeepsSaved DEF Handler, ExitHandler, PInv
  <2>. QED
    BY <1>1, <2>1, <2>2 DEF Handler, ExitHandler, PInv
<1>2. CASE Query
  BY <1>2, QuietKeepsSaved DEF Query, PInv, IInv, vars
<1>3. CASE TimerWake
  <2>1. IInv' /\ SavedOK'
    BY <1>3, WakeStep, ShellKeepsSaved DEF TimerWake, PInv
  <2>. QED
    BY <1>3, <2>1 DEF TimerWake, PInv
<1>4. CASE ProcessExit
  <2>1. IInv' /\ SavedOK'
    BY <1>4, DieStep, ShellKeepsSaved DEF ProcessExit, PInv
  <2>. QED
    BY <1>4, <2>1 DEF ProcessExit, PInv
<1>5. CASE SaveFails
  BY <1>5, QuietKeepsSaved DEF SaveFails, PInv, IInv, vars
<1>6. CASE UNCHANGED pvars
  BY <1>6, QuietKeepsSaved DEF pvars, PInv, IInv, vars
<1>. QED
  BY <1>1, <1>2, <1>3, <1>4, <1>5, <1>6, SaveStep, CrashStep, RestartStep, BootStep
     DEF PersistNext

\* A first start, with no file, satisfies the invariant.
LEMMA PersistInitPInv ==
    ASSUME PersistInit
    PROVE  PInv
<1>1. IInv
  BY InitIInv DEF PersistInit
<1>2. SavedOK
  BY DEF PersistInit, SavedOK, Registry
<1>. QED
  BY <1>1, <1>2 DEF PersistInit, PInv

-----------------------------------------------------------------------------
(* Before the accept loop: no command has come since the restart, so nobody    *)
(* is designated the IME, no editor has the focus and nothing is split.        *)

Plain(d) == Neat(d) /\ ~OverlayEngaged(d) /\ d.ime = NoPid /\ d.editor = NoPid

\* The surface in the slot was told to show, or the file names its app.
SlotSeen ==
    ForegroundSlot(ds) # NoPid =>
        ds.host[ForegroundSlot(ds)] = "shown" \/ saved.fg = SlotApp(ds)

\* Until the boot into home the display is plain, and only the file can have put an
\* app into the slot that was not told to show.
BootInv == PInv /\ (~booted /\ phase # "down" => Plain(ds) /\ SlotSeen)

\* In a plain display the slot is the one Foreground app.
LEMMA PlainShape ==
    ASSUME NEW d \in Display, Neat(d)
    PROVE  /\ Plain(d) <=> Settled(d) /\ d.ime = NoPid /\ d.editor = NoPid
           /\ Plain(d) => ForegroundSlot(d) = VisibleApp(d)
<1>1. PICK f, o, b \in Pid \cup {NoPid} : Slots(d, f, o, b)
  BY DEF Neat
<1>2. /\ OverlayEngaged(d) <=> o # NoPid
      /\ Settled(d) <=> o = OverlayDesired(d)
      /\ VisibleApp(d) = IF b # NoPid THEN b ELSE f
      /\ ForegroundSlot(d) = IF o # NoPid THEN o ELSE f
  BY <1>1, SlotsQueries
<1>3. b # NoPid => o # NoPid
  BY <1>1 DEF Slots
<1>4. d.ime = NoPid => OverlayDesired(d) = NoPid
  BY DEF OverlayDesired
<1>. QED
  BY <1>2, <1>3, <1>4 DEF Plain

\* Nobody asks for the keyboard in a plain display, so bringing an app forward is no
\* more than moving the other one back and placing it, and it is told to show.
LEMMA PromoteShows ==
    ASSUME NEW d \in Display, Tracked(d), Plain(d), NEW p \in Pid
    PROVE  PromoteToForeground(d, p).host[p] = "shown"
<1> DEFINE prev  == FirstWithRole(d, "Foreground")
           back  == Apply(d, prev, "Background")
           alone == IF prev # NoPid /\ prev # p THEN DropEditorFocusOf(back, prev) ELSE d
           n     == Place(alone, p, "Foreground")
<1>1. ~OverlayEngaged(d) /\ d.ime = NoPid /\ d.editor = NoPid
  BY DEF Plain
<1>2. PromoteToForeground(d, p) = OnForegroundChanged(ReconcileOverlay(n))
  BY <1>1 DEF PromoteToForeground
<1>3. /\ alone \in Display /\ alone.ime = NoPid /\ alone.editor = NoPid
      /\ WithRole(alone, "Overlay") = {}
  <2>1. CASE prev # NoPid /\ prev # p
    <3>1. prev \in Pid
      BY <2>1, FirstFound DEF WithRole
    <3>2. /\ Keeps(d, back) /\ back.editor = d.editor
          /\ \A q \in Pid : back.role[q] = "Overlay" => d.role[q] = "Overlay"
      BY <3>1, ApplyFacts DEF Role
    <3> HIDE DEF back
    <3>3. DropEditorFocusOf(back, prev) = back
      BY <1>1, <2>1, <3>2 DEF DropEditorFocusOf
    <3>. QED
      BY <1>1, <2>1, <3>2, <3>3 DEF Keeps, OverlayEngaged, WithRole
  <2>2. CASE ~(prev # NoPid /\ prev # p)
    BY <1>1, <2>2 DEF OverlayEngaged
  <2>. QED
    BY <2>1, <2>2
<1> HIDE DEF alone
<1>4. /\ n \in Display /\ n.ime = NoPid /\ n.editor = NoPid
      /\ ~OverlayEngaged(n)
      /\ n.host[p] = "shown"
  <2>1. n.host[p] = Mechanism("Foreground", alone.host[p])
    BY <1>3, ToldFacts DEF Role
  <2>. QED
    BY <1>3, <2>1, PlaceForeground DEF OverlayEngaged, WithRole, Mechanism
<1> HIDE DEF n
<1>5. ReconcileOverlay(n) = n
  BY <1>4 DEF ReconcileOverlay, OverlayDesired
<1>6. OnForegroundChanged(n) = n
  BY <1>4, <1>5 DEF OnForegroundChanged
<1>. QED
  BY <1>2, <1>4, <1>5, <1>6

\* Bringing an app forward in a plain display puts it into the slot and shows it.
LEMMA PromotePlain ==
    ASSUME NEW d \in Display, Tracked(d), Plain(d), NEW p \in Pid
    PROVE  LET e == PromoteToForeground(d, p)
           IN  Plain(e) /\ ForegroundSlot(e) = p /\ e.host[p] = "shown"
<1> DEFINE e == PromoteToForeground(d, p)
<1>1. /\ Grows(d, e, p) /\ Neat(e) /\ Settled(e) /\ VisibleApp(e) = p
  BY PromoteSlots DEF Plain
<1> HIDE DEF e
<1>2. e \in Display /\ e.ime = NoPid /\ e.editor = NoPid
  BY <1>1 DEF Grows, Plain
<1>3. Plain(e) /\ ForegroundSlot(e) = p
  BY <1>1, <1>2, PlainShape
<1>. QED
  BY <1>3, PromoteShows DEF e

\* A new surface that is hidden leaves a display plain.
LEMMA FreshPlain ==
    ASSUME NEW d \in Display, Tracked(d), Plain(d), NEW p \in Pid \ Surfaces(d),
           NEW r \in {"Background", "Chrome", "Headless"}, NEW e,
           \/ e = PutSurface(d, p, r)
           \/ e = ApplyRole(PutSurface(d, p, r), p, r)
    PROVE  e \in Display /\ Tracked(e) /\ Plain(e)
<1>1. /\ Grows(d, e, p) /\ e.editor = d.editor /\ Neat(e)
      /\ WithRole(e, "Overlay") = WithRole(d, "Overlay")
  BY FreshFacts DEF Plain
<1>. QED
  BY <1>1, GrowsTracked DEF Grows, Plain, OverlayEngaged

\* ensure_home_foreground leaves a plain display plain, with a home app that runs in
\* the slot; it shows what it moves there, and nothing moves if home did not start.
LEMMA EnsureHomePlain ==
    ASSUME NEW d, NEW r, StateOK(d, r, appOf, started), Plain(d),
           NEW h \in App \cup {NoApp}, EnsureHomeForeground(d, r, h)
    PROVE  /\ Plain(ds')
           /\ h # NoApp /\ apps'[h] # NoPid => SlotApp(ds)' = h
           /\ \/ ds' = d /\ UNCHANGED appOf
              \/ ds'.host[ForegroundSlot(ds')] = "shown"
           /\ h # NoApp /\ apps'[h] = NoPid => ds' = d
<1>1. d \in Display /\ Tracked(d) /\ Surfaces(d) \subseteq 1 .. started /\ started \in Nat
      /\ r \in Registry /\ appOf \in [Pid -> App \cup {NoApp}]
  BY MaxPidAssumption DEF StateOK
<1>2. NoPid \notin Pid /\ NoApp \notin App
  BY DEF Pid, NoPid, App, NoApp
<1>3. CASE ds' = d /\ apps' = r /\ UNCHANGED appOf
             /\ (h = NoApp \/ SlotApp(d) = h \/ r[h] = NoPid)
  BY <1>3 DEF SlotApp
<1>4. CASE h # NoApp /\ r[h] # NoPid /\ apps' = r
             /\ ds' = PromoteToForeground(d, r[h]) /\ UNCHANGED appOf
  <2>1. r[h] \in Pid /\ appOf[r[h]] = h
    BY <1>4 DEF StateOK, Surfaces
  <2>2. Plain(ds') /\ ForegroundSlot(ds') = r[h] /\ ds'.host[r[h]] = "shown"
    BY <1>1, <1>4, <2>1, PromotePlain
  <2>. QED
    BY <1>2, <1>4, <2>1, <2>2 DEF SlotApp
<1>5. ASSUME NEW p \in Pid, Fork(h, p), h \in App, apps' = [r EXCEPT ![h] = p],
             ds' = PromoteToForeground(PutSurface(d, p, "Background"), p)
      PROVE  /\ Plain(ds') /\ SlotApp(ds)' = h /\ apps'[h] # NoPid
             /\ ds'.host[ForegroundSlot(ds')] = "shown"
  <2> DEFINE f == PutSurface(d, p, "Background")
  <2>1. p \notin Surfaces(d) /\ appOf'[p] = h
    BY <1>1, <1>5 DEF Fork
  <2>2. f \in Display /\ Tracked(f) /\ Plain(f)
    BY <1>1, <2>1, FreshPlain
  <2> HIDE DEF f
  <2>3. ds' = PromoteToForeground(f, p)
    BY <1>5 DEF f
  <2>4. Plain(ds') /\ ForegroundSlot(ds') = p /\ ds'.host[p] = "shown"
    BY <2>2, <2>3, PromotePlain
  <2>5. apps'[h] = p
    BY <1>1, <1>5 DEF Registry
  <2>. QED
    BY <1>2, <2>1, <2>4, <2>5 DEF SlotApp
<1>6. CASE \E p \in Pid : /\ Fork(h, p) /\ h # NoApp /\ apps' = [r EXCEPT ![h] = p]
                          /\ ds' = PromoteToForeground(PutSurface(d, p, "Background"), p)
  BY <1>5, <1>6
<1>. QED
  BY <1>3, <1>4, <1>6 DEF EnsureHomeForeground

\* An exit before the boot leaves the display plain, also when it brings home.
LEMMA ExitPlain ==
    ASSUME IInv, Plain(ds), SlotSeen, UNCHANGED saved, NEW p \in Pid, HandleChildExit(p)
    PROVE  Plain(ds') /\ SlotSeen'
<1> DEFINE d == OnSurfaceRemoved(ds, p)
           r == [a \in App |-> IF apps[a] = p THEN NoPid ELSE apps[a]]
           h == IF ForegroundSlot(d) = NoPid THEN home ELSE NoApp
<1>1. ds \in Display /\ Tracked(ds) /\ Neat(ds) /\ ds.ime = NoPid /\ ds.editor = NoPid
      /\ Settled(ds) /\ p # NoPid
  BY PlainShape DEF IInv, StateOK, Plain, Pid, NoPid
<1>2. /\ d \in Display /\ Tracked(d) /\ Neat(d) /\ Settled(d)
      /\ d.ime = NoPid /\ d.editor = NoPid /\ Surfaces(d) = Surfaces(ds) \ {p}
  BY <1>1, RemovedSlots
<1>3. EnsureHomeForeground(d, r, h) /\ h \in App \cup {NoApp}
  BY DEF HandleChildExit, IInv
<1>4. r \in Registry
        /\ \A a \in App : r[a] # NoPid => r[a] # p /\ r[a] = apps[a]
  BY DEF IInv, StateOK, Registry
<1>5. Unique(d) /\ Plain(d)
  BY <1>2, PlainShape, SlotsQueries DEF Neat
<1>6. StateOK(d, r, appOf, started)
  BY <1>2, <1>4, <1>5 DEF IInv, StateOK
<1>7. /\ ForegroundSlot(d) # NoPid => /\ ForegroundSlot(d) = ForegroundSlot(ds)
                                      /\ ForegroundSlot(d) \in Pid \ {p}
      /\ \A q \in Pid \ {p} : d.host[q] = ds.host[q]
  <2>1. d = RemoveSurface(ds, p)
    BY DEF OnSurfaceRemoved, Plain
  <2>2. VisibleApp(d) = IF VisibleApp(ds) = p THEN NoPid ELSE VisibleApp(ds)
    BY <1>1, RemovedSlots
  <2> HIDE DEF d
  <2>3. ForegroundSlot(d) \in Pid \cup {NoPid}
    BY <1>2, PlainShape, FirstFound DEF ForegroundSlot, WithRole
  <2>. QED
    BY <1>1, <1>2, <1>5, <2>1, <2>2, <2>3, PlainShape, RemoveFields
<1> HIDE DEF d, r, h
<1>8. /\ Plain(ds')
      /\ \/ ds' = d /\ UNCHANGED appOf
         \/ ds'.host[ForegroundSlot(ds')] = "shown"
  BY <1>3, <1>5, <1>6, EnsureHomePlain
<1>9. SlotSeen'
  BY <1>7, <1>8 DEF SlotSeen, SlotApp
<1>. QED
  BY <1>8, <1>9

\* A wake-up launch before the boot starts hidden.
LEMMA WakePlain ==
    ASSUME IInv, Plain(ds), SlotSeen, UNCHANGED saved, Wake
    PROVE  Plain(ds') /\ SlotSeen'
<1>1. PICK a \in App, kind \in LaunchKind : WakeLaunch(a, kind)
  BY DEF Wake
<1> DEFINE role == IF kind = "Headless" THEN "Headless" ELSE "Background"
<1>2. PICK p \in Pid : Fork(a, p) /\ ds' = ApplyRole(PutSurface(ds, p, role), p, role)
  BY <1>1 DEF WakeLaunch
<1>3. p \in Pid \ Surfaces(ds)
  BY <1>2, ForkFresh
<1>4. /\ ds \in Display /\ Tracked(ds) /\ Neat(ds)
      /\ appOf \in [Pid -> App \cup {NoApp}] /\ role \in {"Background", "Headless"}
  BY DEF IInv, StateOK, Plain
<1> HIDE DEF role
<1>5. Plain(ds')
  BY <1>2, <1>3, <1>4, FreshPlain
<1>6. ds' \in Display /\ Neat(ds') /\ VisibleApp(ds') = VisibleApp(ds)
  BY <1>2, <1>3, <1>4, FreshFacts DEF Grows
<1>7. ForegroundSlot(ds') = ForegroundSlot(ds) /\ ForegroundSlot(ds) = VisibleApp(ds)
  BY <1>4, <1>5, <1>6, PlainShape
<1>8. VisibleApp(ds) # NoPid => VisibleApp(ds) \in Pid \ {p}
  <2>1. WithRole(ds, "Overlay") = {}
    BY DEF Plain, OverlayEngaged
  <2>2. VisibleApp(ds) = FirstWithRole(ds, "Foreground")
    BY <1>7, <2>1 DEF ForegroundSlot
  <2>3. VisibleApp(ds) # NoPid => VisibleApp(ds) \in WithRole(ds, "Foreground")
    BY <1>4, <2>2, FirstFound
  <2>. QED
    BY <1>3, <2>3 DEF WithRole, Surfaces, NoSurface
<1>9. \A q \in Pid \ {p} : ds'.host[q] = ds.host[q] /\ appOf'[q] = appOf[q]
  <2> DEFINE e == PutSurface(ds, p, role)
  <2>1. p \in Pid /\ role \in Role
    BY <1>3, <1>4 DEF Role
  <2>2. e \in Display /\ e.host = ds.host
    BY <1>4, <2>1, PutFacts, RestFacts
  <2> HIDE DEF e
  <2>3. \A q \in Pid \ {p} : ApplyRole(e, p, role).host[q] = e.host[q]
    BY <2>1, <2>2, RestFacts
  <2>4. ds' = ApplyRole(e, p, role)
    BY <1>2 DEF e
  <2>5. appOf' = [appOf EXCEPT ![p] = a]
    BY <1>2 DEF Fork
  <2>. QED
    BY <1>4, <2>2, <2>3, <2>4, <2>5
<1>. QED
  BY <1>5, <1>7, <1>8, <1>9 DEF SlotSeen, SlotApp

\* The seeded display is plain: one survivor is Foreground at most.
LEMMA SeedPlain ==
    ASSUME PInv, NEW rk \in Orders(RestoredApps)
    PROVE  /\ Plain(Seed(RestoredApps, RestoredFg, rk))
           /\ ForegroundSlot(Seed(RestoredApps, RestoredFg, rk)) =
                 IF RestoredFg # NoApp THEN RestoredApps[RestoredFg] ELSE NoPid
<1> DEFINE r == RestoredApps
           fg == RestoredFg
           d == Seed(r, fg, rk)
           f == IF fg # NoApp THEN r[fg] ELSE NoPid
<1>1. r \in Registry
  BY DEF RestoredApps, PInv, IInv, SavedOK, Registry
<1>2. fg \in App \cup {NoApp} /\ (fg # NoApp => r[fg] # NoPid)
  BY DEF RestoredFg, PInv, SavedOK
<1>3. d \in Display
  BY SeedOK DEF StateOK
<1>4. /\ d.ime = NoPid /\ d.editor = NoPid
      /\ \A p \in Pid : d.role[p] = IF fg # NoApp /\ r[fg] = p THEN "Foreground"
                                    ELSE IF p \in Survivors(r) THEN "Background"
                                    ELSE NoSurface
  BY DEF Seed
<1> HIDE DEF d, r, fg
<1>5. f \in Pid \cup {NoPid}
  BY <1>1, <1>2 DEF Registry
<1>6. NoPid \notin Pid
  BY DEF Pid, NoPid
<1>7. Slots(d, f, NoPid, NoPid)
  BY <1>2, <1>4, <1>5, <1>6 DEF Slots, NoSurface
<1>8. Plain(d) /\ ForegroundSlot(d) = f
  BY <1>3, <1>4, <1>5, <1>7, SlotsQueries DEF Plain
<1>. QED
  BY <1>8 DEF d, r, fg

\* The slot of a seeded display holds the app that the file names, if any.
LEMMA SeedSeen ==
    ASSUME PInv, Restart
    PROVE  SlotSeen'
<1>1. PICK rk \in Orders(RestoredApps) : ds' = Seed(RestoredApps, RestoredFg, rk)
  BY DEF Restart
<1>2. ForegroundSlot(ds') = IF RestoredFg # NoApp THEN RestoredApps[RestoredFg] ELSE NoPid
  BY <1>1, SeedPlain
<1>3. RestoredFg # NoApp => /\ RestoredFg = saved.fg /\ RestoredFg \in App
                            /\ RestoredApps[RestoredFg] # NoPid
  BY DEF RestoredFg, PInv, SavedOK
<1>4. \A a \in App : RestoredApps[a] # NoPid => appOf[RestoredApps[a]] = a
  BY DEF RestoredApps, PInv, SavedOK
<1>5. UNCHANGED <<saved, appOf>>
  BY DEF Restart
<1>. QED
  BY <1>2, <1>3, <1>4, <1>5 DEF SlotSeen, SlotApp

\* Exits, wake-up launches, saves and restarts before the boot keep the display plain
\* and the slot seen.
LEMMA BootInvStep ==
    ASSUME BootInv, [PersistNext]_pvars
    PROVE  BootInv'
<1>1. PInv'
  BY PersistStep DEF BootInv
<1>2. SUFFICES ASSUME ~booted', phase' # "down" PROVE Plain(ds') /\ SlotSeen'
  BY <1>1 DEF BootInv
<1>3. CASE UNCHANGED <<ds, booted, saved, appOf>> /\ phase # "down"
  BY <1>2, <1>3 DEF BootInv, SlotSeen, SlotApp
<1>4. CASE Save
  BY <1>2, <1>4 DEF Save, Snapshot, BootInv, SlotSeen, SlotApp, vars
<1>5. CASE ExitHandler
  BY <1>2, <1>5, ExitPlain DEF ExitHandler, BootInv, PInv
<1>6. CASE TimerWake
  BY <1>2, <1>6, WakePlain DEF TimerWake, BootInv, PInv
<1>7. CASE Restart
  BY <1>7, SeedPlain, SeedSeen DEF Restart, BootInv
<1>. QED
  BY <1>2, <1>3, <1>4, <1>5, <1>6, <1>7 DEF PersistNext, pvars, vars, Handler, Query,
     ProcessExit, Die, SaveFails, Crash, Boot

-----------------------------------------------------------------------------
(* Theorems *)

\* The inductive invariant holds in every reachable state, crashes included.
THEOREM PersistInvariant == PersistSpec => []PInv
<1>. QED
  BY PersistInitPInv, PersistStep, PTL DEF PersistSpec

\* Every state across crashes and restarts is well typed.
THEOREM PersistTypes == PersistSpec => []PersistTypeOK
<1>1. PInv => PersistTypeOK
  BY DEF PInv, IInv, StateOK, SavedOK, PersistTypeOK, TypeOK
<1>. QED
  BY <1>1, PersistInvariant, PTL

\* A restart from any file the arbiter can have left, however stale, still
\* registers tracked processes only: reconcile_overlay's expect() never panics.
THEOREM PersistPointersTracked == PersistSpec => []PointersTracked
<1>1. PInv => PointersTracked
  BY DEF PInv, IInv, StateOK, PointersTracked, Tracked
<1>. QED
  BY <1>1, PersistInvariant, PTL

\* The focus slot stays unambiguous across crashes and restarts.
THEOREM PersistSlotUnique == PersistSpec => []SlotUnique
<1>1. PInv => SlotUnique
  BY DEF PInv, IInv, StateOK, SlotUnique, Unique
<1>. QED
  BY <1>1, PersistInvariant, PTL

\* What a restart takes from the file can be relied on: the processes it
\* registers run, under the app they were started for, one app each.
THEOREM PersistRestoreSound == PersistSpec => RestoreSound
<1> DEFINE A == phase = "down" /\ phase' # "down" =>
                  \A a, b \in App : apps'[a] # NoPid =>
                      /\ apps'[a] \in alive'
                      /\ appOf'[apps'[a]] = a
                      /\ apps'[a] = apps'[b] => a = b
<1>1. ASSUME PInv, PInv', [PersistNext]_pvars
      PROVE  [A]_pvars
  <2> SUFFICES ASSUME phase = "down", phase' # "down"
               PROVE  \A a, b \in App : apps'[a] # NoPid =>
                      /\ apps'[a] \in alive'
                      /\ appOf'[apps'[a]] = a
                      /\ apps'[a] = apps'[b] => a = b
    OBVIOUS
  <2>1. Restart
    BY <1>1 DEF PersistNext, pvars, Handler, Query, ExitHandler, TimerWake,
                ProcessExit, Save, SaveFails, Crash, Boot
  <2>2. \A a \in App : apps'[a] # NoPid => appOf'[apps'[a]] = a
    BY <1>1 DEF PInv, IInv, StateOK
  <2>3. apps' = RestoredApps /\ UNCHANGED alive
    BY <2>1 DEF Restart
  <2>4. \A a \in App : RestoredApps[a] # NoPid => RestoredApps[a] \in alive
    BY DEF RestoredApps
  <2>. QED
    BY <2>2, <2>3, <2>4
<1>. QED
  BY <1>1, PersistInvariant, PTL DEF PersistSpec, RestoreSound

\* The arbiter boots into home: when the accept loop starts, a home app that could be
\* started holds the foreground slot, and it was told to show unless the file named it;
\* one that could not be started changes nothing (run_daemon, ensure_home_foreground).
THEOREM PersistBootsHome == PersistSpec => BootsHome
<1> DEFINE A == ~booted /\ booted' /\ home # NoApp =>
                  IF apps'[home] = NoPid THEN ds' = ds
                  ELSE /\ SlotApp(ds)' = home
                       /\ ds'.host[ForegroundSlot(ds')] = "shown" \/ saved.fg = home
<1>1. PersistInit => BootInv
  BY PersistInitPInv DEF BootInv, PersistInit
<1>2. BootInv /\ [PersistNext]_pvars => BootInv'
  BY BootInvStep
<1>3. ASSUME BootInv, [PersistNext]_pvars
      PROVE  [A]_pvars
  <2> SUFFICES ASSUME ~booted, booted', home # NoApp
               PROVE  IF apps'[home] = NoPid THEN ds' = ds
                      ELSE /\ SlotApp(ds)' = home
                           /\ ds'.host[ForegroundSlot(ds')] = "shown" \/ saved.fg = home
    OBVIOUS
  <2>1. Boot
    BY <1>3 DEF PersistNext, pvars, Handler, Query, ExitHandler, TimerWake,
                ProcessExit, Save, SaveFails, Crash, Restart
  <2>2. EnsureHomeForeground(ds, apps, home) /\ Plain(ds) /\ SlotSeen
    BY <1>3, <2>1 DEF Boot, BootInv
  <2>3. StateOK(ds, apps, appOf, started) /\ home \in App \cup {NoApp}
    BY <1>3 DEF BootInv, PInv, IInv
  <2>4. /\ apps'[home] # NoPid => SlotApp(ds)' = home
        /\ \/ ds' = ds /\ UNCHANGED appOf
           \/ ds'.host[ForegroundSlot(ds')] = "shown"
        /\ apps'[home] = NoPid => ds' = ds
    BY <2>2, <2>3, EnsureHomePlain
  <2>5. CASE ds' = ds /\ UNCHANGED appOf
    BY <2>2, <2>4, <2>5 DEF SlotSeen, SlotApp
  <2>. QED
    BY <2>4, <2>5
<1>. QED
  BY <1>1, <1>2, <1>3, PTL DEF PersistSpec, BootsHome
=============================================================================
