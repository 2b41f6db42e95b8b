------------------------------ MODULE Persist ------------------------------
(***************************************************************************)
(* What the arbiter keeps across a crash of its own: the registry, the     *)
(* home designation and the foreground slot, written to a file after every *)
(* handler and read back at the next start. The children are the zygote's, *)
(* so they survive; the display model, the IME and the editor focus do not.*)
(*                                                                         *)
(* A handler of Shell holds the lock until the file is written: it leaves  *)
(* the arbiter in phase "save" (effects done, file not written yet).       *)
(***************************************************************************)
EXTENDS Shell

VARIABLES
    saved,     \* arbiter-state.json: registry, foreground slot and home
    phase,     \* "idle", "save" or "down"
    booted     \* run_daemon has reached its accept loop

pvars == <<vars, saved, phase, booted>>

PersistInit ==
    /\ Init
    /\ saved = [apps |-> [a \in App |-> NoPid], fg |-> NoApp, home |-> NoApp]
    /\ phase = "idle"
    /\ booted = TRUE

\* handle_client, up to the save.
Handler ==
    /\ phase = "idle" /\ booted
    /\ Command
    /\ phase' = "save"
    /\ UNCHANGED <<saved, booted>>

\* A verb that changes nothing (list, an error reply, a failed launch) also
\* ends in a save.
Query ==
    /\ phase = "idle" /\ booted
    /\ phase' = "save"
    /\ UNCHANGED <<vars, saved, booted>>

\* handle_child_exit, up to the save. The death watchers run before the accept
\* loop does.
ExitHandler ==
    /\ phase = "idle"
    /\ \E p \in Pid : HandleChildExit(p)
    /\ phase' = "save"
    /\ UNCHANGED <<saved, booted>>

\* A launch by the alarm timer, which saves nothing.
TimerWake ==
    /\ phase = "idle"
    /\ Wake
    /\ UNCHANGED <<saved, phase, booted>>

ProcessExit ==
    /\ \E p \in Pid : Die(p)
    /\ UNCHANGED <<saved, phase, booted>>

\* Mutant of Snapshot: the slot is saved as a pid.
SnapshotPid == [apps |-> apps, fg |-> ForegroundSlot(ds), home |-> home]

Snapshot == [apps |-> apps, fg |-> SlotApp(ds), home |-> home]

\* Written beside the file and renamed over it: all or nothing.
Save ==
    /\ phase = "save"
    /\ saved' = Snapshot
    /\ phase' = "idle"
    /\ UNCHANGED <<vars, booted>>

SaveFails ==
    /\ phase = "save"
    /\ phase' = "idle"
    /\ UNCHANGED <<vars, saved, booted>>

\* The arbiter's memory is gone; what the processes were told is not.
Crash ==
    /\ phase # "down"
    /\ phase' = "down"
    /\ ds' = [EmptyDisplay EXCEPT !.host = ds.host, !.told = ds.told]
    /\ apps' = [a \in App |-> NoPid]
    /\ home' = NoApp
    /\ booted' = FALSE
    /\ UNCHANGED <<appOf, alive, started, saved>>

-----------------------------------------------------------------------------
(* Start after a crash *)

Survivors(r) == {r[a] : a \in App} \ {NoPid}

\* The registry is a HashMap: its survivors are seeded in any order.
Orders(r) ==
    {rk \in [Pid -> 0 .. MaxPid] :
        /\ \A p \in Pid \ Survivors(r) : rk[p] = 0
        /\ \A p, q \in Survivors(r) : p # q => rk[p] # rk[q]
        /\ \A p \in Survivors(r) :
             rk[p] > 0 => \E q \in Survivors(r) : rk[q] + 1 = rk[p]}

\* Mutant of RestoredApps: no liveness probe.
RestoredBlindly == saved.apps

\* restore_from_json: the saved processes that still run.
RestoredApps ==
    [a \in App |-> IF saved.apps[a] \in alive THEN saved.apps[a] ELSE NoPid]

RestoredFg ==
    IF saved.fg # NoApp /\ RestoredApps[saved.fg] # NoPid THEN saved.fg ELSE NoApp

\* Mutant of Seed: the processes in the background are forgotten.
SeedForegroundOnly(r, fg, rk) ==
    [EmptyDisplay EXCEPT
       !.role = [p \in Pid |-> IF fg # NoApp /\ r[fg] = p THEN "Foreground" ELSE NoSurface],
       !.host = ds.host,
       !.told = ds.told]

\* seed_surface_model: every survivor Background, the saved slot Foreground,
\* and no signal sent.
Seed(r, fg, rk) ==
    [role   |-> [p \in Pid |-> IF fg # NoApp /\ r[fg] = p THEN "Foreground"
                               ELSE IF p \in Survivors(r) THEN "Background"
                               ELSE NoSurface],
     rank   |-> rk,
     next   |-> MaxPid + 1,
     editor |-> NoPid,
     ime    |-> NoPid,
     host   |-> ds.host,
     told   |-> ds.told]

\* run_daemon: restore, seed, start the death watchers and the timer.
Restart ==
    /\ phase = "down"
    /\ apps' = RestoredApps
    /\ home' = saved.home
    /\ \E rk \in Orders(RestoredApps) : ds' = Seed(RestoredApps, RestoredFg, rk)
    /\ phase' = "idle"
    /\ UNCHANGED <<appOf, alive, started, saved, booted>>

\* Mutant of Boot: the arbiter does not boot into home.
BootBare ==
    /\ phase = "idle" /\ ~booted
    /\ booted' = TRUE
    /\ EnsureHomeForeground(ds, apps, NoApp)
    /\ phase' = IF home = NoApp THEN "idle" ELSE "save"
    /\ UNCHANGED <<home, saved>>

\* The last step before the accept loop: boot into home, and save if there is
\* one.
Boot ==
    /\ phase = "idle" /\ ~booted
    /\ booted' = TRUE
    /\ EnsureHomeForeground(ds, apps, home)
    /\ phase' = IF home = NoApp THEN "idle" ELSE "save"
    /\ UNCHANGED <<home, saved>>

PersistNext ==
    \/ Handler
    \/ Query
    \/ ExitHandler
    \/ TimerWake
    \/ ProcessExit
    \/ Save
    \/ SaveFails
    \/ Crash
    \/ Restart
    \/ Boot

PersistSpec == PersistInit /\ [][PersistNext]_pvars

-----------------------------------------------------------------------------
(* Properties *)

\* The same across crashes; the saved slot and home are app ids.
PersistTypeOK ==
    /\ TypeOK
    /\ saved \in [apps : Registry, fg : App \cup {NoApp}, home : App \cup {NoApp}]
    /\ phase \in {"idle", "save", "down"}
    /\ booted \in BOOLEAN

\* What a restart takes from the file can be relied on: every process it
\* registers runs, is registered under the app it was started for, and is the
\* process of no other app.
RestoreSound ==
    [][phase = "down" /\ phase' # "down" =>
         \A a, b \in App : apps'[a] # NoPid =>
             /\ apps'[a] \in alive'
             /\ appOf'[apps'[a]] = a
             /\ apps'[a] = apps'[b] => a = b]_pvars

\* The arbiter boots into home: when the accept loop starts, the designated home
\* app holds the foreground slot and was told to show, unless the file named it
\* already, in which case the boot leaves it as the crash did; and where home
\* could not be started, what was restored stays. This is so whatever was saved
\* and whatever exits and wakes were handled meanwhile.
BootsHome ==
    [][~booted /\ booted' /\ home # NoApp =>
         IF apps'[home] = NoPid THEN ds' = ds
         ELSE /\ SlotApp(ds)' = home
              /\ ds'.host[ForegroundSlot(ds')] = "shown" \/ saved.fg = home]_pvars

\* "Foreground it now (...) so the device comes up to a usable home screen", as
\* the comment at the boot into home has it: a home app that runs is shown.
BootShowsHome ==
    [][~booted /\ booted' /\ home # NoApp /\ apps'[home] \in alive' =>
         ds'.host[ForegroundSlot(ds')] = "shown"]_pvars
=============================================================================
