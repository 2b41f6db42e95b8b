------------------------------- MODULE Alarm -------------------------------
(***************************************************************************)
(* The alarm manager: the alarms of the store (wandr-arbiter-core), the    *)
(* wandr-arbiter-alarm module that fires them, the timer thread that ticks *)
(* it and the part of the saved state that brings alarms over a restart.   *)
(*                                                                         *)
(* An owner is seen from here as a registry entry and a process that runs  *)
(* or does not. What its surfaces do is in module Shell, and whether its   *)
(* host reads the line it is sent is not modelled. Every handler and every *)
(* tick holds arbiter_lock; a handler saves before it gives the lock back  *)
(* and a tick does not save.                                               *)
(***************************************************************************)
EXTENDS Integers

CONSTANTS
    Owner,      \* the app ids that own alarms
    Id,         \* alarm ids
    Whens,      \* bound: the fire times that are asked for
    Repeats,    \* bound: the periods that are asked for, 0 for a one-shot
    MaxTime,    \* bound: the last wall-clock time of a tick
    I64Max,     \* i64::MAX, the largest number the saved state is read back as
    U64Max,     \* u64::MAX, the largest id, time and period that is parsed
    Faults      \* bound: what may go wrong: "launch" (a relaunch fails),
                \* "young" (an owner dies while one of its alarms is due)

ASSUME TimeAssumption == MaxTime \in Nat /\ I64Max \in Nat /\ U64Max \in Nat
ASSUME WidthAssumption == MaxTime <= U64Max /\ U64Max = 2 * I64Max + 1
ASSUME WhensAssumption == Whens \subseteq 0 .. U64Max
ASSUME RepeatsAssumption == Repeats \subseteq 0 .. U64Max
\* Any u64 is an id; one that is read back as 0 needs 0 among the ids.
ASSUME IdAssumption == Id \subseteq 0 .. U64Max /\ \A i \in Id : i <= I64Max \/ 0 \in Id
ASSUME FaultsAssumption == Faults \subseteq {"launch", "young"}

VARIABLES
    alarms,     \* Store.alarms: (app_id, alarm_id) -> the alarm
    reg,        \* the owners the registry has an entry for
    running,    \* the owners whose process runs
    now,        \* the wall clock, as the last tick read it
    saved,      \* the state file: its alarms, and the owners whose current
                \* process it names
    phase,      \* "idle", "save" or "down"
    last,       \* history: when each alarm fired since it was scheduled or
                \* the arbiter started
    unsaved     \* history: the last save failed

alarmVars == <<alarms, reg, running, now, saved, phase, last, unsaved>>
History == <<last, unsaved>>

Key == Owner \X Id
NoTime == -1
AlarmRecord == [next : 0 .. U64Max, repeat : 0 .. U64Max, pending : BOOLEAN]
AlarmStore == UNION {[S -> AlarmRecord] : S \in SUBSET Key}

AlarmInit ==
    /\ alarms = [k \in {} |-> 0]
    /\ reg = {}
    /\ running = {}
    /\ now = 0
    /\ saved = [alarms |-> alarms, reg |-> {}]
    /\ phase = "idle"
    /\ last = [k \in Key |-> NoTime]
    /\ unsaved = FALSE

-----------------------------------------------------------------------------
(* Verbs, each followed by a save *)

\* schedule-alarm: insert, or replace the alarm of the same key.
Schedule(k, when, repeat) ==
    /\ phase = "idle"
    /\ alarms' = [j \in DOMAIN alarms \cup {k} |->
                    IF j = k THEN [next |-> when, repeat |-> repeat, pending |-> FALSE]
                    ELSE alarms[j]]
    /\ last' = [last EXCEPT ![k] = NoTime]
    /\ phase' = "save"
    /\ UNCHANGED <<reg, running, now, saved, unsaved>>

Cancel(k) ==
    /\ phase = "idle"
    /\ alarms' = [j \in DOMAIN alarms \ {k} |-> alarms[j]]
    /\ phase' = "save"
    /\ UNCHANGED <<reg, running, now, saved, History>>

\* launch by a user.
StartOwner(o) ==
    /\ phase = "idle"
    /\ o \notin reg
    /\ reg' = reg \cup {o}
    /\ running' = running \cup {o}
    /\ saved' = [saved EXCEPT !.reg = @ \ {o}]
    /\ phase' = "save"
    /\ UNCHANGED <<alarms, now, History>>

-----------------------------------------------------------------------------
(* The tick *)

DueAt(k, t) == k \in DOMAIN alarms /\ alarms[k].next <= t

\* The owner is registered: the line is sent and the alarm is done for now.
Fires(k, t) == DueAt(k, t) /\ k[1] \in reg

\* Mutant of Wakes: the pending test is the wrong way round.
WakesPending(k, t) == DueAt(k, t) /\ k[1] \notin reg /\ alarms[k].pending

\* The owner is not registered: it is relaunched, unless that was tried before.
Wakes(k, t) == DueAt(k, t) /\ k[1] \notin reg /\ ~alarms[k].pending

\* The sum of two u64 in a release build, which wraps around (no profile of the
\* workspace asks for overflow-checks; a debug build panics instead).
Wrapped(n) == IF n <= U64Max THEN n ELSE n - (U64Max + 1)

\* Mutant of Ticked: the next fire time counts from the last one, not from the tick.
TickedBurst(k, t) ==
    IF Fires(k, t)
    THEN [alarms[k] EXCEPT !.next = Wrapped(alarms[k].next + alarms[k].repeat),
                           !.pending = FALSE]
    ELSE IF DueAt(k, t) THEN [alarms[k] EXCEPT !.pending = TRUE]
    ELSE alarms[k]

\* The alarm after a tick at time t.
Ticked(k, t) ==
    IF Fires(k, t)
    THEN [alarms[k] EXCEPT !.next = Wrapped(t + alarms[k].repeat), !.pending = FALSE]
    ELSE IF DueAt(k, t) THEN [alarms[k] EXCEPT !.pending = TRUE]
    ELSE alarms[k]

\* A one-shot alarm is dropped when it fires.
Dropped(k, t) == Fires(k, t) /\ alarms[k].repeat = 0

Tick(t) ==
    LET woken == {o \in Owner : \E i \in Id : Wakes(<<o, i>>, t)}
    IN  /\ phase = "idle"
        /\ t >= now
        /\ now' = t
        /\ alarms' = [k \in {j \in DOMAIN alarms : ~Dropped(j, t)} |-> Ticked(k, t)]
        /\ \E up \in SUBSET woken :
             /\ up # woken => "launch" \in Faults
             /\ reg' = reg \cup up
             /\ running' = running \cup up
             /\ saved' = [saved EXCEPT !.reg = @ \ up]
        /\ last' = [k \in Key |-> IF Fires(k, t) THEN t ELSE last[k]]
        /\ UNCHANGED <<phase, unsaved>>

-----------------------------------------------------------------------------
(* Owners' processes *)

OwnerDies(o) ==
    /\ o \in running
    /\ "young" \in Faults \/ \A i \in Id : ~DueAt(<<o, i>>, now)
    /\ running' = running \ {o}
    /\ UNCHANGED <<alarms, reg, now, saved, phase, History>>

\* handle_child_exit, from the zygote's push or from the poller.
OwnerExit(o) ==
    /\ phase = "idle"
    /\ o \in reg \ running
    /\ reg' = reg \ {o}
    /\ phase' = "save"
    /\ UNCHANGED <<alarms, running, now, saved, History>>

-----------------------------------------------------------------------------
(* The saved state *)

SaveAlarms ==
    /\ phase = "save"
    /\ saved' = [alarms |-> alarms, reg |-> reg]
    /\ phase' = "idle"
    /\ unsaved' = FALSE
    /\ UNCHANGED <<alarms, reg, running, now, last>>

SaveAlarmsFails ==
    /\ phase = "save"
    /\ phase' = "idle"
    /\ unsaved' = TRUE
    /\ UNCHANGED <<alarms, reg, running, now, saved, last>>

ArbiterCrash ==
    /\ phase # "down"
    /\ phase' = "down"
    /\ alarms' = [k \in {} |-> 0]
    /\ reg' = {}
    /\ UNCHANGED <<running, now, saved, History>>

\* Mutant of PickInt: the bits of the u64 are taken for an i64.
PickIntSigned(n) == IF n <= I64Max THEN n ELSE n - (U64Max + 1)

\* pick_int: a number that does not fit an i64 reads back as 0.
PickInt(n) == IF n <= I64Max THEN n ELSE 0

\* The key an alarm of key k is restored under: ids beyond i64::MAX become 0.
ReadBack(k) == <<k[1], PickInt(k[2])>>

\* The orders in which a restart can meet the alarms of the file, as far as they
\* matter: of the alarms that read back to one key, upsert_alarm keeps the last.
ReadOrders ==
    {last_of \in [{ReadBack(k) : k \in DOMAIN saved.alarms} -> DOMAIN saved.alarms] :
        \A j \in DOMAIN last_of : ReadBack(last_of[j]) = j}

\* Mutant of RestoredAlarms: repeats are not read back.
RestoredOneShots(from) ==
    [j \in DOMAIN from |-> [next    |-> PickInt(saved.alarms[from[j]].next),
                            repeat  |-> 0,
                            pending |-> FALSE]]

\* parse_alarms and upsert_alarm: pending_deliver is not saved.
RestoredAlarms(from) ==
    [j \in DOMAIN from |-> [next    |-> PickInt(saved.alarms[from[j]].next),
                            repeat  |-> PickInt(saved.alarms[from[j]].repeat),
                            pending |-> FALSE]]

\* restore_from_json: dead owners are dropped, their alarms stay.
ArbiterStart ==
    /\ phase = "down"
    /\ \E from \in ReadOrders : alarms' = RestoredAlarms(from)
    /\ reg' = saved.reg \cap running
    /\ phase' = "idle"
    /\ last' = [k \in Key |-> NoTime]
    /\ UNCHANGED <<running, now, saved, unsaved>>

-----------------------------------------------------------------------------

AlarmNext ==
    \/ \E k \in Key, when \in Whens, repeat \in Repeats : Schedule(k, when, repeat)
    \/ \E k \in Key : Cancel(k)
    \/ \E o \in Owner : StartOwner(o) \/ OwnerDies(o) \/ OwnerExit(o)
    \/ \E t \in 0 .. MaxTime : Tick(t)
    \/ SaveAlarms
    \/ SaveAlarmsFails
    \/ ArbiterCrash
    \/ ArbiterStart

\* The timer thread never ends and gets arbiter_lock again and again, however
\* many handlers compete for it (strong fairness), and a handler reaches the end
\* of its save. Nothing is assumed about users, owners, clocks or crashes.
AlarmFairness ==
    /\ SF_alarmVars(\E t \in 0 .. MaxTime : Tick(t))
    /\ WF_alarmVars(SaveAlarms \/ SaveAlarmsFails)

AlarmSpec == AlarmInit /\ [][AlarmNext]_alarmVars /\ AlarmFairness

-----------------------------------------------------------------------------
(* Properties *)

\* Alarms, as kept and as read back from the file, hold u64 times.
AlarmTypeOK ==
    /\ alarms \in AlarmStore
    /\ reg \subseteq Owner
    /\ running \subseteq Owner
    /\ now \in 0 .. MaxTime
    /\ saved \in [alarms : AlarmStore, reg : SUBSET Owner]
    /\ phase \in {"idle", "save", "down"}
    /\ last \in [Key -> 0 .. MaxTime \cup {NoTime}]
    /\ unsaved \in BOOLEAN

\* Tick(t) fires k again too soon: a one-shot twice, or less than its period
\* after the last time.
Hurried(k, t) ==
    /\ Tick(t) /\ Fires(k, t) /\ last[k] # NoTime
    /\ alarms[k].repeat = 0 \/ t < last[k] + alarms[k].repeat

\* No burst catch-up, no double fire: until it is scheduled again or the
\* arbiter restarts, a one-shot fires once and a repeating alarm fires no
\* sooner than its period after the last time, however late the ticks are,
\* unless the sum of the two is beyond u64::MAX.
PeriodKept ==
    [][\A k \in Key, t \in 0 .. MaxTime :
         Hurried(k, t) => /\ alarms[k].repeat > 0
                          /\ last[k] + alarms[k].repeat > U64Max]_alarmVars

\* No other alarm of the file reads back to the key of k.
Alone(k) == \A j \in DOMAIN saved.alarms : ReadBack(j) = ReadBack(k) => j = k

\* The restored store s has alarm k, due no later; one that a tick has moved past
\* u64::MAX in memory was due before.
Keeps(s, k) ==
    /\ k \in DOMAIN s
    /\ s[k].next <= alarms[k].next \/ s[k].next <= now

\* A crash between any two steps loses no alarm and delays none: while no save
\* failed, whatever a restart makes of the file has every alarm of the store
\* whose id fits an i64 and whose key no wider id reads back to. It has the same
\* period, or none at all if that is beyond i64::MAX.
CrashLosesNothing ==
    phase = "idle" /\ ~unsaved =>
        \A k \in DOMAIN alarms, from \in ReadOrders :
            k[2] <= I64Max /\ Alone(k) =>
                /\ Keeps(RestoredAlarms(from), k)
                /\ RestoredAlarms(from)[k].repeat =
                       IF alarms[k].repeat <= I64Max THEN alarms[k].repeat ELSE 0

\* A due alarm does not stay due: its owner is told, after a relaunch if it is
\* not running. One whose next time wraps around is due again at once, and fires
\* at every tick.
DueFires == \A k \in Key : DueAt(k, now) ~> ~DueAt(k, now) \/ last[k] = now
=============================================================================
