---------------------------- MODULE AlarmProofs ----------------------------
(***************************************************************************)
(* Safety of Alarm for every set of owners, ids, fire times and periods,   *)
(* and for every width of the integers.                                    *)
(*                                                                         *)
(* PeriodKept is about two ticks that may lie far apart, so the invariant  *)
(* says what the store remembers of the first one: the alarm of a key that *)
(* fired repeats, and is due exactly one period after it did, as far as    *)
(* the sum is a u64. CrashLosesNothing is inductive as it stands: a save   *)
(* makes the file what is in memory, a tick moves an alarm later or was at *)
(* least as late as its file says, and a restart reads the same file.      *)
(***************************************************************************)
EXTENDS Alarm, TLAPS

\* What the store remembers of the last time an alarm fired.
NextKept ==
    \A k \in DOMAIN alarms :
        last[k] # NoTime => /\ alarms[k].repeat > 0
                            /\ alarms[k].next = Wrapped(last[k] + alarms[k].repeat)

\* The inductive invariant of Alarm.
AlarmInv == AlarmTypeOK /\ NextKept /\ CrashLosesNothing

-----------------------------------------------------------------------------
(* Stores and integers *)

\* A store is a function from keys to alarms.
LEMMA StoreShape ==
    /\ \A s \in AlarmStore :
         /\ DOMAIN s \subseteq Key
         /\ \A k \in DOMAIN s : s[k] \in AlarmRecord
    /\ \A S \in SUBSET Key : [S -> AlarmRecord] \subseteq AlarmStore
BY DEF AlarmStore

\* What the tick writes into an alarm.
LEMMA RecordUpdates ==
    ASSUME NEW a \in AlarmRecord, NEW n \in 0 .. U64Max
    PROVE  /\ [a EXCEPT !.next = n, !.pending = FALSE] \in AlarmRecord
           /\ [a EXCEPT !.next = n, !.pending = FALSE].next = n
           /\ [a EXCEPT !.next = n, !.pending = FALSE].repeat = a.repeat
           /\ [a EXCEPT !.pending = TRUE] \in AlarmRecord
           /\ [a EXCEPT !.pending = TRUE].next = a.next
           /\ [a EXCEPT !.pending = TRUE].repeat = a.repeat
<1>1. [a EXCEPT !.next = n] \in AlarmRecord
  BY DEF AlarmRecord
<1>. QED
  BY <1>1 DEF AlarmRecord

\* The bounds are numbers of the right sizes.
LEMMA Widths ==
    /\ MaxTime \in Nat /\ I64Max \in Nat /\ U64Max \in Nat
    /\ 0 .. MaxTime \subseteq 0 .. U64Max /\ 0 .. I64Max \subseteq 0 .. U64Max
<1>1. MaxTime \in Nat /\ I64Max \in Nat /\ U64Max \in Nat
  BY TimeAssumption
<1>. QED
  BY <1>1, WidthAssumption

\* The sum of two u64 is a u64, and the sum itself unless it is beyond u64::MAX.
LEMMA Sums ==
    \A m, n \in 0 .. U64Max : /\ Wrapped(m + n) \in 0 .. U64Max
                              /\ m + n <= U64Max => Wrapped(m + n) = m + n
BY Widths DEF Wrapped

\* What a u64 reads back as: an i64, no larger, itself if it was an i64 and 0 if not.
LEMMA Picks ==
    /\ \A n \in 0 .. U64Max : /\ PickInt(n) \in 0 .. I64Max /\ PickInt(n) <= n
                              /\ PickInt(n) = IF n <= I64Max THEN n ELSE 0
    /\ \A n \in 0 .. I64Max : PickInt(n) = n
BY Widths DEF PickInt

\* A key reads back as a key, and as itself if its id is an i64.
LEMMA KeysReadBack ==
    ASSUME NEW k \in Key
    PROVE  /\ ReadBack(k) \in Key
           /\ k[2] <= I64Max => ReadBack(k) = k
<1>1. PICK o \in Owner, i \in Id : k = <<o, i>>
  BY DEF Key
<1>2. i \in 0 .. U64Max
  BY IdAssumption
<1>3. PickInt(i) \in Id /\ (i <= I64Max => PickInt(i) = i)
  BY <1>2, Picks, IdAssumption
<1>4. ReadBack(k) = <<o, PickInt(i)>>
  BY <1>1 DEF ReadBack
<1>. QED
  BY <1>1, <1>3, <1>4 DEF Key

\* The empty store.
LEMMA EmptyStore == [k \in {} |-> 0] \in AlarmStore
<1>1. [k \in {} |-> 0] \in [{} -> AlarmRecord]
  OBVIOUS
<1>. QED
  BY <1>1, StoreShape

\* What a restart reads back from the file, in whatever order: a store.
LEMMA RestoredShape ==
    ASSUME AlarmTypeOK, NEW from \in ReadOrders
    PROVE  /\ RestoredAlarms(from) \in AlarmStore
           /\ DOMAIN RestoredAlarms(from) = {ReadBack(k) : k \in DOMAIN saved.alarms}
           /\ \A j \in DOMAIN from : /\ from[j] \in DOMAIN saved.alarms
                                     /\ ReadBack(from[j]) = j
<1> DEFINE D == {ReadBack(k) : k \in DOMAIN saved.alarms}
<1>1. saved.alarms \in AlarmStore
  BY DEF AlarmTypeOK
<1>2. DOMAIN saved.alarms \subseteq Key /\ \A k \in DOMAIN saved.alarms : saved.alarms[k] \in AlarmRecord
  BY <1>1, StoreShape
<1>3. from \in [D -> DOMAIN saved.alarms] /\ \A j \in DOMAIN from : ReadBack(from[j]) = j
  BY DEF ReadOrders
<1>4. D \subseteq Key
  BY <1>2, KeysReadBack
<1>5. \A j \in D : [next    |-> PickInt(saved.alarms[from[j]].next),
                   repeat  |-> PickInt(saved.alarms[from[j]].repeat),
                   pending |-> FALSE] \in AlarmRecord
  <2>1. SUFFICES ASSUME NEW j \in D
                 PROVE  /\ PickInt(saved.alarms[from[j]].next) \in 0 .. U64Max
                        /\ PickInt(saved.alarms[from[j]].repeat) \in 0 .. U64Max
    BY DEF AlarmRecord
  <2>2. saved.alarms[from[j]] \in AlarmRecord
    BY <1>2, <1>3
  <2>. QED
    BY <2>2, Picks, Widths DEF AlarmRecord
<1>6. RestoredAlarms(from) \in [D -> AlarmRecord]
  BY <1>3, <1>5 DEF RestoredAlarms
<1>. QED
  BY <1>3, <1>4, <1>6, StoreShape

\* An alarm with an i64 for its id that reads back alone is read back under its key.
LEMMA AloneReadsBack ==
    ASSUME AlarmTypeOK, NEW from \in ReadOrders, NEW k \in Key,
           k[2] <= I64Max, Alone(k),
           k \in DOMAIN saved.alarms \/ k \in DOMAIN from
    PROVE  k \in DOMAIN from /\ from[k] = k
<1>1. ReadBack(k) = k
  BY KeysReadBack
<1>2. k \in DOMAIN from
  BY <1>1 DEF ReadOrders
<1>3. from[k] \in DOMAIN saved.alarms /\ ReadBack(from[k]) = k
  BY <1>2 DEF ReadOrders
<1>. QED
  BY <1>1, <1>2, <1>3 DEF Alone

-----------------------------------------------------------------------------
(* Verbs, owners and the saved state *)

\* The same store, history and file keep every part of the invariant, and so does
\* a save that is still to be made.
LEMMA SameStore ==
    ASSUME AlarmInv, UNCHANGED <<alarms, now, last>>,
           reg' \subseteq Owner, running' \subseteq Owner,
           saved' \in [alarms : AlarmStore, reg : SUBSET Owner], saved'.alarms = saved.alarms,
           \/ phase' \in {"save", "down"} /\ unsaved' \in BOOLEAN
           \/ phase' \in {"idle", "save"} /\ unsaved' = TRUE
           \/ phase' = phase /\ unsaved' = unsaved
    PROVE  AlarmInv'
<1>1. AlarmTypeOK'
  BY DEF AlarmInv, AlarmTypeOK
<1>2. NextKept'
  BY DEF AlarmInv, NextKept
<1>3. CrashLosesNothing'
  BY DEF AlarmInv, CrashLosesNothing, ReadOrders, RestoredAlarms, Alone, Keeps
<1>. QED
  BY <1>1, <1>2, <1>3 DEF AlarmInv

\* A scheduled alarm has not fired yet.
LEMMA ScheduleStep ==
    ASSUME AlarmInv, NEW k \in Key, NEW when \in Whens, NEW repeat \in Repeats,
           Schedule(k, when, repeat)
    PROVE  AlarmInv'
<1> DEFINE new == [next |-> when, repeat |-> repeat, pending |-> FALSE]
<1>1. new \in AlarmRecord
  BY WhensAssumption, RepeatsAssumption DEF AlarmRecord
<1>2. DOMAIN alarms \subseteq Key /\ \A j \in DOMAIN alarms : alarms[j] \in AlarmRecord
  BY StoreShape DEF AlarmInv, AlarmTypeOK
<1>3. alarms' \in [DOMAIN alarms \cup {k} -> AlarmRecord]
  BY <1>1, <1>2 DEF Schedule
<1>4. alarms' \in AlarmStore
  BY <1>2, <1>3, StoreShape
<1>5. last' \in [Key -> 0 .. MaxTime \cup {NoTime}] /\ last'[k] = NoTime
      /\ \A j \in Key \ {k} : last'[j] = last[j]
  BY DEF Schedule, AlarmInv, AlarmTypeOK
<1>6. \A j \in DOMAIN alarms' : j # k => j \in DOMAIN alarms /\ alarms'[j] = alarms[j]
  BY DEF Schedule
<1>7. NextKept'
  BY <1>2, <1>3, <1>5, <1>6 DEF NextKept, AlarmInv
<1>. QED
  BY <1>4, <1>5, <1>7 DEF AlarmInv, AlarmTypeOK, CrashLosesNothing, Schedule

\* A cancelled alarm is in the store no more.
LEMMA CancelStep ==
    ASSUME AlarmInv, NEW k \in Key, Cancel(k)
    PROVE  AlarmInv'
<1>1. DOMAIN alarms \subseteq Key /\ \A j \in DOMAIN alarms : alarms[j] \in AlarmRecord
  BY StoreShape DEF AlarmInv, AlarmTypeOK
<1>2. alarms' \in [DOMAIN alarms \ {k} -> AlarmRecord]
  BY <1>1 DEF Cancel
<1>3. alarms' \in AlarmStore
  BY <1>1, <1>2, StoreShape
<1>4. NextKept'
  BY DEF NextKept, AlarmInv, Cancel, History
<1>. QED
  BY <1>3, <1>4 DEF AlarmInv, AlarmTypeOK, CrashLosesNothing, Cancel, History

\* Owners come and go without touching an alarm.
LEMMA OwnerStep ==
    ASSUME AlarmInv, NEW o \in Owner, StartOwner(o) \/ OwnerDies(o) \/ OwnerExit(o)
    PROVE  AlarmInv'
<1>1. /\ reg \subseteq Owner /\ running \subseteq Owner /\ saved \in [alarms : AlarmStore, reg : SUBSET Owner]
      /\ unsaved \in BOOLEAN
  BY DEF AlarmInv, AlarmTypeOK
<1>2. CASE StartOwner(o)
  <2>1. saved'.alarms = saved.alarms /\ saved' \in [alarms : AlarmStore, reg : SUBSET Owner]
    BY <1>1, <1>2 DEF StartOwner
  <2>. QED
    BY <1>1, <1>2, <2>1, SameStore DEF StartOwner, History
<1>3. CASE OwnerDies(o)
  BY <1>1, <1>3, SameStore DEF OwnerDies, History
<1>4. CASE OwnerExit(o)
  BY <1>1, <1>4, SameStore DEF OwnerExit, History
<1>. QED
  BY <1>2, <1>3, <1>4

\* A save makes the file read back as the store.
LEMMA SaveStep ==
    ASSUME AlarmInv, SaveAlarms
    PROVE  AlarmInv'
<1>1. saved'.alarms = alarms /\ saved'.reg = reg /\ UNCHANGED <<alarms, reg, running, now, last>>
  BY DEF SaveAlarms
<1>2. AlarmTypeOK' /\ NextKept'
  BY <1>1 DEF AlarmInv, AlarmTypeOK, NextKept, SaveAlarms
<1>3. CrashLosesNothing'
  <2>1. SUFFICES ASSUME NEW k \in DOMAIN alarms', NEW from \in ReadOrders',
                        k[2] <= I64Max, Alone(k)'
                 PROVE  /\ Keeps(RestoredAlarms(from), k)'
                        /\ RestoredAlarms(from)[k].repeat' =
                              IF alarms[k].repeat' <= I64Max THEN alarms[k].repeat' ELSE 0
    BY DEF CrashLosesNothing
  <2>2. k \in DOMAIN alarms /\ k \in Key /\ alarms[k] \in AlarmRecord
    BY <1>1, StoreShape DEF AlarmInv, AlarmTypeOK
  <2>3. k \in DOMAIN from /\ from[k] = k
    <3>1. ReadBack(k) = k
      BY <2>1, <2>2, KeysReadBack
    <3>2. k \in DOMAIN from /\ from[k] \in DOMAIN alarms /\ ReadBack(from[k]) = k
      BY <1>1, <2>1, <2>2, <3>1 DEF ReadOrders
    <3>. QED
      BY <1>1, <2>1, <3>1, <3>2 DEF Alone
  <2>4. /\ k \in DOMAIN RestoredAlarms(from)'
        /\ RestoredAlarms(from)[k].next' = PickInt(alarms[k].next)
        /\ RestoredAlarms(from)[k].repeat' = PickInt(alarms[k].repeat)
    BY <1>1, <2>3 DEF RestoredAlarms
  <2>5. alarms[k].next \in 0 .. U64Max /\ alarms[k].repeat \in 0 .. U64Max
    BY <2>2 DEF AlarmRecord
  <2>. QED
    BY <1>1, <2>4, <2>5, Picks DEF Keeps
<1>. QED
  BY <1>2, <1>3 DEF AlarmInv

\* A restart takes the store from the file, and nothing has fired yet.
LEMMA StartStep ==
    ASSUME AlarmInv, ArbiterStart
    PROVE  AlarmInv'
<1>1. PICK order \in ReadOrders : alarms' = RestoredAlarms(order)
  BY DEF ArbiterStart
<1>2. saved' = saved /\ now' = now /\ last' = [k \in Key |-> NoTime]
  BY DEF ArbiterStart
<1>3. alarms' \in AlarmStore
  BY <1>1, RestoredShape DEF AlarmInv
<1>4. AlarmTypeOK'
  <2>1. last' \in [Key -> 0 .. MaxTime \cup {NoTime}]
    BY <1>2
  <2>. QED
    BY <1>2, <1>3, <2>1 DEF AlarmInv, AlarmTypeOK, ArbiterStart
<1>5. NextKept'
  BY <1>2, <1>3, StoreShape DEF NextKept
<1>6. CrashLosesNothing'
  <2>1. SUFFICES ASSUME NEW k \in DOMAIN alarms', NEW from \in ReadOrders,
                        k[2] <= I64Max, Alone(k)
                 PROVE  /\ Keeps(RestoredAlarms(from), k)'
                        /\ RestoredAlarms(from)[k].repeat =
                              IF alarms'[k].repeat <= I64Max THEN alarms'[k].repeat ELSE 0
    BY <1>2 DEF CrashLosesNothing, ReadOrders, RestoredAlarms, Alone
  <2>2. k \in Key /\ alarms'[k] \in AlarmRecord /\ k \in DOMAIN order
    BY <1>1, <1>3, StoreShape DEF RestoredAlarms
  <2>3. k \in DOMAIN order /\ order[k] = k
    BY <2>1, <2>2, AloneReadsBack DEF AlarmInv
  <2>4. DOMAIN from = DOMAIN order
    BY DEF ReadOrders
  <2>5. k \in DOMAIN from /\ from[k] = k
    BY <2>1, <2>2, <2>3, <2>4, AloneReadsBack DEF AlarmInv
  <2>6. k \in DOMAIN RestoredAlarms(from) /\ RestoredAlarms(from)[k] = alarms'[k]
    BY <1>1, <2>3, <2>5 DEF RestoredAlarms
  <2>7. alarms'[k].next \in 0 .. U64Max /\ alarms'[k].repeat \in 0 .. I64Max
    <3>1. /\ saved.alarms[k] \in AlarmRecord
          /\ alarms'[k].repeat = PickInt(saved.alarms[k].repeat)
      BY <1>1, <2>3, RestoredShape, StoreShape DEF RestoredAlarms, AlarmInv, AlarmTypeOK
    <3>. QED
      BY <2>2, <3>1, Picks DEF AlarmRecord
  <2>8. RestoredAlarms(from)' = RestoredAlarms(from)
    BY <1>2 DEF RestoredAlarms
  <2>. QED
    BY <2>6, <2>7, <2>8, Widths DEF Keeps
<1>. QED
  BY <1>4, <1>5, <1>6 DEF AlarmInv

\* A crash leaves an empty store, which promises nothing.
LEMMA CrashStep ==
    ASSUME AlarmInv, ArbiterCrash
    PROVE  AlarmInv'
BY EmptyStore DEF AlarmInv, AlarmTypeOK, NextKept, CrashLosesNothing, ArbiterCrash, History

-----------------------------------------------------------------------------
(* The tick *)

\* A tick keeps the period of an alarm; one that fires was due and is due again a
\* period after the tick, and the others stay as they are due.
LEMMA TickedFacts ==
    ASSUME AlarmTypeOK, NEW t \in 0 .. MaxTime, NEW k \in DOMAIN alarms
    PROVE  /\ Ticked(k, t) \in AlarmRecord
           /\ Ticked(k, t).repeat = alarms[k].repeat
           /\ Fires(k, t) => /\ Ticked(k, t).next = Wrapped(t + alarms[k].repeat)
                             /\ alarms[k].next <= t
           /\ ~Fires(k, t) => Ticked(k, t).next = alarms[k].next
<1>1. alarms[k] \in AlarmRecord
  BY StoreShape DEF AlarmTypeOK
<1>2. alarms[k].next \in 0 .. U64Max /\ alarms[k].repeat \in 0 .. U64Max
  BY <1>1 DEF AlarmRecord
<1>3. t \in 0 .. U64Max
  BY Widths
<1>4. Wrapped(t + alarms[k].repeat) \in 0 .. U64Max
  BY <1>2, <1>3, Sums
<1>5. CASE Fires(k, t)
  <2>1. alarms[k].next <= t
    BY <1>5 DEF Fires, DueAt
  <2> DEFINE u == [alarms[k] EXCEPT !.next = Wrapped(t + alarms[k].repeat), !.pending = FALSE]
  <2>2. u \in AlarmRecord /\ u.next = Wrapped(t + alarms[k].repeat) /\ u.repeat = alarms[k].repeat
    BY <1>1, <1>4, RecordUpdates
  <2>3. Ticked(k, t) = u
    BY <1>5 DEF Ticked
  <2> HIDE DEF u
  <2>. QED
    BY <1>5, <2>1, <2>2, <2>3
<1>6. CASE ~Fires(k, t)
  <2> DEFINE u == [alarms[k] EXCEPT !.pending = TRUE]
  <2>1. u \in AlarmRecord /\ u.next = alarms[k].next /\ u.repeat = alarms[k].repeat
    BY <1>1, <1>4, RecordUpdates
  <2>2. Ticked(k, t) = u \/ Ticked(k, t) = alarms[k]
    BY <1>6 DEF Ticked
  <2> HIDE DEF u
  <2>. QED
    BY <1>1, <1>6, <2>1, <2>2
<1>. QED
  BY <1>5, <1>6

\* Firing drops a one-shot and moves a repeating alarm on.
LEMMA TickStep ==
    ASSUME AlarmInv, NEW t \in 0 .. MaxTime, Tick(t)
    PROVE  AlarmInv'
<1> DEFINE K == {j \in DOMAIN alarms : ~Dropped(j, t)}
<1>1. /\ alarms' = [k \in K |-> Ticked(k, t)]
      /\ last' = [k \in Key |-> IF Fires(k, t) THEN t ELSE last[k]]
      /\ now' = t /\ t >= now /\ phase = "idle" /\ phase' = phase /\ unsaved' = unsaved
  BY DEF Tick
<1>2. DOMAIN alarms \subseteq Key /\ \A k \in DOMAIN alarms : alarms[k] \in AlarmRecord
  BY StoreShape DEF AlarmInv, AlarmTypeOK
<1>3. reg' \subseteq Owner /\ running' \subseteq Owner
      /\ saved'.alarms = saved.alarms /\ saved' \in [alarms : AlarmStore, reg : SUBSET Owner]
  <2>1. PICK up \in SUBSET Owner : /\ reg' = reg \cup up
                                   /\ running' = running \cup up
                                   /\ saved' = [saved EXCEPT !.reg = @ \ up]
    BY DEF Tick
  <2>. QED
    BY <2>1 DEF AlarmInv, AlarmTypeOK
<1>4. \A k \in K : /\ k \in DOMAIN alarms /\ k \in Key
                   /\ alarms'[k] = Ticked(k, t)
                   /\ alarms'[k] \in AlarmRecord
                   /\ alarms'[k].repeat = alarms[k].repeat
                   /\ Fires(k, t) => /\ alarms'[k].next = Wrapped(t + alarms[k].repeat)
                                     /\ alarms[k].next <= t
                   /\ ~Fires(k, t) => alarms'[k].next = alarms[k].next
                   /\ last'[k] = IF Fires(k, t) THEN t ELSE last[k]
  BY <1>1, <1>2, TickedFacts DEF AlarmInv
<1>5. alarms' \in AlarmStore
  <2>1. alarms' \in [K -> AlarmRecord]
    BY <1>1, <1>4
  <2>. QED
    BY <1>2, <2>1, StoreShape
<1>6. AlarmTypeOK'
  <2>1. last' \in [Key -> 0 .. MaxTime \cup {NoTime}]
    BY <1>1 DEF AlarmInv, AlarmTypeOK
  <2>. QED
    BY <1>1, <1>3, <1>5, <2>1 DEF AlarmInv, AlarmTypeOK
<1>7. NextKept'
  <2>1. SUFFICES ASSUME NEW k \in K, last'[k] # NoTime
                 PROVE  /\ alarms'[k].repeat > 0
                        /\ alarms'[k].next = Wrapped(last'[k] + alarms'[k].repeat)
    BY <1>1 DEF NextKept
  <2>2. CASE Fires(k, t)
    <3>1. alarms[k].repeat \in Nat /\ alarms[k].repeat # 0
      BY <1>2, <2>2, Widths DEF Dropped, AlarmRecord
    <3>. QED
      BY <1>4, <2>2, <3>1
  <2>3. CASE ~Fires(k, t)
    BY <1>4, <2>1, <2>3 DEF AlarmInv, NextKept
  <2>. QED
    BY <2>2, <2>3
<1>8. CrashLosesNothing'
  <2>1. SUFFICES ASSUME ~unsaved, NEW k \in K, NEW from \in ReadOrders,
                        k[2] <= I64Max, Alone(k)
                 PROVE  /\ Keeps(RestoredAlarms(from), k)'
                        /\ RestoredAlarms(from)[k].repeat =
                              IF alarms'[k].repeat <= I64Max THEN alarms'[k].repeat ELSE 0
    BY <1>1, <1>3 DEF CrashLosesNothing, ReadOrders, RestoredAlarms, Alone
  <2>2. /\ Keeps(RestoredAlarms(from), k)
        /\ RestoredAlarms(from)[k].repeat =
              IF alarms[k].repeat <= I64Max THEN alarms[k].repeat ELSE 0
    BY <1>1, <1>4, <2>1 DEF AlarmInv, CrashLosesNothing
  <2>3. RestoredAlarms(from)' = RestoredAlarms(from)
    BY <1>3 DEF RestoredAlarms
  <2>4. /\ RestoredAlarms(from)[k].next \in Int
        /\ alarms[k].next \in Int /\ now \in Int /\ t \in Int
    <3>1. RestoredAlarms(from) \in AlarmStore
      BY RestoredShape DEF AlarmInv
    <3>2. RestoredAlarms(from)[k] \in AlarmRecord
      BY <2>2, <3>1, StoreShape DEF Keeps
    <3>. QED
      BY <1>2, <1>4, <3>2, Widths DEF AlarmRecord, AlarmInv, AlarmTypeOK
  <2>5. CASE Fires(k, t)
    BY <1>1, <1>4, <2>2, <2>3, <2>4, <2>5 DEF Keeps
  <2>6. CASE ~Fires(k, t)
    BY <1>1, <1>4, <2>2, <2>3, <2>4, <2>6 DEF Keeps
  <2>. QED
    BY <1>4, <2>2, <2>5, <2>6
<1>. QED
  BY <1>6, <1>7, <1>8 DEF AlarmInv

-----------------------------------------------------------------------------
(* The specification *)

LEMMA AlarmStart == AlarmInit => AlarmInv
<1>1. ASSUME AlarmInit PROVE AlarmTypeOK
  <2> DEFINE none == [k \in {} |-> 0]
             never == [k \in Key |-> NoTime]
  <2>1. never \in [Key -> 0 .. MaxTime \cup {NoTime}]
    OBVIOUS
  <2>2. none \in AlarmStore /\ 0 \in 0 .. MaxTime
    BY EmptyStore, TimeAssumption
  <2>3. alarms = none /\ last = never /\ saved = [alarms |-> none, reg |-> {}]
    BY <1>1 DEF AlarmInit
  <2> HIDE DEF none, never
  <2>4. saved \in [alarms : AlarmStore, reg : SUBSET Owner]
    BY <2>2, <2>3
  <2>5. now \in 0 .. MaxTime /\ reg = {} /\ running = {} /\ phase = "idle" /\ unsaved = FALSE
    BY <1>1, <2>2 DEF AlarmInit
  <2>6. unsaved \in BOOLEAN
    BY <2>5
  <2>. QED
    BY <2>1, <2>2, <2>3, <2>4, <2>5, <2>6 DEF AlarmTypeOK
<1>. QED
  BY <1>1 DEF AlarmInit, AlarmInv, NextKept, CrashLosesNothing

LEMMA AlarmStep == AlarmInv /\ [AlarmNext]_alarmVars => AlarmInv'
<1> SUFFICES ASSUME AlarmInv, [AlarmNext]_alarmVars
             PROVE  AlarmInv'
  OBVIOUS
<1>1. CASE \E k \in Key, when \in Whens, repeat \in Repeats : Schedule(k, when, repeat)
  BY <1>1, ScheduleStep
<1>2. CASE \E k \in Key : Cancel(k)
  BY <1>2, CancelStep
<1>3. CASE \E o \in Owner : StartOwner(o) \/ OwnerDies(o) \/ OwnerExit(o)
  BY <1>3, OwnerStep
<1>4. CASE \E t \in 0 .. MaxTime : Tick(t)
  BY <1>4, TickStep
<1>5. CASE SaveAlarms
  BY <1>5, SaveStep
<1>6. CASE SaveAlarmsFails
  BY <1>6, SameStore DEF SaveAlarmsFails, AlarmInv, AlarmTypeOK
<1>7. CASE ArbiterCrash
  BY <1>7, CrashStep
<1>8. CASE ArbiterStart
  BY <1>8, StartStep
<1>9. CASE UNCHANGED alarmVars
  BY <1>9, SameStore DEF alarmVars, AlarmInv, AlarmTypeOK
<1>. QED
  BY <1>1, <1>2, <1>3, <1>4, <1>5, <1>6, <1>7, <1>8, <1>9 DEF AlarmNext

\* The invariant holds in every reachable state of the alarm manager.
THEOREM AlarmInvariant == AlarmSpec => []AlarmInv
BY AlarmStart, AlarmStep, PTL DEF AlarmSpec

\* Alarms hold u64 times whatever is scheduled, restored and repeated (Alarm,
\* pick_int, on_tick).
THEOREM AlarmsTyped == AlarmSpec => []AlarmTypeOK
<1>1. AlarmInv => AlarmTypeOK
  BY DEF AlarmInv
<1>. QED
  BY <1>1, AlarmInvariant, PTL

\* A crash between any two steps loses no alarm whose id is an i64 that no other id
\* reads back to, and delays none, while no save failed (to_json, parse_alarms,
\* upsert_alarm, on_tick).
THEOREM CrashesLoseNothing == AlarmSpec => []CrashLosesNothing
<1>1. AlarmInv => CrashLosesNothing
  BY DEF AlarmInv
<1>. QED
  BY <1>1, AlarmInvariant, PTL

\* No burst catch-up and no double fire, however late the ticks come, up to the
\* wrap-around of now + repeat_ms (on_tick, cmd_schedule).
THEOREM PeriodsAreKept == AlarmSpec => PeriodKept
<1> DEFINE Kept == \A k \in Key, t \in 0 .. MaxTime :
                     Hurried(k, t) => /\ alarms[k].repeat > 0
                                      /\ last[k] + alarms[k].repeat > U64Max
<1>1. AlarmInv => Kept
  <2>1. SUFFICES ASSUME AlarmInv, NEW k \in Key, NEW t \in 0 .. MaxTime, Hurried(k, t)
                 PROVE  alarms[k].repeat > 0 /\ last[k] + alarms[k].repeat > U64Max
    OBVIOUS
  <2>2. k \in DOMAIN alarms /\ alarms[k].next <= t
        /\ (alarms[k].repeat = 0 \/ t < last[k] + alarms[k].repeat)
    BY <2>1 DEF Hurried, Fires, DueAt
  <2>3. alarms[k].repeat > 0 /\ alarms[k].next = Wrapped(last[k] + alarms[k].repeat)
    BY <2>1, <2>2 DEF AlarmInv, NextKept, Hurried
  <2>4. last[k] \in 0 .. U64Max /\ alarms[k].repeat \in 0 .. U64Max
    <3>1. alarms[k] \in AlarmRecord /\ last[k] \in 0 .. MaxTime
      BY <2>1, <2>2, StoreShape DEF AlarmInv, AlarmTypeOK, Hurried
    <3>. QED
      BY <3>1, Widths DEF AlarmRecord
  <2>5. last[k] + alarms[k].repeat <= U64Max =>
           alarms[k].next = last[k] + alarms[k].repeat
    BY <2>3, <2>4, Sums
  <2>. QED
    BY <2>2, <2>3, <2>4, <2>5, Widths
<1>. QED
  BY <1>1, AlarmInvariant, PTL DEF PeriodKept
=============================================================================
