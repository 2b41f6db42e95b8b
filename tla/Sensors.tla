------------------------------ MODULE Sensors ------------------------------
(***************************************************************************)
(* The sensor service and its driver.  The service counts who holds a      *)
(* sensor and asks for it at the first holder and gives it up at the last; *)
(* requests go through a FIFO to a worker thread, because the HAL call is  *)
(* slow; the poll thread drains samples without the lock and has them      *)
(* handled under it, so a sample may be handled after the sensor was given *)
(* up.  The power service switches the light sensor past the holders, and  *)
(* the driver has switched the orientation sensor on at its start; nobody  *)
(* but sensor-hold asks for the accelerometer, which is left out.  The     *)
(* phone is near, far, or within the hysteresis band on the near side of   *)
(* the midpoint.                                                           *)
(***************************************************************************)
EXTENDS Hosts, Sequences

CONSTANTS MaxQueue,     \* bound on requests waiting for the worker
          MaxFailures   \* bound on HAL enables that fail

VARIABLES
    holders,    \* SensorsModule::holders, of each kind
    proxNear,   \* SensorsModule::prox_near
    queue,      \* requests to the enable worker
    hal,        \* the kinds the HAL has enabled
    enabled,    \* ENABLED, which gates the poll loop
    distance,   \* where the phone really is
    fresh,      \* the HAL has a proximity sample nobody drained
    sample,     \* a drained proximity sample waiting for the lock
    failures    \* how many enables failed

serviceVars == <<holders, proxNear>>
driverVars  == <<hal, enabled, fresh, sample, failures>>
sensorVars  == <<serviceVars, queue, driverVars, distance>>

Kinds == {"prox", "light", "orient"}
Distances == {"near", "band", "far"}
Manual == "manual"      \* the synthetic requester of sensor-hold

ASSUME SensorsAssumption ==
    /\ MaxQueue \in Nat \ {0} /\ MaxFailures \in Nat
    /\ Manual \notin Pids

SensorsTypeOK ==
    /\ holders \in [Kinds -> SUBSET (Pids \cup {Manual})]
    /\ proxNear \in {"unknown", "near", "far"}
    /\ queue \in Seq([kind : Kinds, on : BOOLEAN])
    /\ hal \subseteq Kinds /\ enabled \in Nat
    /\ distance \in Distances /\ fresh \in BOOLEAN
    /\ sample \in Distances \cup {"none"}
    /\ failures \in 0..MaxFailures

SensorsInit ==
    /\ holders = [kind \in Kinds |-> {}] /\ proxNear = "unknown" /\ queue = <<>>
    /\ hal = {"orient"} /\ enabled = 1
    /\ distance = "far" /\ fresh = FALSE /\ sample = "none" /\ failures = 0

\* The worker keeps up: a bound of the model, not of the code.
Unclogged == Len(queue) < MaxQueue

Ask(kind, on) == queue' = Append(queue, [kind |-> kind, on |-> on])
-----------------------------------------------------------------------------
(* The service. *)

\* Mutant of Acquire: only the first holder is remembered.
AcquireFirst(kind, r) ==
    /\ holders' = [holders EXCEPT ![kind] = IF @ = {} THEN {r} ELSE @]
    /\ IF holders[kind] = {} THEN Ask(kind, TRUE) ELSE UNCHANGED queue
    /\ UNCHANGED <<proxNear, driverVars, distance>>

\* Enable at the first holder.
Acquire(kind, r) ==
    /\ holders' = [holders EXCEPT ![kind] = @ \cup {r}]
    /\ IF holders[kind] = {} THEN Ask(kind, TRUE) ELSE UNCHANGED queue
    /\ UNCHANGED <<proxNear, driverVars, distance>>

\* What was sensed is forgotten with the proximity sensor.
Forgotten(kind) == proxNear' = IF kind = "prox" THEN "unknown" ELSE proxNear

\* Mutant of Release: any holder that leaves disables.
ReleaseAny(kind, r) ==
    /\ holders' = [holders EXCEPT ![kind] = @ \ {r}]
    /\ IF r \in holders[kind]
       THEN Ask(kind, FALSE) /\ Forgotten(kind)
       ELSE UNCHANGED <<queue, proxNear>>
    /\ UNCHANGED <<driverVars, distance>>

\* Disable at the last holder.  Hosts hold the proximity sensor only, so that
\* release_all of a dead one is this, too.
Release(kind, r) ==
    /\ holders' = [holders EXCEPT ![kind] = @ \ {r}]
    /\ IF holders[kind] = {r}
       THEN Ask(kind, FALSE) /\ Forgotten(kind)
       ELSE UNCHANGED <<queue, proxNear>>
    /\ UNCHANGED <<driverVars, distance>>

\* SetSensor for the ambient light, past the count of holders.
SwitchLight(on) == Ask("light", on) /\ UNCHANGED <<serviceVars, driverVars, distance>>

\* translate_proximity: the class of a reading, sticky within the band.
Classify(d) ==
    IF d = "near" THEN "near"
    ELSE IF d = "far" THEN "far"
    ELSE IF proxNear = "far" THEN "far" ELSE "near"

\* on_reading: the reading changes what is sensed (then ProximityChanged is
\* emitted) or it does not.
TakeSample ==
    /\ sample # "none"
    /\ proxNear' = Classify(sample)
    /\ sample' = "none"
    /\ UNCHANGED <<holders, queue, hal, enabled, fresh, failures, distance>>

Crossing == sample # "none" /\ Classify(sample) # proxNear
-----------------------------------------------------------------------------
(* The driver and the hardware. *)

\* apply_set_sensor on the worker thread; an enable may fail and is forgotten.
Enable ==
    /\ queue # <<>> /\ Head(queue).on
    /\ queue' = Tail(queue)
    /\ \/ /\ hal' = hal \cup {Head(queue).kind}
          /\ enabled' = enabled + 1
          /\ fresh' = (fresh \/ Head(queue).kind = "prox")
          /\ UNCHANGED failures
       \/ /\ failures < MaxFailures
          /\ failures' = failures + 1
          /\ UNCHANGED <<hal, enabled, fresh>>
    /\ UNCHANGED <<serviceVars, sample, distance>>

\* Mutant of Disable: the count is not kept from going below zero.
DisableUnderflow ==
    /\ queue # <<>> /\ ~Head(queue).on
    /\ queue' = Tail(queue)
    /\ hal' = hal \ {Head(queue).kind}
    /\ enabled' = enabled - 1
    /\ fresh' = (fresh /\ Head(queue).kind # "prox")
    /\ UNCHANGED <<serviceVars, sample, failures, distance>>

Disable ==
    /\ queue # <<>> /\ ~Head(queue).on
    /\ queue' = Tail(queue)
    /\ hal' = hal \ {Head(queue).kind}
    /\ enabled' = IF enabled = 0 THEN 0 ELSE enabled - 1
    /\ fresh' = (fresh /\ Head(queue).kind # "prox")
    /\ UNCHANGED <<serviceVars, sample, failures, distance>>

\* The poll loop drains; it sleeps while nothing counts as enabled.
Drain ==
    /\ enabled > 0 /\ fresh /\ sample = "none"
    /\ sample' = distance
    /\ fresh' = FALSE
    /\ UNCHANGED <<serviceVars, queue, hal, enabled, failures, distance>>

\* The phone is moved; an enabled sensor reports on change.
MovePhone(d) ==
    /\ d # distance
    /\ distance' = d
    /\ fresh' = (fresh \/ "prox" \in hal)
    /\ UNCHANGED <<serviceVars, queue, hal, enabled, sample, failures>>
=============================================================================
