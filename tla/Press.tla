------------------------------- MODULE Press -------------------------------
(***************************************************************************)
(* The POWER key: every host forwards the press and the release, and the   *)
(* arbiter, the single decider, makes one toggle or one power menu of them *)
(* with a timer thread for each press it takes for a new one.              *)
(***************************************************************************)
EXTENDS Hosts, Sequences

CONSTANT MaxGen   \* bound: presses the arbiter may count

ASSUME PressAssumption == MaxGen \in Nat \ {0}

VARIABLES
    key,        \* what each host has still to forward of the present press
    pending,    \* power_pending: the number of the press, or 0
    gen,        \* POWER_GEN
    age,        \* of each press: under 1 s, under 2 s, more
    timers,     \* the timer threads that have not run
    outcomes,   \* history: what the present press has led to
    smooth      \* history: no DOWN of the present press came after an outcome, and no restart

pressVars == <<key, pending, gen, age, timers, outcomes, smooth>>

Ages == {"short", "long", "old"}
Kinds == {"toggle", "menu", "early menu"}

PressTypeOK ==
    /\ key \in [Pids -> {"down", "up", "none"}]
    /\ gen \in 0..MaxGen /\ pending \in 0..gen
    /\ age \in [1..MaxGen -> Ages]
    /\ timers \subseteq 1..gen
    /\ outcomes \in Seq(Kinds)
    /\ smooth \in BOOLEAN

PressInit ==
    /\ key = [p \in Pids |-> "none"]
    /\ pending = 0 /\ gen = 0 /\ timers = {}
    /\ age = [g \in 1..MaxGen |-> "short"]
    /\ outcomes = <<>> /\ smooth = FALSE

Outcome(kind) == outcomes' = Append(outcomes, kind)
Short(g) == age[g] = "short"

\* The finger presses the key: hosts forward DOWN, then UP, in their own time.
PressKey(hosts) ==
    /\ hosts # {} /\ \A p \in Pids : key[p] = "none"
    /\ key' = [p \in Pids |-> IF p \in hosts THEN "down" ELSE "none"]
    /\ outcomes' = <<>> /\ smooth' = TRUE
    /\ UNCHANGED <<pending, gen, age, timers>>

\* power-down: the first DOWN within 2 s starts a press and its timer.
PowerDown(p) ==
    /\ key[p] = "down" /\ key' = [key EXCEPT ![p] = "up"]
    /\ smooth' = (smooth /\ outcomes = <<>>)
    /\ IF pending # 0 /\ age[pending] # "old"
       THEN UNCHANGED <<pending, gen, timers>>
       ELSE /\ gen < MaxGen   \* bound
            /\ gen' = gen + 1 /\ pending' = gen' /\ timers' = timers \cup {gen'}
    /\ UNCHANGED <<age, outcomes>>

\* power-up: takes the press, be it short or long.
PowerUp(p) ==
    /\ key[p] = "up" /\ key' = [key EXCEPT ![p] = "none"]
    /\ pending' = 0
    /\ IF pending # 0 THEN Outcome(IF Short(pending) THEN "toggle" ELSE "menu") ELSE UNCHANGED outcomes
    /\ UNCHANGED <<gen, age, timers, smooth>>

\* Mutant of Mine: any press that is pending.
MineAny(g) == pending # 0
Mine(g) == pending = g

\* A timer thread, a second after its DOWN: the menu, if its press is held still.
TimerFires(g) ==
    /\ g \in timers /\ ~Short(g)
    /\ timers' = timers \ {g}
    /\ IF Mine(g)
       THEN pending' = 0 /\ Outcome(IF Short(pending) THEN "early menu" ELSE "menu")
       ELSE UNCHANGED <<pending, outcomes>>
    /\ UNCHANGED <<key, gen, age, smooth>>

\* A second passes for the presses that were counted.
SecondPasses ==
    /\ age' = [g \in 1..MaxGen |->
         CASE g > gen -> "short" [] g <= gen /\ age[g] = "short" -> "long" [] OTHER -> "old"]
    /\ age' # age
    /\ UNCHANGED <<key, pending, gen, timers, outcomes, smooth>>

\* A restarted arbiter has neither the press nor its timers.
RestartPress ==
    /\ pending' = 0 /\ gen' = 0 /\ timers' = {}
    /\ age' = [g \in 1..MaxGen |-> "short"]
    /\ smooth' = FALSE
    /\ UNCHANGED <<key, outcomes>>
=============================================================================
