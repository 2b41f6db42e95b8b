---------------------------- MODULE FocusPromise ----------------------------
(***************************************************************************)
(* What the audio service promises the hosts, in terms of what they are    *)
(* told and of nothing else: at most one host believes that it owns the    *)
(* focus; whoever has to wait was told so and not forgotten; while anybody *)
(* waits somebody owns; and when the owner leaves, one that waits is told  *)
(* that it owns again, in the same step.                                   *)
(***************************************************************************)
CONSTANT Pids
VARIABLES owners,   \* those who believe that they own the focus
          waiting   \* those who were told to pause or to duck

vars == <<owners, waiting>>

Init == owners = {} /\ waiting = {}

\* p takes the focus over: the owner waits, as those before it do.
TakeOver(p) ==
    /\ owners' = {p}
    /\ waiting' = (waiting \cup owners) \ {p}

\* p takes the focus for good: nobody waits for it any more.
TakeForGood(p) == owners' = {p} /\ waiting' = {}

\* p leaves; if it owned the focus, one that waits owns it again.
Leave(p) ==
    \/ p \notin owners /\ waiting' = waiting \ {p} /\ UNCHANGED owners
    \/ p \in owners /\ waiting = {} /\ owners' = {} /\ UNCHANGED waiting
    \/ p \in owners /\ \E q \in waiting : owners' = {q} /\ waiting' = waiting \ {q}

Next == \E p \in Pids : TakeOver(p) \/ TakeForGood(p) \/ Leave(p)

Spec == Init /\ [][Next]_vars
=============================================================================
