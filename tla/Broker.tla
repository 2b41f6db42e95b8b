------------------------------- MODULE Broker -------------------------------
(***************************************************************************)
(* The event broker: subscribers of each topic and the value published     *)
(* last, which a new subscriber receives at once.  A payload is opaque; on *)
(* net.status it is the state of the link.                                 *)
(***************************************************************************)
EXTENDS Net

Topics == {"net.status", "app"}
Nothing == "nothing"
Payloads == States \cup {"ping", "pong"}

VARIABLES
    evtSubs,    \* EventsModule::subscribers, for each topic
    retained,   \* EventsModule::retained
    evtTold     \* history: the last event of each topic that each host received

brokerVars == <<evtSubs, retained, evtTold>>

BrokerTypeOK ==
    /\ evtSubs \in [Topics -> SUBSET Pids]
    /\ retained \in [Topics -> Payloads \cup {Nothing}]
    /\ evtTold \in [Pids -> [Topics -> Payloads \cup {Nothing}]]

BrokerInit ==
    /\ evtSubs = [t \in Topics |-> {}]
    /\ retained = [t \in Topics |-> Nothing]
    /\ evtTold = [p \in Pids |-> [t \in Topics |-> Nothing]]

\* Delivery to a host that has died is lost.
Delivered(hosts, t, payload) ==
    [p \in Pids |-> IF p \in hosts /\ proc[p] = "up" THEN [evtTold[p] EXCEPT ![t] = payload] ELSE evtTold[p]]

EvtSubscribe(p, t) ==
    /\ evtSubs' = [evtSubs EXCEPT ![t] = @ \cup {p}]
    /\ evtTold' = IF retained[t] = Nothing THEN evtTold ELSE Delivered({p}, t, retained[t])
    /\ UNCHANGED retained

EvtUnsubscribe(p, t) ==
    /\ evtSubs' = [evtSubs EXCEPT ![t] = @ \ {p}]
    /\ UNCHANGED <<retained, evtTold>>

EvtPublish(t, payload) ==
    /\ retained' = [retained EXCEPT ![t] = payload]
    /\ evtTold' = Delivered(evtSubs[t], t, payload)
    /\ UNCHANGED evtSubs

ForgetBroker(p) ==
    /\ evtSubs' = [t \in Topics |-> evtSubs[t] \ {p}]
    /\ UNCHANGED <<retained, evtTold>>

\* Both maps are memory only.
RestartBroker ==
    /\ evtSubs' = [t \in Topics |-> {}]
    /\ retained' = [t \in Topics |-> Nothing]
    /\ UNCHANGED evtTold
=============================================================================
