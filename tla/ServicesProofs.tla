--------------------------- MODULE ServicesProofs ---------------------------
(***************************************************************************)
(* What the services promise their hosts, proved for every set of hosts,   *)
(* of networks and of mixes: what a subscriber was told, what the ids of   *)
(* the saved networks name, what one press of POWER leads to, to whom a    *)
(* tap of a transport key goes, and that all of it keeps its types, the    *)
(* queue at the arbiter's socket its bound among them.                     *)
(*                                                                         *)
(* Each has its own view of a step and its own inductive invariant.  Saved *)
(* networks are in the order of their ids, so that the last one has the    *)
(* highest; a pending press belongs to a host that has still to forward    *)
(* the release; of any sessions one has the highest stamp; and what the    *)
(* daemon still has to report counts as if it were queued already.         *)
(***************************************************************************)
EXTENDS Services, FiniteSetTheorems, WellFoundedInduction, TLAPS

tellVars == <<netState, netSubs, netTold>>
storeVars == <<saved, nextId, file>>

\* What the first connection reports, if it is of that kind.
Line(kind) == IF inbox # <<>> /\ Head(inbox).kind = kind THEN {Head(inbox).of} ELSE {}

\* The steps as the subscribers see them.
TellStep ==
    \/ UNCHANGED <<proc, tellVars, brokerVars>>
    \/ UNCHANGED <<tellVars, brokerVars>> /\ \E p \in Pids : Launch(p) \/ Die(p) \/ Cut(p)
    \/ \E p \in Pids : Exit(p) /\ ForgetNet(p) /\ ForgetBroker(p)
    \/ ReloadNet /\ RestartBroker
         /\ proc' = [p \in Pids |-> IF proc[p] = "exited" THEN "cut" ELSE proc[p]]
    \/ /\ UNCHANGED <<proc, brokerVars>>
       /\ \/ \E p \in Pids : Heard(p) /\ NetSubscribe(p)
          \/ \E s \in Line("state") : ReportNetState(Read(s))
    \/ /\ UNCHANGED <<proc, tellVars>>
       /\ \/ \E p \in Pids, t \in Topics :
               Heard(p) /\ (EvtSubscribe(p, t) \/ EvtUnsubscribe(p, t))
          \/ \E t \in Topics, payload \in {"ping", "pong"} \cup Line("event") : EvtPublish(t, payload)

\* The steps as the store of saved networks sees them.
StoreStep ==
    \/ UNCHANGED storeVars
    \/ \E ssid \in Ssids, auto, ok \in BOOLEAN :
         \/ SavedAdd(ssid, auto, ok)
         \/ \E id \in Ids(saved) :
              SavedUpdate(id, ssid, auto, ok)
    \/ \E id \in Ids(saved), auto, ok \in BOOLEAN : SavedRemove(id, ok) \/ SavedAutoConnect(id, auto, ok)
    \/ ReloadNet

\* The steps as the POWER key sees them.
PressStep ==
    \/ UNCHANGED pressVars
    \/ \E hosts \in SUBSET Pids : PressKey(hosts)
    \/ \E p \in Pids : PowerDown(p) \/ PowerUp(p)
    \/ \E g \in timers : TimerFires(g)
    \/ SecondPasses
    \/ RestartPress

\* Every step of the composition is one of each.
LEMMA ServiceSteps == ASSUME [Next]_vars PROVE TellStep /\ StoreStep /\ PressStep
<1>1. ASSUME NEW p \in Pids, HostDies(p) \/ KillHost(p)
      PROVE  TellStep /\ StoreStep /\ PressStep
  BY <1>1 DEF HostDies, KillHost, Alone, netVars, TellStep, StoreStep, PressStep, tellVars, storeVars
<1>2. ASSUME NEW p \in Pids, HostExit(p)
      PROVE  TellStep /\ StoreStep /\ PressStep
  BY <1>2 DEF HostExit, ForgetNet, KeepStore, TellStep, StoreStep, PressStep, storeVars
<1>3. CASE ArbiterRestarts
  BY <1>3 DEF ArbiterRestarts, TellStep, StoreStep, PressStep
<1>4. CASE Crash \/ Monitor \/ Control \/ Network \/ Respawn \/ \E c \in Commands : WifiCommand(c)
  BY <1>4 DEF Crash, Monitor, Control, Network, Respawn, WifiCommand, Daemonly, netVars,
     TellStep, StoreStep, PressStep, tellVars, storeVars
<1>5. ASSUME NEW p \in Pids, SubscribeNet(p)
      PROVE  TellStep /\ StoreStep /\ PressStep
  BY <1>5 DEF SubscribeNet, Speaks, Netly, NetSubscribe, KeepStore, TellStep, StoreStep, PressStep,
     storeVars
<1>6. ASSUME NEW ssid \in Ssids, NEW auto \in BOOLEAN, NEW ok \in BOOLEAN,
             \/ AddSaved(ssid, auto, ok)
             \/ \E id \in Ids(saved) : UpdateSaved(id, ssid, auto, ok)
      PROVE  TellStep /\ StoreStep /\ PressStep
  <2>1. \/ SavedAdd(ssid, auto, ok)
        \/ \E id \in Ids(saved) : SavedUpdate(id, ssid, auto, ok)
    BY <1>6 DEF AddSaved, UpdateSaved
  <2>2. Netly
    BY <1>6 DEF AddSaved, UpdateSaved
  <2>3. UNCHANGED tellVars
    BY <2>1 DEF SavedAdd, SavedUpdate, KeepState, tellVars
  <2>. QED
    BY <2>1, <2>2, <2>3 DEF Netly, TellStep, StoreStep, PressStep
<1>7. ASSUME NEW id \in Ids(saved), NEW ok \in BOOLEAN,
             RemoveSaved(id, ok) \/ \E auto \in BOOLEAN : AutoSaved(id, auto, ok)
      PROVE  TellStep /\ StoreStep /\ PressStep
  <2>1. PICK auto \in BOOLEAN : SavedRemove(id, ok) \/ SavedAutoConnect(id, auto, ok)
    BY <1>7 DEF RemoveSaved, AutoSaved
  <2>2. Netly
    BY <1>7 DEF RemoveSaved, AutoSaved
  <2>3. UNCHANGED tellVars
    BY <2>1 DEF SavedRemove, SavedAutoConnect, KeepState, tellVars
  <2>. QED
    BY <2>1, <2>2, <2>3 DEF Netly, TellStep, StoreStep, PressStep
<1>8. ASSUME NEW p \in Pids, NEW t \in Topics, SubscribeEvent(p, t) \/ UnsubscribeEvent(p, t)
      PROVE  TellStep /\ StoreStep /\ PressStep
  BY <1>8 DEF SubscribeEvent, UnsubscribeEvent, Speaks, Eventful, netVars, TellStep, StoreStep, PressStep,
     tellVars, storeVars
<1>9. ASSUME NEW payload \in {"ping", "pong"}, PublishEvent(payload)
      PROVE  TellStep /\ StoreStep /\ PressStep
  BY <1>9 DEF PublishEvent, Eventful, Topics, netVars, TellStep, StoreStep, PressStep,
     tellVars, storeVars
<1>10. ASSUME MediaRead \/ (\E p \in Pids : MediaCommand(p)) \/ (\E n \in notes : ClickNote(n))
                \/ \E p \in Pids, id \in NoteIds : PostNote(p, id) \/ CancelNote(p, id)
       PROVE  TellStep /\ StoreStep /\ PressStep
  <2>1. Medially \/ Notably
    BY <1>10 DEF MediaRead, MediaCommand, ClickNote, PostNote, CancelNote
  <2>2. UNCHANGED proc \/ \E p \in Pids : Launch(p)
    BY <1>10 DEF MediaRead, MediaCommand, Medially, ClickNote, NotifyClick, PostNote, CancelNote
  <2>. QED
    BY <2>1, <2>2 DEF Medially, Notably, netVars, TellStep, StoreStep, PressStep, tellVars, storeVars
<1>11. ASSUME (\E hosts \in SUBSET Pids : FingerDown(hosts)) \/ (\E p \in Pids : HostForwards(p))
                \/ (\E g \in timers : HoldTimer(g)) \/ Second
       PROVE  TellStep /\ StoreStep /\ PressStep
  <2>1. Pressly
    BY <1>11 DEF FingerDown, HostForwards, HoldTimer, Second
  <2>2. PressStep
    BY <1>11 DEF FingerDown, HostForwards, HoldTimer, Second, PressStep
  <2>. QED
    BY <2>1, <2>2 DEF Pressly, netVars, TellStep, StoreStep, tellVars, storeVars
<1>12. CASE ArbiterReads
  <2>1. UNCHANGED <<proc, pressVars>>
    BY <1>12 DEF ArbiterReads
  <2>2. \/ UNCHANGED brokerVars /\ \E s \in Line("state") : ReportNetState(Read(s))
        \/ UNCHANGED netVars /\ \E payload \in Line("event") : EvtPublish("net.status", payload)
        \/ UNCHANGED <<netVars, brokerVars>>
    BY <1>12 DEF ArbiterReads, Line
  <2>3. StoreStep
    BY <2>2 DEF ReportNetState, KeepStore, netVars, StoreStep, storeVars
  <2>4. TellStep
    BY <2>1, <2>2 DEF netVars, TellStep, tellVars, Topics
  <2>. QED
    BY <2>1, <2>3, <2>4 DEF PressStep
<1>13. CASE UNCHANGED vars
  BY <1>13 DEF vars, netVars, TellStep, StoreStep, PressStep, tellVars, storeVars
<1>. QED
  BY <1>1, <1>2, <1>3, <1>4, <1>5, <1>6, <1>7, <1>8, <1>9, <1>10, <1>11, <1>12, <1>13 DEF Next
-----------------------------------------------------------------------------
(* What subscribers were told *)

\* Which keys the maps of the subscribers have.
TellTypes ==
    /\ proc \in [Pids -> Stages]
    /\ netTold = [p \in Pids |-> netTold[p]]
    /\ evtSubs = [t \in Topics |-> evtSubs[t]]
    /\ retained = [t \in Topics |-> retained[t]]
    /\ evtTold = [p \in Pids |-> evtTold[p]]
    /\ \A p \in Pids : evtTold[p] = [t \in Topics |-> evtTold[p][t]]

\* Only a host that was launched has subscribed.
SubscribersBorn ==
    \A p \in Pids : proc[p] = "unborn" => p \notin netSubs /\ \A t \in Topics : p \notin evtSubs[t]

TellInv == TellTypes /\ SubscribersBorn /\ HostsTold

\* Nobody has subscribed at first.
LEMMA TellStart == ASSUME Init PROVE TellInv
<1>1. proc \in [Pids -> Stages]
  BY DEF Init, HostsInit, Stages
<1>2. netSubs = {} /\ netTold = [p \in Pids |-> Unheard]
  BY DEF Init, NetInit
<1>3. /\ evtSubs = [t \in Topics |-> {}] /\ retained = [t \in Topics |-> Nothing]
      /\ evtTold = [p \in Pids |-> [t \in Topics |-> Nothing]]
  BY DEF Init, BrokerInit
<1>. QED
  BY <1>1, <1>2, <1>3 DEF TellInv, TellTypes, SubscribersBorn, HostsTold

\* A host that comes to life was not born before and has no subscription: a step that
\* keeps what was told, and tells nobody else, keeps the promise to those that live.
LEMMA NobodyElse ==
    ASSUME TellInv, UNCHANGED <<netTold, retained, evtTold>>, proc' \in [Pids -> Stages],
           \A p \in Pids : /\ proc'[p] = "up" => proc[p] = "up" \/ proc[p] = "unborn"
                           /\ proc'[p] = "unborn" => proc[p] = "unborn",
           netState' = netState \/ netSubs' = {},
           netSubs' \subseteq netSubs,
           evtSubs' = [t \in Topics |-> evtSubs'[t]],
           \A t \in Topics : evtSubs'[t] \subseteq evtSubs[t]
    PROVE  TellInv'
<1>1. TellTypes'
  BY DEF TellInv, TellTypes
<1>2. SubscribersBorn'
  BY DEF TellInv, SubscribersBorn
<1>3. HostsTold'
  <2>1. SUFFICES ASSUME NEW p \in Pids, proc'[p] = "up"
                 PROVE  /\ p \in netSubs' => netTold'[p] = netState'
                        /\ \A t \in Topics : p \in evtSubs'[t] /\ retained'[t] # Nothing =>
                             evtTold'[p][t] = retained'[t]
    BY <2>1 DEF HostsTold
  <2>2. proc[p] = "unborn" \/ proc[p] = "up"
    BY <2>1
  <2>3. CASE proc[p] = "unborn"
    BY <2>1, <2>3 DEF TellInv, SubscribersBorn
  <2>4. CASE proc[p] = "up"
    BY <2>1, <2>4 DEF TellInv, HostsTold
  <2>. QED
    BY <2>2, <2>3, <2>4
<1>. QED
  BY <1>1, <1>2, <1>3 DEF TellInv

\* A delivery: the hosts it is for have the payload, as far as they live.
EvtTold(hosts, t, payload) ==
    /\ evtTold' = [p \in Pids |-> evtTold'[p]]
    /\ \A p \in Pids : evtTold'[p] = [u \in Topics |-> evtTold'[p][u]]
    /\ \A p \in Pids, u \in Topics :
         evtTold'[p][u] = IF p \in hosts /\ proc[p] = "up" /\ u = t THEN payload ELSE evtTold[p][u]

\* Delivered is one.
LEMMA DeliveredTold ==
    ASSUME TellTypes, NEW hosts, NEW t \in Topics, NEW payload,
           evtTold' = Delivered(hosts, t, payload)
    PROVE  EvtTold(hosts, t, payload)
BY DEF Delivered, TellTypes, EvtTold

\* Every step keeps what the subscribers were told true.
LEMMA TellStepKeeps == ASSUME TellInv, TellStep PROVE TellInv'
<1> USE DEF TellInv
<1>1. CASE UNCHANGED <<proc, tellVars, brokerVars>>
  BY <1>1 DEF TellTypes, SubscribersBorn, HostsTold, tellVars, brokerVars
<1>2. ASSUME UNCHANGED <<tellVars, brokerVars>>, NEW p \in Pids, Launch(p) \/ Die(p) \/ Cut(p)
      PROVE  TellInv'
  <2>1. /\ proc' \in [Pids -> Stages]
        /\ \A q \in Pids : /\ proc'[q] = "up" => proc[q] = "up" \/ proc[q] = "unborn"
                           /\ proc'[q] = "unborn" => proc[q] = "unborn"
    BY <1>2 DEF Launch, Die, Cut, Move, TellTypes, Stages
  <2>. QED
    BY <1>2, <2>1, NobodyElse DEF tellVars, brokerVars, TellTypes
<1>3. ASSUME NEW p \in Pids, Exit(p), ForgetNet(p), ForgetBroker(p)
      PROVE  TellInv'
  <2>1. /\ proc' \in [Pids -> Stages]
        /\ \A q \in Pids : /\ proc'[q] = "up" => proc[q] = "up" \/ proc[q] = "unborn"
                           /\ proc'[q] = "unborn" => proc[q] = "unborn"
    BY <1>3 DEF Exit, Move, TellTypes, Stages
  <2>2. /\ evtSubs' = [t \in Topics |-> evtSubs'[t]]
        /\ \A t \in Topics : evtSubs'[t] \subseteq evtSubs[t]
    BY <1>3 DEF ForgetBroker
  <2>. QED
    BY <1>3, <2>1, <2>2, NobodyElse DEF ForgetNet, ForgetBroker
<1>4. CASE /\ ReloadNet /\ RestartBroker
           /\ proc' = [p \in Pids |-> IF proc[p] = "exited" THEN "cut" ELSE proc[p]]
  <2>1. proc' \in [Pids -> Stages]
    BY <1>4 DEF TellTypes, Stages
  <2>2. netSubs' = {} /\ evtSubs' = [t \in Topics |-> {}] /\ retained' = [t \in Topics |-> Nothing]
        /\ UNCHANGED <<netTold, evtTold>>
    BY <1>4 DEF ReloadNet, RestartBroker
  <2>. QED
    BY <2>1, <2>2 DEF TellTypes, SubscribersBorn, HostsTold
<1>5. ASSUME UNCHANGED <<proc, brokerVars>>, NEW p \in Pids, Heard(p), NetSubscribe(p)
      PROVE  TellInv'
  BY <1>5 DEF Heard, NetSubscribe, TellTypes, SubscribersBorn, HostsTold, brokerVars
<1>6. ASSUME UNCHANGED <<proc, brokerVars>>, NEW new, ReportNetState(new)
      PROVE  TellInv'
  BY <1>6 DEF ReportNetState, TellTypes, SubscribersBorn, HostsTold, brokerVars
<1>7. ASSUME UNCHANGED <<proc, tellVars>>, NEW p \in Pids, NEW t \in Topics, Heard(p),
             EvtSubscribe(p, t)
      PROVE  TellInv'
  <2>1. /\ evtSubs' = [u \in Topics |-> IF u = t THEN evtSubs[u] \cup {p} ELSE evtSubs[u]]
        /\ retained' = retained
        /\ evtTold' = IF retained[t] = Nothing THEN evtTold ELSE Delivered({p}, t, retained[t])
    BY <1>7 DEF EvtSubscribe, TellTypes
  <2>0. SubscribersBorn'
    BY <1>7, <2>1 DEF Heard, SubscribersBorn, tellVars
  <2>2. CASE retained[t] = Nothing
    BY <1>7, <2>0, <2>1, <2>2 DEF TellTypes, HostsTold, tellVars
  <2>3. CASE retained[t] # Nothing
    <3>1. EvtTold({p}, t, retained[t])
      BY <2>1, <2>3, DeliveredTold
    <3>2. TellTypes'
      BY <1>7, <2>1, <3>1 DEF EvtTold, TellTypes, tellVars
    <3>3. HostsTold'
      <4>1. SUFFICES ASSUME NEW q \in Pids, proc[q] = "up", NEW u \in Topics,
                            q \in evtSubs'[u], retained[u] # Nothing
                     PROVE  evtTold'[q][u] = retained[u]
        BY <1>7, <2>1, <4>1 DEF HostsTold, tellVars
      <4>2. (q = p /\ u = t) \/ q \in evtSubs[u]
        BY <2>1, <4>1
      <4>3. evtTold'[q][u] = IF q = p /\ u = t THEN retained[t] ELSE evtTold[q][u]
        BY <3>1, <4>1 DEF EvtTold
      <4>. QED
        BY <4>1, <4>2, <4>3 DEF HostsTold
    <3>. QED
      BY <2>0, <3>2, <3>3
  <2>. QED
    BY <2>2, <2>3
<1>8. ASSUME UNCHANGED <<proc, tellVars>>, NEW p \in Pids, NEW t \in Topics, EvtUnsubscribe(p, t)
      PROVE  TellInv'
  <2>1. /\ evtSubs' = [u \in Topics |-> evtSubs'[u]]
        /\ \A u \in Topics : evtSubs'[u] \subseteq evtSubs[u]
    BY <1>8 DEF EvtUnsubscribe, TellTypes
  <2>. QED
    BY <1>8, <2>1, NobodyElse DEF EvtUnsubscribe, tellVars, TellTypes
<1>9. ASSUME UNCHANGED <<proc, tellVars>>, NEW t \in Topics, NEW payload, EvtPublish(t, payload)
      PROVE  TellInv'
  <2>1. /\ evtSubs' = evtSubs
        /\ retained' = [u \in Topics |-> IF u = t THEN payload ELSE retained[u]]
        /\ evtTold' = Delivered(evtSubs[t], t, payload)
    BY <1>9 DEF EvtPublish, TellTypes
  <2>2. EvtTold(evtSubs[t], t, payload)
    BY <2>1, DeliveredTold
  <2>. QED
    BY <1>9, <2>1, <2>2 DEF EvtTold, TellTypes, SubscribersBorn, HostsTold, tellVars
<1>. QED
  BY <1>1, <1>2, <1>3, <1>4, <1>5, <1>6, <1>7, <1>8, <1>9 DEF TellStep

\* A host that lives was told the present state of the link and the last event of
\* every topic it subscribed to, over deaths and restarts (net-subscribe,
\* report-net-state, evt-subscribe, evt-publish).
THEOREM SubscribersAreTold == Spec => []HostsTold
<1>1. Init => TellInv
  BY TellStart
<1>2. TellInv /\ [Next]_vars => TellInv'
  BY ServiceSteps, TellStepKeeps
<1>3. TellInv => HostsTold
  BY DEF TellInv
<1>. QED
  BY <1>1, <1>2, <1>3, PTL DEF Spec
-----------------------------------------------------------------------------
(* The POWER key *)

Down == \E p \in Pids : key[p] = "down"
Up == \E p \in Pids : key[p] = "up"

\* A press that is pending belongs to a host that forwards UP still.  Before its
\* outcome a smooth press is pending or not begun; after it, it is over.
PressInv ==
    /\ key \in [Pids -> {"down", "up", "none"}]
    /\ gen \in Nat /\ pending \in Nat
    /\ timers \subseteq Nat \ {0}
    /\ pending # 0 => Up
    /\ smooth /\ outcomes = <<>> => pending # 0 \/ (Down /\ ~Up)
    /\ smooth /\ outcomes # <<>> => outcomes \in {<<"toggle">>, <<"menu">>} /\ pending = 0

\* No press, no timer.
LEMMA PressStart == ASSUME Init PROVE PressInv
BY DEF Init, PressInit, PressInv

\* Every step keeps it.
LEMMA PressStepKeeps == ASSUME PressInv, PressStep PROVE PressInv'
<1>1. CASE UNCHANGED pressVars
  BY <1>1 DEF pressVars, PressInv, Down, Up
<1>2. ASSUME NEW hosts \in SUBSET Pids, PressKey(hosts)
      PROVE  PressInv'
  BY <1>2 DEF PressKey, PressInv, Down, Up
<1>3. ASSUME NEW p \in Pids, PowerDown(p)
      PROVE  PressInv'
  <2>1. key' = [key EXCEPT ![p] = "up"] /\ Up'
    BY <1>3 DEF PowerDown, PressInv, Up
  <2>2. pending' # 0 /\ pending' \in Nat /\ gen' \in Nat /\ timers' \subseteq Nat \ {0}
    <3>1. CASE pending # 0 /\ age[pending] # "old"
      <4>1. UNCHANGED <<pending, gen, timers>>
        BY <1>3, <3>1 DEF PowerDown
      <4>. QED
        BY <3>1, <4>1 DEF PressInv
    <3>2. CASE ~(pending # 0 /\ age[pending] # "old")
      <4>1. gen' = gen + 1 /\ pending' = gen' /\ timers' = timers \cup {gen'}
        BY <1>3, <3>2 DEF PowerDown
      <4>. QED
        BY <4>1 DEF PressInv
    <3>. QED
      BY <3>1, <3>2
  <2>. QED
    BY <1>3, <2>1, <2>2 DEF PowerDown, PressInv
<1>4. ASSUME NEW p \in Pids, PowerUp(p)
      PROVE  PressInv'
  <2>1. key' \in [Pids -> {"down", "up", "none"}] /\ pending' = 0 /\ UNCHANGED <<gen, timers, smooth>>
    BY <1>4 DEF PowerUp, PressInv
  <2>2. CASE pending = 0
    BY <1>4, <2>1, <2>2 DEF PowerUp, PressInv, Up
  <2>3. CASE pending # 0
    <3>1. PICK kind \in {"toggle", "menu"} : outcomes' = Append(outcomes, kind)
      BY <1>4, <2>3 DEF PowerUp, Outcome
    <3>2. smooth => outcomes = <<>>
      BY <2>3 DEF PressInv
    <3>3. smooth => outcomes' \in {<<"toggle">>, <<"menu">>}
      BY <3>1, <3>2
    <3>. QED
      BY <2>1, <3>3 DEF PressInv
  <2>. QED
    BY <2>2, <2>3
<1>5. ASSUME NEW g \in timers, TimerFires(g)
      PROVE  PressInv'
  <2>1. UNCHANGED <<key, gen, smooth>> /\ timers' \subseteq Nat \ {0} /\ g # 0
    BY <1>5 DEF TimerFires, PressInv
  <2>2. CASE ~Mine(g)
    BY <1>5, <2>1, <2>2 DEF TimerFires, PressInv, Down, Up
  <2>3. CASE Mine(g)
    <3>1. pending # 0 /\ pending' = 0 /\ outcomes' = Append(outcomes, "menu")
      BY <1>5, <2>1, <2>3 DEF TimerFires, Mine, Outcome
    <3>2. smooth => outcomes = <<>>
      BY <3>1 DEF PressInv
    <3>3. smooth => outcomes' = <<"menu">>
      BY <3>1, <3>2
    <3>. QED
      BY <2>1, <3>1, <3>3 DEF PressInv
  <2>. QED
    BY <2>2, <2>3
<1>6. CASE SecondPasses
  BY <1>6 DEF SecondPasses, PressInv, Down, Up
<1>7. CASE RestartPress
  BY <1>7 DEF RestartPress, PressInv
<1>. QED
  BY <1>1, <1>2, <1>3, <1>4, <1>5, <1>6, <1>7 DEF PressStep

\* One press of POWER leads to one toggle or one menu, whatever the order of the
\* timer and of the releases that the hosts forward (cmd_power_down, cmd_power_up).
THEOREM OnePressOneOutcome == Spec => []PressOnce
<1>1. Init => PressInv
  BY PressStart
<1>2. PressInv /\ [Next]_vars => PressInv'
  BY ServiceSteps, PressStepKeeps
<1>3. PressInv => PressOnce
  BY DEF PressInv, PressOnce, Down, Up
<1>. QED
  BY <1>1, <1>2, <1>3, PTL DEF Spec
-----------------------------------------------------------------------------
(* The saved networks *)

\* The entries are in the order of their ids.
Sorted(list) == \A i, j \in 1..Len(list) : i < j => list[i].id < list[j].id

\* The ids are below the next one to be given out.
Below(list, n) == \A i \in 1..Len(list) : list[i].id < n

SavedInv ==
    /\ saved \in Seq(Entry) /\ Sorted(saved)
    /\ file \in Seq(Entry) /\ Sorted(file)
    /\ nextId \in 1..(MaxSaved + 1) /\ Below(saved, nextId)

\* An entry has an id, which is a number.
LEMMA EntryId == ASSUME NEW list \in Seq(Entry), NEW i \in 1..Len(list)
                 PROVE  list[i] \in Entry /\ list[i].id \in 1..MaxSaved /\ list[i].id \in Nat
<1>1. list[i] \in Entry
  OBVIOUS
<1>2. \A e \in Entry : e.id \in 1..MaxSaved
  BY DEF Entry
<1>3. 1..MaxSaved \subseteq Nat
  BY NetAssumption
<1>. QED
  BY <1>1, <1>2, <1>3

\* The ids of a list are those of its indexes.
LEMMA IdsOfIndexes == ASSUME NEW list \in Seq(Entry)
                      PROVE  Ids(list) = {list[i].id : i \in 1..Len(list)}
BY DEF Ids

\* In order means that no id is there twice.
LEMMA SortedCounts == ASSUME NEW list \in Seq(Entry), Sorted(list)
                      PROVE  Cardinality(Ids(list)) = Len(list)
<1> DEFINE n == Len(list)
           f == [i \in 1..n |-> list[i].id]
<1>1. n \in Nat
  OBVIOUS
<1>2. \A i, j \in 1..n : list[i].id = list[j].id => i = j
  BY <1>1, EntryId, NetAssumption DEF Sorted
<1>3. f \in Bijection(1..n, Ids(list))
  <2>1. f \in Injection(1..n, Ids(list))
    BY <1>2, IdsOfIndexes DEF Injection, IsInjective
  <2>2. f \in Surjection(1..n, Ids(list))
    BY IdsOfIndexes DEF Surjection
  <2>. QED
    BY <2>1, <2>2 DEF Bijection
<1>. QED
  BY <1>1, <1>3, FS_CountingElements DEF ExistsBijection

\* The number after the ids of a file is above them all.
LEMMA AfterIdsAbove == ASSUME NEW list \in Seq(Entry), Sorted(list)
                       PROVE  AfterIds(list) \in 1..(MaxSaved + 1) /\ Below(list, AfterIds(list))
<1> DEFINE Top(n) == \A id \in Ids(list) : id <= n
           m == CHOOSE n \in Ids(list) \cup {0} : Top(n)
<1>1. \A id \in Ids(list) : id \in 1..MaxSaved
  BY EntryId, IdsOfIndexes
<1>2. \E n \in Ids(list) \cup {0} : Top(n)
  <2>1. CASE Len(list) = 0
    <3>1. ASSUME NEW id \in Ids(list) PROVE FALSE
      <4>1. PICK i \in 1..Len(list) : id = list[i].id
        BY <3>1, IdsOfIndexes
      <4>. QED
        BY <2>1, <4>1
    <3>2. Top(0)
      BY <3>1
    <3>. QED
      BY <3>2
  <2>2. CASE Len(list) # 0
    <3>1. Len(list) \in 1..Len(list)
      BY <2>2
    <3>2. \A i \in 1..Len(list) : list[i].id <= list[Len(list)].id
      BY <3>1, EntryId, NetAssumption DEF Sorted
    <3>3. list[Len(list)].id \in Ids(list) /\ Top(list[Len(list)].id)
      BY <3>1, <3>2, IdsOfIndexes
    <3>. QED
      BY <3>3
  <2>. QED
    BY <2>1, <2>2
<1>3. m \in Ids(list) \cup {0} /\ Top(m)
  BY <1>2
<1>4. AfterIds(list) = 1 + m
  BY DEF AfterIds
<1>5. m \in 0..MaxSaved
  BY <1>1, <1>3, NetAssumption
<1>6. \A i \in 1..Len(list) : list[i].id <= m
  BY <1>3, IdsOfIndexes
<1> HIDE DEF m
<1>. QED
  BY <1>4, <1>5, <1>6, EntryId, NetAssumption DEF Below

\* Changing names leaves the ids.
LEMMA SameIds ==
    ASSUME NEW list \in Seq(Entry), Sorted(list), NEW n \in Nat, Below(list, n),
           NEW new \in [1..Len(list) -> Entry],
           \A i \in 1..Len(list) : new[i].id = list[i].id
    PROVE  new \in Seq(Entry) /\ Sorted(new) /\ Below(new, n)
<1>1. new \in Seq(Entry) /\ Len(new) = Len(list)
  OBVIOUS
<1>. QED
  BY <1>1 DEF Sorted, Below

\* So does a removal those of the others.
LEMMA WithoutSorted ==
    ASSUME NEW list \in Seq(Entry), Sorted(list), NEW n \in Nat, Below(list, n),
           NEW id \in Ids(list)
    PROVE  Without(list, id) \in Seq(Entry) /\ Sorted(Without(list, id)) /\ Below(Without(list, id), n)
<1> DEFINE k == CHOOSE i \in DOMAIN list : list[i].id = id
           r == [i \in 1..(Len(list) - 1) |-> IF i < k THEN list[i] ELSE list[i + 1]]
<1>1. k \in 1..Len(list)
  BY DEF Ids
<1>2. Without(list, id) = r
  BY DEF Without
<1>3. Len(list) \in Nat /\ Len(list) - 1 \in Nat
  BY <1>1
<1>4. r \in [1..(Len(list) - 1) -> Entry]
  BY <1>1, <1>3, EntryId
<1>5. r \in Seq(Entry) /\ Len(r) = Len(list) - 1
  BY <1>3, <1>4
<1>6. Sorted(r)
  BY <1>1, <1>3, <1>5 DEF Sorted
<1>7. Below(r, n)
  BY <1>1, <1>3, <1>5 DEF Below
<1>. QED
  BY <1>2, <1>5, <1>6, <1>7

\* The store is empty at first.
LEMMA SavedStart == ASSUME Init PROVE SavedInv
BY NetAssumption DEF Init, NetInit, SavedInv, Sorted, Below

\* A write that fails leaves the old file.
LEMMA Persisted ==
    ASSUME SavedInv, NEW ok \in BOOLEAN, PersistNets(ok),
           saved' \in Seq(Entry), Sorted(saved'), nextId' \in 1..(MaxSaved + 1), Below(saved', nextId')
    PROVE  SavedInv'
BY DEF SavedInv, PersistNets

\* Every step keeps the order.
LEMMA StoreStepKeeps == ASSUME SavedInv, StoreStep PROVE SavedInv'
<1>1. CASE UNCHANGED storeVars
  BY <1>1 DEF storeVars, SavedInv
<1>2. saved \in Seq(Entry) /\ Sorted(saved) /\ Below(saved, nextId) /\ nextId \in Nat
      /\ nextId \in 1..(MaxSaved + 1) /\ MaxSaved \in Nat
  BY NetAssumption DEF SavedInv
<1>3. ASSUME NEW ssid \in Ssids, NEW auto \in BOOLEAN, NEW ok \in BOOLEAN, SavedAdd(ssid, auto, ok)
      PROVE  SavedInv'
  <2> DEFINE known == {i \in DOMAIN saved : saved[i].ssid = ssid}
  <2>1. CASE known # {}
    <3>1. PICK first : /\ saved' = [saved EXCEPT ![first] = [id |-> @.id, ssid |-> ssid, auto |-> auto]]
                      /\ nextId' = nextId
      BY <1>3, <2>1 DEF SavedAdd
    <3>2. saved' \in [1..Len(saved) -> Entry] /\ \A i \in 1..Len(saved) : saved'[i].id = saved[i].id
      <4>1. saved \in [1..Len(saved) -> Entry]
        BY <1>2
      <4>2. \A i \in 1..Len(saved) :
              saved'[i] = IF i = first THEN [id |-> saved[i].id, ssid |-> ssid, auto |-> auto] ELSE saved[i]
        BY <3>1, <4>1
      <4>3. DOMAIN saved' = 1..Len(saved) /\ saved' = [i \in 1..Len(saved) |-> saved'[i]]
        BY <3>1, <4>1
      <4>. QED
        BY <4>1, <4>2, <4>3 DEF Entry
    <3>. QED
      BY <1>2, <1>3, <3>1, <3>2, SameIds, Persisted DEF SavedAdd
  <2>2. CASE known = {}
    <3> DEFINE e == [id |-> nextId, ssid |-> ssid, auto |-> auto]
    <3>1. nextId <= MaxSaved /\ saved' = Append(saved, e) /\ nextId' = nextId + 1
      BY <1>3, <2>2 DEF SavedAdd
    <3>2. e \in Entry /\ e.id = nextId
      BY <1>2, <3>1 DEF Entry
    <3>3. /\ saved' \in Seq(Entry) /\ Len(saved') = Len(saved) + 1
          /\ saved'[Len(saved) + 1] = e
          /\ \A i \in 1..Len(saved) : saved'[i] = saved[i]
      BY <1>2, <3>1, <3>2
    <3>4. Sorted(saved')
      <4>1. \A i \in 1..Len(saved) : saved[i].id \in Nat /\ saved[i].id < nextId
        BY <1>2, EntryId DEF Below
      <4>. QED
        BY <1>2, <3>2, <3>3, <4>1 DEF Sorted
    <3>5. Below(saved', nextId')
      <4>1. \A i \in 1..Len(saved) : saved[i].id \in Nat /\ saved[i].id < nextId
        BY <1>2, EntryId DEF Below
      <4>. QED
        BY <1>2, <3>1, <3>2, <3>3, <4>1 DEF Below
    <3>. QED
      BY <1>2, <1>3, <3>1, <3>3, <3>4, <3>5, Persisted DEF SavedAdd
  <2>. QED
    BY <2>1, <2>2
<1>4. ASSUME NEW id \in Ids(saved), NEW ssid \in Ssids, NEW auto \in BOOLEAN, NEW ok \in BOOLEAN,
             SavedUpdate(id, ssid, auto, ok) \/ SavedAutoConnect(id, auto, ok)
      PROVE  SavedInv'
  <2>1. PICK by \in [Entry -> Entry] : saved' = Changed(id, by) /\ \A e \in Entry : by[e].id = e.id
    <3>1. CASE SavedUpdate(id, ssid, auto, ok)
      <4> DEFINE by == [e \in Entry |-> [id |-> e.id, ssid |-> ssid, auto |-> auto]]
      <4>1. by \in [Entry -> Entry] /\ \A e \in Entry : by[e].id = e.id
        BY DEF Entry
      <4>2. saved' = Changed(id, by)
        BY <3>1 DEF SavedUpdate
      <4>. QED
        BY <4>1, <4>2
    <3>2. CASE SavedAutoConnect(id, auto, ok)
      <4> DEFINE by == [e \in Entry |-> [id |-> e.id, ssid |-> e.ssid, auto |-> auto]]
      <4>1. by \in [Entry -> Entry] /\ \A e \in Entry : by[e].id = e.id
        BY DEF Entry
      <4>2. saved' = Changed(id, by)
        BY <3>2 DEF SavedAutoConnect
      <4>. QED
        BY <4>1, <4>2
    <3>. QED
      BY <1>4, <3>1, <3>2
  <2>2. nextId' = nextId /\ PersistNets(ok)
    BY <1>4 DEF SavedUpdate, SavedAutoConnect
  <2>3. saved' \in [1..Len(saved) -> Entry] /\ \A i \in 1..Len(saved) : saved'[i].id = saved[i].id
    BY <1>2, <2>1, EntryId DEF Changed
  <2>. QED
    BY <1>2, <2>2, <2>3, SameIds, Persisted
<1>5. ASSUME NEW id \in Ids(saved), NEW ok \in BOOLEAN, SavedRemove(id, ok)
      PROVE  SavedInv'
  <2>1. saved' = Without(saved, id) /\ nextId' = nextId /\ PersistNets(ok)
    BY <1>5 DEF SavedRemove
  <2>2. saved' \in Seq(Entry) /\ Sorted(saved') /\ Below(saved', nextId')
    BY <1>2, <2>1, WithoutSorted
  <2>. QED
    BY <1>2, <2>1, <2>2, Persisted
<1>6. CASE ReloadNet
  <2>1. file \in Seq(Entry) /\ Sorted(file)
    BY DEF SavedInv
  <2>. QED
    BY <1>6, <2>1, AfterIdsAbove DEF ReloadNet, SavedInv
<1>. QED
  <2>1. Empty \in Ssids
    BY NetAssumption
  <2>. QED
    BY <1>1, <1>3, <1>4, <1>5, <1>6, <2>1 DEF StoreStep

\* An id names one saved network, in memory and in the file, and is not given out
\* again while it does, over removals, failed writes and restarts (cmd_saved_add,
\* cmd_saved_remove, persist, with_store).
THEOREM SavedIdsAreSound == Spec => []SavedSound
<1>1. Init => SavedInv
  BY SavedStart
<1>2. SavedInv /\ [Next]_vars => SavedInv'
  BY ServiceSteps, StoreStepKeeps
<1>3. SavedInv => SavedSound
  <2>1. ASSUME SavedInv, NEW list \in {saved, file} PROVE Cardinality(Ids(list)) = Len(list)
    BY <2>1, SortedCounts DEF SavedInv
  <2>2. ASSUME SavedInv, NEW id \in Ids(saved) PROVE id < nextId
    BY <2>2, IdsOfIndexes DEF SavedInv, Below
  <2>. QED
    BY <2>1, <2>2 DEF SavedSound
<1>. QED
  BY <1>1, <1>2, <1>3, PTL DEF Spec
-----------------------------------------------------------------------------
(* The media sessions *)

\* The steps as the media sessions see them.
MediaStep ==
    \/ UNCHANGED mediaVars
    \/ \E p \in Pids :
         \/ SetMetadata(p) \/ SetPosition(p) \/ ClearSession(p) \/ ForgetMedia(p)
         \/ \E plays \in BOOLEAN : SetState(p, plays)
    \/ NowPlaying \/ MediaAction
    \/ RestartMedia

\* Every step of the composition is one of them.
LEMMA MediaSteps == ASSUME [Next]_vars PROVE MediaStep
<1>1. CASE \E p \in Pids : HostDies(p) \/ KillHost(p)
  BY <1>1 DEF HostDies, KillHost, Alone, MediaStep
<1>2. CASE \E p \in Pids : HostExit(p)
  BY <1>2 DEF HostExit, MediaStep
<1>3. CASE ArbiterRestarts
  BY <1>3 DEF ArbiterRestarts, MediaStep
<1>4. CASE Crash \/ Monitor \/ Control \/ Network \/ Respawn \/ \E c \in Commands : WifiCommand(c)
  BY <1>4 DEF Crash, Monitor, Control, Network, Respawn, WifiCommand, Daemonly, MediaStep
<1>5. CASE \/ \E p \in Pids : SubscribeNet(p)
           \/ \E ok, auto \in BOOLEAN, ssid \in Ssids :
                AddSaved(ssid, auto, ok) \/ \E id \in Ids(saved) : UpdateSaved(id, ssid, auto, ok)
           \/ \E id \in Ids(saved), ok \in BOOLEAN :
                RemoveSaved(id, ok) \/ \E auto \in BOOLEAN : AutoSaved(id, auto, ok)
  BY <1>5 DEF SubscribeNet, AddSaved, UpdateSaved, RemoveSaved, AutoSaved, Netly, MediaStep
<1>6. CASE \/ \E p \in Pids, t \in Topics : SubscribeEvent(p, t) \/ UnsubscribeEvent(p, t)
           \/ \E payload \in {"ping", "pong"} : PublishEvent(payload)
  BY <1>6 DEF SubscribeEvent, UnsubscribeEvent, PublishEvent, Eventful, MediaStep
<1>7. CASE MediaRead \/ \E p \in Pids : MediaCommand(p)
  BY <1>7 DEF MediaRead, MediaCommand, MediaStep
<1>8. CASE \/ \E n \in notes : ClickNote(n)
           \/ \E p \in Pids, id \in NoteIds : PostNote(p, id) \/ CancelNote(p, id)
  BY <1>8 DEF ClickNote, PostNote, CancelNote, Notably, MediaStep
<1>9. CASE \/ \E hosts \in SUBSET Pids : FingerDown(hosts)
           \/ \E p \in Pids : HostForwards(p)
           \/ \E g \in timers : HoldTimer(g)
           \/ Second
  BY <1>9 DEF FingerDown, HostForwards, HoldTimer, Second, Pressly, MediaStep
<1>10. CASE ArbiterReads
  BY <1>10 DEF ArbiterReads, MediaStep
<1>11. CASE UNCHANGED vars
  BY <1>11 DEF vars, MediaStep
<1>. QED
  BY <1>1, <1>2, <1>3, <1>4, <1>5, <1>6, <1>7, <1>8, <1>9, <1>10, <1>11 DEF Next

\* recompute_active finds a session, one that plays if any does.
LEMMA FallbackFound ==
    ASSUME MediaTypeOK, NEW S \in SUBSET sessions, NEW plays \in SUBSET S
    PROVE  /\ Fallback(S, plays) \in S \cup {None}
           /\ plays # {} => Fallback(S, plays) \in plays
<1> DEFINE best == IF plays = {} THEN S ELSE plays
<1>1. best \in SUBSET sessions /\ best \subseteq S
  OBVIOUS
<1>2. CASE best = {}
  BY <1>2 DEF Fallback
<1>3. CASE best # {}
  <2>1. \E p \in best : Newest(p, best)
    BY <1>1, <1>3 DEF MediaTypeOK
  <2>2. Fallback(S, plays) = CHOOSE p \in best : Newest(p, best)
    BY <1>3 DEF Fallback
  <2>3. Fallback(S, plays) \in best
    BY <2>1, <2>2
  <2>. QED
    BY <1>1, <2>3
<1>. QED
  BY <1>2, <1>3

\* A touched session is the newest of any it is among; the others keep their order.
LEMMA TouchKeeps ==
    ASSUME MediaTypeOK, NEW p \in Pids, Touch(p)
    PROVE  /\ sessions' \subseteq Pids /\ p \in sessions' /\ sessions \subseteq sessions'
           /\ older' \subseteq sessions' \X sessions'
           /\ \A S \in SUBSET sessions' : S # {} => \E q \in S : Newest(q, S)'
<1>1. sessions' = sessions \cup {p} /\ older' = Stamped(p)
  BY DEF Touch
<1>2. \A q, s : <<q, s>> \in older' <=>
          (<<q, s>> \in older /\ q # p /\ s # p) \/ (q \in sessions /\ q # p /\ s = p)
  BY <1>1 DEF Stamped, MediaTypeOK
<1>3. older' \subseteq sessions' \X sessions'
  BY <1>1 DEF Stamped, MediaTypeOK
<1>4. ASSUME NEW S \in SUBSET sessions', S # {}
      PROVE  \E q \in S : Newest(q, S)'
  <2>1. CASE p \in S
    <3>1. Newest(p, S)'
      BY <1>1, <1>2, <1>4 DEF Newest
    <3>. QED
      BY <2>1, <3>1
  <2>2. CASE p \notin S
    <3>1. S \in SUBSET sessions
      BY <1>1, <1>4, <2>2
    <3>2. PICK q \in S : Newest(q, S)
      BY <1>4, <3>1 DEF MediaTypeOK
    <3>3. Newest(q, S)'
      BY <1>2, <2>2, <3>2 DEF Newest
    <3>. QED
      BY <3>3
  <2>. QED
    BY <2>1, <2>2
<1>. QED
  BY <1>1, <1>3, <1>4 DEF MediaTypeOK

\* The sessions that stay keep their order, and the active one is among them.
LEMMA RetainKeeps ==
    ASSUME MediaTypeOK, NEW stay, NEW recompute, Retain(stay, recompute),
           tapped' \in Pids \cup {None},
           active \notin stay => active = None \/ recompute
    PROVE  /\ MediaTypeOK'
           /\ active # None /\ active \notin sessions' =>
                IF playing' # {} THEN active' \in playing' ELSE active' \in sessions' \cup {None}
<1>1. /\ sessions' = sessions \cap stay /\ older' = older \cap (stay \X stay)
      /\ playing' = playing \cap stay
      /\ active' = IF recompute THEN Fallback(sessions', playing') ELSE active
  BY DEF Retain
<1>2. sessions' \in SUBSET sessions /\ playing' \in SUBSET sessions'
  BY <1>1 DEF MediaTypeOK
<1>3. /\ Fallback(sessions', playing') \in sessions' \cup {None}
      /\ playing' # {} => Fallback(sessions', playing') \in playing'
  BY <1>2, FallbackFound
<1>4. active \in sessions \cup {None}
  BY DEF MediaTypeOK
<1>5. active' \in sessions' \cup {None}
  BY <1>1, <1>3, <1>4
<1>6. ASSUME NEW S \in SUBSET sessions', S # {}
      PROVE  \E q \in S : Newest(q, S)'
  <2>1. PICK q \in S : Newest(q, S)
    BY <1>2, <1>6 DEF MediaTypeOK
  <2>2. Newest(q, S)'
    BY <1>1, <1>6, <2>1 DEF Newest
  <2>. QED
    BY <2>2
<1>7. sessions' \subseteq Pids /\ older' \subseteq sessions' \X sessions'
  BY <1>1 DEF MediaTypeOK
<1>8. MediaTypeOK'
  BY <1>2, <1>5, <1>6, <1>7 DEF MediaTypeOK
<1>9. ASSUME active # None, active \notin sessions'
      PROVE  active' = Fallback(sessions', playing')
  BY <1>1, <1>4, <1>9
<1>. QED
  BY <1>3, <1>8, <1>9

\* Every step keeps the sessions in order; taps go to registered hosts, and a session
\* that plays takes the place of one that ended.
LEMMA MediaStepKeeps ==
    ASSUME MediaTypeOK, MediaStep
    PROVE  /\ MediaTypeOK'
           /\ tapped' # tapped => tapped' \in Registered
           /\ active # None /\ active \notin sessions' =>
                IF playing' # {} THEN active' \in playing' ELSE active' \in sessions' \cup {None}
<1>0. tapped \in Pids \cup {None} /\ active \in sessions \cup {None} /\ sessions \subseteq Pids
      /\ playing \subseteq sessions
  BY DEF MediaTypeOK
<1>1. CASE UNCHANGED mediaVars
  BY <1>0, <1>1 DEF mediaVars, MediaTypeOK, Newest
<1>2. ASSUME NEW p \in Pids, Touch(p), tapped' = tapped,
             playing' \subseteq playing \cup {p}, active' \in {active, p}
      PROVE  MediaTypeOK' /\ (active # None => active \in sessions')
  <2>1. /\ sessions' \subseteq Pids /\ p \in sessions' /\ sessions \subseteq sessions'
        /\ older' \subseteq sessions' \X sessions'
        /\ \A S \in SUBSET sessions' : S # {} => \E q \in S : Newest(q, S)'
    BY <1>2, TouchKeeps
  <2>2. playing' \subseteq sessions' /\ active' \in sessions' \cup {None}
    BY <1>0, <1>2, <2>1
  <2>. QED
    BY <1>0, <1>2, <2>1, <2>2 DEF MediaTypeOK
<1>3. ASSUME NEW p \in Pids,
             SetMetadata(p) \/ SetPosition(p) \/ \E plays \in BOOLEAN : SetState(p, plays)
      PROVE  /\ Touch(p) /\ tapped' = tapped
             /\ playing' \subseteq playing \cup {p} /\ active' \in {active, p}
  BY <1>3 DEF SetMetadata, SetPosition, SetState
<1>4. ASSUME NEW p \in Pids, ClearSession(p) \/ ForgetMedia(p)
      PROVE  /\ MediaTypeOK' /\ tapped' = tapped
             /\ active # None /\ active \notin sessions' =>
                  IF playing' # {} THEN active' \in playing' ELSE active' \in sessions' \cup {None}
  <2>1. CASE ClearSession(p)
    <3>1. Retain(Pids \ {p}, active = p) /\ tapped' = tapped
      BY <2>1 DEF ClearSession
    <3>. QED
      BY <1>0, <3>1, RetainKeeps
  <2>2. CASE ForgetMedia(p)
    <3>1. Retain(Pids \ {p}, p \in sessions /\ active = p) /\ tapped' = tapped
      BY <2>2 DEF ForgetMedia
    <3>2. p # None
      BY HostsAssumption
    <3>3. active \notin Pids \ {p} => active = None \/ (p \in sessions /\ active = p)
      BY <1>0
    <3>. QED
      BY <1>0, <3>1, <3>3, RetainKeeps
  <2>. QED
    BY <1>4, <2>1, <2>2
<1>5. CASE NowPlaying \/ MediaAction
  <2>1. /\ Retain(Registered, active # None /\ active \notin Registered \cap sessions)
        /\ tapped' = tapped \/ (tapped' = active' /\ active' # None)
    BY <1>5 DEF NowPlaying, MediaAction, PruneDead
  <2>2. sessions' = sessions \cap Registered /\ playing' \subseteq sessions'
    BY <1>0, <2>1 DEF Retain
  <2>3. active' \in sessions' \cup {None}
    <3>1. playing' \in SUBSET sessions' /\ sessions' \in SUBSET sessions
      BY <2>2
    <3>2. Fallback(sessions', playing') \in sessions' \cup {None}
      BY <3>1, FallbackFound
    <3>. QED
      BY <1>0, <2>1, <2>2, <3>2 DEF Retain
  <2>4. tapped' \in Pids \cup {None}
    BY <1>0, <2>1, <2>2, <2>3
  <2>5. /\ MediaTypeOK'
        /\ active # None /\ active \notin sessions' =>
             IF playing' # {} THEN active' \in playing' ELSE active' \in sessions' \cup {None}
    BY <1>0, <2>1, <2>4, RetainKeeps
  <2>. QED
    BY <2>1, <2>2, <2>3, <2>5
<1>6. CASE RestartMedia
  BY <1>0, <1>6 DEF RestartMedia, MediaTypeOK
<1>7. CASE \E p \in Pids :
             SetMetadata(p) \/ SetPosition(p) \/ \E plays \in BOOLEAN : SetState(p, plays)
  <2>1. PICK p \in Pids :
             SetMetadata(p) \/ SetPosition(p) \/ \E plays \in BOOLEAN : SetState(p, plays)
    BY <1>7
  <2>2. /\ Touch(p) /\ tapped' = tapped
        /\ playing' \subseteq playing \cup {p} /\ active' \in {active, p}
    BY <2>1, <1>3
  <2>3. MediaTypeOK' /\ (active # None => active \in sessions')
    BY <2>2, <1>2
  <2>. QED
    BY <2>2, <2>3
<1>. QED
  BY <1>1, <1>4, <1>5, <1>6, <1>7 DEF MediaStep

\* The sessions have an order of recency, and the active one is among them.
THEOREM SessionsAreOrdered == Spec => []MediaTypeOK
<1>1. Init => MediaTypeOK
  BY DEF Init, MediaInit, MediaTypeOK
<1>2. MediaTypeOK /\ [Next]_vars => MediaTypeOK'
  BY MediaSteps, MediaStepKeeps
<1>. QED
  BY <1>1, <1>2, PTL DEF Spec

\* A transport tap goes to a registered host, and what takes the place of a session that
\* ended is a playing one, if any plays (prune_dead and recompute_active over clear,
\* exits, kills and late commands).
THEOREM TapsReachPlayers == Spec => ActiveSession
<1> DEFINE A == arbiter' =>
                 /\ tapped' # tapped => tapped' \in Registered
                 /\ active # None /\ active \notin sessions' =>
                      IF playing' # {} THEN active' \in playing' ELSE active' \in sessions' \cup {None}
<1>1. MediaTypeOK /\ [Next]_vars => [A]_vars
  BY MediaSteps, MediaStepKeeps
<1>. QED
  BY <1>1, SessionsAreOrdered, PTL DEF Spec, ActiveSession
-----------------------------------------------------------------------------
(* The Wi-Fi daemon *)

\* Where a thread has the name of a network to join.
Bringing == {"lock", "join", "associate", "carrier", "lease", "store"}

\* The reports a job of the control thread has still to make.
Owed == [place \in Places |->
    IF place \in {"idle", "reply"} THEN 0 ELSE IF place = "say event" THEN 1 ELSE 2]

Waits(kind) == \E i \in 1..Len(inbox) : inbox[i].kind = kind
Once(kind) == \A i, j \in 1..Len(inbox) : inbox[i].kind = kind /\ inbox[j].kind = kind => i = j

LinkTypes == radio \in BOOLEAN /\ carrier \in BOOLEAN /\ selected \in Ssids /\ link \in Ssids
ThreadTypes ==
    /\ at \in [Threads -> Places] /\ want \in [Threads -> Ssids] /\ say \in [Threads -> States]
    /\ ticks \in 0..(Reannounce - 1) /\ booted \in BOOLEAN
    /\ \A t \in Threads : at[t] \in Bringing => want[t] # Empty
SocketTypes ==
    /\ inbox \in Seq(Messages) /\ relay \in Jobs \cup {NoJob}
    /\ heard \in BOOLEAN /\ arbiter \in BOOLEAN

\* One command at a time is relayed and one query waits; a job the control thread
\* has begun, and one it is to begin, bring two reports each.
Lines ==
    /\ Once("relay") /\ (Waits("relay") => relay = NoJob)
    /\ Once("query") /\ (Waits("query") => at["monitor"] = "await")
    /\ at["control"] = "idle" => ~heard
    /\ Len(inbox) + Owed[at["control"]]
         + (IF Waits("relay") \/ (relay # NoJob /\ ~heard) THEN 2 ELSE 0) <= MaxInbox + 4

WifiInv == LinkTypes /\ ThreadTypes /\ SocketTypes /\ Lines

\* The steps as the daemon and its sockets see them.
WifiStep ==
    \/ UNCHANGED wifiVars
    \/ MonitorStep \/ ControlStep \/ Roam \/ DaemonRestarts
    \/ ArbiterDies \/ ArbiterStarts
    \/ \E c \in Commands : Command(c)
    \/ inbox # <<>> /\ inbox' = Tail(inbox) /\ UNCHANGED <<linkVars, threadVars, relay, heard, arbiter>>
    \/ AnswerQuery \/ Relay

\* Every step of the composition is one of them.
LEMMA WifiSteps == ASSUME [Next]_vars PROVE WifiStep
<1>1. CASE \E p \in Pids : HostDies(p) \/ KillHost(p) \/ HostExit(p)
  BY <1>1 DEF HostDies, KillHost, HostExit, Alone, WifiStep
<1>2. CASE ArbiterRestarts
  BY <1>2 DEF ArbiterRestarts, WifiStep
<1>3. CASE Crash \/ Monitor \/ Control \/ Network \/ Respawn
  BY <1>3 DEF Crash, Monitor, Control, Network, Respawn, WifiStep
<1>4. CASE \E c \in Commands : WifiCommand(c)
  <2>1. \E c \in Commands : Command(c)
    BY <1>4 DEF WifiCommand
  <2>. QED
    BY <2>1 DEF WifiStep
<1>5. CASE \/ \E p \in Pids : SubscribeNet(p)
           \/ \E ok, auto \in BOOLEAN, ssid \in Ssids :
                AddSaved(ssid, auto, ok) \/ \E id \in Ids(saved) : UpdateSaved(id, ssid, auto, ok)
           \/ \E id \in Ids(saved), ok \in BOOLEAN :
                RemoveSaved(id, ok) \/ \E auto \in BOOLEAN : AutoSaved(id, auto, ok)
  BY <1>5 DEF SubscribeNet, AddSaved, UpdateSaved, RemoveSaved, AutoSaved, Netly, WifiStep
<1>6. CASE \/ \E p \in Pids, t \in Topics : SubscribeEvent(p, t) \/ UnsubscribeEvent(p, t)
           \/ \E payload \in {"ping", "pong"} : PublishEvent(payload)
  BY <1>6 DEF SubscribeEvent, UnsubscribeEvent, PublishEvent, Eventful, WifiStep
<1>7. CASE MediaRead \/ \E p \in Pids : MediaCommand(p)
  BY <1>7 DEF MediaRead, MediaCommand, Medially, WifiStep
<1>8. CASE \/ \E n \in notes : ClickNote(n)
           \/ \E p \in Pids, id \in NoteIds : PostNote(p, id) \/ CancelNote(p, id)
  BY <1>8 DEF ClickNote, PostNote, CancelNote, Notably, WifiStep
<1>9. CASE \/ \E hosts \in SUBSET Pids : FingerDown(hosts)
           \/ \E p \in Pids : HostForwards(p)
           \/ \E g \in timers : HoldTimer(g)
           \/ Second
  BY <1>9 DEF FingerDown, HostForwards, HoldTimer, Second, Pressly, WifiStep
<1>10. CASE ArbiterReads
  BY <1>10 DEF ArbiterReads, WifiStep
<1>11. CASE UNCHANGED vars
  BY <1>11 DEF vars, WifiStep
<1>. QED
  BY <1>1, <1>2, <1>3, <1>4, <1>5, <1>6, <1>7, <1>8, <1>9, <1>10, <1>11 DEF Next

\* One more connection waits.
LEMMA AppendWaits ==
    ASSUME inbox \in Seq(Messages), NEW m \in Messages, inbox' = Append(inbox, m), NEW kind
    PROVE  /\ inbox' \in Seq(Messages) /\ Len(inbox') = Len(inbox) + 1
           /\ Waits(kind)' <=> Waits(kind) \/ m.kind = kind
           /\ Once(kind) /\ ~(Waits(kind) /\ m.kind = kind) => Once(kind)'
<1>1. /\ inbox' \in Seq(Messages) /\ Len(inbox') = Len(inbox) + 1 /\ Len(inbox) \in Nat
      /\ inbox'[Len(inbox) + 1] = m
      /\ \A i \in 1..Len(inbox) : inbox'[i] = inbox[i]
  OBVIOUS
<1>. QED
  BY <1>1 DEF Waits, Once

\* The first connection is handled.
LEMMA TailWaits ==
    ASSUME inbox \in Seq(Messages), inbox # <<>>, inbox' = Tail(inbox), NEW kind
    PROVE  /\ inbox' \in Seq(Messages) /\ Len(inbox') + 1 = Len(inbox)
           /\ Waits(kind)' => Waits(kind)
           /\ Once(kind) => Once(kind)'
           /\ Once(kind) /\ Head(inbox).kind = kind => ~Waits(kind)'
<1>1. /\ inbox' \in Seq(Messages) /\ Len(inbox') = Len(inbox) - 1 /\ Len(inbox) \in Nat
      /\ Len(inbox) >= 1
      /\ Head(inbox) = inbox[1]
      /\ \A i \in 1..(Len(inbox) - 1) : inbox'[i] = inbox[i + 1]
  OBVIOUS
<1>. QED
  BY <1>1 DEF Waits, Once

\* The query goes, and nothing else.
LEMMA QueryGone ==
    ASSUME inbox \in Seq(Messages), Once("relay"), Once("query"), inbox' = WithoutQuery
    PROVE  /\ inbox' \in Seq(Messages) /\ Len(inbox') <= Len(inbox)
           /\ Once("relay")' /\ (Waits("relay")' => Waits("relay"))
           /\ ~Waits("query")'
<1> DEFINE queries == {i \in DOMAIN inbox : inbox[i].kind = "query"}
           k == CHOOSE i \in queries : TRUE
<1>1. CASE queries = {}
  <2>1. inbox' = inbox
    BY <1>1 DEF WithoutQuery
  <2>. QED
    BY <1>1, <2>1 DEF Waits, Once
<1>2. CASE queries # {}
  <2>1. k \in 1..Len(inbox) /\ inbox[k].kind = "query"
    BY <1>2
  <2>2. inbox' = [i \in 1..(Len(inbox) - 1) |-> IF i < k THEN inbox[i] ELSE inbox[i + 1]]
    BY <1>2 DEF WithoutQuery
  <2> HIDE DEF k, queries
  <2>3. Len(inbox) \in Nat /\ Len(inbox) - 1 \in Nat
    BY <2>1
  <2>4. inbox' \in [1..(Len(inbox) - 1) -> Messages]
    BY <2>1, <2>2, <2>3
  <2>5. inbox' \in Seq(Messages) /\ Len(inbox') = Len(inbox) - 1
    BY <2>3, <2>4
  <2>6. \A i \in 1..Len(inbox') : inbox'[i] = IF i < k THEN inbox[i] ELSE inbox[i + 1]
    BY <2>2, <2>5
  <2> DEFINE old(i) == IF i < k THEN i ELSE i + 1
  <2>7. \A i \in 1..Len(inbox') :
          old(i) \in 1..Len(inbox) /\ old(i) # k /\ inbox'[i] = inbox[old(i)]
    BY <2>1, <2>3, <2>5, <2>6
  <2>8. \A i, j \in 1..Len(inbox') : old(i) = old(j) => i = j
    BY <2>1, <2>3, <2>5
  <2> HIDE DEF old
  <2>9. Once("relay")'
    BY <2>7, <2>8 DEF Once
  <2>10. Waits("relay")' => Waits("relay")
    BY <2>7 DEF Waits
  <2>11. ~Waits("query")'
    BY <2>1, <2>7 DEF Once, Waits
  <2>. QED
    BY <2>3, <2>5, <2>9, <2>10, <2>11
<1>. QED
  BY <1>1, <1>2

\* A thread moves on.
LEMMA Goes ==
    ASSUME ThreadTypes, NEW t \in Threads, NEW place \in Places,
           at' = [at EXCEPT ![t] = place],
           say' = say \/ \E s \in States : say' = [say EXCEPT ![t] = s],
           want' = want \/ \E n \in Names : want' = [want EXCEPT ![t] = n],
           place \in Bringing => at[t] \in Bringing \/ want' # want \/ want[t] # Empty,
           ticks' \in 0..(Reannounce - 1), booted' \in BOOLEAN
    PROVE  ThreadTypes'
<1>1. at' \in [Threads -> Places] /\ say' \in [Threads -> States]
  BY DEF ThreadTypes
<1>2. want' \in [Threads -> Ssids] /\ \A u \in Threads : u # t => want'[u] = want[u]
  BY DEF ThreadTypes, Names
<1>3. want' # want => want'[t] # Empty
  BY DEF ThreadTypes, Names
<1>4. \A u \in Threads : at'[u] \in Bringing => want'[u] # Empty
  BY <1>2, <1>3 DEF ThreadTypes
<1>. QED
  BY <1>1, <1>2, <1>4 DEF ThreadTypes

\* Where a failed bring-up leaves a thread.
LEMMA FailGoes ==
    ASSUME NEW t \in Threads, Fail(t)
    PROVE  \E place \in {"reply", "idle", "say state"} :
             /\ at' = [at EXCEPT ![t] = place]
             /\ t = "control" => place = "reply"
             /\ say' = say \/ \E s \in States : say' = [say EXCEPT ![t] = s]
<1>1. Offline \in States
  BY DEF States
<1>2. CASE t = "control"
  BY <1>2 DEF Fail, Go
<1>3. CASE t = "monitor" /\ booted
  BY <1>3 DEF Fail, Go
<1>4. CASE t = "monitor" /\ ~booted
  BY <1>1, <1>4 DEF Fail, Go, GoSaying
<1>. QED
  BY <1>2, <1>3, <1>4 DEF Threads

\* Choosing a network: the monitor has a name to join, or gives up.
LEMMA ChooseGoes ==
    ASSUME NEW name \in Ssids, Choose(name)
    PROVE  \E place \in {"reply", "idle", "say state", "join"} :
             /\ at' = [at EXCEPT !["monitor"] = place]
             /\ say' = say \/ \E s \in States : say' = [say EXCEPT !["monitor"] = s]
             /\ IF place = "join"
                THEN \E n \in Names : want' = [want EXCEPT !["monitor"] = n]
                ELSE want' = want
<1> DEFINE creds == IF name = Empty THEN FrameworkNet ELSE name
<1>1. creds \in Ssids
  BY WifiAssumption
<1>2. CASE creds = Empty
  <2>1. Fail("monitor") /\ want' = want
    BY <1>2 DEF Choose
  <2>. QED
    BY <2>1, FailGoes DEF Threads
<1>3. CASE creds # Empty
  BY <1>1, <1>3 DEF Choose, Go, Names
<1>. QED
  BY <1>2, <1>3

\* A job owes two reports at most.
LEMMA OwedRange == Owed \in [Places -> 0..2]
<1>1. \A place \in Places : Owed[place] \in 0..2
  BY DEF Owed
<1>. QED
  BY <1>1 DEF Owed

\* A step that leaves the connections alone.
LEMMA QuietLines ==
    ASSUME WifiInv, UNCHANGED <<inbox, relay, heard>>,
           at["monitor"] = "await" => at'["monitor"] = "await",
           at'["control"] \in Places, Owed[at'["control"]] <= Owed[at["control"]],
           at'["control"] = "idle" => at["control"] = "idle"
    PROVE  Lines'
<1>1. Len(inbox) \in Nat /\ MaxInbox \in Nat
      /\ Owed[at["control"]] \in Nat /\ Owed[at'["control"]] \in Nat
  BY OwedRange, WifiAssumption DEF WifiInv, ThreadTypes, SocketTypes, Threads
<1>2. \A kind : (Waits(kind)' <=> Waits(kind)) /\ (Once(kind)' <=> Once(kind))
  BY DEF Waits, Once
<1>3. Owed' = Owed
  BY DEF Owed, Places
<1>. QED
  BY <1>1, <1>2, <1>3 DEF WifiInv, Lines

\* The same, of one thread that moves.
LEMMA QuietMove ==
    ASSUME WifiInv, UNCHANGED <<inbox, relay, heard>>, NEW t \in Threads, NEW place \in Places,
           at' = [at EXCEPT ![t] = place], at[t] # "await",
           t = "control" => Owed[place] <= Owed[at[t]] /\ place # "idle"
    PROVE  Lines'
<1>1. \A u \in Threads : at'[u] = IF u = t THEN place ELSE at[u]
  BY DEF WifiInv, ThreadTypes
<1>2. Owed[at["control"]] \in Nat /\ at["control"] \in Places
  BY OwedRange DEF WifiInv, ThreadTypes, Threads
<1>. QED
  BY <1>1, <1>2, QuietLines DEF Threads

\* A line is sent: by the monitor into a queue that has room, or by the control thread,
\* which then owes one less.
LEMMA SaidLines ==
    ASSUME WifiInv, NEW m \in Messages, m.kind \in {"state", "event"},
           inbox' = Append(inbox, m), UNCHANGED <<relay, heard>>,
           NEW t \in Threads, NEW place \in Places,
           at' = [at EXCEPT ![t] = place], at[t] # "await",
           t = "monitor" => Len(inbox) < MaxInbox,
           t = "control" => Owed[place] + 1 = Owed[at[t]] /\ place # "idle"
    PROVE  Lines'
<1>1. \A u \in Threads : at'[u] = IF u = t THEN place ELSE at[u]
  BY DEF WifiInv, ThreadTypes
<1>2. Len(inbox) \in Nat /\ MaxInbox \in Nat
      /\ Owed[at["control"]] \in 0..2 /\ Owed[at'["control"]] \in 0..2
  <2>1. at["control"] \in Places /\ at'["control"] \in Places
    BY <1>1 DEF WifiInv, ThreadTypes, Threads
  <2>. QED
    BY <2>1, OwedRange, WifiAssumption DEF WifiInv, SocketTypes
<1>3. /\ Len(inbox') = Len(inbox) + 1
      /\ \A kind \in {"relay", "query"} :
           (Waits(kind)' <=> Waits(kind)) /\ (Once(kind) => Once(kind)')
  BY AppendWaits DEF WifiInv, SocketTypes
<1>4. Owed' = Owed
  BY DEF Owed, Places
<1>5. /\ Once("relay")' /\ (Waits("relay")' => relay' = NoJob)
      /\ Once("query")' /\ (Waits("query")' => at'["monitor"] = "await")
      /\ at'["control"] = "idle" => ~heard'
  BY <1>1, <1>3 DEF WifiInv, Lines, Threads
<1>6. Len(inbox') + Owed[at'["control"]] <= Len(inbox) + Owed[at["control"]]
      \/ Len(inbox') <= MaxInbox
  BY <1>1, <1>2, <1>3 DEF Threads
<1>7. Len(inbox') + Owed[at'["control"]]
         + (IF Waits("relay")' \/ (relay' # NoJob /\ ~heard') THEN 2 ELSE 0) <= MaxInbox + 4
  BY <1>2, <1>3, <1>6 DEF WifiInv, Lines
<1>. QED
  BY <1>4, <1>5, <1>7 DEF Lines

\* The bring-up up to its end, which no connection of the arbiter takes part in.
LEMMA BringingStep ==
    ASSUME WifiInv, NEW t \in Threads, Join(t) \/ Associate(t) \/ AwaitCarrier(t) \/ Lease(t)
    PROVE  WifiInv'
<1>1. UNCHANGED socketVars /\ UNCHANGED <<want, ticks, booted>>
  BY DEF Join, Associate, AwaitCarrier, Lease
<1>2. at[t] \in {"join", "associate", "carrier", "lease"} /\ want[t] \in Names
  BY DEF Join, Associate, AwaitCarrier, Lease, WifiInv, ThreadTypes, Bringing, Names
<1>3. \E place \in Places :
        /\ at' = [at EXCEPT ![t] = place]
        /\ t = "control" => place # "idle"
        /\ say' = say \/ \E s \in States : say' = [say EXCEPT ![t] = s]
  <2>1. CASE Join(t)
    BY <2>1 DEF Join, Go, Places
  <2>2. CASE Fail(t)
    BY <2>2, FailGoes DEF Places
  <2>3. CASE Associate(t) /\ ~Fail(t)
    BY <2>3 DEF Associate, Go, Places
  <2>4. CASE AwaitCarrier(t) /\ ~Fail(t)
    BY <2>4 DEF AwaitCarrier, Go, Places
  <2>5. CASE Lease(t) /\ ~Fail(t)
    BY <1>2, <2>5 DEF Lease, Go, GoSaying, Places, States, Names
  <2>. QED
    BY <2>1, <2>2, <2>3, <2>4, <2>5
<1>4. LinkTypes'
  <2>1. CASE Join(t) \/ AwaitCarrier(t)
    BY <2>1 DEF Join, AwaitCarrier, linkVars, WifiInv, LinkTypes
  <2>2. CASE Associate(t)
    <3>1. radio' \in {radio, TRUE} /\ carrier' \in {carrier, FALSE} /\ link' = link
          /\ selected' \in {selected, want[t]}
      BY <2>2 DEF Associate
    <3>. QED
      BY <1>2, <3>1 DEF WifiInv, LinkTypes, Names
  <2>3. CASE Lease(t)
    <3>1. UNCHANGED <<radio, selected, carrier>> /\ link' \in {link, want[t]}
      BY <2>3 DEF Lease
    <3>. QED
      BY <1>2, <3>1 DEF WifiInv, LinkTypes, Names
  <2>. QED
    BY <2>1, <2>2, <2>3
<1>5. PICK place \in Places :
        /\ at' = [at EXCEPT ![t] = place]
        /\ t = "control" => place # "idle"
        /\ say' = say \/ \E s \in States : say' = [say EXCEPT ![t] = s]
  BY <1>3
<1>6. ThreadTypes'
  <2>1. want[t] # Empty /\ ticks' \in 0..(Reannounce - 1) /\ booted' \in BOOLEAN
    BY <1>1, <1>2 DEF WifiInv, ThreadTypes, Names
  <2>. QED
    BY <1>1, <1>5, <2>1, Goes DEF WifiInv
<1>7. Lines'
  <2>1. Owed[at[t]] = 2 /\ at[t] # "await"
    BY <1>2 DEF Owed, Places
  <2>2. Owed[place] <= 2
    BY OwedRange
  <2>. QED
    BY <1>1, <1>5, <2>1, <2>2, QuietMove DEF socketVars
<1>. QED
  BY <1>1, <1>4, <1>6, <1>7 DEF WifiInv, SocketTypes, socketVars

\* The two lines of a report.
LEMMA SayingStep ==
    ASSUME WifiInv, NEW t \in Threads, SayState(t) \/ SayEvent(t)
    PROVE  WifiInv'
<1>1. /\ UNCHANGED <<linkVars, want, say, ticks, relay, heard, arbiter>>
      /\ booted' \in {booted, TRUE}
  BY DEF SayState, SayEvent
<1>2. PICK place \in Places, kind \in {"state", "event"} :
        /\ at' = [at EXCEPT ![t] = place] /\ Send(t, [kind |-> kind, of |-> say[t]])
        /\ at[t] # "await" /\ place \notin Bringing
        /\ t = "control" => Owed[place] + 1 = Owed[at[t]] /\ place # "idle"
  <2>1. CASE SayState(t)
    <3>1. /\ at[t] = "say state" /\ at' = [at EXCEPT ![t] = "say event"]
          /\ Send(t, [kind |-> "state", of |-> say[t]])
      BY <2>1 DEF SayState, Go
    <3>2. Owed["say event"] + 1 = Owed["say state"]
      BY DEF Owed, Places
    <3>. QED
      BY <3>1, <3>2 DEF Places, Bringing
  <2>2. CASE SayEvent(t)
    <3> DEFINE place == CASE t = "control" -> "reply"
                          [] t = "monitor" /\ booted /\ say[t] = Offline -> "ask"
                          [] OTHER -> "idle"
    <3>1. /\ at[t] = "say event" /\ at' = [at EXCEPT ![t] = place]
          /\ Send(t, [kind |-> "event", of |-> say[t]])
      BY <2>2 DEF SayEvent, Go
    <3>2. place \in {"reply", "ask", "idle"} /\ (t = "control" => place = "reply")
      <4>1. CASE t = "control"
        BY <4>1
      <4>2. CASE t = "monitor" /\ booted /\ say[t] = Offline
        BY <4>2
      <4>3. CASE t = "monitor" /\ ~(booted /\ say[t] = Offline)
        BY <4>3
      <4>. QED
        BY <4>1, <4>2, <4>3 DEF Threads
    <3>3. Owed["reply"] + 1 = Owed["say event"]
      BY DEF Owed, Places
    <3> HIDE DEF place
    <3>. QED
      BY <3>1, <3>2, <3>3 DEF Places, Bringing
  <2>. QED
    BY <2>1, <2>2
<1>3. say[t] \in States
  BY DEF WifiInv, ThreadTypes
<1> DEFINE m == [kind |-> kind, of |-> say[t]]
<1>4. m \in Messages /\ m.kind \in {"state", "event"}
  BY <1>2, <1>3 DEF Messages
<1>5. ThreadTypes'
  <2>1. ticks' \in 0..(Reannounce - 1) /\ booted' \in BOOLEAN
    BY <1>1 DEF WifiInv, ThreadTypes
  <2>. QED
    BY <1>1, <1>2, <2>1, Goes DEF WifiInv
<1> HIDE DEF m
<1>6. CASE arbiter
  <2>1. inbox' = Append(inbox, m) /\ (t = "monitor" => Len(inbox) < MaxInbox)
    BY <1>2, <1>6 DEF Send, m
  <2>2. Lines'
    BY <1>1, <1>2, <1>4, <2>1, SaidLines
  <2>3. SocketTypes'
    BY <1>1, <1>4, <2>1, AppendWaits DEF WifiInv, SocketTypes
  <2>. QED
    BY <1>1, <1>5, <2>2, <2>3 DEF WifiInv, LinkTypes, linkVars
<1>7. CASE ~arbiter
  <2>1. inbox' = inbox
    BY <1>2, <1>7 DEF Send
  <2>2. t = "control" => Owed[place] <= Owed[at[t]] /\ place # "idle"
    BY <1>2, OwedRange DEF WifiInv, ThreadTypes
  <2>3. Lines'
    BY <1>1, <1>2, <2>1, <2>2, QuietMove
  <2>. QED
    BY <1>1, <1>5, <2>1, <2>3 DEF WifiInv, LinkTypes, linkVars, SocketTypes
<1>. QED
  BY <1>6, <1>7

\* A thread is to bring a network up, or not.
LEMMA MayJoin ==
    ASSUME ThreadTypes, NEW t \in Threads, NEW place \in Places,
           at' = [at EXCEPT ![t] = place],
           say' = say \/ \E s \in States : say' = [say EXCEPT ![t] = s],
           IF place \in {"join", "lock"} THEN \E n \in Names : want' = [want EXCEPT ![t] = n] ELSE want' = want,
           place \in Bringing => place \in {"join", "lock"},
           ticks' \in 0..(Reannounce - 1), booted' \in BOOLEAN
    PROVE  ThreadTypes'
<1>1. /\ at' \in [Threads -> Places] /\ say' \in [Threads -> States]
      /\ \A u \in Threads : u # t => at'[u] = at[u]
      /\ at'[t] = place
  BY DEF ThreadTypes
<1>2. CASE place \in {"join", "lock"}
  <2>1. PICK n \in Names : want' = [want EXCEPT ![t] = n]
    BY <1>2
  <2>2. want' \in [Threads -> Ssids] /\ want'[t] # Empty /\ \A u \in Threads : u # t => want'[u] = want[u]
    BY <2>1 DEF ThreadTypes, Names
  <2>. QED
    BY <1>1, <2>2 DEF ThreadTypes
<1>3. CASE place \notin {"join", "lock"}
  BY <1>1, <1>3 DEF ThreadTypes
<1>. QED
  BY <1>2, <1>3

\* The monitor's round.
LEMMA TickStep == ASSUME WifiInv, Tick PROVE WifiInv'
<1>1. /\ at["monitor"] = "idle" /\ UNCHANGED <<linkVars, want, booted, socketVars>>
      /\ ticks' = (ticks + 1) % Reannounce
  BY DEF Tick
<1>2. ticks' \in 0..(Reannounce - 1) /\ booted' \in BOOLEAN
  BY <1>1, WifiAssumption DEF WifiInv, ThreadTypes
<1>3. \E place \in {"idle", "ask", "say state"} :
        /\ at' = [at EXCEPT !["monitor"] = place]
        /\ say' = say \/ \E s \in States : say' = [say EXCEPT !["monitor"] = s]
  <2>1. CASE link = Empty
    BY <2>1 DEF Tick, Go
  <2>2. CASE link # Empty /\ ~carrier
    BY <2>2 DEF Tick, Go, GoSaying, States
  <2>3. CASE link # Empty /\ carrier /\ Due(ticks')
    <3>1. link \in States
      BY <2>3 DEF WifiInv, LinkTypes, States
    <3>. QED
      BY <2>3, <3>1 DEF Tick, Go, GoSaying
  <2>4. CASE link # Empty /\ carrier /\ ~Due(ticks')
    <3>1. at' = at /\ say' = say
      BY <2>4 DEF Tick
    <3>2. at = [at EXCEPT !["monitor"] = "idle"]
      BY <1>1 DEF WifiInv, ThreadTypes
    <3>. QED
      BY <3>1, <3>2
  <2>. QED
    BY <2>1, <2>2, <2>3, <2>4
<1>4. PICK place \in {"idle", "ask", "say state"} :
        /\ at' = [at EXCEPT !["monitor"] = place]
        /\ say' = say \/ \E s \in States : say' = [say EXCEPT !["monitor"] = s]
  BY <1>3
<1>5. place \in Places /\ place \notin Bringing /\ "monitor" \in Threads
  BY DEF Places, Bringing, Threads
<1>6. ThreadTypes'
  BY <1>1, <1>2, <1>4, <1>5, Goes DEF WifiInv
<1>7. Lines'
  BY <1>1, <1>4, <1>5, QuietMove DEF socketVars
<1>. QED
  BY <1>1, <1>6, <1>7 DEF WifiInv, LinkTypes, SocketTypes, linkVars, socketVars

\* The monitor asks the arbiter, or has none to ask.
LEMMA AskStep == ASSUME WifiInv, Ask PROVE WifiInv'
<1>1. /\ at["monitor"] = "ask" /\ UNCHANGED <<linkVars, ticks, booted, relay, heard, arbiter>>
      /\ "monitor" \in Threads
  BY DEF Ask, Threads
<1>2. ticks' \in 0..(Reannounce - 1) /\ booted' \in BOOLEAN
  BY <1>1 DEF WifiInv, ThreadTypes
<1> DEFINE m == [kind |-> "query"]
<1>3. CASE arbiter
  <2>1. /\ at' = [at EXCEPT !["monitor"] = "await"] /\ UNCHANGED <<want, say>>
        /\ inbox' = Append(inbox, m) /\ Len(inbox) < MaxInbox
    BY <1>3 DEF Ask, Go, Send
  <2>2. m \in Messages /\ m.kind = "query" /\ "await" \in Places /\ "await" \notin Bringing
    BY DEF Messages, Places, Bringing
  <2> HIDE DEF m
  <2>3. ThreadTypes'
    BY <1>1, <1>2, <2>1, <2>2, Goes DEF WifiInv
  <2>4. /\ inbox' \in Seq(Messages) /\ Len(inbox') = Len(inbox) + 1
        /\ (Waits("relay")' <=> Waits("relay")) /\ (Once("relay") => Once("relay")')
        /\ ~Waits("query") => Once("query")'
    BY <2>1, <2>2, AppendWaits DEF WifiInv, SocketTypes, Once, Waits
  <2>5. ~Waits("query") /\ at'["control"] = at["control"] /\ at'["monitor"] = "await"
    BY <1>1, <2>1 DEF WifiInv, Lines, ThreadTypes, Threads
  <2>6. Owed' = Owed /\ Owed[at["control"]] \in 0..2
    BY OwedRange DEF Owed, Places, WifiInv, ThreadTypes, Threads
  <2>7. Len(inbox) \in Nat /\ MaxInbox \in Nat
    BY WifiAssumption DEF WifiInv, SocketTypes
  <2>8. Lines'
    <3>1. Len(inbox') <= MaxInbox
      BY <2>1, <2>4, <2>7
    <3>. QED
      BY <1>1, <2>4, <2>5, <2>6, <2>7, <3>1 DEF WifiInv, Lines
  <2>. QED
    BY <1>1, <2>3, <2>4, <2>8 DEF WifiInv, LinkTypes, SocketTypes, linkVars
<1>4. CASE ~arbiter
  <2>1. inbox' = inbox /\ Choose(Empty) /\ Empty \in Ssids
    BY <1>4, NetAssumption DEF Ask
  <2>2. PICK place \in {"reply", "idle", "say state", "join"} :
             /\ at' = [at EXCEPT !["monitor"] = place]
             /\ say' = say \/ \E s \in States : say' = [say EXCEPT !["monitor"] = s]
             /\ IF place = "join"
                THEN \E n \in Names : want' = [want EXCEPT !["monitor"] = n]
                ELSE want' = want
    BY <2>1, ChooseGoes
  <2>3. place \in Places /\ (place \in Bringing => place = "join")
    BY DEF Places, Bringing
  <2>4. ThreadTypes'
    BY <1>1, <1>2, <2>2, <2>3, MayJoin DEF WifiInv, Threads
  <2>5. Lines'
    BY <1>1, <2>1, <2>2, <2>3, QuietMove
  <2>. QED
    BY <1>1, <2>1, <2>4, <2>5 DEF WifiInv, LinkTypes, SocketTypes, linkVars
<1>. QED
  BY <1>3, <1>4

\* The monitor stores the link that it brought up.
LEMMA StoreLinkStep == ASSUME WifiInv, Store PROVE WifiInv'
<1>1. /\ at["monitor"] = "store" /\ UNCHANGED <<radio, selected, carrier, want, ticks, booted, socketVars>>
      /\ link' = want["monitor"] /\ at' = [at EXCEPT !["monitor"] = "say state"]
      /\ say' = [say EXCEPT !["monitor"] = want["monitor"]]
  BY DEF Store, Go, GoSaying
<1>2. want["monitor"] \in Ssids /\ want["monitor"] \in States
      /\ ticks' \in 0..(Reannounce - 1) /\ booted' \in BOOLEAN
  BY <1>1 DEF WifiInv, ThreadTypes, Bringing, Threads, States
<1>3. "monitor" \in Threads /\ "say state" \in Places /\ "say state" \notin Bringing
  BY DEF Threads, Places, Bringing
<1>4. ThreadTypes'
  BY <1>1, <1>2, <1>3, Goes DEF WifiInv
<1>5. Lines'
  BY <1>1, <1>3, QuietMove DEF socketVars
<1>. QED
  BY <1>1, <1>2, <1>4, <1>5 DEF WifiInv, LinkTypes, SocketTypes, socketVars

\* The control thread takes a job, which brings two reports at most.
LEMMA AcceptStep == ASSUME WifiInv, Accept PROVE WifiInv'
<1>1. /\ at["control"] = "idle" /\ relay \in Jobs /\ heard' = TRUE
      /\ UNCHANGED <<selected, link, say, ticks, booted, inbox, relay, arbiter>>
  BY DEF Accept, WifiInv, SocketTypes
<1>2. PICK place \in {"lock", "reply"} :
        /\ at' = [at EXCEPT !["control"] = place]
        /\ IF place = "lock"
           THEN \E n \in Names : want' = [want EXCEPT !["control"] = n]
           ELSE want' = want
        /\ radio' \in BOOLEAN /\ carrier' \in BOOLEAN
  <2>1. CASE relay.verb = "connect"
    <3>1. relay.ssid \in Names
      BY <1>1, <2>1 DEF Jobs
    <3>. QED
      BY <2>1, <3>1 DEF Accept, Go, WifiInv, LinkTypes
  <2>2. CASE relay.verb = "set-enabled"
    <3>1. relay.on \in BOOLEAN
      BY <1>1, <2>2 DEF Jobs
    <3>2. /\ radio' \in {radio, relay.on} /\ carrier' = (carrier /\ radio')
          /\ at' = [at EXCEPT !["control"] = "reply"] /\ want' = want
      BY <2>2 DEF Accept, Go
    <3>3. radio' \in BOOLEAN /\ carrier' \in BOOLEAN
      BY <3>1, <3>2 DEF WifiInv, LinkTypes
    <3>. QED
      BY <3>2, <3>3
  <2>3. CASE relay.verb # "connect" /\ relay.verb # "set-enabled"
    BY <2>3 DEF Accept, Go, WifiInv, LinkTypes
  <2>. QED
    BY <2>1, <2>2, <2>3
<1>3. "control" \in Threads /\ place \in Places /\ (place \in Bringing => place = "lock")
      /\ at'["control"] = place /\ at'["monitor"] = at["monitor"]
  BY <1>2 DEF Threads, Places, Bringing, WifiInv, ThreadTypes
<1>4. ThreadTypes'
  <2>1. ticks' \in 0..(Reannounce - 1) /\ booted' \in BOOLEAN
    BY <1>1 DEF WifiInv, ThreadTypes
  <2>. QED
    BY <1>1, <1>2, <1>3, <2>1, MayJoin DEF WifiInv
<1>5. Lines'
  <2>1. /\ \A kind : (Waits(kind)' <=> Waits(kind)) /\ (Once(kind)' <=> Once(kind))
        /\ ~Waits("relay") /\ ~heard
    BY <1>1 DEF Waits, Once, WifiInv, Lines, Jobs, NoJob
  <2>2. Owed' = Owed /\ Owed[at["control"]] = 0
    BY <1>1 DEF Owed, Places
  <2>3. Owed[at'["control"]] \in 0..2
    BY <1>3, OwedRange
  <2>4. Len(inbox) \in Nat /\ MaxInbox \in Nat
    BY WifiAssumption DEF WifiInv, SocketTypes
  <2>5. relay # NoJob /\ place # "idle"
    BY <1>1 DEF Jobs, NoJob
  <2>6. Len(inbox) + 2 <= MaxInbox + 4
    BY <2>1, <2>2, <2>4, <2>5 DEF WifiInv, Lines
  <2>. QED
    BY <1>1, <1>3, <2>1, <2>2, <2>3, <2>4, <2>5, <2>6 DEF WifiInv, Lines
<1>. QED
  BY <1>1, <1>2, <1>4, <1>5 DEF WifiInv, LinkTypes, SocketTypes

\* The control thread has the link lock.
LEMMA LockStep == ASSUME WifiInv, Lock PROVE WifiInv'
<1>1. /\ at["control"] = "lock" /\ at' = [at EXCEPT !["control"] = "join"]
      /\ UNCHANGED <<linkVars, want, say, ticks, booted, socketVars>>
  BY DEF Lock, Go
<1>2. "control" \in Threads /\ "join" \in Places /\ "lock" \in Bringing
      /\ Owed["join"] <= Owed[at["control"]]
  BY <1>1 DEF Threads, Places, Bringing, Owed
<1>3. ThreadTypes'
  BY <1>1, <1>2 DEF WifiInv, ThreadTypes
<1>4. Lines'
  BY <1>1, <1>2, QuietMove DEF socketVars
<1>. QED
  BY <1>1, <1>3, <1>4 DEF WifiInv, LinkTypes, SocketTypes, linkVars, socketVars

\* The control thread replies, and its job is over.
LEMMA ReplyStep == ASSUME WifiInv, ReplyToRelay PROVE WifiInv'
<1>1. /\ at["control"] = "reply" /\ at' = [at EXCEPT !["control"] = "idle"]
      /\ relay' = (IF heard THEN NoJob ELSE relay) /\ heard' = FALSE
      /\ UNCHANGED <<linkVars, want, say, ticks, booted, inbox, arbiter>>
  BY DEF ReplyToRelay, Go
<1>2. at'["control"] = "idle" /\ at'["monitor"] = at["monitor"] /\ "idle" \in Places
      /\ "idle" \notin Bringing
  BY <1>1 DEF WifiInv, ThreadTypes, Threads, Places, Bringing
<1>3. ThreadTypes'
  BY <1>1, <1>2 DEF WifiInv, ThreadTypes
<1>4. /\ \A kind : (Waits(kind)' <=> Waits(kind)) /\ (Once(kind)' <=> Once(kind))
      /\ Owed' = Owed /\ Owed["idle"] = 0 /\ Owed["reply"] = 0
      /\ Len(inbox) \in Nat /\ MaxInbox \in Nat
  BY <1>1, WifiAssumption DEF Waits, Once, Owed, Places, WifiInv, SocketTypes
<1>5. /\ Waits("relay") => relay' = NoJob
      /\ relay' # NoJob => relay # NoJob /\ ~heard
  BY <1>1 DEF WifiInv, Lines
<1>6. Len(inbox) + (IF Waits("relay") \/ relay' # NoJob THEN 2 ELSE 0) <= MaxInbox + 4
  BY <1>1, <1>4, <1>5 DEF WifiInv, Lines
<1>7. Lines'
  <2>1. /\ Once("relay")' /\ (Waits("relay")' => relay' = NoJob)
        /\ Once("query")' /\ (Waits("query")' => at'["monitor"] = "await")
    BY <1>2, <1>4, <1>5 DEF WifiInv, Lines
  <2>2. Owed'[at'["control"]] = 0 /\ inbox' = inbox /\ heard' = FALSE
    BY <1>1, <1>2, <1>4
  <2>3. Len(inbox') + Owed'[at'["control"]]
           + (IF Waits("relay")' \/ (relay' # NoJob /\ ~heard') THEN 2 ELSE 0) <= MaxInbox + 4
    BY <1>4, <1>6, <2>2
  <2>. QED
    BY <2>1, <2>2, <2>3 DEF Lines
<1>. QED
  BY <1>1, <1>3, <1>7 DEF WifiInv, LinkTypes, SocketTypes, linkVars

LEMMA RoamStep == ASSUME WifiInv, Roam PROVE WifiInv'
<1>1. carrier' \in BOOLEAN /\ UNCHANGED <<radio, selected, link, threadVars, socketVars>>
  BY DEF Roam
<1>2. Lines'
  BY <1>1 DEF WifiInv, Lines, Waits, Once, Owed, threadVars, socketVars
<1>. QED
  BY <1>1, <1>2 DEF WifiInv, LinkTypes, ThreadTypes, SocketTypes, threadVars, socketVars

\* The daemon is new: its connection, if it has one, is gone, and so is the job.
LEMMA RespawnStep == ASSUME WifiInv, DaemonRestarts PROVE WifiInv'
<1>1. /\ link' = Empty /\ at' = [monitor |-> "ask", control |-> "idle"]
      /\ want' = [t \in Threads |-> Empty] /\ say' = [t \in Threads |-> Offline]
      /\ ticks' = 0 /\ booted' = FALSE /\ inbox' = WithoutQuery
      /\ relay' = NoJob /\ heard' = FALSE
      /\ UNCHANGED <<radio, selected, carrier, arbiter>>
  BY DEF DaemonRestarts
<1>2. ThreadTypes'
  <2>1. at' = [t \in Threads |-> IF t = "monitor" THEN "ask" ELSE "idle"]
    BY <1>1 DEF Threads
  <2>4. at' \in [Threads -> Places] /\ \A t \in Threads : at'[t] \notin Bringing
    BY <2>1 DEF Threads, Places, Bringing
  <2>2. want' \in [Threads -> Ssids] /\ say' \in [Threads -> States]
    BY <1>1, NetAssumption DEF States
  <2>3. 0 \in 0..(Reannounce - 1)
    BY WifiAssumption
  <2>. QED
    BY <1>1, <2>2, <2>3, <2>4 DEF ThreadTypes
<1>3. /\ inbox' \in Seq(Messages) /\ Len(inbox') <= Len(inbox)
      /\ Once("relay")' /\ (Waits("relay")' => Waits("relay"))
      /\ ~Waits("query")'
  BY <1>1, QueryGone DEF WifiInv, SocketTypes, Lines
<1>4. Once("query")'
  BY <1>3 DEF Once, Waits
<1>5. Lines'
  <2>1. Owed[at["control"]] \in Nat
    BY OwedRange DEF WifiInv, ThreadTypes, Threads
  <2>2. Owed'[at'["control"]] = 0
    BY <1>1 DEF Owed, Places
  <2>3. Len(inbox) \in Nat /\ Len(inbox') \in Nat /\ MaxInbox \in Nat
    BY <1>3, WifiAssumption DEF WifiInv, SocketTypes
  <2>4. Len(inbox') + (IF Waits("relay")' THEN 2 ELSE 0) <= MaxInbox + 4
    BY <1>3, <2>1, <2>3 DEF WifiInv, Lines
  <2>. QED
    BY <1>1, <1>3, <1>4, <2>2, <2>3, <2>4 DEF Lines
<1>. QED
  BY <1>1, <1>2, <1>3, <1>5, NetAssumption DEF WifiInv, LinkTypes, SocketTypes

\* The arbiter is gone with its connections; who waited for a reply goes on.
LEMMA DiesStep == ASSUME WifiInv, ArbiterDies PROVE WifiInv'
<1>1. /\ arbiter' = FALSE /\ inbox' = <<>> /\ relay' = NoJob /\ heard' = FALSE
      /\ UNCHANGED <<linkVars, ticks, booted>>
  BY DEF ArbiterDies
<1>2. ThreadTypes' /\ at'["control"] = at["control"]
  <2>1. CASE at["monitor"] = "await"
    <3>1. Choose(Empty) /\ Empty \in Ssids
      BY <2>1, NetAssumption DEF ArbiterDies
    <3>2. PICK place \in {"reply", "idle", "say state", "join"} :
               /\ at' = [at EXCEPT !["monitor"] = place]
               /\ say' = say \/ \E s \in States : say' = [say EXCEPT !["monitor"] = s]
               /\ IF place = "join"
                  THEN \E n \in Names : want' = [want EXCEPT !["monitor"] = n]
                  ELSE want' = want
      BY <3>1, ChooseGoes
    <3>3. place \in Places /\ (place \in Bringing => place = "join")
      BY DEF Places, Bringing
    <3>4. ticks' \in 0..(Reannounce - 1) /\ booted' \in BOOLEAN
      BY <1>1 DEF WifiInv, ThreadTypes
    <3>. QED
      BY <3>2, <3>3, <3>4, MayJoin DEF WifiInv, ThreadTypes, Threads
  <2>2. CASE at["monitor"] # "await"
    BY <1>1, <2>2 DEF ArbiterDies, WifiInv, ThreadTypes
  <2>. QED
    BY <2>1, <2>2
<1>3. Len(inbox') = 0 /\ inbox' \in Seq(Messages)
  BY <1>1
<1>4. ~Waits("relay")' /\ ~Waits("query")' /\ Once("relay")' /\ Once("query")'
  BY <1>3 DEF Waits, Once
<1>5. Owed' = Owed /\ Owed[at["control"]] \in 0..2 /\ MaxInbox \in Nat
  BY OwedRange, WifiAssumption DEF Owed, Places, WifiInv, ThreadTypes, Threads
<1>6. Lines'
  BY <1>1, <1>2, <1>3, <1>4, <1>5 DEF Lines
<1>. QED
  BY <1>1, <1>2, <1>3, <1>6 DEF WifiInv, LinkTypes, SocketTypes, linkVars

LEMMA StartsStep == ASSUME WifiInv, ArbiterStarts PROVE WifiInv'
<1>1. arbiter' = TRUE /\ UNCHANGED <<linkVars, threadVars, inbox, relay, heard>>
  BY DEF ArbiterStarts
<1>2. Lines'
  BY <1>1 DEF WifiInv, Lines, Waits, Once, Owed, threadVars
<1>. QED
  BY <1>1, <1>2 DEF WifiInv, LinkTypes, ThreadTypes, SocketTypes, threadVars, linkVars

\* A host asks for a relay, when no other waits and the queue has room.
LEMMA CommandStep == ASSUME WifiInv, NEW c \in Commands, Command(c) PROVE WifiInv'
<1> DEFINE m == [kind |-> "relay", of |-> c]
<1>1. /\ relay = NoJob /\ Len(inbox) < MaxInbox /\ inbox' = Append(inbox, m)
      /\ UNCHANGED <<linkVars, threadVars, relay, heard, arbiter>>
      /\ \A i \in DOMAIN inbox : inbox[i].kind # "relay"
  BY DEF Command, Free
<1>2. m \in Messages /\ m.kind = "relay"
  BY DEF Messages
<1> HIDE DEF m
<1>3. ~Waits("relay")
  BY <1>1 DEF Waits, WifiInv, SocketTypes
<1>4. /\ inbox' \in Seq(Messages) /\ Len(inbox') = Len(inbox) + 1
      /\ (Waits("query")' <=> Waits("query")) /\ (Once("query") => Once("query")')
      /\ Once("relay")'
  BY <1>1, <1>2, <1>3, AppendWaits DEF WifiInv, SocketTypes, Lines
<1>5. Owed' = Owed /\ at' = at /\ Owed[at["control"]] \in 0..2
  BY <1>1, OwedRange DEF Owed, Places, WifiInv, ThreadTypes, Threads, threadVars
<1>6. Lines'
  <2>1. Len(inbox) \in Nat /\ MaxInbox \in Nat
    BY WifiAssumption DEF WifiInv, SocketTypes
  <2>2. Len(inbox') <= MaxInbox
    BY <1>1, <1>4, <2>1
  <2>. QED
    BY <1>1, <1>4, <1>5, <2>1, <2>2 DEF WifiInv, Lines
<1>. QED
  BY <1>1, <1>4, <1>6 DEF WifiInv, LinkTypes, ThreadTypes, SocketTypes, linkVars, threadVars

\* The first connection is read, and the arbiter relays nothing.
LEMMA TailLines ==
    ASSUME WifiInv, inbox # <<>>, inbox' = Tail(inbox), UNCHANGED <<relay, heard>>,
           at'["control"] = at["control"],
           at'["monitor"] = at["monitor"] \/ Head(inbox).kind = "query"
    PROVE  Lines' /\ inbox' \in Seq(Messages)
<1>1. /\ inbox' \in Seq(Messages) /\ Len(inbox') + 1 = Len(inbox)
      /\ \A kind \in {"relay", "query"} :
           /\ Once(kind) => Once(kind)'
           /\ Waits(kind)' => Waits(kind)
           /\ Once(kind) /\ Head(inbox).kind = kind => ~Waits(kind)'
  BY TailWaits DEF WifiInv, SocketTypes
<1>2. Owed' = Owed /\ Owed[at["control"]] \in 0..2
  BY OwedRange DEF Owed, Places, WifiInv, ThreadTypes, Threads
<1>3. Len(inbox) \in Nat /\ Len(inbox') \in Nat /\ MaxInbox \in Nat
  BY <1>1, WifiAssumption DEF WifiInv, SocketTypes
<1>4. Len(inbox') + Owed[at["control"]]
         + (IF Waits("relay")' \/ (relay # NoJob /\ ~heard) THEN 2 ELSE 0) <= MaxInbox + 4
  BY <1>1, <1>2, <1>3 DEF WifiInv, Lines
<1>. QED
  BY <1>1, <1>2, <1>4 DEF WifiInv, Lines

LEMMA ReportRead ==
    ASSUME WifiInv, inbox # <<>>, inbox' = Tail(inbox),
           UNCHANGED <<linkVars, threadVars, relay, heard, arbiter>>
    PROVE  WifiInv'
<1>1. Lines' /\ inbox' \in Seq(Messages)
  BY TailLines DEF threadVars
<1>. QED
  BY <1>1 DEF WifiInv, LinkTypes, ThreadTypes, SocketTypes, linkVars, threadVars

\* A non-empty set of indexes has a first one.
LEMMA FirstIndex ==
    ASSUME NEW S \in SUBSET Nat, S # {}
    PROVE  \E i \in S : \A j \in S : i <= j
<1>1. PICK i \in S : \A j \in S : <<j, i>> \notin OpToRel(<, Nat)
  BY NatLessThanWellFounded, WFMin
<1>2. \A j \in S : ~(j < i)
  BY <1>1 DEF OpToRel
<1>. QED
  BY <1>2

\* What the store says of a network is a name.
LEMMA StoreNames ==
    ASSUME SavedInv
    PROVE  AutoNetwork \in Ssids /\ \A id : CredsOf(id) \subseteq Ssids
<1>1. \A i \in 1..Len(saved) : saved[i].ssid \in Ssids
  BY EntryId DEF SavedInv, Entry
<1>2. ASSUME NEW id PROVE CredsOf(id) \subseteq Ssids
  BY <1>1 DEF CredsOf, SavedInv
<1>3. AutoNetwork \in Ssids
  <2> DEFINE auto == {i \in DOMAIN saved : saved[i].auto}
  <2>1. CASE auto = {}
    BY <2>1, NetAssumption DEF AutoNetwork
  <2>2. CASE auto # {}
    <3>1. auto \subseteq Nat /\ auto \subseteq 1..Len(saved)
      BY DEF SavedInv
    <3>2. \E i \in auto : \A j \in auto : i <= j
      BY <2>2, <3>1, FirstIndex
    <3>3. (CHOOSE i \in auto : \A j \in auto : i <= j) \in auto
      BY <3>2
    <3> DEFINE first == CHOOSE i \in auto : \A j \in auto : i <= j
    <3>4. AutoNetwork = saved[first].ssid
      BY <2>2 DEF AutoNetwork
    <3> HIDE DEF auto, first
    <3>5. first \in 1..Len(saved)
      BY <3>1, <3>3 DEF first
    <3>. QED
      BY <1>1, <3>4, <3>5
  <2>. QED
    BY <2>1, <2>2
<1>. QED
  BY <1>2, <1>3

\* A relay starts a job in the place of the command that waited.
LEMMA RelayStep == ASSUME WifiInv, SavedInv, Relay PROVE WifiInv'
<1> DEFINE c == Head(inbox).of
           jobs == JobsOf(c)
<1>1. /\ relay = NoJob /\ inbox # <<>> /\ Head(inbox).kind = "relay" /\ inbox' = Tail(inbox)
      /\ relay' = IF booted /\ jobs # {} THEN CHOOSE j \in jobs : TRUE ELSE NoJob
      /\ UNCHANGED <<linkVars, threadVars, heard, arbiter>>
  BY DEF Relay, Free
<1>2. Head(inbox) \in Messages /\ Waits("relay")
  <2>1. Head(inbox) = inbox[1] /\ 1 \in 1..Len(inbox) /\ inbox[1] \in Messages
    BY <1>1 DEF WifiInv, SocketTypes
  <2>. QED
    BY <1>1, <2>1 DEF Waits
<1>3. c \in Commands
  BY <1>1, <1>2 DEF Messages
<1>4. relay' \in Jobs \cup {NoJob}
  <2>1. CASE booted /\ jobs # {}
    <3>1. relay' \in jobs
      BY <1>1, <2>1
    <3>2. CASE c.verb = "connect-saved"
      <4>1. jobs = {[verb |-> "connect", ssid |-> s] : s \in CredsOf(c.id) \ {Empty}}
        BY <3>2 DEF JobsOf
      <4>. QED
        BY <3>1, <4>1, StoreNames DEF Jobs, Names
    <3>3. CASE c.verb # "connect-saved"
      <4>1. jobs = {c}
        BY <3>3 DEF JobsOf
      <4>2. c \in Jobs
        BY <1>3, <3>3 DEF Commands
      <4>. QED
        BY <3>1, <4>1, <4>2
    <3>. QED
      BY <3>2, <3>3
  <2>2. CASE ~(booted /\ jobs # {})
    BY <1>1, <2>2
  <2>. QED
    BY <2>1, <2>2
<1> HIDE DEF c, jobs
<1>5. /\ inbox' \in Seq(Messages) /\ Len(inbox') + 1 = Len(inbox)
      /\ Once("relay")' /\ Once("query")' /\ ~Waits("relay")'
      /\ Waits("query")' => Waits("query")
  BY <1>1, TailWaits DEF WifiInv, SocketTypes, Lines
<1>6. Owed' = Owed /\ at' = at /\ Owed[at["control"]] \in 0..2
  BY <1>1, OwedRange DEF Owed, Places, WifiInv, ThreadTypes, Threads, threadVars
<1>7. Len(inbox) \in Nat /\ Len(inbox') \in Nat /\ MaxInbox \in Nat
  BY <1>5, WifiAssumption DEF WifiInv, SocketTypes
<1>8. Len(inbox) + Owed[at["control"]] + 2 <= MaxInbox + 4
  BY <1>2, <1>6, <1>7 DEF WifiInv, Lines
<1>9. Lines'
  BY <1>1, <1>5, <1>6, <1>7, <1>8 DEF WifiInv, Lines
<1>. QED
  BY <1>1, <1>4, <1>5, <1>9 DEF WifiInv, LinkTypes, ThreadTypes, SocketTypes, linkVars, threadVars

\* The monitor's query has its answer.
LEMMA AnswerStep == ASSUME WifiInv, SavedInv, AnswerQuery PROVE WifiInv'
<1>1. /\ inbox # <<>> /\ Head(inbox).kind = "query" /\ inbox' = Tail(inbox)
      /\ Choose(AutoNetwork) /\ AutoNetwork \in Ssids
      /\ UNCHANGED <<linkVars, ticks, booted, relay, heard, arbiter>>
  BY StoreNames DEF AnswerQuery
<1>2. PICK place \in {"reply", "idle", "say state", "join"} :
           /\ at' = [at EXCEPT !["monitor"] = place]
           /\ say' = say \/ \E s \in States : say' = [say EXCEPT !["monitor"] = s]
           /\ IF place = "join"
              THEN \E n \in Names : want' = [want EXCEPT !["monitor"] = n]
              ELSE want' = want
  BY <1>1, ChooseGoes
<1>3. place \in Places /\ (place \in Bringing => place = "join")
  BY DEF Places, Bringing
<1>4. ticks' \in 0..(Reannounce - 1) /\ booted' \in BOOLEAN
  BY <1>1 DEF WifiInv, ThreadTypes
<1>5. ThreadTypes' /\ at'["control"] = at["control"]
  BY <1>2, <1>3, <1>4, MayJoin DEF WifiInv, ThreadTypes, Threads
<1>6. Lines' /\ inbox' \in Seq(Messages)
  BY <1>1, <1>5, TailLines
<1>. QED
  BY <1>1, <1>5, <1>6 DEF WifiInv, LinkTypes, SocketTypes, linkVars

LEMMA WifiStart == ASSUME Init PROVE WifiInv
<1>1. WifiInit
  BY DEF Init
<1>2. LinkTypes
  BY <1>1, NetAssumption DEF WifiInit, LinkTypes
<1>3. ThreadTypes
  <2>1. at = [t \in Threads |-> IF t = "monitor" THEN "ask" ELSE "idle"]
    BY <1>1 DEF WifiInit, Threads
  <2>2. at \in [Threads -> Places] /\ \A t \in Threads : at[t] \notin Bringing
    BY <2>1 DEF Threads, Places, Bringing
  <2>3. want \in [Threads -> Ssids] /\ say \in [Threads -> States] /\ ticks = 0 /\ booted = FALSE
    BY <1>1, NetAssumption DEF WifiInit, States
  <2>4. 0 \in 0..(Reannounce - 1)
    BY WifiAssumption
  <2>. QED
    BY <2>2, <2>3, <2>4 DEF ThreadTypes
<1>4. inbox = <<>> /\ relay = NoJob /\ heard = FALSE /\ arbiter = TRUE /\ at["control"] = "idle"
  BY <1>1 DEF WifiInit
<1>5. SocketTypes
  <2>1. inbox \in Seq(Messages)
    BY <1>4
  <2>. QED
    BY <1>4, <2>1 DEF SocketTypes
<1>6. Lines
  <2>1. Len(inbox) = 0 /\ Owed["idle"] = 0 /\ MaxInbox \in Nat
    BY <1>4, WifiAssumption DEF Owed, Places
  <2>2. \A kind : ~Waits(kind) /\ Once(kind)
    BY <2>1 DEF Waits, Once
  <2>. QED
    BY <1>4, <2>1, <2>2 DEF Lines
<1>. QED
  BY <1>2, <1>3, <1>5, <1>6 DEF WifiInv

LEMMA WifiStepKeeps == ASSUME WifiInv, SavedInv, WifiStep PROVE WifiInv'
<1>1. CASE UNCHANGED wifiVars
  BY <1>1 DEF wifiVars, linkVars, threadVars, socketVars, WifiInv, LinkTypes, ThreadTypes,
              SocketTypes, Lines, Waits, Once, Owed
<1>2. CASE MonitorStep
  <2>1. "monitor" \in Threads
    BY DEF Threads
  <2>. QED
    BY <1>2, <2>1, TickStep, AskStep, StoreLinkStep, BringingStep, SayingStep DEF MonitorStep, BringUp
<1>3. CASE ControlStep
  <2>1. "control" \in Threads
    BY DEF Threads
  <2>. QED
    BY <1>3, <2>1, AcceptStep, LockStep, ReplyStep, BringingStep, SayingStep DEF ControlStep, BringUp
<1>4. CASE Roam \/ DaemonRestarts \/ ArbiterDies \/ ArbiterStarts
  BY <1>4, RoamStep, RespawnStep, DiesStep, StartsStep
<1>5. CASE \E c \in Commands : Command(c)
  BY <1>5, CommandStep
<1>6. CASE inbox # <<>> /\ inbox' = Tail(inbox) /\ UNCHANGED <<linkVars, threadVars, relay, heard, arbiter>>
  BY <1>6, ReportRead
<1>7. CASE AnswerQuery \/ Relay
  BY <1>7, AnswerStep, RelayStep
<1>. QED
  BY <1>1, <1>2, <1>3, <1>4, <1>5, <1>6, <1>7 DEF WifiStep

\* A queue that owes no more than its bound is no longer than that.
LEMMA WifiInvTyped == ASSUME WifiInv PROVE WifiTypeOK
<1>1. Len(inbox) <= MaxInbox + 4
  <2>1. Owed[at["control"]] \in Nat /\ Len(inbox) \in Nat /\ MaxInbox \in Nat
    BY OwedRange, WifiAssumption DEF WifiInv, ThreadTypes, Threads, SocketTypes
  <2>. QED
    BY <2>1 DEF WifiInv, Lines
<1>2. {radio, carrier, booted, heard, arbiter} \subseteq BOOLEAN /\ {selected, link} \subseteq Ssids
  BY DEF WifiInv, LinkTypes, ThreadTypes, SocketTypes
<1>. QED
  BY <1>1, <1>2 DEF WifiInv, ThreadTypes, SocketTypes, WifiTypeOK
-----------------------------------------------------------------------------
(* The types of all services *)

\* A reported line says a state, which the arbiter reads as a word.
LEMMA LineStates ==
    ASSUME SocketTypes, NEW kind \in {"state", "event"}
    PROVE  Line(kind) \subseteq States
<1>1. CASE inbox # <<>> /\ Head(inbox).kind = kind
  <2>1. Head(inbox) \in Messages
    BY <1>1 DEF SocketTypes
  <2>2. Head(inbox).of \in States
    BY <1>1, <2>1 DEF Messages
  <2>. QED
    BY <2>2 DEF Line
<1>2. CASE ~(inbox # <<>> /\ Head(inbox).kind = kind)
  BY <1>2 DEF Line
<1>. QED
  BY <1>1, <1>2

\* An app keeps one host: a launch puts the host that is registered off.
LEMMA LifeKeeps ==
    ASSUME HostsTypeOK, NEW p \in Pids, Launch(p) \/ Die(p) \/ Cut(p) \/ Exit(p)
    PROVE  HostsTypeOK'
<1>1. proc' \in [Pids -> Stages]
  BY DEF Launch, Die, Cut, Exit, Move, HostsTypeOK, Stages
<1>2. \/ Registered' \subseteq Registered
      \/ /\ Registered' \subseteq Registered \cup {p}
         /\ \A q \in Registered' : AppId[q] = AppId[p] => q = p
  <2>1. CASE Launch(p)
    BY <2>1 DEF Launch, HostsOf, Registered
  <2>2. CASE Die(p) \/ Cut(p) \/ Exit(p)
    BY <2>2 DEF Die, Cut, Exit, Move, Registered, HostsTypeOK
  <2>. QED
    BY <2>1, <2>2
<1>. QED
  BY <1>1, <1>2 DEF HostsTypeOK

LEMMA ReadWord == ASSUME NEW s \in States PROVE Read(s) \in Words
BY NetAssumption DEF States, Read, Words, Range

\* Every step tells the subscribers words and payloads.
LEMMA TellTyped ==
    ASSUME HostsTypeOK, NetTypeOK, BrokerTypeOK, SocketTypes, SavedInv', TellStep
    PROVE  HostsTypeOK' /\ NetTypeOK' /\ BrokerTypeOK'
<1>1. HostsTypeOK'
  <2>1. ASSUME UNCHANGED proc PROVE HostsTypeOK'
    BY <2>1 DEF HostsTypeOK, Registered
  <2>2. ASSUME NEW p \in Pids, Launch(p) \/ Die(p) \/ Cut(p) \/ Exit(p) PROVE HostsTypeOK'
    BY <2>2, LifeKeeps
  <2>3. CASE proc' = [p \in Pids |-> IF proc[p] = "exited" THEN "cut" ELSE proc[p]]
    BY <2>3 DEF HostsTypeOK, Registered, Stages
  <2>. QED
    BY <2>1, <2>2, <2>3 DEF TellStep
<1>2. (Range(saved) \cup Range(file) \subseteq Entry)' /\ nextId' \in 1..(MaxSaved + 1)
  BY DEF SavedInv, Range
<1> DEFINE Net == /\ netState \in Words /\ netSubs \subseteq Pids
                  /\ netTold \in [Pids -> Words \cup {Unheard}]
<1>3. Net' /\ BrokerTypeOK'
  <2>1. Net /\ BrokerTypeOK
    BY DEF NetTypeOK
  <2>2. CASE UNCHANGED <<tellVars, brokerVars>>
    BY <2>1, <2>2 DEF tellVars, brokerVars, BrokerTypeOK
  <2>3. ASSUME NEW p \in Pids, ForgetNet(p), ForgetBroker(p) PROVE Net' /\ BrokerTypeOK'
    BY <2>1, <2>3 DEF ForgetNet, ForgetBroker, BrokerTypeOK
  <2>4. CASE ReloadNet /\ RestartBroker
    BY <2>1, <2>4 DEF ReloadNet, RestartBroker, BrokerTypeOK, Words
  <2>5. ASSUME UNCHANGED brokerVars, NEW p \in Pids, NetSubscribe(p) PROVE Net' /\ BrokerTypeOK'
    BY <2>1, <2>5 DEF NetSubscribe, brokerVars, BrokerTypeOK
  <2>6. ASSUME UNCHANGED brokerVars, NEW s \in Line("state"), ReportNetState(Read(s))
        PROVE  Net' /\ BrokerTypeOK'
    <3>1. Read(s) \in Words
      BY <2>6, LineStates, ReadWord
    <3>. QED
      BY <2>1, <2>6, <3>1 DEF ReportNetState, brokerVars, BrokerTypeOK
  <2>7. ASSUME NEW hosts, NEW t \in Topics, NEW payload \in Payloads \cup {Nothing}
        PROVE  Delivered(hosts, t, payload) \in [Pids -> [Topics -> Payloads \cup {Nothing}]]
    BY <2>1 DEF Delivered, BrokerTypeOK
  <2>8. ASSUME UNCHANGED tellVars, NEW p \in Pids, NEW t \in Topics,
               EvtSubscribe(p, t) \/ EvtUnsubscribe(p, t)
        PROVE  Net' /\ BrokerTypeOK'
    <3>1. retained[t] \in Payloads \cup {Nothing}
      BY DEF BrokerTypeOK
    <3>2. evtTold' \in {evtTold, Delivered({p}, t, retained[t])} /\ retained' = retained
      BY <2>8 DEF EvtSubscribe, EvtUnsubscribe
    <3>3. evtSubs' \in [Topics -> SUBSET Pids]
      BY <2>8 DEF EvtSubscribe, EvtUnsubscribe, BrokerTypeOK
    <3>4. evtTold' \in [Pids -> [Topics -> Payloads \cup {Nothing}]]
      <4>1. Delivered({p}, t, retained[t]) \in [Pids -> [Topics -> Payloads \cup {Nothing}]]
        BY <2>7, <3>1
      <4>. QED
        BY <3>2, <4>1 DEF BrokerTypeOK
    <3>5. Net'
      BY <2>1, <2>8 DEF tellVars
    <3>. QED
      BY <3>2, <3>3, <3>4, <3>5 DEF BrokerTypeOK
  <2>9. ASSUME UNCHANGED tellVars, NEW t \in Topics, NEW payload \in {"ping", "pong"} \cup Line("event"),
               EvtPublish(t, payload)
        PROVE  Net' /\ BrokerTypeOK'
    <3>1. payload \in Payloads
      BY LineStates DEF Payloads
    <3>2. evtTold' = Delivered(evtSubs[t], t, payload) /\ evtSubs' = evtSubs
          /\ retained' \in [Topics -> Payloads \cup {Nothing}]
      BY <2>9, <3>1 DEF EvtPublish, BrokerTypeOK
    <3>. QED
      BY <2>1, <2>7, <2>9, <3>1, <3>2 DEF tellVars, BrokerTypeOK
  <2>. QED
    BY <2>2, <2>3, <2>4, <2>5, <2>6, <2>8, <2>9 DEF TellStep
<1>. QED
  BY <1>1, <1>2, <1>3 DEF NetTypeOK

\* Every step keeps the presses within their counts.
LEMMA PressTyped == ASSUME PressTypeOK, PressStep PROVE PressTypeOK'
<1>0. gen \in Nat /\ MaxGen \in Nat /\ gen <= MaxGen
  BY PressAssumption DEF PressTypeOK
<1>1. CASE UNCHANGED pressVars
  BY <1>1 DEF pressVars, PressTypeOK
<1>2. ASSUME NEW hosts \in SUBSET Pids, PressKey(hosts) PROVE PressTypeOK'
  <2>1. outcomes' \in Seq(Kinds)
    BY <1>2 DEF PressKey
  <2>. QED
    BY <1>2, <2>1 DEF PressKey, PressTypeOK
<1>3. ASSUME NEW p \in Pids, PowerDown(p) PROVE PressTypeOK'
  <2>1. gen' \in 0..MaxGen /\ pending' \in 0..gen' /\ timers' \subseteq 1..gen'
    <3>1. CASE pending # 0 /\ age[pending] # "old"
      BY <1>3, <3>1 DEF PowerDown, PressTypeOK
    <3>2. CASE ~(pending # 0 /\ age[pending] # "old")
      <4>1. gen < MaxGen /\ gen' = gen + 1 /\ pending' = gen' /\ timers' = timers \cup {gen'}
        BY <1>3, <3>2 DEF PowerDown
      <4>. QED
        BY <1>0, <4>1 DEF PressTypeOK
    <3>. QED
      BY <3>1, <3>2
  <2>2. key' \in [Pids -> {"down", "up", "none"}] /\ smooth' \in BOOLEAN /\ UNCHANGED <<age, outcomes>>
    BY <1>3 DEF PowerDown, PressTypeOK
  <2>. QED
    BY <2>1, <2>2 DEF PressTypeOK
<1>4. ASSUME NEW kind \in Kinds, Outcome(kind) PROVE outcomes' \in Seq(Kinds)
  BY <1>4 DEF Outcome, PressTypeOK
<1>5. ASSUME NEW p \in Pids, PowerUp(p) PROVE PressTypeOK'
  <2>1. outcomes' \in Seq(Kinds)
    BY <1>4, <1>5 DEF PowerUp, Kinds, PressTypeOK
  <2>2. 0 \in 0..gen
    BY <1>0
  <2>3. key' \in [Pids -> {"down", "up", "none"}] /\ pending' = 0 /\ UNCHANGED <<gen, age, timers, smooth>>
    BY <1>5 DEF PowerUp, PressTypeOK
  <2>. QED
    BY <2>1, <2>2, <2>3 DEF PressTypeOK
<1>6. ASSUME NEW g \in timers, TimerFires(g) PROVE PressTypeOK'
  <2>1. outcomes' \in Seq(Kinds)
    BY <1>4, <1>6 DEF TimerFires, Kinds, PressTypeOK
  <2>2. 0 \in 0..gen
    BY <1>0
  <2>3. pending' \in {0, pending} /\ timers' \subseteq timers /\ UNCHANGED <<key, gen, age, smooth>>
    BY <1>6 DEF TimerFires
  <2>. QED
    BY <2>1, <2>2, <2>3 DEF PressTypeOK
<1>7. CASE SecondPasses
  <2>1. age' \in [1..MaxGen -> Ages]
    <3>1. ASSUME NEW g \in 1..MaxGen
          PROVE  (CASE g > gen -> "short" [] g <= gen /\ age[g] = "short" -> "long" [] OTHER -> "old") \in Ages
      BY DEF Ages
    <3>. QED
      BY <1>7, <3>1 DEF SecondPasses
  <2>. QED
    BY <1>7, <2>1 DEF SecondPasses, PressTypeOK
<1>8. CASE RestartPress
  <2>1. age' \in [1..MaxGen -> Ages]
    BY <1>8 DEF RestartPress, Ages
  <2>2. 0 \in 0..MaxGen /\ 0 \in 0..0
    BY <1>0
  <2>3. pending' = 0 /\ gen' = 0 /\ timers' = {} /\ smooth' = FALSE /\ UNCHANGED <<key, outcomes>>
    BY <1>8 DEF RestartPress
  <2>. QED
    BY <2>1, <2>2, <2>3 DEF PressTypeOK
<1>. QED
  BY <1>1, <1>2, <1>3, <1>5, <1>6, <1>7, <1>8 DEF PressStep

\* Every step keeps the notes those of a host, or of none, and the mix.
LEMMA RestTyped ==
    ASSUME NotifyTypeOK, mix \in Mixes, [Next]_vars
    PROVE  NotifyTypeOK' /\ mix' \in Mixes
<1>1. CASE \E p \in Pids : HostDies(p) \/ KillHost(p) \/ HostExit(p)
  BY <1>1 DEF HostDies, KillHost, HostExit, Alone, NotifyTypeOK
<1>2. CASE ArbiterRestarts
  BY <1>2 DEF ArbiterRestarts, NotifyTypeOK
<1>3. CASE Crash \/ Monitor \/ Control \/ Network \/ Respawn \/ \E c \in Commands : WifiCommand(c)
  BY <1>3 DEF Crash, Monitor, Control, Network, Respawn, WifiCommand, Daemonly, NotifyTypeOK
<1>4. CASE \/ \E p \in Pids : SubscribeNet(p)
           \/ \E ok, auto \in BOOLEAN, ssid \in Ssids :
                AddSaved(ssid, auto, ok) \/ \E id \in Ids(saved) : UpdateSaved(id, ssid, auto, ok)
           \/ \E id \in Ids(saved), ok \in BOOLEAN :
                RemoveSaved(id, ok) \/ \E auto \in BOOLEAN : AutoSaved(id, auto, ok)
  BY <1>4 DEF SubscribeNet, AddSaved, UpdateSaved, RemoveSaved, AutoSaved, Netly, NotifyTypeOK
<1>5. CASE \/ \E p \in Pids, t \in Topics : SubscribeEvent(p, t) \/ UnsubscribeEvent(p, t)
           \/ \E payload \in {"ping", "pong"} : PublishEvent(payload)
  BY <1>5 DEF SubscribeEvent, UnsubscribeEvent, PublishEvent, Eventful, NotifyTypeOK
<1>6. CASE MediaRead \/ \E p \in Pids : MediaCommand(p)
  BY <1>6 DEF MediaRead, MediaCommand, Medially, NotifyTypeOK
<1>7. CASE \/ \E n \in notes : ClickNote(n)
           \/ \E p \in Pids, id \in NoteIds : PostNote(p, id) \/ CancelNote(p, id)
  <2>1. mix' = mix
    BY <1>7 DEF ClickNote, PostNote, CancelNote, Notably
  <2>2. \A p \in Pids : AppOf(p) \in Apps \cup {Unknown}
    BY HostsAssumption DEF AppOf
  <2>3. NotifyTypeOK'
    BY <1>7, <2>2 DEF ClickNote, PostNote, CancelNote, NotifyClick, NotifyPost, NotifyCancel,
                      Posted, Cancelled, NotifyTypeOK
  <2>. QED
    BY <2>1, <2>3
<1>8. CASE \/ \E hosts \in SUBSET Pids : FingerDown(hosts)
           \/ \E p \in Pids : HostForwards(p)
           \/ \E g \in timers : HoldTimer(g)
           \/ Second
  BY <1>8 DEF FingerDown, HostForwards, HoldTimer, Second, Pressly, NotifyTypeOK
<1>9. CASE ArbiterReads
  BY <1>9 DEF ArbiterReads, NotifyTypeOK
<1>10. CASE UNCHANGED vars
  BY <1>10 DEF vars, NotifyTypeOK
<1>. QED
  BY <1>1, <1>2, <1>3, <1>4, <1>5, <1>6, <1>7, <1>8, <1>9, <1>10 DEF Next

\* The services start within their types.
LEMMA TypesStart == ASSUME Init PROVE ServicesTypeOK
<1>1. HostsTypeOK
  <2>1. PICK launched \in {Crowd, {CHOOSE p \in Few : TRUE}, Few} : HostsInit(launched)
    BY DEF Init
  <2>2. launched \subseteq Crowd
    BY <2>1, ServicesAssumption
  <2>3. proc \in [Pids -> Stages] /\ Registered \subseteq Crowd
    BY <2>1, <2>2 DEF HostsInit, Registered, Stages
  <2>. QED
    BY <2>3, ServicesAssumption DEF HostsTypeOK
<1>2. NetTypeOK
  <2>1. Range(saved) = {} /\ Range(file) = {}
    BY DEF Init, NetInit, Range
  <2>2. 1 \in 1..(MaxSaved + 1)
    BY NetAssumption
  <2>. QED
    BY <2>1, <2>2 DEF Init, NetInit, NetTypeOK, Words
<1>3. BrokerTypeOK
  BY DEF Init, BrokerInit, BrokerTypeOK
<1>4. WifiTypeOK
  BY WifiStart, WifiInvTyped
<1>5. MediaTypeOK
  BY DEF Init, MediaInit, MediaTypeOK
<1>6. NotifyTypeOK
  BY DEF Init, NotifyInit, NotifyTypeOK
<1>7. PressTypeOK
  <2>1. outcomes \in Seq(Kinds)
    BY DEF Init, PressInit
  <2>2. key \in [Pids -> {"down", "up", "none"}] /\ age \in [1..MaxGen -> Ages]
    BY DEF Init, PressInit, Ages
  <2>3. gen = 0 /\ pending = 0 /\ timers = {} /\ smooth = FALSE /\ 0 \in 0..MaxGen /\ 0 \in 0..0
    BY PressAssumption DEF Init, PressInit
  <2>. QED
    BY <2>1, <2>2, <2>3 DEF PressTypeOK
<1>8. mix \in Mixes
  BY DEF Init
<1>. QED
  BY <1>1, <1>2, <1>3, <1>4, <1>5, <1>6, <1>7, <1>8 DEF ServicesTypeOK

\* Every service and the Wi-Fi daemon stay within their types, and the queue of the
\* arbiter's socket within its bound: one relay and one query wait at a time, and a
\* relayed job brings two reports at most (report, relay_to_wandr_net,
\* saved_creds_from_arbiter).
THEOREM ServicesTyped == Spec => []ServicesTypeOK
<1> DEFINE TypeInv == ServicesTypeOK /\ WifiInv /\ SavedInv
<1>1. Init => TypeInv
  BY TypesStart, WifiStart, SavedStart
<1>2. TypeInv /\ [Next]_vars => TypeInv'
  <2>1. SUFFICES ASSUME ServicesTypeOK, WifiInv, SavedInv, [Next]_vars PROVE TypeInv'
    OBVIOUS
  <2>2. SavedInv'
    BY <2>1, ServiceSteps, StoreStepKeeps
  <2>3. WifiInv' /\ WifiTypeOK'
    <3>1. WifiInv'
      BY <2>1, WifiSteps, WifiStepKeeps
    <3>. QED
      BY <3>1, WifiInvTyped, PTL
  <2>4. HostsTypeOK' /\ NetTypeOK' /\ BrokerTypeOK'
    BY <2>1, <2>2, ServiceSteps, TellTyped DEF ServicesTypeOK, WifiInv
  <2>5. MediaTypeOK'
    BY <2>1, MediaSteps, MediaStepKeeps DEF ServicesTypeOK
  <2>6. PressTypeOK'
    BY <2>1, ServiceSteps, PressTyped DEF ServicesTypeOK
  <2>7. NotifyTypeOK' /\ mix' \in Mixes
    BY <2>1, RestTyped DEF ServicesTypeOK
  <2>. QED
    BY <2>2, <2>3, <2>4, <2>5, <2>6, <2>7 DEF ServicesTypeOK
<1>3. TypeInv => ServicesTypeOK
  OBVIOUS
<1>. QED
  BY <1>1, <1>2, <1>3, PTL DEF Spec
=============================================================================
