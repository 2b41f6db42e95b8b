------------------------------ MODULE Services ------------------------------
(***************************************************************************)
(* The arbiter's connectivity, events, media, notification and POWER-key   *)
(* services with the Wi-Fi daemon: what hosts ask, what the daemon reports *)
(* and what the arbiter relays, over deaths of hosts and restarts of both  *)
(* daemons.  The arbiter handles one thing at a time, and nothing while it *)
(* waits for the reply to a relayed command.                               *)
(*                                                                         *)
(* A mix is the set of topics that happen in a behaviour, as in Calls.     *)
(***************************************************************************)
EXTENDS Broker, Wifi, Media, Notify, Press

CONSTANTS Mixes,   \* the sets of topics a behaviour may consist of
          Crowd,   \* one host of each app; the others a click may launch
          Few      \* the hosts that take part: all in a crowd, one beside the daemon

ASSUME ServicesAssumption ==
    /\ Few \subseteq Crowd /\ Crowd \subseteq Pids /\ Few # {}
    /\ \A p, q \in Crowd : AppId[p] = AppId[q] => p = q

VARIABLE mix

vars == <<proc, netVars, brokerVars, wifiVars, mediaVars, notes, pressVars, mix>>

ServicesTypeOK ==
    /\ HostsTypeOK /\ NetTypeOK /\ BrokerTypeOK /\ WifiTypeOK /\ MediaTypeOK
    /\ NotifyTypeOK /\ PressTypeOK /\ mix \in Mixes

Init ==
    /\ mix \in Mixes
    /\ HostsInit(CASE "crowd" \in mix -> Crowd
                   [] "daemon" \in mix -> {CHOOSE p \in Few : TRUE}
                   [] OTHER -> Few)
    /\ NetInit /\ BrokerInit /\ MediaInit /\ NotifyInit /\ PressInit
    /\ WifiInit
    /\ "roam" \notin mix => ~radio /\ selected = Empty

On(topic) == topic \in mix
Speaks(p) == Free /\ Heard(p) /\ (p \in Registered \/ On("late"))

Netly == UNCHANGED <<proc, brokerVars, wifiVars, mediaVars, notes, pressVars, mix>>
Eventful == UNCHANGED <<proc, netVars, wifiVars, mediaVars, notes, pressVars, mix>>
Daemonly == UNCHANGED <<proc, netVars, brokerVars, mediaVars, notes, pressVars, mix>>
Medially == UNCHANGED <<proc, netVars, brokerVars, wifiVars, notes, pressVars, mix>>
Notably == UNCHANGED <<netVars, brokerVars, wifiVars, mediaVars, pressVars, mix>>
Pressly == UNCHANGED <<proc, netVars, brokerVars, wifiVars, mediaVars, notes, mix>>
Alone == UNCHANGED <<netVars, brokerVars, wifiVars, mediaVars, notes, pressVars, mix>>
-----------------------------------------------------------------------------
(* Hosts and restarts. *)

HostDies(p) == On("die") /\ Die(p) /\ Alone
KillHost(p) == On("kill") /\ Free /\ Cut(p) /\ Alone

\* SurfaceRemoved, in every service that keeps something for a host.
HostExit(p) ==
    /\ Free
    /\ Exit(p)
    /\ ForgetNet(p) /\ ForgetBroker(p) /\ ForgetMedia(p)
    /\ UNCHANGED <<wifiVars, notes, pressVars, mix>>

\* What is memory only is gone; hosts that live on stay registered.
ArbiterRestarts ==
    /\ ArbiterStarts
    /\ proc' = [p \in Pids |-> IF proc[p] = "exited" THEN "cut" ELSE proc[p]]
    /\ ReloadNet /\ RestartBroker /\ RestartMedia /\ RestartPress
    /\ notes' = {}
    /\ UNCHANGED mix

Crash == On("restart") /\ ArbiterDies /\ Daemonly
-----------------------------------------------------------------------------
(* Commands of hosts. *)

SubscribeNet(p) == On("net") /\ Speaks(p) /\ NetSubscribe(p) /\ Netly

AddSaved(ssid, auto, ok) ==
    /\ \/ On("store")
       \/ On("saved") /\ auto /\ ok
    /\ Free /\ SavedAdd(ssid, auto, ok) /\ Netly
UpdateSaved(id, ssid, auto, ok) ==
    On("store") /\ Free /\ SavedUpdate(id, ssid, auto, ok) /\ Netly
RemoveSaved(id, ok) == (On("store") \/ (On("saved") /\ ok)) /\ Free /\ SavedRemove(id, ok) /\ Netly
AutoSaved(id, auto, ok) == On("store") /\ Free /\ SavedAutoConnect(id, auto, ok) /\ Netly

SubscribeEvent(p, t) == On("events") /\ Speaks(p) /\ EvtSubscribe(p, t) /\ Eventful
UnsubscribeEvent(p, t) == On("events") /\ Speaks(p) /\ EvtUnsubscribe(p, t) /\ Eventful
PublishEvent(payload) == On("events") /\ Free /\ EvtPublish("app", payload) /\ Eventful

MediaCommand(p) ==
    /\ On("media") /\ Speaks(p)
    /\ \/ SetMetadata(p) \/ SetPosition(p) \/ ClearSession(p)
       \/ \E plays \in BOOLEAN : SetState(p, plays)
    /\ Medially
MediaRead == On("media") /\ Free /\ (NowPlaying \/ MediaAction) /\ Medially

PostNote(p, id) == On("notes") /\ Speaks(p) /\ NotifyPost(p, id) /\ UNCHANGED proc /\ Notably
CancelNote(p, id) == On("notes") /\ Speaks(p) /\ NotifyCancel(p, id) /\ UNCHANGED proc /\ Notably
ClickNote(n) == On("notes") /\ Free /\ NotifyClick(n) /\ Notably
-----------------------------------------------------------------------------
(* The POWER key: the finger and the hosts do not wait for the arbiter. *)

FingerDown(hosts) ==
    /\ On("press") /\ (On("fan") \/ Cardinality(hosts) = 1)
    /\ hosts \subseteq Registered /\ PressKey(hosts) /\ Pressly
HostForwards(p) == Free /\ (PowerDown(p) \/ PowerUp(p)) /\ Pressly
HoldTimer(g) == Free /\ TimerFires(g) /\ Pressly
Second == On("press") /\ SecondPasses /\ Pressly
-----------------------------------------------------------------------------
(* The Wi-Fi daemon and the relay. *)

WifiCommand(c) ==
    /\ CASE c.verb = "connect" -> On("connect") \/ (On("other") /\ c.ssid # FrameworkNet)
         [] c.verb = "connect-saved" -> On("saved")
         [] c.verb = "query" -> On("query") \/ On("radio")
         [] OTHER -> On("radio")
    /\ Command(c)
    /\ Daemonly

Monitor == On("daemon") /\ MonitorStep /\ Daemonly
Control == On("daemon") /\ ControlStep /\ Daemonly
Network == On("roam") /\ Roam /\ Daemonly
Respawn == On("respawn") /\ DaemonRestarts /\ Daemonly

\* The arbiter handles the connection that the daemon made first.
ArbiterReads ==
    /\ Free /\ inbox # <<>>
    /\ LET m == Head(inbox)
       IN  \/ /\ m.kind = "state" /\ ReportNetState(Read(m.of)) /\ UNCHANGED brokerVars
              /\ inbox' = Tail(inbox) /\ UNCHANGED <<linkVars, threadVars, relay, heard, arbiter>>
           \/ /\ m.kind = "event" /\ EvtPublish("net.status", m.of) /\ UNCHANGED netVars
              /\ inbox' = Tail(inbox) /\ UNCHANGED <<linkVars, threadVars, relay, heard, arbiter>>
           \/ AnswerQuery /\ UNCHANGED <<netVars, brokerVars>>
           \/ Relay /\ UNCHANGED <<netVars, brokerVars>>
    /\ UNCHANGED <<proc, mediaVars, notes, pressVars, mix>>
-----------------------------------------------------------------------------
Next ==
    \/ \E p \in Pids :
        \/ HostDies(p) \/ KillHost(p) \/ HostExit(p)
        \/ SubscribeNet(p)
        \/ \E t \in Topics : SubscribeEvent(p, t) \/ UnsubscribeEvent(p, t)
        \/ MediaCommand(p)
        \/ \E id \in NoteIds : PostNote(p, id) \/ CancelNote(p, id)
        \/ HostForwards(p)
    \/ ArbiterRestarts \/ Crash
    \/ \E ok, auto \in BOOLEAN, ssid \in Ssids :
        \/ AddSaved(ssid, auto, ok)
        \/ \E id \in Ids(saved) : UpdateSaved(id, ssid, auto, ok)
    \/ \E id \in Ids(saved), ok \in BOOLEAN :
        \/ RemoveSaved(id, ok)
        \/ \E auto \in BOOLEAN : AutoSaved(id, auto, ok)
    \/ \E payload \in {"ping", "pong"} : PublishEvent(payload)
    \/ MediaRead
    \/ \E n \in notes : ClickNote(n)
    \/ \E hosts \in SUBSET Pids : FingerDown(hosts)
    \/ \E g \in timers : HoldTimer(g)
    \/ Second
    \/ \E c \in Commands : WifiCommand(c)
    \/ Monitor \/ Control \/ Network \/ Respawn \/ ArbiterReads

\* The threads of the daemon and of the arbiter make progress; relayed commands do
\* not keep the monitor from the link lock, which is free between any two of them.
Fairness ==
    /\ SF_vars(Monitor) /\ WF_vars(Control) /\ WF_vars(ArbiterReads)

Spec == Init /\ [][Next]_vars
FairSpec == Spec /\ Fairness
-----------------------------------------------------------------------------
(* Properties. *)

\* The arbiter comes back from every relayed command, and with it everything
\* that waits for arbiter_lock: the daemon's control thread never waits for the
\* arbiter, and never for a monitor that does (control_connect, bring_up and
\* saved_creds_from_arbiter over the link lock and arbiter_lock).
RelayReturns == relay # NoJob ~> relay = NoJob

\* Once the link stays as it is the services tell so, in spite of the reports
\* that were lost with an arbiter or overtaken by those of the other thread
\* (report of both threads, the announcements of monitor).
Settled(s) ==
    /\ arbiter /\ booted
    /\ IF s = Offline THEN ~carrier ELSE carrier /\ link = s
StatusConverges ==
    \A s \in States :
        <>[]Settled(s) =>
            <>[](netState = Read(s) /\ retained["net.status"] \in {s, Nothing})

\* A host that lives was told the present state and the last event of all it
\* subscribed to, whenever it subscribed (net-subscribe and evt-subscribe deliver
\* at once; report-net-state fans a change only).
HostsTold ==
    \A p \in Pids : proc[p] = "up" =>
        /\ p \in netSubs => netTold[p] = netState
        /\ \A t \in Topics :
             p \in evtSubs[t] /\ retained[t] # Nothing => evtTold[p][t] = retained[t]

\* An id names one saved network, in memory and in the file, and is not given
\* out again while it does - over removals, failed writes and restarts
\* (cmd_saved_add, persist, with_store).
SavedSound ==
    \A list \in {saved, file} :
        /\ Cardinality(Ids(list)) = Len(list)
        /\ list = saved => \A id \in Ids(list) : id < nextId

\* A transport tap goes to a registered host (dead, perhaps, and not noticed yet),
\* and what takes the place of a session that ended is a playing one, if any plays
\* (prune_dead and recompute_active over clear, exits, kills and late commands).
ActiveSession ==
    [][ arbiter' =>
        /\ tapped' # tapped => tapped' \in Registered
        /\ active # None /\ active \notin sessions' =>
             IF playing' # {} THEN active' \in playing' ELSE active' \in sessions' \cup {None} ]_vars

\* One press of POWER leads to one toggle or one menu, and to a menu only if it was
\* held for a second: whichever of the timer and the releases of the hosts is first
\* (power_pending) - if every host's DOWN comes before the outcome.
PressOnce ==
    smooth =>
        /\ outcomes \in {<<>>, <<"toggle">>, <<"menu">>}
        /\ (\A p \in Pids : key[p] = "none") => outcomes # <<>>
=============================================================================
