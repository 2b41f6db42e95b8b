-------------------------------- MODULE Wifi --------------------------------
(***************************************************************************)
(* The Wi-Fi daemon: a monitor thread that brings the link up, watches it  *)
(* and reports it, and a control thread that serves one relayed command at *)
(* a time.  They share the link (under a mutex), the radio and the         *)
(* supplicant (under none), and write to the socket of the arbiter, which  *)
(* reads one connection at a time, in the order they were made.            *)
(***************************************************************************)
EXTENDS Net

CONSTANTS
    FrameworkNet,   \* the first network of WifiConfigStore.xml, or Empty
    Reannounce,     \* ticks between two announcements of a good link
    MaxInbox        \* bound: waiting connections, when the monitor or a host makes one more

ASSUME WifiAssumption ==
    Reannounce \in Nat \ {0} /\ MaxInbox \in Nat \ {0} /\ FrameworkNet \in Ssids

Names == Ssids \ {Empty}
Threads == {"monitor", "control"}
NoJob == [verb |-> "none"]
Jobs == [verb : {"connect"}, ssid : Names] \cup [verb : {"set-enabled"}, on : BOOLEAN]
            \cup [verb : {"query"}]
Commands == Jobs \cup [verb : {"connect-saved"}, id : 1..MaxSaved]
Messages == [kind : {"state", "event"}, of : States] \cup [kind : {"relay"}, of : Commands]
                \cup {[kind |-> "query"]}

\* Where a thread stands: between two rounds, asking for the network to join,
\* in bring_up_with (join, associate, carrier, lease), storing the link, sending
\* the two lines of a report, replying.
Places == {"idle", "ask", "await", "lock", "join", "associate", "carrier", "lease", "store",
           "say state", "say event", "reply"}

VARIABLES
    radio,      \* the chip is powered and wlan0 exists
    selected,   \* the network that the supplicant is to join, or Empty
    carrier,    \* has_carrier(WLAN_IF): it has joined it
    link,       \* the name in the shared Link, or Empty
    at,         \* the place of each thread
    want,       \* the creds of each thread's bring-up
    say,        \* the state that each thread is reporting
    ticks,      \* of the monitor, modulo Reannounce
    booted,     \* the control socket is served
    inbox,      \* the connections that wait for the arbiter, in order
    relay,      \* the job whose reply the arbiter waits for under arbiter_lock
    heard,      \* the client of the control thread's job is that arbiter
    arbiter     \* the daemon at the other end is up

linkVars == <<radio, selected, carrier, link>>
threadVars == <<at, want, say, ticks, booted>>
socketVars == <<inbox, relay, heard, arbiter>>
wifiVars == <<linkVars, threadVars, socketVars>>

WifiTypeOK ==
    /\ {radio, carrier, booted, heard, arbiter} \subseteq BOOLEAN
    /\ {selected, link} \subseteq Ssids
    /\ at \in [Threads -> Places] /\ want \in [Threads -> Ssids] /\ say \in [Threads -> States]
    /\ ticks \in 0..(Reannounce - 1)
    /\ inbox \in Seq(Messages) /\ Len(inbox) <= MaxInbox + 4
    /\ relay \in Jobs \cup {NoJob}

\* The daemon starts, over whatever a previous run left.
WifiInit ==
    /\ radio \in BOOLEAN /\ selected \in Ssids
    /\ carrier \in BOOLEAN /\ (carrier => radio /\ selected # Empty)
    /\ link = Empty
    /\ at = [monitor |-> "ask", control |-> "idle"]
    /\ want = [t \in Threads |-> Empty] /\ say = [t \in Threads |-> Offline]
    /\ ticks = 0 /\ booted = FALSE
    /\ inbox = <<>> /\ relay = NoJob /\ heard = FALSE /\ arbiter = TRUE

Free == arbiter /\ relay = NoJob

Go(t, place) == at' = [at EXCEPT ![t] = place]
GoSaying(t, state) == Go(t, "say state") /\ say' = [say EXCEPT ![t] = state]

\* Mutant of Holds: the monitor brings up under the link lock, too.
HoldsBoth(t) ==
    at[t] \in {"ask", "await", "join", "associate", "carrier", "lease"}
\* The link lock is held over a bring-up of the control thread only; elsewhere
\* it is taken and given back in one step.
Holds(t) == t = "control" /\ at[t] \in {"join", "associate", "carrier", "lease"}
LinkFree(t) == \A u \in Threads \ {t} : ~Holds(u)

\* send_arbiter: without an arbiter the line is lost.  The backlog of its socket
\* has room for the control thread, always.
Send(t, m) ==
    /\ arbiter /\ t = "monitor" => Len(inbox) < MaxInbox   \* bound
    /\ inbox' = IF arbiter THEN Append(inbox, m) ELSE inbox
-----------------------------------------------------------------------------
(* What both threads do. *)

\* An error ends a bring-up: the monitor tries again at its next tick, and at
\* the start it reports and goes resident.
Fail(t) ==
    CASE t = "control" -> Go(t, "reply") /\ UNCHANGED say
      [] t = "monitor" /\ booted -> Go(t, "idle") /\ UNCHANGED say
      [] OTHER -> GoSaying(t, Offline)

\* bring_up_with: an association that exists is taken as it is, unless forced.
Join(t) ==
    /\ at[t] = "join"
    /\ Go(t, IF carrier /\ t # "control" THEN "lease" ELSE "associate")
    /\ UNCHANGED <<linkVars, want, say, ticks, booted, socketVars>>

\* The chip is powered, an old supplicant is removed and a new one is told what
\* to select; each of these may fail.
Associate(t) ==
    /\ at[t] = "associate"
    /\ \/ radio' = TRUE /\ selected' = want[t] /\ carrier' = FALSE
          /\ Go(t, "carrier") /\ UNCHANGED say
       \/ radio' \in {radio, TRUE} /\ carrier' \in {carrier, FALSE} /\ UNCHANGED selected
          /\ Fail(t)
    /\ UNCHANGED <<link, want, ticks, booted, socketVars>>

\* wait_carrier: any carrier will do; or the 25 seconds are over.
AwaitCarrier(t) ==
    /\ at[t] = "carrier"
    /\ IF carrier THEN Go(t, "lease") /\ UNCHANGED say ELSE Fail(t)
    /\ UNCHANGED <<linkVars, want, ticks, booted, socketVars>>

\* DHCP and netd; the control thread still has the lock and stores the link.
Lease(t) ==
    /\ at[t] = "lease"
    /\ \/ /\ carrier
          /\ IF t = "control"
             THEN link' = want[t] /\ GoSaying(t, want[t])
             ELSE Go(t, "store") /\ UNCHANGED <<link, say>>
       \/ Fail(t) /\ UNCHANGED link
    /\ UNCHANGED <<radio, selected, carrier, want, ticks, booted, socketVars>>

\* report: the line for the connectivity service, then the one for the broker.
SayState(t) ==
    /\ at[t] = "say state"
    /\ Send(t, [kind |-> "state", of |-> say[t]])
    /\ Go(t, "say event")
    /\ UNCHANGED <<linkVars, want, say, ticks, booted, relay, heard, arbiter>>

\* After a report of a lost link the monitor brings it up again; after the first
\* report of all the control thread starts.
SayEvent(t) ==
    /\ at[t] = "say event"
    /\ Send(t, [kind |-> "event", of |-> say[t]])
    /\ Go(t, CASE t = "control" -> "reply"
               [] t = "monitor" /\ booted /\ say[t] = Offline -> "ask"
               [] OTHER -> "idle")
    /\ booted' = TRUE
    /\ UNCHANGED <<linkVars, want, say, ticks, relay, heard, arbiter>>

BringUp(t) ==
    Join(t) \/ Associate(t) \/ AwaitCarrier(t) \/ Lease(t) \/ SayState(t) \/ SayEvent(t)
-----------------------------------------------------------------------------
(* The monitor. *)

\* Mutant of Due: never announced again.
DueNever(tick) == FALSE
Due(tick) == tick = 0

\* Every 5 seconds: a lost link is reported, then brought up; a good one is
\* announced at times, so that a restarted arbiter learns of it.
Tick ==
    /\ at["monitor"] = "idle" /\ LinkFree("monitor")
    /\ ticks' = (ticks + 1) % Reannounce
    /\ CASE link = Empty -> Go("monitor", "ask") /\ UNCHANGED say
         [] link # Empty /\ ~carrier -> GoSaying("monitor", Offline)
         [] link # Empty /\ carrier /\ Due(ticks') -> GoSaying("monitor", link)
         [] OTHER -> UNCHANGED <<at, say>>
    /\ UNCHANGED <<linkVars, want, booted, socketVars>>

\* The creds of the framework's file, when the arbiter names none.
Choose(name) ==
    LET creds == IF name = Empty THEN FrameworkNet ELSE name
    IN  IF creds = Empty
        THEN Fail("monitor") /\ UNCHANGED want
        ELSE Go("monitor", "join") /\ want' = [want EXCEPT !["monitor"] = creds] /\ UNCHANGED say

\* saved_creds_from_arbiter: connects and waits for the reply.
Ask ==
    /\ at["monitor"] = "ask"
    /\ IF arbiter
       THEN Send("monitor", [kind |-> "query"]) /\ Go("monitor", "await") /\ UNCHANGED <<want, say>>
       ELSE Choose(Empty) /\ UNCHANGED inbox
    /\ UNCHANGED <<linkVars, ticks, booted, relay, heard, arbiter>>

Store ==
    /\ at["monitor"] = "store" /\ LinkFree("monitor")
    /\ link' = want["monitor"]
    /\ GoSaying("monitor", want["monitor"])
    /\ UNCHANGED <<radio, selected, carrier, want, ticks, booted, socketVars>>

MonitorStep == Tick \/ Ask \/ BringUp("monitor") \/ Store
-----------------------------------------------------------------------------
(* The control thread. *)

\* One line of the control socket: connect takes the lock first.
Accept ==
    /\ booted /\ at["control"] = "idle" /\ relay # NoJob
    /\ CASE relay.verb = "connect" ->
              Go("control", "lock") /\ want' = [want EXCEPT !["control"] = relay.ssid]
              /\ UNCHANGED <<radio, carrier>>
         [] relay.verb = "set-enabled" ->
              \* the iface is torn down with the chip; the HAL may refuse
              /\ radio' \in {radio, relay.on}
              /\ carrier' = (carrier /\ radio')
              /\ Go("control", "reply") /\ UNCHANGED want
         [] OTHER -> Go("control", "reply") /\ UNCHANGED <<radio, carrier, want>>
    /\ heard' = TRUE
    /\ UNCHANGED <<selected, link, say, ticks, booted, inbox, relay, arbiter>>

Lock ==
    /\ at["control"] = "lock" /\ LinkFree("control")
    /\ Go("control", "join")
    /\ UNCHANGED <<linkVars, want, say, ticks, booted, socketVars>>

\* The reply releases the arbiter, and arbiter_lock with it, unless that arbiter
\* is dead.
ReplyToRelay ==
    /\ at["control"] = "reply"
    /\ Go("control", "idle")
    /\ relay' = IF heard THEN NoJob ELSE relay
    /\ heard' = FALSE
    /\ UNCHANGED <<linkVars, want, say, ticks, booted, inbox, arbiter>>

ControlStep == Accept \/ Lock \/ BringUp("control") \/ ReplyToRelay
-----------------------------------------------------------------------------
(* The rest of the world. *)

\* A host connects to the arbiter with a command that is to be relayed, and waits
\* for the reply.  Bound: one host at a time (the settings of Wi-Fi).
Command(c) ==
    /\ Free /\ Len(inbox) < MaxInbox
    /\ \A i \in DOMAIN inbox : inbox[i].kind # "relay"
    /\ inbox' = Append(inbox, [kind |-> "relay", of |-> c])
    /\ UNCHANGED <<linkVars, threadVars, relay, heard, arbiter>>

\* cmd_wifi_connect_saved and relay_wifi: the job of a command, if there is one.
JobsOf(c) ==
    IF c.verb = "connect-saved"
    THEN {[verb |-> "connect", ssid |-> s] : s \in CredsOf(c.id) \ {Empty}}
    ELSE {c}

\* relay_to_wandr_net: the arbiter waits for the reply; nobody serves the socket
\* before the daemon is resident, and then the relay fails at once.
Relay ==
    /\ Free /\ inbox # <<>> /\ Head(inbox).kind = "relay"
    /\ inbox' = Tail(inbox)
    /\ LET jobs == JobsOf(Head(inbox).of)
       IN  relay' = IF booted /\ jobs # {} THEN CHOOSE j \in jobs : TRUE ELSE NoJob
    /\ UNCHANGED <<linkVars, threadVars, heard, arbiter>>

\* The arbiter replies to the query at the head of its connections.
AnswerQuery ==
    /\ inbox # <<>> /\ Head(inbox).kind = "query"
    /\ inbox' = Tail(inbox)
    /\ at["monitor"] = "await" /\ Choose(AutoNetwork)
    /\ UNCHANGED <<linkVars, ticks, booted, relay, heard, arbiter>>

\* The supplicant joins the network it is to join, or loses it.
Roam ==
    /\ radio /\ selected # Empty
    /\ carrier' = ~carrier
    /\ UNCHANGED <<radio, selected, link, threadVars, socketVars>>

\* The connection of a query ends with the monitor that waits for its reply, which
\* has one at most.
WithoutQuery ==
    LET queries == {i \in DOMAIN inbox : inbox[i].kind = "query"}
        k == CHOOSE i \in queries : TRUE
    IN  IF queries = {} THEN inbox
        ELSE [i \in 1..(Len(inbox) - 1) |-> IF i < k THEN inbox[i] ELSE inbox[i + 1]]

\* The supervisor starts a new daemon; the arbiter reads the end of the reply.
DaemonRestarts ==
    /\ link' = Empty
    /\ at' = [monitor |-> "ask", control |-> "idle"]
    /\ want' = [t \in Threads |-> Empty] /\ say' = [t \in Threads |-> Offline]
    /\ ticks' = 0 /\ booted' = FALSE
    /\ inbox' = WithoutQuery
    /\ relay' = NoJob /\ heard' = FALSE
    /\ UNCHANGED <<radio, selected, carrier, arbiter>>

\* The arbiter dies, and its connections with it: a query has no reply.
ArbiterDies ==
    /\ arbiter
    /\ arbiter' = FALSE /\ inbox' = <<>> /\ relay' = NoJob /\ heard' = FALSE
    /\ IF at["monitor"] = "await" THEN Choose(Empty) ELSE UNCHANGED <<at, want, say>>
    /\ UNCHANGED <<linkVars, ticks, booted>>

ArbiterStarts ==
    /\ ~arbiter /\ arbiter' = TRUE
    /\ UNCHANGED <<linkVars, threadVars, inbox, relay, heard>>
=============================================================================
