-------------------------------- MODULE Net --------------------------------
(***************************************************************************)
(* The connectivity service: the link state the daemon reported last, the  *)
(* hosts that subscribed to it, and the store of saved networks with its   *)
(* file.  A name stands for the SSID with its security, by which the store *)
(* knows a network; a passphrase is left out, as an association may fail   *)
(* anyway.  A state is offline or the name of a network.                   *)
(***************************************************************************)
EXTENDS Hosts, Sequences, SequencesExt

CONSTANTS
    Ssids,      \* the names of networks, the empty one included
    Empty,      \* the empty name
    FirstWord,  \* of each name: a report is split at white space
    MaxSaved    \* bound: ids given out, and so entries of the store

Offline == "offline"

ASSUME NetAssumption ==
    /\ Empty \in Ssids /\ Offline \notin Ssids /\ MaxSaved \in Nat
    /\ DOMAIN FirstWord = Ssids \ {Empty} /\ Offline \notin Range(FirstWord)

\* A reported state names a network; the arbiter knows it by the first word.
States == {Offline} \cup (Ssids \ {Empty})
Words == {Offline} \cup Range(FirstWord)
Unheard == "unheard"

VARIABLES
    netState,    \* NetModule::state
    netSubs,     \* NetModule::subscribers
    netTold,     \* history: the last net-changed that each host received
    saved,       \* NetModule::saved, in the order they were added
    nextId,      \* NetModule::next_id
    file         \* the store file

netVars == <<netState, netSubs, netTold, saved, nextId, file>>

Entry == [id : 1..MaxSaved, ssid : Ssids, auto : BOOLEAN]
Ids(list) == {list[i].id : i \in DOMAIN list}

NetTypeOK ==
    /\ netState \in Words
    /\ netSubs \subseteq Pids
    /\ netTold \in [Pids -> Words \cup {Unheard}]
    /\ Range(saved) \cup Range(file) \subseteq Entry
    /\ nextId \in 1..(MaxSaved + 1)

NetInit ==
    /\ netState = Offline /\ netSubs = {}
    /\ netTold = [p \in Pids |-> Unheard]
    /\ saved = <<>> /\ nextId = 1 /\ file = <<>>

KeepState == UNCHANGED <<netState, netSubs, netTold>>
KeepStore == UNCHANGED <<saved, nextId, file>>

\* The write, or the rename, may fail: the old file stays, with a warning only.
PersistNets(written) == file' = IF written THEN saved' ELSE file
-----------------------------------------------------------------------------
(* The state and its subscribers. *)

\* What the arbiter reads of a reported state: of a name its first word.
Read(state) == IF state = Offline THEN Offline ELSE FirstWord[state]

\* report-net-state: hosts hear of a change only.
ReportNetState(new) ==
    /\ netState' = new
    /\ netTold' = [p \in Pids |->
         IF new # netState /\ p \in netSubs /\ proc[p] = "up" THEN new ELSE netTold[p]]
    /\ UNCHANGED netSubs
    /\ KeepStore

\* Mutant of NetSubscribe: says nothing while there is no connection.
NetSubscribeOnline(p) ==
    /\ netSubs' = netSubs \cup {p}
    /\ netTold' = IF proc[p] = "up" /\ netState # Offline THEN [netTold EXCEPT ![p] = netState] ELSE netTold
    /\ UNCHANGED netState
    /\ KeepStore
NetSubscribe(p) ==
    /\ netSubs' = netSubs \cup {p}
    /\ netTold' = IF proc[p] = "up" THEN [netTold EXCEPT ![p] = netState] ELSE netTold
    /\ UNCHANGED netState
    /\ KeepStore

ForgetNet(p) == netSubs' = netSubs \ {p} /\ UNCHANGED <<netState, netTold>> /\ KeepStore
-----------------------------------------------------------------------------
(* The saved networks. *)

\* wifi-saved-add: a known name updates the first such entry.
SavedAdd(ssid, auto, written) ==
    /\ ssid # Empty
    /\ LET known == {i \in DOMAIN saved : saved[i].ssid = ssid}
       IN  IF known # {}
           THEN LET first == CHOOSE i \in known : \A j \in known : i <= j
                IN  saved' = [saved EXCEPT ![first] = [id |-> @.id, ssid |-> ssid, auto |-> auto]] /\ UNCHANGED nextId
           ELSE /\ nextId <= MaxSaved   \* bound
                /\ saved' = Append(saved, [id |-> nextId, ssid |-> ssid, auto |-> auto])
                /\ nextId' = nextId + 1
    /\ PersistNets(written)
    /\ KeepState

\* The entries of an id: the code changes the first, and there is no other.
Changed(id, by) == [i \in DOMAIN saved |-> IF saved[i].id = id THEN by[saved[i]] ELSE saved[i]]

\* wifi-saved-update: any name is taken, an empty and a known one, too.
SavedUpdate(id, ssid, auto, written) ==
    /\ id \in Ids(saved)
    /\ saved' = Changed(id, [e \in Entry |-> [id |-> e.id, ssid |-> ssid, auto |-> auto]])
    /\ UNCHANGED nextId
    /\ PersistNets(written)
    /\ KeepState

\* Vec::retain over a list in which the id is at one index.
Without(list, id) ==
    LET k == CHOOSE i \in DOMAIN list : list[i].id = id
    IN  [i \in 1..(Len(list) - 1) |-> IF i < k THEN list[i] ELSE list[i + 1]]

SavedRemove(id, written) ==
    /\ id \in Ids(saved)    \* an absent id changes nothing
    /\ saved' = Without(saved, id)
    /\ UNCHANGED nextId
    /\ PersistNets(written)
    /\ KeepState

SavedAutoConnect(id, auto, written) ==
    /\ id \in Ids(saved)
    /\ saved' = Changed(id, [e \in Entry |-> [id |-> e.id, ssid |-> e.ssid, auto |-> auto]])
    /\ UNCHANGED nextId
    /\ PersistNets(written)
    /\ KeepState

\* wifi-saved-creds: the name behind an id, or no reply.
CredsOf(id) == {saved[i].ssid : i \in {j \in DOMAIN saved : saved[j].id = id}}

\* wifi-auto-network: the first entry to join by itself, as its name, or Empty:
\* the daemon takes an empty name for none.
AutoNetwork ==
    LET auto == {i \in DOMAIN saved : saved[i].auto}
    IN  IF auto = {} THEN Empty ELSE saved[CHOOSE i \in auto : \A j \in auto : i <= j].ssid

\* Mutant of AfterIds: counts the entries.
AfterLength(list) == Len(list) + 1
\* The first id above all of a list's.
AfterIds(list) == 1 + CHOOSE n \in Ids(list) \cup {0} : \A id \in Ids(list) : id <= n

\* with_store: a restarted arbiter has the file and nothing else.
ReloadNet ==
    /\ netState' = Offline /\ netSubs' = {} /\ UNCHANGED netTold
    /\ saved' = file /\ nextId' = AfterIds(file) /\ UNCHANGED file
=============================================================================
