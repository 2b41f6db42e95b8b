------------------------------- MODULE Notify -------------------------------
(***************************************************************************)
(* The notification store: one entry for each owner and the id the owner   *)
(* gave it.  Posting replaces, so a set of pairs holds them; titles and    *)
(* bodies are left out, and the global nid only names an entry.  Owners    *)
(* are apps, so an entry outlives its host and is there for the next one;  *)
(* a host that left the registry calls and rings as the unknown app.       *)
(***************************************************************************)
EXTENDS Hosts

CONSTANT NoteIds   \* the ids that owners give

VARIABLE notes     \* Store::notifications, as pairs of owner and id

Unknown == "?"

ASSUME NotifyAssumption == Unknown \notin Apps

NotifyTypeOK == notes \subseteq (Apps \cup {Unknown}) \X NoteIds

NotifyInit == notes = {}

\* AudioModule::resolve of a pid, by the registry.
AppOf(p) == IF p \in Registered THEN AppId[p] ELSE Unknown

Posted(p, id) == notes \cup {<<AppOf(p), id>>}
\* Mutant of Cancelled: by the pid and not by its app, so nothing is found.
CancelledByPid(p, id) == notes \ {<<Unknown, id>>}
Cancelled(p, id) == notes \ {<<AppOf(p), id>>}

\* notify-post and notify-cancel: refused for a pid that is not registered.
NotifyPost(p, id) == p \in Registered /\ notes' = Posted(p, id)
NotifyCancel(p, id) == p \in Registered /\ notes' = Cancelled(p, id)

\* notify-click: the entry is taken; an owner that is not registered is
\* launched, unless the launch fails.
NotifyClick(n) ==
    /\ n \in notes
    /\ notes' = notes \ {n}
    /\ \/ UNCHANGED proc
       \/ HostsOf(n[1]) = {} /\ \E p \in Pids : AppId[p] = n[1] /\ Launch(p)
=============================================================================
