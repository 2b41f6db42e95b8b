------------------------------- MODULE Hosts -------------------------------
(***************************************************************************)
(* The life of the host processes as the service modules of the arbiter    *)
(* see it: a host is launched, serves, dies, and its death is handled      *)
(* later by a watcher thread that takes arbiter_lock; `kill` prunes it     *)
(* from the registry at once and its death is then untracked.  A pid is    *)
(* used once.  A line a host wrote before it died may still wait for the   *)
(* lock behind the watcher, so every launched pid can be heard of.         *)
(***************************************************************************)
EXTENDS Naturals, FiniteSets

CONSTANTS
    Pids,   \* the process ids that can be launched
    Apps,   \* the apps
    AppId,  \* the app that each pid is launched as
    None    \* no process

ASSUME HostsAssumption == None \notin Pids /\ AppId \in [Pids -> Apps]

VARIABLE proc   \* what became of each pid

Stages == {"unborn", "up", "exited", "cut", "gone"}

\* The pids of Store::apps: alive, or dead and not noticed yet.
Registered == {p \in Pids : proc[p] \in {"up", "exited"}}

\* A command of p may be handled: p was launched and its line was read.
Heard(p) == p \in Pids /\ proc[p] # "unborn"

\* With what the registry owes to its key: no app has two entries.
HostsTypeOK ==
    /\ proc \in [Pids -> Stages]
    /\ \A p, q \in Registered : AppId[p] = AppId[q] => p = q

\* Some hosts are up already.
HostsInit(launched) == proc = [p \in Pids |-> IF p \in launched THEN "up" ELSE "unborn"]

Move(p, from, to) == proc[p] \in from /\ proc' = [proc EXCEPT ![p] = to]

\* The registered hosts of an app.
HostsOf(app) == {p \in Registered : AppId[p] = app}

\* The zygote forks a host and the arbiter registers it: Store::apps has one
\* entry for an app, so a host of the same app, dead or alive, is not tracked
\* any more.
Launch(p) ==
    /\ proc[p] = "unborn"
    /\ proc' = [q \in Pids |-> IF q = p THEN "up"
                               ELSE IF q \in HostsOf(AppId[p]) THEN "cut" ELSE proc[q]]

\* The process dies; nobody has noticed yet.
Die(p) == Move(p, {"up"}, "exited")

\* kill / task-kill: pruned from the registry, no SurfaceRemoved is emitted.
Cut(p) == Move(p, {"up", "exited"}, "cut")

\* handle_child_exit of a tracked pid: the composition adds what the services
\* do on SurfaceRemoved.
Exit(p) == Move(p, {"exited"}, "gone")
=============================================================================
