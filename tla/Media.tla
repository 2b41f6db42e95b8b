------------------------------- MODULE Media -------------------------------
(***************************************************************************)
(* The media sessions: at most one for each host, ordered by the recency   *)
(* stamp, and the active one that the lock screen shows and transport taps *)
(* are routed to.  Titles, art and positions are left out.                 *)
(***************************************************************************)
EXTENDS Hosts

VARIABLES
    sessions,   \* the keys of MediaSessionModule::sessions
    older,      \* the pairs of sessions of which the first has the lower SessionState::seq
    playing,    \* the sessions whose state is "playing"
    active,     \* MediaSessionModule::active
    tapped      \* history: the host that the last transport tap was sent to

mediaVars == <<sessions, older, playing, active, tapped>>

\* p has the highest stamp of the sessions S.
Newest(p, S) == \A q \in S \ {p} : <<q, p>> \in older /\ <<p, q>> \notin older

MediaTypeOK ==
    /\ sessions \subseteq Pids /\ playing \subseteq sessions
    /\ older \subseteq sessions \X sessions
    /\ \A S \in SUBSET sessions : S # {} => \E p \in S : Newest(p, S)
    /\ active \in sessions \cup {None} /\ tapped \in Pids \cup {None}

MediaInit ==
    sessions = {} /\ older = {} /\ playing = {} /\ active = None /\ tapped = None

\* Mutant of Stamped: the old stamp stays in force.
StampedTwice(p) == older \cup (sessions \ {p}) \X {p}
\* touch: the stamp of p is the highest from now on.
Stamped(p) == {pair \in older : p \notin {pair[1], pair[2]}} \cup (sessions \ {p}) \X {p}
Touch(p) == sessions' = sessions \cup {p} /\ older' = Stamped(p)

\* Mutant of Fallback: the most recent, whether it plays or not.
FallbackRecent(S, plays) ==
    IF S = {} THEN None ELSE CHOOSE p \in S : Newest(p, S)
\* recompute_active: a playing session first, then the most recent.
Fallback(S, plays) ==
    LET best == IF plays = {} THEN S ELSE plays
    IN  IF best = {} THEN None ELSE CHOOSE p \in best : Newest(p, best)

\* The sessions are those of the hosts that stay.
Retain(stay, recompute) ==
    /\ sessions' = sessions \cap stay
    /\ older' = older \cap (stay \X stay)
    /\ playing' = playing \cap stay
    /\ active' = IF recompute THEN Fallback(sessions', playing') ELSE active

\* set-metadata: the session becomes the active one.
SetMetadata(p) ==
    /\ Touch(p)
    /\ active' = p
    /\ UNCHANGED <<playing, tapped>>

\* set-state: a session that plays becomes active, another one does not.
SetState(p, plays) ==
    /\ Touch(p)
    /\ playing' = IF plays THEN playing \cup {p} ELSE playing \ {p}
    /\ active' = IF plays THEN p ELSE active
    /\ UNCHANGED tapped

\* set-position makes a session, too: also one that was cleared before.
SetPosition(p) ==
    /\ Touch(p)
    /\ UNCHANGED <<playing, active, tapped>>

ClearSession(p) == Retain(Pids \ {p}, active = p) /\ UNCHANGED tapped

\* SurfaceRemoved.
ForgetMedia(p) == Retain(Pids \ {p}, p \in sessions /\ active = p) /\ UNCHANGED tapped

\* prune_dead, which every read starts with.
PruneDead == Retain(Registered, active # None /\ active \notin Registered \cap sessions)

\* now-playing and artwork.
NowPlaying == PruneDead /\ UNCHANGED tapped
\* A transport tap goes to the active session, if there is one.
MediaAction == PruneDead /\ tapped' = IF active' = None THEN tapped ELSE active'

RestartMedia ==
    sessions' = {} /\ older' = {} /\ playing' = {} /\ active' = None /\ UNCHANGED tapped
=============================================================================
