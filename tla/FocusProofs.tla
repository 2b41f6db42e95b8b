---------------------------- MODULE FocusProofs ----------------------------
(***************************************************************************)
(* What the hosts are told about audio focus is a behaviour of             *)
(* FocusPromise, for every set of hosts and every length of the stack.     *)
(*                                                                         *)
(* The strengthening ties what each host was told to its place on the      *)
(* stack: a pid is stacked once, the top one was told that it owns, those  *)
(* below were told to pause or to duck, and nobody else believes either.   *)
(***************************************************************************)
EXTENDS Calls, TLAPS

\* No pid is stacked twice.
Distinct(s) == \A i, j \in 1..Len(s) : s[i] = s[j] => i = j

\* The inductive invariant, which is Told's record of the stack.
FocusInv ==
    /\ stack \in Seq(Pids) /\ Distinct(stack)
    /\ focus \in [Pids -> Views]
    /\ \A p \in Pids : focus[p] = "own" <=> p \in Stacked(stack) /\ p = Owner(stack)
    /\ \A p \in Pids : focus[p] \in {"paused", "ducked"}
                           <=> p \in Stacked(stack) /\ p # Owner(stack)

-----------------------------------------------------------------------------
(* The stack *)

\* Without removes p and keeps the order: the owner changes only if it was p.
LEMMA WithoutKeeps ==
    ASSUME NEW s \in Seq(Pids), Distinct(s), NEW p \in Pids
    PROVE  /\ Without(s, p) \in Seq(Pids) /\ Distinct(Without(s, p))
           /\ Stacked(Without(s, p)) = Stacked(s) \ {p}
           /\ p # Owner(s) => Owner(Without(s, p)) = Owner(s)
<1>1. CASE p \notin Stacked(s)
  <2>1. Without(s, p) = s
    BY <1>1 DEF Without
  <2>. QED
    BY <1>1, <2>1
<1>2. CASE p \in Stacked(s)
  <2>1. PICK k \in 1..Len(s) : k = CHOOSE i \in 1..Len(s) : s[i] = p
    BY <1>2 DEF Stacked
  <2>2. s[k] = p /\ Len(s) \in Nat /\ k \in 1..Len(s) /\ s \in [1..Len(s) -> Pids]
    BY <1>2, <2>1 DEF Stacked
  <2> DEFINE n == Len(s) - 1
             r == [i \in 1..n |-> IF i < k THEN s[i] ELSE s[i + 1]]
  <2>3. Without(s, p) = r
    BY <1>2, <2>1 DEF Without
  <2>4. n \in Nat /\ r \in [1..n -> Pids]
    BY <2>2
  <2>5. r \in Seq(Pids) /\ Len(r) = n
    BY <2>4
  <2>6. Distinct(r)
    <3>1. SUFFICES ASSUME NEW i \in 1..n, NEW j \in 1..n, r[i] = r[j] PROVE i = j
      BY <2>5 DEF Distinct
    <3>. QED
      BY <2>2, <2>4, <3>1 DEF Distinct
  <2>7. Stacked(r) = Stacked(s) \ {p}
    <3>1. ASSUME NEW x \in Stacked(r) PROVE x \in Stacked(s) \ {p}
      <4>1. PICK i \in 1..n : x = r[i]
        BY <2>5, <3>1 DEF Stacked
      <4>. QED
        BY <2>2, <4>1 DEF Stacked, Distinct
    <3>2. ASSUME NEW x \in Stacked(s) \ {p} PROVE x \in Stacked(r)
      <4>1. PICK i \in 1..Len(s) : x = s[i] /\ i # k
        BY <2>2, <3>2 DEF Stacked
      <4>2. CASE i < k
        <5>1. i \in 1..n /\ r[i] = x
          BY <2>2, <4>1, <4>2
        <5>. QED
          BY <2>5, <5>1 DEF Stacked
      <4>3. CASE i > k
        <5>1. i - 1 \in 1..n /\ r[i - 1] = x
          BY <2>2, <4>1, <4>3
        <5>. QED
          BY <2>5, <5>1 DEF Stacked
      <4>. QED
        BY <2>2, <4>1, <4>2, <4>3
    <3>. QED
      BY <3>1, <3>2
  <2>8. ASSUME p # Owner(s) PROVE Owner(r) = Owner(s)
    <3>1. s # <<>> /\ s[Len(s)] # p
      BY <1>2, <2>2, <2>8 DEF Owner, Stacked
    <3>2. k < Len(s) /\ n \in 1..n /\ r[n] = s[Len(s)]
      BY <2>2, <2>4, <3>1
    <3>. QED
      BY <2>5, <3>1, <3>2 DEF Owner
  <2>. QED
    BY <2>3, <2>5, <2>6, <2>7, <2>8
<1>. QED
  BY <1>1, <1>2

\* The owner is stacked, unless nobody is; and it is an ordinary host.
LEMMA OwnerStacked ==
    ASSUME NEW s \in Seq(Pids)
    PROVE  /\ Stacked(s) \subseteq Pids
           /\ s = <<>> => Stacked(s) = {} /\ Owner(s) = None
           /\ s # <<>> => Owner(s) \in Stacked(s) /\ Owner(s) # None
<1>1. Len(s) \in Nat /\ s \in [1..Len(s) -> Pids] /\ (s # <<>> => Len(s) \in 1..Len(s))
  OBVIOUS
<1>2. Stacked(s) \subseteq Pids
  BY <1>1 DEF Stacked
<1>3. s = <<>> => Stacked(s) = {} /\ Owner(s) = None
  BY DEF Stacked, Owner
<1>4. s # <<>> => Owner(s) \in Stacked(s)
  BY <1>1 DEF Stacked, Owner
<1>. QED
  BY <1>2, <1>3, <1>4, HostsAssumption

\* Appending stacks p above everybody else.
LEMMA AppendStacks ==
    ASSUME NEW s \in Seq(Pids), Distinct(s), NEW p \in Pids, p \notin Stacked(s)
    PROVE  /\ Append(s, p) \in Seq(Pids) /\ Distinct(Append(s, p))
           /\ Stacked(Append(s, p)) = Stacked(s) \cup {p}
           /\ Owner(Append(s, p)) = p
<1> DEFINE t == Append(s, p)
<1>1. /\ t \in Seq(Pids) /\ Len(t) = Len(s) + 1 /\ t[Len(s) + 1] = p
      /\ \A i \in 1..Len(s) : t[i] = s[i]
      /\ Len(s) \in Nat
  OBVIOUS
<1>2. Distinct(t)
  BY <1>1 DEF Distinct, Stacked
<1>3. Stacked(t) = Stacked(s) \cup {p}
  <2>1. ASSUME NEW x \in Stacked(t) PROVE x \in Stacked(s) \cup {p}
    BY <1>1, <2>1 DEF Stacked
  <2>2. ASSUME NEW x \in Stacked(s) \cup {p} PROVE x \in Stacked(t)
    <3>1. CASE x = p
      <4>1. Len(t) \in 1..Len(t) /\ t[Len(t)] = p
        BY <1>1
      <4>. QED
        BY <3>1, <4>1 DEF Stacked
    <3>2. CASE x \in Stacked(s)
      <4>1. PICK i \in 1..Len(s) : x = s[i]
        BY <3>2 DEF Stacked
      <4>2. i \in 1..Len(t) /\ t[i] = x
        BY <1>1, <4>1
      <4>. QED
        BY <4>2 DEF Stacked
    <3>. QED
      BY <2>2, <3>1, <3>2
  <2>. QED
    BY <2>1, <2>2
<1>4. Owner(t) = p
  BY <1>1 DEF Owner
<1>. QED
  BY <1>1, <1>2, <1>3, <1>4
-----------------------------------------------------------------------------
(* One change of the stack *)

\* A permanent grab leaves one host, which takes the focus for good.
LEMMA GainKeeps ==
    ASSUME FocusInv, NEW p \in Pids, GrantGain(p)
    PROVE  FocusInv' /\ Promise!TakeForGood(p)
<1>1. /\ stack' \in Seq(Pids) /\ Distinct(stack') /\ Stacked(stack') = {p} /\ Owner(stack') = p
  BY DEF GrantGain, Stacked, Owner, Distinct
<1>2. /\ focus' \in [Pids -> Views]
      /\ \A q \in Pids : focus'[q] = "own" <=> q = p
      /\ \A q \in Pids : focus'[q] \notin {"paused", "ducked"}
  <2>1. focus' = [q \in Pids |-> IF q = p THEN "own"
                                 ELSE IF q \in Stacked(stack) THEN "lost" ELSE focus[q]]
    BY DEF GrantGain
  <2>. QED
    BY <2>1 DEF FocusInv, Views
<1>3. FocusInv'
  BY <1>1, <1>2 DEF FocusInv
<1>. QED
  BY <1>2, <1>3 DEF Promise!TakeForGood

\* A transient grab stacks p on top; the owner below it is told to wait.
LEMMA OverKeeps ==
    ASSUME FocusInv, NEW p \in Pids, NEW what \in {"paused", "ducked"}, GrantOver(p, what)
    PROVE  FocusInv' /\ Promise!TakeOver(p)
<1> DEFINE rest == Without(stack, p)
<1>1. /\ rest \in Seq(Pids) /\ Distinct(rest) /\ Stacked(rest) = Stacked(stack) \ {p}
      /\ p # Owner(stack) => Owner(rest) = Owner(stack)
  BY WithoutKeeps DEF FocusInv
<1>2. /\ stack' \in Seq(Pids) /\ Distinct(stack') /\ Owner(stack') = p
      /\ Stacked(stack') = Stacked(rest) \cup {p}
  BY <1>1, AppendStacks DEF GrantOver
<1>3. /\ Owner(rest) = None => Stacked(rest) = {}
      /\ Owner(rest) # None => Owner(rest) \in Stacked(rest)
      /\ Stacked(rest) \subseteq Pids
  BY <1>1, OwnerStacked
<1>4. focus' = [Told(focus, Owner(rest), what) EXCEPT ![p] = "own"]
  BY DEF GrantOver
<1>5. /\ focus' \in [Pids -> Views] /\ focus'[p] = "own"
      /\ \A q \in Pids \ {p} : focus'[q] = IF q = Owner(rest) THEN what ELSE focus[q]
  BY <1>3, <1>4, HostsAssumption DEF FocusInv, Told, Views
<1>6. /\ \A q \in Pids : focus'[q] = "own" <=> q = p
      /\ \A q \in Pids : focus'[q] \in {"paused", "ducked"} <=> q \in Stacked(rest)
  <2>1. ASSUME NEW q \in Pids, q # p
        PROVE  /\ focus'[q] # "own"
               /\ focus'[q] \in {"paused", "ducked"} <=> q \in Stacked(rest)
    <3>1. CASE q = Owner(rest)
      BY <1>3, <1>5, <2>1, <3>1, HostsAssumption
    <3>2. CASE q # Owner(rest)
      <4>1. focus'[q] = focus[q]
        BY <1>5, <2>1, <3>2
      <4>2. focus[q] # "own"
        <5>1. CASE p = Owner(stack)
          BY <2>1, <5>1 DEF FocusInv
        <5>2. CASE p # Owner(stack)
          BY <1>1, <3>2, <5>2 DEF FocusInv
        <5>. QED
          BY <5>1, <5>2
      <4>. QED
        BY <1>1, <2>1, <4>1, <4>2 DEF FocusInv
    <3>. QED
      BY <3>1, <3>2
  <2>. QED
    BY <1>1, <1>5, <2>1
<1>7. FocusInv'
  BY <1>1, <1>2, <1>5, <1>6 DEF FocusInv
<1>8. \A q \in Pids : q \in Stacked(rest) <=> q # p /\ focus[q] \in {"own", "paused", "ducked"}
  BY <1>1 DEF FocusInv
<1>. QED
  BY <1>6, <1>7, <1>8 DEF Promise!TakeOver

\* Whoever leaves the stack stops to wait or to own, and the next one owns.
LEMMA DropKeeps ==
    ASSUME FocusInv, NEW p \in Pids, DropPid(p)
    PROVE  FocusInv' /\ (Promise!Leave(p) \/ UNCHANGED Promise!vars)
<1> DEFINE rest == Without(stack, p)
<1>1. /\ rest \in Seq(Pids) /\ Distinct(rest) /\ Stacked(rest) = Stacked(stack) \ {p}
      /\ p # Owner(stack) => Owner(rest) = Owner(stack)
  BY WithoutKeeps DEF FocusInv
<1>2. /\ Owner(rest) = None => Stacked(rest) = {}
      /\ Owner(rest) # None => Owner(rest) \in Stacked(rest)
      /\ Stacked(rest) \subseteq Pids
  BY <1>1, OwnerStacked
<1>3. CASE p \notin Stacked(stack)
  <2>1. stack' = stack /\ focus' = focus
    BY <1>3 DEF DropPid, Without
  <2>. QED
    BY <2>1 DEF FocusInv, Promise!vars
<1>4. CASE p \in Stacked(stack) /\ p # Owner(stack)
  <2>1. stack' = rest /\ focus' = [focus EXCEPT ![p] = "none"]
    BY <1>4 DEF DropPid
  <2>2. /\ focus' \in [Pids -> Views] /\ focus'[p] = "none"
        /\ \A q \in Pids \ {p} : focus'[q] = focus[q]
    BY <2>1 DEF FocusInv, Views
  <2>3. focus[p] # "own"
    BY <1>4 DEF FocusInv
  <2>4. FocusInv'
    BY <1>1, <1>4, <2>1, <2>2 DEF FocusInv
  <2>. QED
    BY <2>2, <2>3, <2>4 DEF Promise!Leave
<1>5. CASE p \in Stacked(stack) /\ p = Owner(stack)
  <2>1. stack' = rest /\ focus' = [Told(focus, Owner(rest), "own") EXCEPT ![p] = "none"]
    BY <1>5 DEF DropPid
  <2>2. /\ focus' \in [Pids -> Views] /\ focus'[p] = "none"
        /\ \A q \in Pids \ {p} : focus'[q] = IF q = Owner(rest) THEN "own" ELSE focus[q]
    BY <1>2, <2>1, HostsAssumption DEF FocusInv, Told, Views
  <2>3. focus[p] = "own" /\ \A q \in Pids \ {p} : focus[q] # "own"
    BY <1>5 DEF FocusInv
  <2>4. \A q \in Pids : q \in Stacked(rest) <=> focus[q] \in {"paused", "ducked"}
    BY <1>1, <1>5, <2>3 DEF FocusInv
  <2>5. Owner(rest) # p
    BY <1>1, <1>2, HostsAssumption
  <2>6. FocusInv'
    <3>1. \A q \in Pids : focus'[q] = "own" <=> q \in Stacked(rest) /\ q = Owner(rest)
      BY <1>1, <1>2, <2>2, <2>3, <2>5, HostsAssumption
    <3>2. \A q \in Pids : focus'[q] \in {"paused", "ducked"}
                              <=> q \in Stacked(rest) /\ q # Owner(rest)
      BY <1>1, <2>2, <2>4
    <3>. QED
      BY <1>1, <2>1, <2>2, <3>1, <3>2 DEF FocusInv
  <2>7. CASE Owner(rest) = None
    BY <1>2, <2>2, <2>3, <2>4, <2>7, HostsAssumption, <2>6 DEF Promise!Leave
  <2>8. CASE Owner(rest) # None
    <3> DEFINE q == Owner(rest)
    <3>1. q \in Pids /\ focus[q] \in {"paused", "ducked"} /\ q # p
      BY <1>2, <2>4, <2>5, <2>8
    <3>2. {x \in Pids : focus'[x] = "own"} = {q}
      BY <2>2, <2>3, <3>1
    <3>3. {x \in Pids : focus'[x] \in {"paused", "ducked"}}
             = {x \in Pids : focus[x] \in {"paused", "ducked"}} \ {q}
      BY <2>2, <2>3, <3>1
    <3>. QED
      BY <2>3, <2>6, <3>1, <3>2, <3>3 DEF Promise!Leave
  <2>. QED
    BY <2>7, <2>8
<1>. QED
  BY <1>3, <1>4, <1>5

\* A grab of either kind.
LEMMA GrantKeeps ==
    ASSUME FocusInv, NEW p \in Pids, NEW kind, Grant(p, kind)
    PROVE  FocusInv' /\ Promise!Next
<1>1. CASE GrantGain(p)
  BY <1>1, GainKeeps DEF Promise!Next
<1>2. CASE GrantOver(p, "paused") \/ GrantOver(p, "ducked")
  BY <1>2, OverKeeps DEF Promise!Next
<1>. QED
  BY <1>1, <1>2 DEF Grant
-----------------------------------------------------------------------------
(* Every step of the composition *)

\* Steps that tell nobody anything about focus.
LEMMA StillFocused ==
    ASSUME FocusInv, UNCHANGED focusVars
    PROVE  FocusInv' /\ UNCHANGED Promise!vars
BY DEF FocusInv, focusVars, Promise!vars

\* What the hosts hear in any step is a step of FocusPromise, or nothing.
LEMMA FocusStep ==
    ASSUME FocusInv, [Next]_vars
    PROVE  FocusInv' /\ [Promise!Next]_Promise!vars
<1>1. CASE UNCHANGED focusVars
  BY <1>1, StillFocused
<1>2. ASSUME NEW p \in Pids, DropPid(p)
      PROVE  FocusInv' /\ [Promise!Next]_Promise!vars
  BY <1>2, DropKeeps DEF Promise!Next
<1>3. ASSUME NEW p \in Pids, NEW kind, Grant(p, kind)
      PROVE  FocusInv' /\ [Promise!Next]_Promise!vars
  BY <1>3, GrantKeeps
<1>4. ASSUME NEW p \in Pids, LaunchHost(p) \/ HostDies(p) \/ KillHost(p)
      PROVE  UNCHANGED focusVars
  BY <1>4 DEF LaunchHost, HostDies, KillHost, Alone, audioVars
<1>14. ASSUME NEW p \in Pids, NEW id, PostNote(p, id) \/ CancelNote(p, id)
       PROVE  UNCHANGED focusVars
  BY <1>14 DEF PostNote, CancelNote, Notably, audioVars
<1>15. ASSUME NEW n, ClickNote(n)
       PROVE  UNCHANGED focusVars
  BY <1>15 DEF ClickNote, Notably, audioVars
<1>16. ASSUME NEW kind, NEW on, SensorHold(kind, on)
       PROVE  UNCHANGED focusVars
  BY <1>16 DEF SensorHold, audioVars
<1>5. ASSUME NEW p \in Pids, HostExit(p) \/ AudioFocusAbandon(p) \/ AudioCallEnd(p) \/ AudioRingStop(p)
      PROVE  DropPid(p)
  BY <1>5 DEF HostExit, ForgetAudio, AudioFocusAbandon, AbandonFocus, AudioCallEnd, EndCall,
      AudioRingStop, DeclineRing
<1>6. ASSUME NEW p \in Pids, AudioCallStart(p) \/ AudioRingStart(p)
      PROVE  Grant(p, "transient")
  BY <1>6 DEF AudioCallStart, StartCall, AudioRingStart, StartRing
<1>7. ASSUME NEW p \in Pids, NEW kind, AudioFocusRequest(p, kind)
      PROVE  Grant(p, kind)
  BY <1>7 DEF AudioFocusRequest, RequestFocus
<1>8. ASSUME NEW p \in Pids, NEW on, AudioCallVideo(p, on) \/ ReportPowerClass(p, on)
      PROVE  UNCHANGED focusVars
  BY <1>8 DEF AudioCallVideo, ReportPowerClass, Powerly, audioVars
<1>9. ASSUME NEW p \in Pids, NEW arg, AppMicMute(p, arg) \/ AppMute(p, arg)
      PROVE  UNCHANGED focusVars
  BY <1>9 DEF AppMicMute, SetAppMicMute, AppMute, SetAppMute
<1>10. ASSUME NEW arg, AudioRingerMode(arg) \/ GlobalMute(arg) \/ MicMute(arg) \/ AudioRoute(arg)
       PROVE  UNCHANGED focusVars
  BY <1>10 DEF AudioRingerMode, SetRingerMode, GlobalMute, SetMute, MicMute, SetMicMute,
      AudioRoute, SetRoute
<1>11. ASSUME NEW arg, Panel(arg) \/ ScreenTimeout(arg) \/ ScreenPolled(arg) \/ Brightness(arg)
              \/ BrightnessScale(arg) \/ LightReading(arg) \/ PhoneMoves(arg)
       PROVE  UNCHANGED focusVars
  BY <1>11 DEF Panel, ScreenTimeout, ScreenPolled, Brightness, BrightnessScale, LightReading, PhoneMoves, Powerly, audioVars
<1>12. CASE PressPower \/ InactivityTick \/ Touch \/ IdleGrows \/ OffGrows
            \/ ProximitySample \/ Worker \/ Poll
  <2>1. UNCHANGED focusVars
    BY <1>12 DEF PressPower, InactivityTick, Touch, IdleGrows, OffGrows, ProximitySample,
        Worker, Poll, Powerly, audioVars
  <2>. QED
    BY <1>1, <2>1
<1>13. CASE UNCHANGED vars
  BY <1>1, <1>13 DEF vars, audioVars
<1>. QED
  BY <1>1, <1>2, <1>3, <1>4, <1>5, <1>6, <1>7, <1>8, <1>9, <1>10, <1>11, <1>12, <1>13,
     <1>14, <1>15, <1>16 DEF Next

\* At the start nobody owns and nobody waits.
LEMMA FocusStart == ASSUME Init PROVE FocusInv /\ Promise!Init
<1>1. stack = <<>> /\ focus = [p \in Pids |-> "none"]
  BY DEF Init, AudioInit
<1>. QED
  BY <1>1 DEF FocusInv, Promise!Init, Distinct, Stacked, Views

\* What the audio service tells the hosts about focus - over grabs, calls, rings,
\* deaths and kills - keeps FocusPromise.
THEOREM FocusIsKept == Spec => FocusKept
<1>1. Init => FocusInv /\ Promise!Init
  BY FocusStart
<1>2. FocusInv /\ [Next]_vars => FocusInv' /\ [Promise!Next]_Promise!vars
  BY FocusStep
<1>. QED
  BY <1>1, <1>2, PTL DEF Spec, FocusKept, Promise!Spec
=============================================================================
