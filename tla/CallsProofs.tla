---------------------------- MODULE CallsProofs ----------------------------
(***************************************************************************)
(* What the audio, power, sensor and notification services owe each other, *)
(* proved for every set of hosts, every light curve and every mix.         *)
(*                                                                         *)
(* Three facts strengthen what the runs check.  A host that was not        *)
(* launched left no trace in any service but the badges of its app, so     *)
(* that it does not inherit one when it is registered; the level of a lit  *)
(* panel is the one that was applied last, or the default it was powered   *)
(* with while no level was known; and the requests that wait for the       *)
(* enable worker switch each sensor that has one master to and fro, the    *)
(* last one to what is wanted.                                             *)
(***************************************************************************)
EXTENDS FocusProofs, FiniteSetTheorems

\* The steps as the power service sees them, with the life of the hosts.
PowerOwn ==
    \/ \E p \in Pids :
         \/ proc[p] # "unborn" /\ (CallBegins(p) \/ CallEnds(p))
         \/ \E on \in BOOLEAN : Video(p, on) \/ ReportClass(p, on)
    \/ \E on \in BOOLEAN : SetPanelOn(on) \/ SetTimeout(on) \/ ScreenPoll(on) \/ OnProximity(on)
    \/ PowerKey \/ IdleTick \/ UserActivity \/ GrowIdle \/ GrowOff
    \/ \E level \in Levels \cup {NoLevel} : SetBrightness(level)
    \/ \E s \in Scales : SetScale(s)
    \/ \E lux \in Lux : OnLight(lux)

PowerStep ==
    \/ UNCHANGED <<proc, powerVars>>
    \/ UNCHANGED powerVars /\ \E p \in Pids : Launch(p) \/ Die(p) \/ Cut(p)
    \/ \E p \in Pids : Exit(p) /\ ForgetPower(p)
    \/ UNCHANGED proc /\ PowerOwn

\* Every step of the composition is one of these.
LEMMA PowerSteps == ASSUME [Next]_vars PROVE PowerStep
<1>1. ASSUME NEW p \in Pids, LaunchHost(p) \/ HostDies(p) \/ KillHost(p)
      PROVE  PowerStep
  BY <1>1 DEF LaunchHost, HostDies, KillHost, Alone, PowerStep
<1>2. ASSUME NEW p \in Pids, HostExit(p)
      PROVE  PowerStep
  BY <1>2 DEF HostExit, PowerStep
<1>3. ASSUME NEW p \in Pids, AudioCallStart(p) \/ AudioCallEnd(p)
      PROVE  PowerStep
  BY <1>3 DEF AudioCallStart, AudioCallEnd, Speaks, Heard, PowerStep, PowerOwn
<1>4. ASSUME NEW p \in Pids, NEW on \in BOOLEAN, AudioCallVideo(p, on) \/ ReportPowerClass(p, on)
      PROVE  PowerStep
  BY <1>4 DEF AudioCallVideo, ReportPowerClass, Powerly, PowerStep, PowerOwn
<1>5. ASSUME NEW p \in Pids, AudioFocusAbandon(p) \/ AudioRingStart(p) \/ AudioRingStop(p)
      PROVE  PowerStep
  BY <1>5 DEF AudioFocusAbandon, AudioRingStart, AudioRingStop, Audibly, PowerStep
<1>6. ASSUME NEW p \in Pids, NEW arg, AudioFocusRequest(p, arg) \/ AppMicMute(p, arg) \/ AppMute(p, arg)
      PROVE  PowerStep
  BY <1>6 DEF AudioFocusRequest, AppMicMute, AppMute, Audibly, PowerStep
<1>7. ASSUME NEW arg, AudioRingerMode(arg) \/ GlobalMute(arg) \/ MicMute(arg) \/ AudioRoute(arg)
      PROVE  PowerStep
  BY <1>7 DEF AudioRingerMode, GlobalMute, MicMute, AudioRoute, Audibly, PowerStep
<1>8. ASSUME NEW on \in BOOLEAN, Panel(on) \/ ScreenTimeout(on) \/ ScreenPolled(on)
      PROVE  PowerStep
  BY <1>8 DEF Panel, ScreenTimeout, ScreenPolled, Powerly, PowerStep, PowerOwn
<1>9. CASE PressPower \/ InactivityTick \/ Touch \/ IdleGrows \/ OffGrows
  BY <1>9 DEF PressPower, InactivityTick, Touch, IdleGrows, OffGrows, Powerly, PowerStep, PowerOwn
<1>10. ASSUME NEW level \in Levels \cup {NoLevel}, Brightness(level)
       PROVE  PowerStep
  BY <1>10 DEF Brightness, Powerly, PowerStep, PowerOwn
<1>11. ASSUME NEW s \in Scales, BrightnessScale(s)
       PROVE  PowerStep
  BY <1>11 DEF BrightnessScale, Powerly, PowerStep, PowerOwn
<1>12. ASSUME NEW lux \in Lux, LightReading(lux)
       PROVE  PowerStep
  BY <1>12 DEF LightReading, Powerly, PowerStep, PowerOwn
<1>13. CASE ProximitySample
  <2>1. OnProximity(proxNear' = "near") \/ UNCHANGED powerVars
    BY <1>13 DEF ProximitySample
  <2>. QED
    BY <1>13, <2>1 DEF ProximitySample, Powerly, PowerStep, PowerOwn
<1>14. CASE Worker \/ Poll \/ \E d \in Distances : PhoneMoves(d)
  BY <1>14 DEF Worker, Poll, PhoneMoves, Powerly, PowerStep
<1>15. CASE UNCHANGED vars
  BY <1>15 DEF vars, PowerStep
<1>16. ASSUME NEW p \in Pids, NEW id, PostNote(p, id) \/ CancelNote(p, id)
       PROVE  PowerStep
  BY <1>16 DEF PostNote, CancelNote, Notably, PowerStep
<1>17. ASSUME NEW n, ClickNote(n)
       PROVE  PowerStep
  BY <1>17 DEF ClickNote, NotifyClick, Notably, PowerStep
<1>18. ASSUME NEW kind, NEW on, SensorHold(kind, on)
       PROVE  PowerStep
  BY <1>18 DEF SensorHold, PowerStep
<1>. QED
  BY <1>1, <1>2, <1>3, <1>4, <1>5, <1>6, <1>7, <1>8, <1>9, <1>10, <1>11, <1>12, <1>13, <1>14,
     <1>15, <1>16, <1>17, <1>18 DEF Next
-----------------------------------------------------------------------------
(* The life of the hosts *)

\* The hosts that are registered are hosts.
LEMMA RegisteredPids == Registered \subseteq Pids
BY DEF Registered

\* A host that is launched was not heard of; one that leaves is not registered.
LEMMA LifeRegisters ==
    ASSUME HostsTypeOK, NEW p \in Pids, Launch(p) \/ Die(p) \/ Cut(p) \/ Exit(p)
    PROVE  /\ HostsTypeOK'
           /\ \A q \in Registered' : q \in Registered \/ (q = p /\ Launch(p))
           /\ \A q \in Pids : proc'[q] = "unborn" => proc[q] = "unborn"
           /\ Launch(p) => proc[p] = "unborn" /\ Registered' = (Registered \ HostsOf(AppId[p])) \cup {p}
           /\ Exit(p) => proc[p] # "unborn" /\ Registered' = Registered \ {p}
<1>1. CASE Launch(p)
  <2>1. /\ proc[p] = "unborn" /\ proc' \in [Pids -> Stages]
        /\ \A q \in Pids : proc'[q] = IF q = p THEN "up"
                                      ELSE IF q \in HostsOf(AppId[p]) THEN "cut" ELSE proc[q]
    BY <1>1 DEF Launch, HostsTypeOK, Stages
  <2>2. HostsOf(AppId[p]) = {q \in Pids : proc[q] \in {"up", "exited"} /\ AppId[q] = AppId[p]}
    BY DEF HostsOf, Registered
  <2>3. Registered' = (Registered \ HostsOf(AppId[p])) \cup {p}
    BY <2>1, <2>2 DEF Registered
  <2>4. \A q \in Registered' : q # p => q \in Registered /\ AppId[q] # AppId[p]
    BY <2>3 DEF HostsOf
  <2>5. HostsTypeOK'
    BY <2>1, <2>4 DEF HostsTypeOK
  <2>6. ~Exit(p)
    BY <2>1 DEF Exit, Move
  <2>. QED
    BY <1>1, <2>1, <2>2, <2>3, <2>4, <2>5, <2>6 DEF Registered
<1>2. CASE Die(p) \/ Cut(p) \/ Exit(p)
  <2>1. /\ proc[p] \in {"up", "exited"} /\ proc' \in [Pids -> Stages]
        /\ \A q \in Pids : q # p => proc'[q] = proc[q]
        /\ proc'[p] \in {"exited", "cut", "gone"}
        /\ Exit(p) => proc'[p] = "gone"
    BY <1>2 DEF Die, Cut, Exit, Move, HostsTypeOK, Stages
  <2>2. Registered' \subseteq Registered
    BY <2>1 DEF Registered
  <2>3. Exit(p) => Registered' = Registered \ {p}
    BY <2>1 DEF Registered
  <2>4. ~Launch(p)
    BY <2>1 DEF Launch
  <2>5. HostsTypeOK'
    BY <2>1, <2>2 DEF HostsTypeOK
  <2>6. \A q \in Pids : proc'[q] = "unborn" => proc[q] = "unborn"
    BY <2>1
  <2>7. proc[p] # "unborn"
    BY <2>1
  <2>. QED
    BY <2>2, <2>3, <2>4, <2>5, <2>6, <2>7
<1>. QED
  BY <1>1, <1>2
-----------------------------------------------------------------------------
(* The backlight *)

Shades == Levels \cup {NoLevel}
Backlights == [ambient : Shades, manual : Shades, applied : Shades, level : Levels,
               lux : Lux \cup {NoLevel}, scale : Nat, sensing : BOOLEAN, byDefault : BOOLEAN]

\* What is lit is the default, or the level that was applied last.
Lit(b, shown) ==
    IF ~shown THEN b.level = 0 ELSE b.level = IF b.byDefault THEN DefaultOn ELSE b.applied

\* The ambient light is within the dead band of the level that was applied last.
InBand(b) == b.manual = NoLevel /\ b.applied # NoLevel /\ Distance2(b.ambient, b.applied) < MinStep

\* What the arbiter shows on a panel that is lit or dark, when the display is its own.
Faithful(b, shown) ==
    noArt => /\ Lit(b, shown)
             /\ shown => \/ Wanted(b) = NoLevel
                         \/ b.byDefault /\ InBand(b)
                         \/ ~b.byDefault /\ Distance2(b.level, Wanted(b)) < MinStep

\* A level that is applied exactly as it is wanted.
LEMMA AppliedFaithful ==
    ASSUME NEW b \in Backlights, Wanted(b) # NoLevel, noArt \in BOOLEAN
    PROVE  Applied(b, Wanted(b)) \in Backlights /\ Faithful(Applied(b, Wanted(b)), TRUE)
<1> DEFINE w == Wanted(b)
           a == Applied(b, w)
<1>1. w \in Levels
  BY DEF Wanted, Backlights, Shades
<1>2. /\ a \in Backlights /\ a.applied = w /\ a.byDefault = FALSE
      /\ a.manual = b.manual /\ a.ambient = b.ambient
  BY <1>1 DEF Applied, Shine, Backlights, Shades
<1>3. noArt => a.level = w
  BY <1>1 DEF Applied, Shine, Backlights, Shades
<1> HIDE DEF a
<1>6. Wanted(a) = w
  BY <1>2 DEF Wanted
<1>4. Distance2(w, w) < MinStep
  BY <1>1 DEF Distance2, MinStep, Levels, Full
<1> HIDE DEF w
<1>5. Faithful(a, TRUE)
  BY <1>2, <1>3, <1>4, <1>6 DEF Faithful, Lit
<1>. QED
  BY <1>2, <1>5 DEF a, w

\* A reading maps to a level.
LEMMA CurveLevel == \A lux, scale \in Nat : Curve(lux, scale) \in Levels
<1>. SUFFICES ASSUME NEW lux \in Nat, NEW scale \in Nat PROVE Curve(lux, scale) \in Levels
  OBVIOUS
<1>1. lux * scale \in Nat
  OBVIOUS
<1>. QED
  BY <1>1 DEF Curve, Levels, Full

\* Reasserting the level on a panel that shows something shows what is wanted now.
LEMMA ReassertFaithful ==
    ASSUME NEW b \in Backlights, NEW shown \in BOOLEAN, noArt \in BOOLEAN, noArt => Lit(b, shown)
    PROVE  Reassert(b, shown) \in Backlights /\ Faithful(Reassert(b, shown), shown)
<1>1. CASE shown /\ Wanted(b) # NoLevel
  BY <1>1, AppliedFaithful DEF Reassert
<1>2. CASE ~shown \/ Wanted(b) = NoLevel
  BY <1>2 DEF Reassert, Faithful
<1>. QED
  BY <1>1, <1>2

\* Powering the panel and reasserting the level shows what is wanted.
LEMMA PoweredFaithful ==
    ASSUME NEW b \in Backlights, NEW on \in BOOLEAN, noArt \in BOOLEAN
    PROVE  /\ Powered(b, on) \in Backlights
           /\ Reassert(Powered(b, on), on) \in Backlights
           /\ Faithful(Reassert(Powered(b, on), on), on)
<1> DEFINE c == Powered(b, on)
           d == on /\ Wanted(b) = NoLevel
           level == IF on THEN DefaultOn ELSE 0
<1>5. d \in BOOLEAN /\ level \in Levels
  BY DEF DefaultOn, Levels, Full
<1>6. c = Shine([b EXCEPT !.byDefault = d], level)
  BY DEF Powered
<1> HIDE DEF d, level, c
<1>7. /\ c \in Backlights
      /\ c.manual = b.manual /\ c.ambient = b.ambient /\ c.byDefault = d
      /\ noArt => c.level = level
  BY <1>5, <1>6 DEF Shine, Backlights
<1>1. /\ c \in Backlights
      /\ c.manual = b.manual /\ c.ambient = b.ambient
      /\ c.byDefault <=> on /\ Wanted(b) = NoLevel
      /\ noArt => c.level = IF on THEN DefaultOn ELSE 0
  BY <1>7 DEF d, level
<1>2. Wanted(c) = Wanted(b)
  BY <1>1 DEF Wanted
<1>3. CASE on /\ Wanted(b) # NoLevel
  BY <1>1, <1>2, <1>3, AppliedFaithful DEF Reassert, c
<1>4. CASE ~on \/ Wanted(b) = NoLevel
  <2>1. Reassert(c, on) = c /\ Faithful(c, on)
    BY <1>1, <1>2, <1>4 DEF Reassert, Faithful, Lit
  <2>. QED
    BY <1>1, <2>1 DEF c
<1>. QED
  BY <1>3, <1>4

\* The dead band keeps the level near the ambient light, or the default in its place.
LEMMA AutoFaithful ==
    ASSUME NEW b \in Backlights, NEW c \in Backlights, NEW shown \in BOOLEAN, noArt \in BOOLEAN,
           Faithful(b, shown), c.ambient # NoLevel, c.applied = b.applied, c.level = b.level,
           c.manual = b.manual, c.byDefault = b.byDefault
    PROVE  AutoApply(c, shown) \in Backlights /\ Faithful(AutoApply(c, shown), shown)
<1> DEFINE moves == /\ shown /\ c.manual = NoLevel
                    /\ c.applied = NoLevel \/ Distance2(c.ambient, c.applied) >= MinStep
<1>1. CASE moves
  <2>1. AutoApply(c, shown) = Applied(c, Wanted(c)) /\ Wanted(c) # NoLevel
    BY <1>1 DEF AutoApply, Wanted
  <2>. QED
    BY <1>1, <2>1, AppliedFaithful
<1>2. CASE ~moves
  <2>1. AutoApply(c, shown) = c
    BY <1>2 DEF AutoApply
  <2>2. noArt => Lit(c, shown)
    BY DEF Faithful, Lit
  <2>3. CASE ~shown \/ c.manual # NoLevel
    BY <2>1, <2>2, <2>3 DEF Faithful, InBand, Wanted
  <2>4. CASE shown /\ c.manual = NoLevel
    <3>1. c.ambient \in Levels /\ c.applied \in Levels
      BY <1>2, <2>4 DEF Backlights, Shades
    <3>2. Distance2(c.ambient, c.applied) < MinStep
      BY <1>2, <2>4, <3>1 DEF Distance2, MinStep, Levels, Full
    <3>3. Distance2(c.applied, c.ambient) < MinStep /\ Wanted(c) = c.ambient
      BY <2>4, <3>1, <3>2 DEF Distance2, MinStep, Levels, Full, Wanted
    <3>4. c.applied # NoLevel
      BY <1>2, <2>4
    <3>. QED
      BY <2>1, <2>2, <2>4, <3>2, <3>3, <3>4 DEF Faithful, Lit, InBand
  <2>. QED
    BY <2>3, <2>4
<1>. QED
  BY <1>1, <1>2

\* That the sensor is to be warm shows nothing.
LEMMA SensedFaithful ==
    ASSUME NEW b \in Backlights, NEW shown \in BOOLEAN, Faithful(b, shown),
           NEW on \in BOOLEAN, NEW age
    PROVE  Sensed(b, on, age) \in Backlights /\ Faithful(Sensed(b, on, age), shown)
<1>1. Warm(b, on, age) \in BOOLEAN
  BY DEF Warm
<1>2. /\ Sensed(b, on, age) \in Backlights /\ Wanted(Sensed(b, on, age)) = Wanted(b)
      /\ Sensed(b, on, age).level = b.level /\ Sensed(b, on, age).applied = b.applied
      /\ Sensed(b, on, age).manual = b.manual /\ Sensed(b, on, age).ambient = b.ambient
      /\ Sensed(b, on, age).byDefault = b.byDefault
  BY <1>1 DEF Sensed, Backlights, Wanted
<1>. QED
  BY <1>2 DEF Faithful, Lit, InBand
-----------------------------------------------------------------------------
(* The panel *)

\* The inductive invariant of the power service alone.
PanelInv ==
    /\ PowerTypeOK
    /\ lit = (panelOn /\ ~blanked)
    /\ blanked => callers # {} /\ videoCalls = {}
    /\ Faithful(backlight, lit)

\* Who owns the display does not change, so faith may be kept for the next state.
LEMMA StillFaithful ==
    ASSUME Faithful(backlight', lit'), UNCHANGED noArt
    PROVE  Faithful(backlight, lit)'
BY DEF Faithful, Lit, InBand, Wanted

\* Lifting the blank, or finding none, leaves a faithful panel without a blank.
LEMMA UnblankFaithful ==
    ASSUME PanelInv, EnsureUnblanked, UNCHANGED <<noArt, panelOn>>
    PROVE  /\ blanked' = FALSE /\ lit' = panelOn /\ suppressed' \subseteq Pids
           /\ backlight' \in Backlights /\ Faithful(backlight, lit)'
<1>1. CASE blanked
  <2>1. backlight \in Backlights /\ panelOn \in BOOLEAN /\ noArt \in BOOLEAN
    BY DEF PanelInv, PowerTypeOK, Backlights, Shades
  <2>2. backlight' = Reassert(Powered(backlight, panelOn), panelOn) /\ lit' = panelOn
    BY <1>1 DEF EnsureUnblanked
  <2>3. Faithful(backlight', panelOn)
    BY <2>1, <2>2, PoweredFaithful
  <2>4. Faithful(backlight, lit)'
    BY <2>2, <2>3, StillFaithful
  <2>5. blanked' = FALSE /\ suppressed' \subseteq Pids
    BY <1>1 DEF EnsureUnblanked, PanelInv, PowerTypeOK
  <2>. QED
    BY <2>1, <2>2, <2>4, <2>5, PoweredFaithful
<1>2. CASE ~blanked
  <2>1. UNCHANGED <<blanked, lit, suppressed, backlight>>
    BY <1>2 DEF EnsureUnblanked
  <2>2. Faithful(backlight, lit)'
    BY <2>1, StillFaithful DEF PanelInv
  <2>. QED
    BY <1>2, <2>1, <2>2 DEF PanelInv, PowerTypeOK, Backlights, Shades
<1>. QED
  BY <1>1, <1>2

\* What the panel commands and the idle timer do.
LEMMA PanelOnFaithful ==
    ASSUME PanelInv, NEW on \in BOOLEAN, SetPanelOn(on)
    PROVE  PanelInv'
<1> DEFINE powered == IF blanked THEN backlight ELSE Powered(backlight, on)
           shown == on /\ ~blanked
<1>1. backlight \in Backlights /\ noArt \in BOOLEAN /\ blanked \in BOOLEAN /\ panelOn \in BOOLEAN
  BY DEF PanelInv, PowerTypeOK, Backlights, Shades
<1>2. /\ panelOn' = on /\ lit' = (on /\ ~blanked)
      /\ backlight' = Sensed(Reassert(powered, shown), on, offAge)
      /\ UNCHANGED <<noArt, blanked, suppressed, callerVars, timeout>>
      /\ idle' = IF on THEN FALSE ELSE idle
      /\ OnScreenState(on)
  BY DEF SetPanelOn, PanelInv
<1>3. Reassert(powered, shown) \in Backlights /\ Faithful(Reassert(powered, shown), shown)
  <2>1. CASE blanked
    BY <1>1, <2>1, ReassertFaithful DEF PanelInv, Faithful, Lit
  <2>2. CASE ~blanked
    BY <1>1, <2>2, PoweredFaithful
  <2>. QED
    BY <1>1, <2>1, <2>2
<1>4. backlight' \in Backlights /\ Faithful(backlight', shown)
  BY <1>1, <1>2, <1>3, SensedFaithful
<1>5. Faithful(backlight, lit)'
  BY <1>1, <1>2, <1>4, StillFaithful
<1>6. /\ dozing' \in BOOLEAN /\ offAge' \in Ages /\ cadence' \in [Pids -> Cadences] /\ bgService' \subseteq Pids
  BY <1>2 DEF OnScreenState, AgeAfter, CadenceFor, PanelInv, PowerTypeOK, Ages, Cadences
<1>7. PowerTypeOK'
  BY <1>1, <1>2, <1>4, <1>6 DEF PanelInv, PowerTypeOK, callerVars, Backlights, Shades
<1>. QED
  BY <1>1, <1>2, <1>5, <1>7 DEF PanelInv, callerVars

\* A step that leaves the panel, the calls and the backlight alone.
LEMMA PanelStays ==
    ASSUME PanelInv, UNCHANGED <<noArt, panelVars, callerVars, backlight>>,
           {dozing', idle', timeout'} \subseteq BOOLEAN, bgService' \subseteq Pids,
           offAge' \in Ages, cadence' \in [Pids -> Cadences]
    PROVE  PanelInv'
<1>1. Faithful(backlight, lit)'
  BY StillFaithful DEF PanelInv, panelVars
<1>2. PowerTypeOK'
  BY DEF PanelInv, PowerTypeOK, panelVars, callerVars
<1>. QED
  BY <1>1, <1>2 DEF PanelInv, panelVars, callerVars

\* The blank is lifted or stays as the calls change.
LEMMA CallersFaithful ==
    ASSUME PanelInv, UNCHANGED <<noArt, panelOn, idleVars>>, EnsureUnblanked \/ KeepPanel,
           callers' \subseteq Pids, videoCalls' \subseteq Pids, bgService' \subseteq Pids,
           dozing' \in BOOLEAN, offAge' \in Ages, cadence' \in [Pids -> Cadences],
           KeepPanel /\ blanked => callers' # {} /\ videoCalls' = {}
    PROVE  PanelInv'
<1>1. CASE EnsureUnblanked
  <2>1. /\ blanked' = FALSE /\ lit' = panelOn /\ suppressed' \subseteq Pids
        /\ backlight' \in Backlights /\ Faithful(backlight, lit)'
    BY <1>1, UnblankFaithful
  <2>2. PowerTypeOK'
    BY <2>1 DEF PanelInv, PowerTypeOK, idleVars, Backlights, Shades
  <2>3. lit' = (panelOn' /\ ~blanked')
    BY <2>1 DEF PanelInv, PowerTypeOK
  <2>. QED
    BY <2>1, <2>2, <2>3 DEF PanelInv
<1>2. CASE KeepPanel
  <2>1. Faithful(backlight, lit)'
    BY <1>2, StillFaithful DEF PanelInv, KeepPanel
  <2>2. PowerTypeOK'
    BY <1>2 DEF PanelInv, PowerTypeOK, idleVars, KeepPanel
  <2>. QED
    BY <1>2, <2>1, <2>2 DEF PanelInv, KeepPanel
<1>. QED
  BY <1>1, <1>2

\* CommsActive and VideoCallActive, and what a death does of both.
LEMMA CallsFaithful ==
    ASSUME PanelInv, NEW p \in Pids,
           \/ CallBegins(p) \/ CallEnds(p) \/ ForgetPower(p)
           \/ \E on \in BOOLEAN : Video(p, on)
    PROVE  PanelInv'
<1>1. CASE CallBegins(p)
  <2>1. /\ callers' = callers \cup {p} /\ videoCalls' = videoCalls
        /\ KeepPanel /\ UNCHANGED <<noArt, panelOn, idleVars, dozing, bgService, offAge>>
        /\ cadence' \in [Pids -> Cadences]
    BY <1>1 DEF CallBegins, Recadence, CadenceFor, PanelInv, PowerTypeOK, Cadences
  <2>. QED
    BY <2>1, CallersFaithful DEF PanelInv, PowerTypeOK
<1>2. CASE CallEnds(p)
  <2>1. /\ callers' = callers \ {p} /\ videoCalls' = videoCalls \ {p}
        /\ IF callers' = {} THEN EnsureUnblanked ELSE KeepPanel
        /\ UNCHANGED <<noArt, panelOn, idleVars, dozing, bgService, offAge>>
        /\ cadence' \in [Pids -> Cadences]
    BY <1>2 DEF CallEnds, Recadence, CadenceFor, PanelInv, PowerTypeOK, Cadences
  <2>2. KeepPanel /\ blanked => callers' # {} /\ videoCalls' = {}
    <3>1. CASE callers' = {}
      BY <2>1, <3>1 DEF EnsureUnblanked, KeepPanel
    <3>2. CASE callers' # {}
      BY <2>1, <3>2 DEF PanelInv
    <3>. QED
      BY <3>1, <3>2
  <2>. QED
    BY <2>1, <2>2, CallersFaithful DEF PanelInv, PowerTypeOK
<1>3. CASE ForgetPower(p)
  <2>1. /\ callers' = callers \ {p} /\ videoCalls' = videoCalls \ {p}
        /\ bgService' = bgService \ {p}
        /\ IF callers' = {} THEN EnsureUnblanked ELSE KeepPanel
        /\ UNCHANGED <<noArt, panelOn, idleVars, dozing, offAge, cadence>>
    BY <1>3 DEF ForgetPower
  <2>2. KeepPanel /\ blanked => callers' # {} /\ videoCalls' = {}
    <3>1. CASE callers' = {}
      BY <2>1, <3>1 DEF EnsureUnblanked, KeepPanel
    <3>2. CASE callers' # {}
      BY <2>1, <3>2 DEF PanelInv
    <3>. QED
      BY <3>1, <3>2
  <2>. QED
    BY <2>1, <2>2, CallersFaithful DEF PanelInv, PowerTypeOK
<1>4. ASSUME NEW on \in BOOLEAN, Video(p, on)
      PROVE  PanelInv'
  <2>1. /\ videoCalls' = IF on THEN videoCalls \cup {p} ELSE videoCalls \ {p}
        /\ IF on THEN EnsureUnblanked ELSE KeepPanel
        /\ UNCHANGED <<noArt, panelOn, callers, dozeVars, idleVars>>
    BY <1>4 DEF Video
  <2>2. KeepPanel /\ blanked => callers' # {} /\ videoCalls' = {}
    <3>1. CASE on
      BY <2>1, <3>1 DEF EnsureUnblanked, KeepPanel
    <3>2. CASE ~on
      BY <2>1, <3>2 DEF PanelInv
    <3>. QED
      BY <3>1, <3>2
  <2>. QED
    BY <2>1, <2>2, CallersFaithful DEF PanelInv, PowerTypeOK, dozeVars
<1>. QED
  BY <1>1, <1>2, <1>3, <1>4

\* The ear: dark together with the touch of every registered host.
LEMMA ProximityFaithful ==
    ASSUME PanelInv, NEW near \in BOOLEAN, OnProximity(near)
    PROVE  PanelInv'
<1>1. CASE callers # {} /\ videoCalls = {} /\ near /\ ~blanked
  <2>1. Blank /\ UNCHANGED <<noArt, panelOn, callerVars, dozeVars, idleVars>>
    BY <1>1 DEF OnProximity
  <2>2. /\ blanked' = TRUE /\ lit' = FALSE /\ suppressed' \subseteq Pids
        /\ backlight' = Powered(backlight, FALSE)
    BY <2>1, RegisteredPids DEF Blank, PanelInv, PowerTypeOK
  <2>3. Powered(backlight, FALSE) \in Backlights /\ Faithful(Powered(backlight, FALSE), FALSE)
    <3>1. backlight \in Backlights /\ noArt \in BOOLEAN
      BY DEF PanelInv, PowerTypeOK, Backlights, Shades
    <3>2. Reassert(Powered(backlight, FALSE), FALSE) = Powered(backlight, FALSE)
      BY DEF Reassert
    <3>. QED
      BY <3>1, <3>2, PoweredFaithful
  <2>4. Faithful(backlight, lit)'
    BY <2>1, <2>2, <2>3, StillFaithful
  <2>5. PowerTypeOK'
    BY <2>1, <2>2, <2>3 DEF PanelInv, PowerTypeOK, Backlights, Shades, callerVars, dozeVars, idleVars
  <2>. QED
    BY <1>1, <2>1, <2>2, <2>4, <2>5 DEF PanelInv, callerVars
<1>2. CASE ~(callers # {} /\ videoCalls = {} /\ near /\ ~blanked)
  <2>1. (EnsureUnblanked \/ KeepPanel) /\ UNCHANGED <<noArt, panelOn, callerVars, dozeVars, idleVars>>
    BY <1>2 DEF OnProximity
  <2>. QED
    BY <2>1, CallersFaithful DEF PanelInv, PowerTypeOK, callerVars, dozeVars
<1>. QED
  BY <1>1, <1>2

\* What the user and the ambient light ask for, within the dead band.
LEMMA BrightnessFaithful ==
    ASSUME PanelInv,
           \/ \E level \in Levels \cup {NoLevel} : SetBrightness(level)
           \/ \E scale \in Scales : SetScale(scale)
           \/ \E lux \in Lux : OnLight(lux)
    PROVE  PanelInv'
<1> DEFINE shown == panelOn /\ ~blanked
<1>1. /\ backlight \in Backlights /\ noArt \in BOOLEAN /\ shown \in BOOLEAN /\ lit = shown
      /\ Faithful(backlight, shown)
  BY DEF PanelInv, PowerTypeOK, Backlights, Shades
<1>2. SUFFICES ASSUME UNCHANGED <<noArt, panelVars, callerVars, dozeVars, idleVars>>
               PROVE  backlight' \in Backlights /\ Faithful(backlight', shown)
  <2>1. UNCHANGED <<noArt, panelVars, callerVars, dozeVars, idleVars>>
    BY DEF SetBrightness, SetScale, OnLight
  <2>2. backlight' \in Backlights /\ Faithful(backlight', shown)
    BY <1>2, <2>1
  <2>3. Faithful(backlight, lit)'
    BY <1>1, <2>1, <2>2, StillFaithful DEF panelVars
  <2>4. PowerTypeOK'
    BY <2>1, <2>2 DEF PanelInv, PowerTypeOK, panelVars, callerVars, dozeVars, idleVars, Backlights, Shades
  <2>. QED
    BY <2>1, <2>3, <2>4 DEF PanelInv, panelVars, callerVars
<1>3. ASSUME NEW level \in Shades, SetBrightness(level)
      PROVE  backlight' \in Backlights /\ Faithful(backlight', shown)
  <2> DEFINE b == [backlight EXCEPT !.manual = level]
  <2>1. /\ b \in Backlights /\ backlight' = Reassert(b, shown)
        /\ b.level = backlight.level /\ b.applied = backlight.applied
        /\ b.byDefault = backlight.byDefault
    BY <1>1, <1>3 DEF SetBrightness, Backlights, Shades
  <2>. QED
    BY <1>1, <2>1, ReassertFaithful DEF Faithful, Lit
<1>4. ASSUME NEW scale \in Scales, SetScale(scale)
      PROVE  backlight' \in Backlights /\ Faithful(backlight', shown)
  <2> DEFINE ambient == IF backlight.lux = NoLevel THEN backlight.ambient
                        ELSE Curve(backlight.lux, scale)
             b == [backlight EXCEPT !.scale = scale, !.ambient = ambient]
  <2>1. /\ scale \in Nat /\ backlight.ambient \in Shades
        /\ backlight.lux # NoLevel => backlight.lux \in Nat
    BY <1>1, PowerAssumption DEF Backlights
  <2>2. ambient \in Shades
    BY <2>1, CurveLevel DEF Shades
  <2>3. /\ b \in Backlights /\ b.level = backlight.level /\ b.applied = backlight.applied
        /\ b.manual = backlight.manual /\ b.ambient = ambient /\ b.byDefault = backlight.byDefault
    BY <1>1, <2>1, <2>2 DEF Backlights, Shades
  <2>4. backlight' = IF backlight.lux # NoLevel /\ backlight.manual = NoLevel
                     THEN Reassert(b, shown) ELSE b
    BY <1>4 DEF SetScale
  <2>5. CASE backlight.lux # NoLevel /\ backlight.manual = NoLevel
    BY <1>1, <2>3, <2>4, <2>5, ReassertFaithful DEF Faithful, Lit
  <2>6. CASE ~(backlight.lux # NoLevel /\ backlight.manual = NoLevel)
    <3>1. Wanted(b) = Wanted(backlight) /\ (InBand(b) <=> InBand(backlight))
      BY <2>3, <2>6 DEF Wanted, InBand
    <3>. QED
      BY <1>1, <2>3, <2>4, <2>6, <3>1 DEF Faithful, Lit
  <2>. QED
    BY <2>5, <2>6
<1>5. ASSUME NEW lux \in Lux, OnLight(lux)
      PROVE  backlight' \in Backlights /\ Faithful(backlight', shown)
  <2> DEFINE b == [backlight EXCEPT !.lux = lux, !.ambient = Curve(lux, backlight.scale)]
  <2>1. Curve(lux, backlight.scale) \in Levels
    BY <1>1, PowerAssumption, CurveLevel DEF Backlights, Shades
  <2>3. b.ambient # NoLevel
    BY <1>1, <2>1 DEF Backlights, Levels, NoLevel
  <2>2. /\ b \in Backlights /\ backlight' = AutoApply(b, shown)
        /\ b.level = backlight.level /\ b.applied = backlight.applied
        /\ b.manual = backlight.manual /\ b.byDefault = backlight.byDefault
    BY <1>1, <1>5, <2>1 DEF OnLight, Backlights, Shades
  <2> HIDE DEF b
  <2>. QED
    BY <1>1, <2>2, <2>3, AutoFaithful
<1>. QED
  BY <1>3, <1>4, <1>5 DEF Shades

\* The panel over one step.
LEMMA PanelKept == ASSUME PanelInv, PowerStep PROVE PanelInv'
<1>1. CASE UNCHANGED powerVars
  BY <1>1, PanelStays DEF powerVars, dozeVars, idleVars, PanelInv, PowerTypeOK
<1>2. ASSUME NEW p \in Pids,
             CallBegins(p) \/ CallEnds(p) \/ ForgetPower(p) \/ \E on \in BOOLEAN : Video(p, on)
      PROVE  PanelInv'
  BY <1>2, CallsFaithful
<1>3. ASSUME NEW on \in BOOLEAN, SetPanelOn(on) \/ OnProximity(on)
      PROVE  PanelInv'
  BY <1>3, PanelOnFaithful, ProximityFaithful
<1>4. CASE PowerKey
  <2>1. (~panelOn) \in BOOLEAN
    BY DEF PanelInv, PowerTypeOK
  <2>. QED
    BY <1>4, <2>1, PanelOnFaithful DEF PowerKey
<1>5. CASE IdleTick
  <2>1. CASE FallsAsleep
    BY <1>5, <2>1, PanelOnFaithful DEF IdleTick
  <2>2. CASE ~FallsAsleep
    <3>1. /\ backlight' = Sensed(backlight, panelOn, offAge)
          /\ UNCHANGED <<noArt, panelVars, callerVars, dozeVars, idleVars>>
      BY <1>5, <2>2 DEF IdleTick
    <3>2. backlight' \in Backlights /\ Faithful(backlight', lit)
      BY <3>1, SensedFaithful DEF PanelInv, PowerTypeOK, Backlights, Shades
    <3>3. Faithful(backlight, lit)'
      BY <3>1, <3>2, StillFaithful DEF panelVars
    <3>4. PowerTypeOK'
      BY <3>1, <3>2 DEF PanelInv, PowerTypeOK, panelVars, callerVars, dozeVars, idleVars, Backlights, Shades
    <3>. QED
      BY <3>1, <3>3, <3>4 DEF PanelInv, panelVars, callerVars
  <2>. QED
    BY <2>1, <2>2
<1>6. ASSUME NEW on \in BOOLEAN, SetTimeout(on)
      PROVE  PanelInv'
  BY <1>6, PanelStays DEF SetTimeout, dozeVars, PanelInv, PowerTypeOK
<1>7. CASE UserActivity \/ GrowIdle \/ GrowOff
  BY <1>7, PanelStays DEF UserActivity, GrowIdle, GrowOff, dozeVars, idleVars, PanelInv,
     PowerTypeOK, Ages
<1>8. ASSUME NEW live \in BOOLEAN, ScreenPoll(live)
      PROVE  PanelInv'
  <2>1. /\ dozing' \in BOOLEAN /\ offAge' \in Ages /\ cadence' \in [Pids -> Cadences]
        /\ bgService' = bgService
        /\ UNCHANGED <<noArt, panelVars, callerVars, idleVars, backlight>>
    BY <1>8 DEF ScreenPoll, OnScreenState, AgeAfter, CadenceFor, PanelInv, PowerTypeOK, Ages, Cadences
  <2>. QED
    BY <2>1, PanelStays DEF idleVars, PanelInv, PowerTypeOK
<1>9. ASSUME NEW p \in Pids, NEW on \in BOOLEAN, ReportClass(p, on)
      PROVE  PanelInv'
  BY <1>9, PanelStays DEF ReportClass, idleVars, PanelInv, PowerTypeOK
<1>10. CASE \/ \E level \in Levels \cup {NoLevel} : SetBrightness(level)
            \/ \E scale \in Scales : SetScale(scale)
            \/ \E lux \in Lux : OnLight(lux)
  BY <1>10, BrightnessFaithful
<1>. QED
  BY <1>1, <1>2, <1>3, <1>4, <1>5, <1>6, <1>7, <1>8, <1>9, <1>10 DEF PowerStep, PowerOwn
-----------------------------------------------------------------------------
(* What the power service told the hosts *)

\* The inductive invariant over the life of the hosts.
ToldInv ==
    /\ HostsTypeOK
    /\ suppressed \cap Registered # {} => blanked
    /\ CallsStayAwake
    /\ \A p \in Pids : proc[p] = "unborn" =>
         p \notin suppressed /\ p \notin callers /\ cadence[p] = "awake"

\* Deaths and kills register nobody; a launch registers a host without a past.
LEMMA LifeKeepsTold ==
    ASSUME ToldInv, UNCHANGED powerVars, NEW p \in Pids, Launch(p) \/ Die(p) \/ Cut(p)
    PROVE  ToldInv'
<1>1. UNCHANGED <<blanked, suppressed, callers, dozing, cadence>>
  BY DEF powerVars, panelVars, callerVars, dozeVars
<1>2. /\ HostsTypeOK'
      /\ \A q \in Registered' : q \in Registered \/ (q = p /\ proc[p] = "unborn")
      /\ \A q \in Pids : proc'[q] = "unborn" => proc[q] = "unborn"
  BY LifeRegisters DEF ToldInv
<1>3. suppressed' \cap Registered' # {} => blanked'
  BY <1>1, <1>2 DEF ToldInv
<1>4. CallsStayAwake'
  BY <1>1, <1>2 DEF ToldInv, CallsStayAwake
<1>. QED
  BY <1>1, <1>2, <1>3, <1>4 DEF ToldInv

\* The blank comes with the suppression of every registered host and goes with it.
LEMMA SuppressedKept ==
    ASSUME ToldInv, UNCHANGED proc,
           \/ EnsureUnblanked \/ KeepPanel \/ Blank \/ UNCHANGED <<blanked, suppressed>>
    PROVE  /\ suppressed' \cap Registered' # {} => blanked'
           /\ \A p \in Pids : proc[p] = "unborn" => p \notin suppressed'
<1>1. Registered' = Registered /\ \A p \in Pids : proc[p] = "unborn" => p \notin Registered
  BY DEF Registered
<1>2. CASE EnsureUnblanked \/ KeepPanel
  BY <1>1, <1>2 DEF EnsureUnblanked, KeepPanel, ToldInv
<1>3. CASE Blank
  BY <1>1, <1>3 DEF Blank, ToldInv
<1>4. CASE UNCHANGED <<blanked, suppressed>>
  BY <1>1, <1>4 DEF ToldInv
<1>. QED
  BY <1>2, <1>3, <1>4

\* On a change of doze every registered host hears the cadence it deserves.
LEMMA DozeKept ==
    ASSUME ToldInv, PowerTypeOK, NEW live \in BOOLEAN, OnScreenState(live),
           UNCHANGED <<proc, callers>>
    PROVE  CallsStayAwake' /\ \A p \in Pids : proc[p] = "unborn" => cadence'[p] = cadence[p]
<1> DEFINE dozes == AgeAfter(live) \in {"grace", "long"}
<1>1. /\ dozing' = dozes
      /\ \A p \in Pids : cadence'[p] = IF dozes # dozing /\ p \in Registered
                                       THEN IF dozes THEN CadenceFor(p, callers) ELSE "awake"
                                       ELSE cadence[p]
      /\ dozing \in BOOLEAN /\ Registered' = Registered
  BY DEF OnScreenState, PowerTypeOK, Registered
<1>2. ASSUME NEW p \in Registered, p \in callers \/ ~dozes
      PROVE  cadence'[p] = "awake"
  BY <1>1, <1>2, RegisteredPids DEF CadenceFor, ToldInv, CallsStayAwake
<1>3. CallsStayAwake'
  BY <1>1, <1>2 DEF CallsStayAwake
<1>. QED
  BY <1>1, <1>3 DEF Registered

\* What the hosts were told over one step.
LEMMA ToldKept == ASSUME PanelInv, ToldInv, PowerStep PROVE ToldInv'
<1>1. PowerTypeOK
  BY DEF PanelInv
<1>2. CASE UNCHANGED <<proc, powerVars>>
  BY <1>2 DEF powerVars, panelVars, callerVars, dozeVars, ToldInv, HostsTypeOK, CallsStayAwake, Registered
<1>3. CASE UNCHANGED powerVars /\ \E p \in Pids : Launch(p) \/ Die(p) \/ Cut(p)
  BY <1>3, LifeKeepsTold
<1>4. ASSUME NEW p \in Pids, Exit(p), ForgetPower(p)
      PROVE  ToldInv'
  <2>1. /\ proc' = [proc EXCEPT ![p] = "gone"] /\ proc[p] = "exited"
        /\ callers' = callers \ {p} /\ UNCHANGED <<dozing, cadence>>
        /\ EnsureUnblanked \/ KeepPanel
    BY <1>4 DEF Exit, Move, ForgetPower
  <2>2. HostsTypeOK' /\ Registered' = Registered \ {p}
        /\ \A q \in Pids : proc'[q] = "unborn" => proc[q] = "unborn"
    BY <1>4, LifeRegisters DEF ToldInv
  <2>3. suppressed' \cap Registered' # {} => blanked'
    BY <2>1, <2>2 DEF EnsureUnblanked, KeepPanel, ToldInv
  <2>4. suppressed' \subseteq suppressed
    BY <2>1 DEF EnsureUnblanked, KeepPanel
  <2>5. CallsStayAwake'
    BY <2>1, <2>2 DEF CallsStayAwake, ToldInv
  <2>. QED
    BY <2>1, <2>2, <2>3, <2>4, <2>5 DEF ToldInv
<1>5. ASSUME UNCHANGED proc, PowerOwn
      PROVE  ToldInv'
  <2>1. /\ HostsTypeOK' /\ Registered' = Registered
        /\ \A p \in Pids : proc[p] = "unborn" => p \notin Registered
    BY <1>5 DEF ToldInv, HostsTypeOK, Registered
  <2>2. ASSUME \/ EnsureUnblanked \/ KeepPanel \/ Blank \/ UNCHANGED <<blanked, suppressed>>,
               CallsStayAwake',
               \A p \in Pids : proc[p] = "unborn" => p \notin callers' /\ cadence'[p] = "awake"
        PROVE  ToldInv'
    BY <1>5, <2>1, <2>2, SuppressedKept DEF ToldInv
  <2>3. ASSUME NEW p \in Pids, proc[p] # "unborn", CallBegins(p)
        PROVE  ToldInv'
    <3>1. KeepPanel /\ callers' = callers \cup {p} /\ dozing' = dozing
          /\ cadence' = IF dozing THEN [cadence EXCEPT ![p] = "awake"] ELSE cadence
      BY <2>3 DEF CallBegins, Recadence, CadenceFor
    <3>2. cadence \in [Pids -> Cadences]
      BY <1>1 DEF PowerTypeOK
    <3>3. CallsStayAwake'
      BY <2>1, <3>1, <3>2, RegisteredPids DEF ToldInv, CallsStayAwake
    <3>. QED
      BY <2>2, <2>3, <3>1, <3>2, <3>3 DEF ToldInv
  <2>4. ASSUME NEW p \in Pids, proc[p] # "unborn", CallEnds(p)
        PROVE  ToldInv'
    <3>1. /\ EnsureUnblanked \/ KeepPanel
          /\ callers' = callers \ {p} /\ dozing' = dozing
          /\ cadence' = IF dozing THEN [cadence EXCEPT ![p] = CadenceFor(p, callers')] ELSE cadence
      BY <2>4 DEF CallEnds, Recadence
    <3>2. cadence \in [Pids -> Cadences] /\ dozing \in BOOLEAN
      BY <1>1 DEF PowerTypeOK
    <3>3. CallsStayAwake'
      BY <2>1, <3>1, <3>2, RegisteredPids DEF ToldInv, CallsStayAwake
    <3>4. \A q \in Pids : proc[q] = "unborn" => q \notin callers' /\ cadence'[q] = "awake"
      BY <2>4, <3>1, <3>2 DEF ToldInv
    <3>. QED
      BY <2>2, <3>1, <3>3, <3>4
  <2>5. ASSUME UNCHANGED <<callers, dozing, cadence>>,
               \/ EnsureUnblanked \/ KeepPanel \/ Blank \/ UNCHANGED <<blanked, suppressed>>
        PROVE  ToldInv'
    <3>1. CallsStayAwake'
      BY <2>1, <2>5 DEF ToldInv, CallsStayAwake
    <3>. QED
      BY <2>2, <2>5, <3>1 DEF ToldInv
  <2>6. ASSUME NEW live \in BOOLEAN, OnScreenState(live), UNCHANGED <<callers, blanked, suppressed>>
        PROVE  ToldInv'
    BY <1>1, <1>5, <2>2, <2>6, DozeKept DEF ToldInv
  <2>7. ASSUME NEW p \in Pids, NEW on \in BOOLEAN, Video(p, on) \/ ReportClass(p, on)
        PROVE  ToldInv'
    BY <2>5, <2>7 DEF Video, ReportClass, dozeVars, panelVars, callerVars
  <2>8. ASSUME NEW on \in BOOLEAN, SetPanelOn(on) \/ ScreenPoll(on)
        PROVE  ToldInv'
    BY <2>6, <2>8 DEF SetPanelOn, ScreenPoll, panelVars, callerVars
  <2>9. ASSUME NEW on \in BOOLEAN, SetTimeout(on) \/ OnProximity(on)
        PROVE  ToldInv'
    BY <2>5, <2>9 DEF SetTimeout, OnProximity, panelVars, callerVars, dozeVars
  <2>10. CASE PowerKey
    <3>1. (~panelOn) \in BOOLEAN
      BY <1>1 DEF PowerTypeOK
    <3>. QED
      BY <2>8, <2>10, <3>1 DEF PowerKey
  <2>11. CASE IdleTick
    <3>1. CASE FallsAsleep
      BY <2>8, <2>11, <3>1 DEF IdleTick
    <3>2. CASE ~FallsAsleep
      BY <2>5, <2>11, <3>2 DEF IdleTick, panelVars, callerVars, dozeVars
    <3>. QED
      BY <3>1, <3>2
  <2>12. CASE UserActivity \/ GrowIdle \/ GrowOff
    BY <2>5, <2>12 DEF UserActivity, GrowIdle, GrowOff, panelVars, callerVars, dozeVars
  <2>13. CASE \/ \E level \in Levels \cup {NoLevel} : SetBrightness(level)
              \/ \E s \in Scales : SetScale(s)
              \/ \E lux \in Lux : OnLight(lux)
    BY <2>5, <2>13 DEF SetBrightness, SetScale, OnLight, panelVars, callerVars, dozeVars
  <2>. QED
    BY <1>5, <2>3, <2>4, <2>7, <2>8, <2>9, <2>10, <2>11, <2>12, <2>13 DEF PowerOwn
<1>. QED
  BY <1>2, <1>3, <1>4, <1>5 DEF PowerStep

\* At the start the panel is lit, with the default, and nobody was told anything.
LEMMA PowerStarts == ASSUME Init PROVE PanelInv /\ ToldInv
<1>1. PowerInit /\ proc \in [Pids -> {"up", "unborn"}] /\ Registered \subseteq Crowd
  BY CallsAssumption DEF Init, HostsInit, Registered
<1>2. PowerTypeOK
  <2>1. backlight \in Backlights
    BY <1>1 DEF PowerInit, Backlights, Shades, Levels, Full, NoLevel, DefaultOn
  <2>2. cadence \in [Pids -> Cadences] /\ offAge \in Ages
    BY <1>1 DEF PowerInit, Ages, Cadences
  <2>. QED
    BY <1>1, <2>1, <2>2 DEF PowerInit, PowerTypeOK, Backlights, Shades
<1>3. Faithful(backlight, lit)
  BY <1>1 DEF PowerInit, Faithful, Lit, Wanted, NoLevel
<1>4. HostsTypeOK
  BY <1>1, CallsAssumption DEF HostsTypeOK, Stages
<1>5. CallsStayAwake
  BY <1>1, RegisteredPids DEF PowerInit, CallsStayAwake
<1>. QED
  BY <1>1, <1>2, <1>3, <1>4, <1>5 DEF PanelInv, ToldInv, PowerInit
-----------------------------------------------------------------------------
(* The sensor of a call, its badge, and the microphone *)

\* A host is in no call before its launch.
BadgeInv ==
    /\ HostsTypeOK
    /\ BadgesTrue
    /\ \A p \in Pids : proc[p] = "unborn" => p \notin callers

\* A host has heard of no switch before its launch.
GateInv ==
    /\ HostsTypeOK
    /\ micGate \in [Pids -> Gates]
    /\ MicGateTrue
    /\ \A p \in Pids : proc[p] = "unborn" => micGate[p] = "unset"

\* Only who was launched speaks.
LEMMA SpeakersLive == \A p \in Pids : Speaks(p) => proc[p] # "unborn"
BY DEF Speaks, Heard


\* The app of a registered host is that of no other host, nor the unknown one.
LEMMA AppsApart ==
    ASSUME HostsTypeOK, NEW p \in Pids
    PROVE  \A q \in Registered : AppId[q] = AppOf(p) <=> q = p
BY HostsAssumption, NotifyAssumption, RegisteredPids DEF HostsTypeOK, AppOf

\* A launched host stands by the badge that its app has, if it has one.
LEMMA LaunchBadges ==
    ASSUME BadgeInv, NEW p \in Pids, Launch(p), callers' = callers, notes' \subseteq notes,
           \A app : app # AppId[p] /\ <<app, "call">> \in notes => <<app, "call">> \in notes',
           \A app : app # AppId[p] /\ app \in stray => app \in stray',
           Badged(AppId[p]) \subseteq stray'
    PROVE  BadgeInv'
<1>1. /\ HostsTypeOK'
      /\ proc[p] = "unborn" /\ Registered' = (Registered \ HostsOf(AppId[p])) \cup {p}
      /\ \A q \in Pids : proc'[q] = "unborn" => proc[q] = "unborn"
  BY LifeRegisters DEF BadgeInv
<1>2. p \notin callers
  BY <1>1 DEF BadgeInv
<1>3. AppId[p] \notin stray' => <<AppId[p], "call">> \notin notes'
  BY DEF Badged
<1>4. ASSUME NEW q \in Registered', q # p
      PROVE  q \in Registered /\ AppId[q] # AppId[p]
  BY <1>1, <1>4 DEF HostsOf
<1>5. BadgesTrue'
  BY <1>2, <1>3, <1>4 DEF BadgeInv, BadgesTrue
<1>. QED
  BY <1>1, <1>5 DEF BadgeInv

\* A click takes an entry, and may launch the app that left it.
LEMMA ClickBadges == ASSUME BadgeInv, NEW n \in notes, ClickNote(n) PROVE BadgeInv'
<1>1. /\ notes' = notes \ {n} /\ callers' = callers
      /\ stray' = IF (HostsOf(n[1]) = {} /\ Badged(n[1]) # {}) \/ n[2] = "call"
                  THEN stray \cup {n[1]} ELSE stray
  BY DEF ClickNote, NotifyClick, Touched, Notably, powerVars, callerVars
<1>2. \A app : <<app, "call">> \in notes /\ <<app, "call">> \notin notes' => n[1] = app /\ n[2] = "call"
  BY <1>1
<1>3. CASE UNCHANGED proc
  <2>1. HostsTypeOK' /\ Registered' = Registered
    BY <1>3 DEF BadgeInv, HostsTypeOK, Registered
  <2>2. BadgesTrue'
    BY <1>1, <1>2, <2>1 DEF BadgeInv, BadgesTrue
  <2>. QED
    BY <1>1, <1>3, <2>1, <2>2 DEF BadgeInv
<1>4. ASSUME NEW p \in Pids, AppId[p] = n[1], HostsOf(n[1]) = {}, Launch(p)
      PROVE  BadgeInv'
  <2>1. Badged(AppId[p]) \subseteq stray'
    BY <1>1, <1>4 DEF Badged
  <2>. QED
    BY <1>1, <1>2, <1>4, <2>1, LaunchBadges
<1>. QED
  BY <1>3, <1>4 DEF ClickNote, NotifyClick


owedVars == <<proc, callers, notes, declined, stray, holders, micGate, micMuted, micMutedApps>>

\* The steps that change one of these.
OwedStep ==
    \/ UNCHANGED owedVars
    \/ \E p \in Pids :
         \/ LaunchHost(p) \/ HostDies(p) \/ KillHost(p) \/ HostExit(p)
         \/ AudioCallStart(p) \/ AudioCallEnd(p) \/ AudioRingStart(p) \/ AudioRingStop(p)
         \/ \E arg \in {"on", "off", "toggle"} : AppMicMute(p, arg)
         \/ \E id \in NoteIds : PostNote(p, id) \/ CancelNote(p, id)
    \/ \E n \in notes : ClickNote(n)
    \/ \E kind \in Kinds, on \in BOOLEAN : SensorHold(kind, on)
    \/ \E arg \in {"on", "off", "toggle"} : MicMute(arg)

\* Every step is one of these.
LEMMA OwedSteps == ASSUME [Next]_vars PROVE OwedStep
<1>1. ASSUME NEW p \in Pids, NEW on, AudioCallVideo(p, on) \/ ReportPowerClass(p, on)
      PROVE  UNCHANGED owedVars
  BY <1>1 DEF AudioCallVideo, Video, ReportPowerClass, ReportClass, Powerly, callerVars, sensorVars,
     serviceVars, audioVars, muteVars, history, owedVars
<1>2. ASSUME NEW p \in Pids, NEW arg,
             AudioFocusAbandon(p) \/ AudioFocusRequest(p, arg) \/ AppMute(p, arg)
      PROVE  UNCHANGED owedVars
  BY <1>2 DEF AudioFocusAbandon, AbandonFocus, AudioFocusRequest, RequestFocus, AppMute, SetAppMute,
     Audibly, powerVars, callerVars, sensorVars, serviceVars, muteVars, history, owedVars
<1>3. ASSUME NEW arg, AudioRingerMode(arg) \/ GlobalMute(arg) \/ AudioRoute(arg)
      PROVE  UNCHANGED owedVars
  BY <1>3 DEF AudioRingerMode, SetRingerMode, GlobalMute, SetMute, AudioRoute, SetRoute, Audibly,
     powerVars, callerVars, sensorVars, serviceVars, muteVars, history, owedVars
<1>4. ASSUME NEW on, Panel(on) \/ PressPower \/ InactivityTick
      PROVE  UNCHANGED owedVars
  <2>1. UNCHANGED callers
    BY <1>4 DEF Panel, PressPower, PowerKey, InactivityTick, IdleTick, SetPanelOn, callerVars
  <2>2. UNCHANGED holders
    BY <1>4 DEF Panel, PressPower, InactivityTick, LightFollows, SwitchLight, sensorVars, serviceVars
  <2>. QED
    BY <1>4, <2>1, <2>2 DEF Panel, PressPower, InactivityTick, Powerly, audioVars, muteVars, history, owedVars
<1>5. ASSUME NEW arg, ScreenTimeout(arg) \/ ScreenPolled(arg) \/ Brightness(arg)
             \/ BrightnessScale(arg) \/ LightReading(arg)
      PROVE  UNCHANGED owedVars
  BY <1>5 DEF ScreenTimeout, SetTimeout, ScreenPolled, ScreenPoll, Brightness, SetBrightness,
     BrightnessScale, SetScale, LightReading, OnLight, Powerly, callerVars, sensorVars, serviceVars,
     audioVars, muteVars, history, owedVars
<1>6. CASE Touch \/ IdleGrows \/ OffGrows
  <2>1. UNCHANGED owedVars
    BY <1>6 DEF Touch, UserActivity, IdleGrows, GrowIdle, OffGrows, GrowOff, Powerly, callerVars,
       sensorVars, serviceVars, audioVars, muteVars, history, owedVars
  <2>. QED
    BY <2>1 DEF OwedStep
<1>7. CASE ProximitySample
  <2>1. UNCHANGED callers
    BY <1>7 DEF ProximitySample, OnProximity, powerVars, callerVars
  <2>2. UNCHANGED owedVars
    BY <1>7, <2>1 DEF ProximitySample, TakeSample, Powerly, audioVars, muteVars, history, owedVars
  <2>. QED
    BY <2>2 DEF OwedStep
<1>8. CASE Worker \/ Poll \/ \E d \in Distances : PhoneMoves(d)
  <2>1. UNCHANGED owedVars
    BY <1>8 DEF Worker, Enable, Disable, Poll, Drain, PhoneMoves, MovePhone, Powerly, powerVars,
       callerVars, serviceVars, audioVars, muteVars, history, owedVars
  <2>. QED
    BY <2>1 DEF OwedStep
<1>9. CASE UNCHANGED vars
  <2>1. UNCHANGED owedVars
    BY <1>9 DEF vars, powerVars, callerVars, sensorVars, serviceVars, audioVars, muteVars, history, owedVars
  <2>. QED
    BY <2>1 DEF OwedStep
<1>10. ASSUME NEW p \in Pids, LaunchHost(p) \/ HostDies(p) \/ KillHost(p)
       PROVE  OwedStep
  BY <1>10 DEF OwedStep
<1>. QED
  BY <1>1, <1>2, <1>3, <1>4, <1>5, <1>6, <1>7, <1>8, <1>9, <1>10 DEF Next, OwedStep

\* The sensor stays with every caller that did not decline a ring.
LEMMA SensorHeld ==
    ASSUME PanelInv, SensorsTypeOK, CallHoldsSensor, OwedStep
    PROVE  CallHoldsSensor'
<1>8. holders \in [Kinds -> SUBSET (Pids \cup {Manual})] /\ "prox" \in Kinds
  BY DEF SensorsTypeOK, Kinds
<1>1. CASE UNCHANGED owedVars
  BY <1>1 DEF CallHoldsSensor, owedVars
<1>2. ASSUME NEW p \in Pids, HostExit(p)
      PROVE  CallHoldsSensor'
  BY <1>2, <1>8 DEF HostExit, ForgetPower, Release, CallHoldsSensor
<1>3. ASSUME NEW p \in Pids, AudioCallStart(p) \/ AudioCallEnd(p)
      PROVE  CallHoldsSensor'
  BY <1>3, <1>8 DEF AudioCallStart, CallBegins, Acquire, AudioCallEnd, CallEnds, Release, CallHoldsSensor
<1>4. ASSUME NEW p \in Pids, AudioRingStart(p) \/ AudioRingStop(p)
      PROVE  CallHoldsSensor'
  <2>1. callers' = callers
    BY <1>4 DEF AudioRingStart, AudioRingStop, powerVars, callerVars
  <2>. QED
    BY <1>4, <1>8, <2>1 DEF AudioRingStart, Acquire, AudioRingStop, Release, CallHoldsSensor, history
<1>5. ASSUME NEW kind \in Kinds, NEW on \in BOOLEAN, SensorHold(kind, on)
      PROVE  CallHoldsSensor'
  <2>1. callers' = callers /\ declined' = declined
    BY <1>5 DEF SensorHold, powerVars, callerVars
  <2>2. holders["prox"] \ {Manual} \subseteq holders'["prox"]
    BY <1>5, <1>8 DEF SensorHold, Acquire, Release
  <2>3. Manual \notin callers
    BY SensorsAssumption DEF PanelInv, PowerTypeOK
  <2>. QED
    BY <2>1, <2>2, <2>3 DEF CallHoldsSensor
<1>9. ASSUME NEW p \in Pids, NEW id, PostNote(p, id) \/ CancelNote(p, id)
      PROVE  CallHoldsSensor'
  BY <1>9 DEF PostNote, CancelNote, Notably, powerVars, callerVars, sensorVars, serviceVars, CallHoldsSensor
<1>10. ASSUME NEW n, ClickNote(n)
       PROVE  CallHoldsSensor'
  BY <1>10 DEF ClickNote, Notably, powerVars, callerVars, sensorVars, serviceVars, CallHoldsSensor
<1>6. ASSUME NEW p \in Pids, NEW arg,
             LaunchHost(p) \/ HostDies(p) \/ KillHost(p) \/ AppMicMute(p, arg)
      PROVE  CallHoldsSensor'
  <2>1. UNCHANGED <<callers, holders, declined>>
    BY <1>6 DEF LaunchHost, HostDies, KillHost, Alone, AppMicMute, Audibly, powerVars,
       callerVars, sensorVars, serviceVars, history
  <2>. QED
    BY <2>1 DEF CallHoldsSensor
<1>7. ASSUME NEW arg, MicMute(arg)
      PROVE  CallHoldsSensor'
  BY <1>7 DEF MicMute, Audibly, powerVars, callerVars, sensorVars, serviceVars, history, CallHoldsSensor
<1>. QED
  BY <1>1, <1>2, <1>3, <1>4, <1>5, <1>6, <1>7, <1>9, <1>10 DEF OwedStep

\* The badge of a call is posted and cancelled together with the call.
LEMMA BadgesKept == ASSUME BadgeInv, OwedStep PROVE BadgeInv'
<1>1. ASSUME UNCHANGED <<proc, callers, stray>>,
             \A app \in Apps : <<app, "call">> \in notes' <=> <<app, "call">> \in notes
      PROVE  BadgeInv'
  <2>1. \A q \in Registered : AppId[q] \in Apps
    BY HostsAssumption, RegisteredPids
  <2>. QED
    BY <1>1, <2>1 DEF BadgeInv, HostsTypeOK, BadgesTrue, Registered
<1>2. CASE UNCHANGED owedVars
  BY <1>1, <1>2 DEF owedVars
<1>3. ASSUME NEW p \in Pids, HostDies(p) \/ KillHost(p)
      PROVE  BadgeInv'
  <2>1. (Die(p) \/ Cut(p)) /\ UNCHANGED <<notes, callers, stray>>
    BY <1>3 DEF HostDies, KillHost, Alone, powerVars, callerVars
  <2>2. ~Launch(p)
    BY <2>1 DEF Die, Cut, Move, Launch
  <2>. QED
    BY <2>1, <2>2, LifeRegisters DEF BadgeInv, BadgesTrue
<1>4. ASSUME NEW p \in Pids, HostExit(p)
      PROVE  BadgeInv'
  <2>1. Exit(p) /\ UNCHANGED <<notes, stray>> /\ callers' = callers \ {p}
    BY <1>4 DEF HostExit, ForgetPower
  <2>2. BadgesTrue'
    BY <2>1, LifeRegisters DEF BadgeInv, BadgesTrue
  <2>. QED
    BY <2>1, <2>2, LifeRegisters DEF BadgeInv
<1>5. ASSUME NEW p \in Pids, AudioCallStart(p)
      PROVE  BadgeInv'
  <2>1. /\ UNCHANGED proc /\ callers' = callers \cup {p} /\ proc[p] # "unborn"
        /\ notes' = (IF ringing = p THEN Cancelled(p, "ring") ELSE notes) \cup {<<AppOf(p), "call">>}
        /\ stray' = stray \ {AppOf(p)}
    BY <1>5, SpeakersLive DEF AudioCallStart, CallBegins
  <2>2. \A app : <<app, "call">> \in notes' <=> <<app, "call">> \in notes \/ app = AppOf(p)
    BY <2>1 DEF Cancelled
  <2>3. HostsTypeOK' /\ Registered' = Registered
    BY <2>1 DEF BadgeInv, HostsTypeOK, Registered
  <2>4. \A q \in Registered : AppId[q] = AppOf(p) <=> q = p
    BY AppsApart DEF BadgeInv
  <2>5. BadgesTrue'
    BY <2>1, <2>2, <2>3, <2>4 DEF BadgeInv, BadgesTrue
  <2>. QED
    BY <2>1, <2>3, <2>5 DEF BadgeInv
<1>6. ASSUME NEW p \in Pids, AudioCallEnd(p)
      PROVE  BadgeInv'
  <2>1. /\ UNCHANGED proc /\ callers' = callers \ {p}
        /\ notes' = notes \ {<<AppOf(p), "call">>} /\ stray' = stray \ {AppOf(p)}
    BY <1>6 DEF AudioCallEnd, CallEnds, Cancelled
  <2>2. \A app : <<app, "call">> \in notes' <=> <<app, "call">> \in notes /\ app # AppOf(p)
    BY <2>1
  <2>3. HostsTypeOK' /\ Registered' = Registered
    BY <2>1 DEF BadgeInv, HostsTypeOK, Registered
  <2>4. \A q \in Registered : AppId[q] = AppOf(p) <=> q = p
    BY AppsApart DEF BadgeInv
  <2>5. BadgesTrue'
    BY <2>1, <2>2, <2>3, <2>4 DEF BadgeInv, BadgesTrue
  <2>. QED
    BY <2>1, <2>3, <2>5 DEF BadgeInv
<1>7. ASSUME NEW p \in Pids, AudioRingStart(p) \/ AudioRingStop(p)
      PROVE  BadgeInv'
  <2>1. /\ UNCHANGED <<proc, callers, stray>>
        /\ notes' = notes \cup {<<AppOf(p), "ring">>} \/ notes' = notes \ {<<AppOf(p), "ring">>}
    BY <1>7 DEF AudioRingStart, AudioRingStop, powerVars, callerVars, history, Posted, Cancelled
  <2>. QED
    BY <1>1, <2>1
<1>8. ASSUME NEW p \in Pids, NEW arg, AppMicMute(p, arg)
      PROVE  BadgeInv'
  BY <1>1, <1>8 DEF AppMicMute, Audibly, powerVars, callerVars, history
<1>9. ASSUME NEW arg, MicMute(arg)
      PROVE  BadgeInv'
  BY <1>1, <1>9 DEF MicMute, Audibly, powerVars, callerVars, history
<1>10. ASSUME NEW kind, NEW on, SensorHold(kind, on)
       PROVE  BadgeInv'
  BY <1>1, <1>10 DEF SensorHold, powerVars, callerVars
<1>11. ASSUME NEW p \in Pids, LaunchHost(p)
       PROVE  BadgeInv'
  BY <1>11, LaunchBadges DEF LaunchHost, Alone, powerVars, callerVars
<1>12. ASSUME NEW p \in Pids, NEW id \in NoteIds, PostNote(p, id) \/ CancelNote(p, id)
       PROVE  BadgeInv'
  <2>1. /\ UNCHANGED <<proc, callers>> /\ p \in Registered
        /\ notes' = notes \cup {<<AppId[p], id>>} \/ notes' = notes \ {<<AppId[p], id>>}
        /\ stray' = IF id = "call" THEN stray \cup {AppId[p]} ELSE stray
    BY <1>12 DEF PostNote, CancelNote, NotifyPost, NotifyCancel, Posted, Cancelled, AppOf, Touched,
       Notably, powerVars, callerVars
  <2>2. CASE id # "call"
    BY <1>1, <2>1, <2>2
  <2>3. CASE id = "call"
    <3>1. HostsTypeOK' /\ Registered' = Registered
      BY <2>1 DEF BadgeInv, HostsTypeOK, Registered
    <3>2. BadgesTrue'
      BY <2>1, <2>3, <3>1 DEF BadgeInv, BadgesTrue
    <3>. QED
      BY <2>1, <3>1, <3>2 DEF BadgeInv
  <2>. QED
    BY <2>2, <2>3
<1>13. ASSUME NEW n \in notes, ClickNote(n)
       PROVE  BadgeInv'
  BY <1>13, ClickBadges
<1>. QED
  BY <1>2, <1>3, <1>4, <1>5, <1>6, <1>7, <1>8, <1>9, <1>10, <1>11, <1>12, <1>13 DEF OwedStep

\* Every host that a switch concerns hears the effective state of its microphone.
LEMMA GatesKept == ASSUME GateInv, OwedStep PROVE GateInv'
<1>1. ASSUME UNCHANGED <<proc, micGate, micMuted, micMutedApps>>
      PROVE  GateInv'
  BY <1>1 DEF GateInv, HostsTypeOK, MicGateTrue, MicOff, Registered
<1>2. CASE UNCHANGED owedVars
  BY <1>1, <1>2 DEF owedVars
<1>3. ASSUME NEW p \in Pids, Launch(p) \/ Die(p) \/ Cut(p),
             UNCHANGED <<micGate, micMuted, micMutedApps>>
      PROVE  GateInv'
  <2>1. MicGateTrue'
    BY <1>3, LifeRegisters DEF GateInv, MicGateTrue, MicOff
  <2>. QED
    BY <1>3, <2>1, LifeRegisters DEF GateInv
<1>11. ASSUME NEW p \in Pids, LaunchHost(p) \/ HostDies(p) \/ KillHost(p)
       PROVE  GateInv'
  BY <1>3, <1>11 DEF LaunchHost, HostDies, KillHost, Alone, audioVars, muteVars
<1>4. ASSUME NEW p \in Pids, HostExit(p)
      PROVE  GateInv'
  <2>1. Exit(p) /\ UNCHANGED <<micGate, micMuted>> /\ micMutedApps' = micMutedApps \ {p}
    BY <1>4 DEF HostExit, ForgetAudio
  <2>2. MicGateTrue'
    BY <2>1, LifeRegisters DEF GateInv, MicGateTrue, MicOff
  <2>. QED
    BY <2>1, <2>2, LifeRegisters DEF GateInv
<1>5. ASSUME NEW p \in Pids,
             AudioCallStart(p) \/ AudioCallEnd(p) \/ AudioRingStart(p) \/ AudioRingStop(p)
      PROVE  GateInv'
  BY <1>1, <1>5 DEF AudioCallStart, StartCall, AudioCallEnd, EndCall, AudioRingStart, StartRing,
     AudioRingStop, DeclineRing, muteVars
<1>6. ASSUME NEW p \in Pids, NEW arg, AppMicMute(p, arg)
      PROVE  GateInv'
  <2> DEFINE apps == Member(micMutedApps, p, Switched(arg, p \in micMutedApps))
  <2>1. /\ micMutedApps' = apps /\ UNCHANGED <<proc, micMuted>> /\ proc[p] # "unborn"
        /\ micGate' = [micGate EXCEPT ![p] = OnOff(MicOff(micMuted, apps, p))]
    BY <1>6, SpeakersLive DEF AppMicMute, SetAppMicMute, Audibly
  <2>2. \A q \in Pids \ {p} : q \in apps <=> q \in micMutedApps
    BY DEF Member
  <2>3. OnOff(MicOff(micMuted, apps, p)) \in Gates
    BY DEF OnOff, Gates
  <2>4. /\ micGate' \in [Pids -> Gates] /\ micGate'[p] = OnOff(MicOff(micMuted, apps, p))
        /\ \A q \in Pids \ {p} : micGate'[q] = micGate[q]
    BY <2>1, <2>3 DEF GateInv
  <2> HIDE DEF apps
  <2>5. MicGateTrue'
    BY <2>1, <2>2, <2>4, RegisteredPids DEF GateInv, MicGateTrue, MicOff, Registered
  <2>. QED
    BY <2>1, <2>4, <2>5 DEF GateInv, HostsTypeOK, Registered
<1>7. ASSUME NEW arg, MicMute(arg)
      PROVE  GateInv'
  <2>1. /\ micMuted' = Switched(arg, micMuted) /\ UNCHANGED <<proc, micMutedApps>>
        /\ micGate' = [p \in Pids |-> IF p \in Registered
                                      THEN OnOff(MicOff(micMuted', micMutedApps, p)) ELSE micGate[p]]
    BY <1>7 DEF MicMute, SetMicMute, Audibly
  <2>2. micGate' \in [Pids -> Gates]
    BY <2>1 DEF GateInv, OnOff, Gates
  <2>3. MicGateTrue'
    BY <2>1, RegisteredPids DEF MicGateTrue, MicOff, Registered
  <2>. QED
    BY <2>1, <2>2, <2>3 DEF GateInv, HostsTypeOK, Registered
<1>8. ASSUME NEW kind, NEW on, SensorHold(kind, on)
      PROVE  GateInv'
  BY <1>1, <1>8 DEF SensorHold, audioVars, muteVars
<1>9. ASSUME NEW p \in Pids, NEW id, PostNote(p, id) \/ CancelNote(p, id)
      PROVE  GateInv'
  BY <1>1, <1>9 DEF PostNote, CancelNote, Notably, audioVars, muteVars
<1>10. ASSUME NEW n, ClickNote(n)
       PROVE  GateInv'
  <2>1. UNCHANGED <<micGate, micMuted, micMutedApps>>
    BY <1>10 DEF ClickNote, Notably, audioVars, muteVars
  <2>2. UNCHANGED proc \/ \E p \in Pids : Launch(p)
    BY <1>10 DEF ClickNote, NotifyClick
  <2>. QED
    BY <1>1, <1>3, <2>1, <2>2
<1>. QED
  BY <1>2, <1>3, <1>4, <1>5, <1>6, <1>7, <1>8, <1>9, <1>10, <1>11 DEF OwedStep
-----------------------------------------------------------------------------
(* Types *)

\* The parts of AudioTypeOK that FocusInv does not say.
CallTypes ==
    /\ {comms, ringing} \subseteq Pids \cup {None} /\ ringerMode \in Modes
    /\ alerting \subseteq Pids /\ commMode \subseteq Pids
    /\ {muted, speaker, micMuted} \subseteq BOOLEAN
    /\ micMutedApps \subseteq Pids /\ appMuted \subseteq Pids
    /\ outGate \in [Pids -> Gates]

\* Each operation of the audio service.
LEMMA CallTypesKept == ASSUME CallTypes, [Next]_vars PROVE CallTypes'
<1>1. CASE UNCHANGED audioVars \/ UNCHANGED vars
  BY <1>1 DEF CallTypes, vars, audioVars, callVars, muteVars
<1>2. ASSUME NEW p \in Pids, HostExit(p)
      PROVE  CallTypes'
  BY <1>2 DEF HostExit, ForgetAudio, CallTypes
<1>3. ASSUME NEW p \in Pids, AudioCallStart(p) \/ AudioRingStart(p)
      PROVE  CallTypes'
  BY <1>3 DEF AudioCallStart, StartCall, StopRing, AudioRingStart, StartRing, CallTypes, muteVars
<1>4. ASSUME NEW p \in Pids, AudioCallEnd(p) \/ AudioRingStop(p)
      PROVE  CallTypes'
  BY <1>4 DEF AudioCallEnd, EndCall, AudioRingStop, DeclineRing, StopRing, CallTypes, muteVars
<1>5. ASSUME NEW p \in Pids, NEW kind, AudioFocusRequest(p, kind) \/ AudioFocusAbandon(p)
      PROVE  CallTypes'
  BY <1>5 DEF AudioFocusRequest, RequestFocus, AudioFocusAbandon, AbandonFocus, CallTypes, callVars, muteVars
<1>6. ASSUME NEW p \in Pids, NEW arg \in {"on", "off", "toggle"}, AppMicMute(p, arg) \/ AppMute(p, arg)
      PROVE  CallTypes'
  BY <1>6 DEF AppMicMute, SetAppMicMute, AppMute, SetAppMute, Member, OnOff, Gates, CallTypes, callVars
<1>7. ASSUME NEW arg \in {"on", "off", "toggle"}, GlobalMute(arg) \/ MicMute(arg)
      PROVE  CallTypes'
  <2>1. Switched(arg, muted) \in BOOLEAN /\ Switched(arg, micMuted) \in BOOLEAN
    BY DEF Switched
  <2>. QED
    BY <1>7, <2>1 DEF GlobalMute, SetMute, MicMute, SetMicMute, CallTypes, callVars
<1>8. ASSUME NEW m \in Modes, AudioRingerMode(m)
      PROVE  CallTypes'
  BY <1>8 DEF AudioRingerMode, SetRingerMode, CallTypes, muteVars
<1>9. ASSUME NEW on \in BOOLEAN, AudioRoute(on)
      PROVE  CallTypes'
  BY <1>9 DEF AudioRoute, SetRoute, CallTypes, callVars
<1>10. ASSUME NEW p \in Pids, LaunchHost(p) \/ HostDies(p) \/ KillHost(p)
       PROVE  UNCHANGED audioVars
  BY <1>10 DEF LaunchHost, HostDies, KillHost, Alone
<1>11. ASSUME NEW p \in Pids, NEW on, AudioCallVideo(p, on) \/ ReportPowerClass(p, on)
       PROVE  UNCHANGED audioVars
  BY <1>11 DEF AudioCallVideo, ReportPowerClass, Powerly
<1>12. ASSUME NEW arg, Panel(arg) \/ ScreenTimeout(arg) \/ ScreenPolled(arg)
              \/ Brightness(arg) \/ BrightnessScale(arg) \/ LightReading(arg) \/ PhoneMoves(arg)
       PROVE  UNCHANGED audioVars
  BY <1>12 DEF Panel, ScreenTimeout, ScreenPolled, Brightness, BrightnessScale,
     LightReading, PhoneMoves, Powerly
<1>13. CASE PressPower \/ InactivityTick \/ Touch \/ IdleGrows \/ OffGrows
            \/ ProximitySample \/ Worker \/ Poll
  <2>1. UNCHANGED audioVars
    BY <1>13 DEF PressPower, InactivityTick, Touch, IdleGrows, OffGrows, ProximitySample,
       Worker, Poll, Powerly
  <2>. QED
    BY <1>1, <2>1
<1>14. ASSUME NEW p \in Pids, NEW id, PostNote(p, id) \/ CancelNote(p, id)
       PROVE  UNCHANGED audioVars
  BY <1>14 DEF PostNote, CancelNote, Notably
<1>15. ASSUME NEW n, ClickNote(n)
       PROVE  UNCHANGED audioVars
  BY <1>15 DEF ClickNote, Notably
<1>16. ASSUME NEW kind, NEW on, SensorHold(kind, on)
       PROVE  UNCHANGED audioVars
  BY <1>16 DEF SensorHold
<1>. QED
  BY <1>1, <1>2, <1>3, <1>4, <1>5, <1>6, <1>7, <1>8, <1>9, <1>10, <1>11, <1>12, <1>13, <1>14,
     <1>15, <1>16 DEF Next

\* A request is appended to the queue.
LEMMA AskTypes ==
    ASSUME SensorsTypeOK, NEW kind \in Kinds, NEW on \in BOOLEAN, Ask(kind, on)
    PROVE  queue' \in Seq([kind : Kinds, on : BOOLEAN])
<1>1. [kind |-> kind, on |-> on] \in [kind : Kinds, on : BOOLEAN]
  OBVIOUS
<1>. QED
  BY <1>1 DEF Ask, SensorsTypeOK

\* The service.
LEMMA HoldTypes ==
    ASSUME SensorsTypeOK, NEW kind \in Kinds, NEW r \in Pids \cup {Manual},
           Acquire(kind, r) \/ Release(kind, r)
    PROVE  SensorsTypeOK'
<1>1. queue' \in Seq([kind : Kinds, on : BOOLEAN])
  <2>1. Ask(kind, TRUE) \/ Ask(kind, FALSE) \/ UNCHANGED queue
    BY DEF Acquire, Release
  <2>. QED
    BY <2>1, AskTypes DEF SensorsTypeOK
<1>2. holders' \in [Kinds -> SUBSET (Pids \cup {Manual})]
  BY DEF Acquire, Release, SensorsTypeOK
<1>3. proxNear' \in {"unknown", "near", "far"}
  BY DEF Acquire, Release, Forgotten, SensorsTypeOK
<1>. QED
  BY <1>1, <1>2, <1>3 DEF Acquire, Release, SensorsTypeOK, driverVars

\* The light sensor is switched with the panel.
LEMMA LightTypes ==
    ASSUME SensorsTypeOK, PowerTypeOK, NEW on, NEW age, LightFollows(on, age)
    PROVE  SensorsTypeOK'
<1>1. CASE UNCHANGED sensorVars
  BY <1>1 DEF sensorVars, serviceVars, driverVars, SensorsTypeOK
<1>2. CASE SwitchLight(~backlight.sensing)
  <2>1. "light" \in Kinds /\ (~backlight.sensing) \in BOOLEAN
    BY DEF Kinds, PowerTypeOK
  <2>. QED
    BY <1>2, <2>1, AskTypes DEF SwitchLight, SensorsTypeOK, serviceVars, driverVars
<1>. QED
  BY <1>1, <1>2 DEF LightFollows

\* The first of a sequence and the others.
LEMMA HeadTail ==
    ASSUME NEW S, NEW s \in Seq(S), s # <<>>
    PROVE  Head(s) \in S /\ Tail(s) \in Seq(S)
OBVIOUS

\* The driver.
LEMMA DriverTypes ==
    ASSUME SensorsTypeOK,
           Enable \/ Disable \/ Drain \/ TakeSample \/ \E d \in Distances : MovePhone(d)
    PROVE  SensorsTypeOK'
<1>1. ASSUME queue # <<>>, queue' = Tail(queue)
      PROVE  queue' \in Seq([kind : Kinds, on : BOOLEAN]) /\ Head(queue).kind \in Kinds
  <2>1. queue \in Seq([kind : Kinds, on : BOOLEAN])
    BY DEF SensorsTypeOK
  <2>2. Head(queue) \in [kind : Kinds, on : BOOLEAN] /\ Tail(queue) \in Seq([kind : Kinds, on : BOOLEAN])
    BY <1>1, <2>1, HeadTail
  <2>. QED
    BY <1>1, <2>2
<1>2. CASE Enable
  <2>1. failures' \in 0..MaxFailures
    BY <1>2, SensorsAssumption DEF Enable, SensorsTypeOK
  <2>2. fresh' \in BOOLEAN
    BY <1>2 DEF Enable, SensorsTypeOK
  <2>3. queue' \in Seq([kind : Kinds, on : BOOLEAN]) /\ hal' \subseteq Kinds /\ enabled' \in Nat
    BY <1>1, <1>2 DEF Enable, SensorsTypeOK
  <2>. QED
    BY <1>2, <2>1, <2>2, <2>3 DEF Enable, SensorsTypeOK, serviceVars
<1>3. CASE Disable
  <2>1. enabled' \in Nat
    BY <1>3 DEF Disable, SensorsTypeOK
  <2>2. fresh' \in BOOLEAN
    BY <1>3 DEF Disable, SensorsTypeOK
  <2>3. queue' \in Seq([kind : Kinds, on : BOOLEAN]) /\ hal' \subseteq Kinds
    BY <1>1, <1>3 DEF Disable, SensorsTypeOK
  <2>. QED
    BY <1>3, <2>1, <2>2, <2>3 DEF Disable, SensorsTypeOK, serviceVars
<1>4. CASE Drain
  BY <1>4 DEF Drain, SensorsTypeOK, serviceVars
<1>5. CASE TakeSample
  BY <1>5 DEF TakeSample, Classify, SensorsTypeOK
<1>6. ASSUME NEW d \in Distances, MovePhone(d)
      PROVE  SensorsTypeOK'
  BY <1>6 DEF MovePhone, SensorsTypeOK, serviceVars
<1>. QED
  BY <1>2, <1>3, <1>4, <1>5, <1>6

\* The sensors, over every step.
LEMMA SensorTypesKept == ASSUME SensorsTypeOK, PowerTypeOK, [Next]_vars PROVE SensorsTypeOK'
<1>1. CASE UNCHANGED sensorVars
  BY <1>1 DEF sensorVars, serviceVars, driverVars, SensorsTypeOK
<1>2. ASSUME NEW p \in Pids, HostExit(p) \/ AudioCallStart(p) \/ AudioCallEnd(p)
             \/ AudioRingStart(p) \/ AudioRingStop(p)
      PROVE  SensorsTypeOK'
  <2>1. "prox" \in Kinds
    BY DEF Kinds
  <2>. QED
    BY <1>2, <2>1, HoldTypes DEF HostExit, AudioCallStart, AudioCallEnd, AudioRingStart, AudioRingStop
<1>3. ASSUME NEW kind \in Kinds, NEW on \in BOOLEAN, SensorHold(kind, on)
      PROVE  SensorsTypeOK'
  BY <1>3, HoldTypes DEF SensorHold
<1>4. ASSUME NEW on \in BOOLEAN, Panel(on) \/ PressPower \/ InactivityTick
      PROVE  SensorsTypeOK'
  BY <1>4, LightTypes DEF Panel, PressPower, InactivityTick
<1>5. CASE ProximitySample \/ Worker \/ Poll \/ \E d \in Distances : PhoneMoves(d)
  BY <1>5, DriverTypes DEF ProximitySample, Worker, Poll, PhoneMoves
<1>6. ASSUME NEW p \in Pids, NEW arg, LaunchHost(p) \/ HostDies(p) \/ KillHost(p)
             \/ AudioFocusRequest(p, arg) \/ AudioFocusAbandon(p) \/ AppMicMute(p, arg) \/ AppMute(p, arg)
      PROVE  UNCHANGED sensorVars
  BY <1>6 DEF LaunchHost, HostDies, KillHost, Alone, AudioFocusRequest, AudioFocusAbandon,
     AppMicMute, AppMute, Audibly
<1>7. ASSUME NEW p \in Pids, NEW on, AudioCallVideo(p, on) \/ ReportPowerClass(p, on)
      PROVE  UNCHANGED sensorVars
  BY <1>7 DEF AudioCallVideo, ReportPowerClass
<1>8. ASSUME NEW arg, AudioRingerMode(arg) \/ GlobalMute(arg) \/ MicMute(arg) \/ AudioRoute(arg)
      PROVE  UNCHANGED sensorVars
  BY <1>8 DEF AudioRingerMode, GlobalMute, MicMute, AudioRoute, Audibly
<1>9. ASSUME NEW arg, ScreenTimeout(arg) \/ ScreenPolled(arg) \/ Brightness(arg)
             \/ BrightnessScale(arg) \/ LightReading(arg)
      PROVE  UNCHANGED sensorVars
  BY <1>9 DEF ScreenTimeout, ScreenPolled, Brightness, BrightnessScale, LightReading
<1>10. CASE Touch \/ IdleGrows \/ OffGrows \/ UNCHANGED vars
  BY <1>1, <1>10 DEF Touch, IdleGrows, OffGrows, vars
<1>11. ASSUME NEW p \in Pids, NEW id, PostNote(p, id) \/ CancelNote(p, id)
       PROVE  UNCHANGED sensorVars
  BY <1>11 DEF PostNote, CancelNote, Notably
<1>12. ASSUME NEW n, ClickNote(n)
       PROVE  UNCHANGED sensorVars
  BY <1>12 DEF ClickNote, Notably
<1>. QED
  BY <1>1, <1>2, <1>3, <1>4, <1>5, <1>6, <1>7, <1>8, <1>9, <1>10, <1>11, <1>12 DEF Next

\* The notes, the mix and the histories.
NoteTypes ==
    /\ NotifyTypeOK /\ mix \in Mixes
    /\ declined \subseteq Pids /\ stray \subseteq Apps \cup {Unknown} /\ held \subseteq Kinds

LEMMA NoteTypesKept ==
    ASSUME NoteTypes, [Next]_vars
    PROVE  NoteTypes'
<1> DEFINE typed == NoteTypes'
<1>1. CASE UNCHANGED <<notes, mix, declined, stray, held>>
  BY <1>1 DEF NoteTypes, NotifyTypeOK
<1>2. ASSUME NEW p \in Pids, NEW id \in NoteIds
      PROVE  <<AppOf(p), id>> \in (Apps \cup {Unknown}) \X NoteIds
  BY HostsAssumption DEF AppOf
<1>3. ASSUME NEW p \in Pids, HostExit(p)
      PROVE  typed
  BY <1>3 DEF HostExit, NoteTypes, NotifyTypeOK
<1>4. ASSUME NEW p \in Pids, AudioCallStart(p) \/ AudioCallEnd(p)
      PROVE  typed
  BY <1>2, <1>4, CallsAssumption
     DEF AudioCallStart, AudioCallEnd, Cancelled, NoteTypes, NotifyTypeOK
<1>5. ASSUME NEW p \in Pids, AudioRingStart(p) \/ AudioRingStop(p)
      PROVE  typed
  BY <1>2, <1>5, CallsAssumption
     DEF AudioRingStart, AudioRingStop, Posted, Cancelled, NoteTypes, NotifyTypeOK, history
<1>11. ASSUME NEW p \in Pids, LaunchHost(p) \/ HostDies(p) \/ KillHost(p)
       PROVE  typed
  <2>1. AppId[p] \in Apps
    BY HostsAssumption
  <2>2. UNCHANGED <<notes, mix, declined, held>> /\ stray' \subseteq Apps \cup {Unknown}
    BY <1>11, <2>1 DEF LaunchHost, HostDies, KillHost, Alone, Badged, NoteTypes
  <2>. QED
    BY <2>2 DEF NoteTypes, NotifyTypeOK
<1>12. ASSUME NEW p \in Pids, NEW id \in NoteIds, PostNote(p, id) \/ CancelNote(p, id)
       PROVE  typed
  <2>1. AppId[p] \in Apps
    BY HostsAssumption
  <2>. QED
    BY <1>2, <1>12, <2>1 DEF PostNote, CancelNote, NotifyPost, NotifyCancel, Posted, Cancelled,
       Touched, Notably, NoteTypes, NotifyTypeOK
<1>13. ASSUME NEW n \in notes, ClickNote(n)
       PROVE  typed
  <2>1. n[1] \in Apps \cup {Unknown}
    BY DEF NoteTypes, NotifyTypeOK
  <2>. QED
    BY <1>13, <2>1 DEF ClickNote, NotifyClick, Touched, Notably, NoteTypes, NotifyTypeOK
<1>14. ASSUME NEW kind \in Kinds, NEW on, SensorHold(kind, on)
       PROVE  typed
  BY <1>14 DEF SensorHold, NoteTypes, NotifyTypeOK
<1>6. ASSUME NEW p \in Pids, NEW arg, AudioFocusRequest(p, arg) \/ AudioFocusAbandon(p) \/ AppMicMute(p, arg) \/ AppMute(p, arg)
      PROVE  typed
  BY <1>1, <1>6 DEF AudioFocusRequest, AudioFocusAbandon, AppMicMute, AppMute, Audibly, history
<1>7. ASSUME NEW p \in Pids, NEW on, AudioCallVideo(p, on) \/ ReportPowerClass(p, on)
      PROVE  typed
  BY <1>1, <1>7 DEF AudioCallVideo, ReportPowerClass, Powerly, history
<1>8. ASSUME NEW arg, AudioRingerMode(arg) \/ GlobalMute(arg) \/ MicMute(arg) \/ AudioRoute(arg)
      PROVE  typed
  BY <1>1, <1>8 DEF AudioRingerMode, GlobalMute, MicMute, AudioRoute, Audibly, history
<1>9. ASSUME NEW arg, Panel(arg) \/ ScreenTimeout(arg) \/ ScreenPolled(arg)
             \/ Brightness(arg) \/ BrightnessScale(arg) \/ LightReading(arg) \/ PhoneMoves(arg)
      PROVE  typed
  BY <1>1, <1>9 DEF Panel, ScreenTimeout, ScreenPolled, Brightness, BrightnessScale,
     LightReading, PhoneMoves, Powerly, history
<1>10. CASE PressPower \/ InactivityTick \/ Touch \/ IdleGrows \/ OffGrows
            \/ ProximitySample \/ Worker \/ Poll \/ UNCHANGED vars
  BY <1>1, <1>10 DEF PressPower, InactivityTick, Touch, IdleGrows, OffGrows, ProximitySample,
     Worker, Poll, Powerly, vars, history
<1>. QED
  BY <1>3, <1>4, <1>5, <1>6, <1>7, <1>8, <1>9, <1>10, <1>11,
     <1>12, <1>13, <1>14 DEF Next
RestTypes == CallTypes /\ SensorsTypeOK /\ NoteTypes
-----------------------------------------------------------------------------
(* The sensors *)

Requests == [kind : Kinds, on : BOOLEAN]

\* The first request of its kind in q, the last one, and the one after another.
FirstAsk(q, i) == \A j \in 1..(i - 1) : q[j].kind # q[i].kind
LastAsk(q, i) == \A j \in (i + 1)..Len(q) : q[j].kind # q[i].kind
Following(q, i, j) ==
    /\ i < j /\ q[i].kind = q[j].kind
    /\ \A m \in (i + 1)..(j - 1) : q[m].kind # q[i].kind

\* The requests q lead from the sensors the HAL has, h, to those wanted, w, in these
\* kinds: of each the first switches the HAL, each next one switches back, and the
\* last one is as wanted.
Leads(q, h, w, kinds) ==
    /\ \A i \in DOMAIN q : q[i].kind \in kinds =>
        /\ FirstAsk(q, i) => q[i].on = (q[i].kind \notin h)
        /\ LastAsk(q, i) => q[i].on = w[q[i].kind]
        /\ \A j \in DOMAIN q : Following(q, i, j) => q[j].on = ~q[i].on
    /\ \A k \in kinds : (\A i \in DOMAIN q : q[i].kind # k) => w[k] = (k \in h)

\* Then in fewer kinds, too.
LEMMA LeadsFewer ==
    ASSUME NEW q, NEW h, NEW w, NEW kinds, Leads(q, h, w, kinds), NEW fewer \in SUBSET kinds
    PROVE  Leads(q, h, w, fewer)
BY DEF Leads

\* A request that is made when the wish changes is the opposite of the last one; one
\* of another kind changes nothing.
LEMMA LeadsAppend ==
    ASSUME NEW kinds \in SUBSET Kinds, NEW q \in Seq(Requests), NEW h,
           NEW w \in [Kinds -> BOOLEAN], Leads(q, h, w, kinds),
           NEW r \in Requests, NEW v \in [Kinds -> BOOLEAN],
           r.kind \in kinds => r.on = v[r.kind] /\ v[r.kind] = ~w[r.kind],
           \A k \in kinds : k # r.kind => v[k] = w[k]
    PROVE  Leads(Append(q, r), h, v, kinds)
<1> DEFINE a == Append(q, r)
           n == Len(q) + 1
           k == r.kind
<1>1. /\ r \in Requests /\ a \in Seq(Requests) /\ Len(q) \in Nat /\ Len(a) = n
      /\ DOMAIN a = 1..n /\ DOMAIN q = 1..Len(q)
      /\ a[n] = r /\ \A i \in 1..Len(q) : a[i] = q[i] /\ q[i] \in Requests
  <2>2. a \in Seq(Requests) /\ Len(q) \in Nat /\ Len(a) = n /\ DOMAIN q = 1..Len(q)
    OBVIOUS
  <2>3. DOMAIN a = 1..n /\ a[n] = r /\ \A i \in 1..Len(q) : a[i] = q[i]
    BY <2>2
  <2>. QED
    BY <2>2, <2>3
<1> HIDE DEF a, n
<1>2. ASSUME NEW i \in 1..n, a[i].kind \in kinds, FirstAsk(a, i)
      PROVE  a[i].on = (a[i].kind \notin h)
  <2>1. CASE i = n
    <3>1. \A j \in DOMAIN q : q[j].kind # k
      BY <1>1, <1>2, <2>1 DEF FirstAsk, n
    <3>. QED
      BY <3>1, <1>1, <1>2, <2>1 DEF Leads
  <2>2. CASE i # n
    <3>1. FirstAsk(q, i) /\ i \in DOMAIN q
      BY <1>1, <1>2, <2>2 DEF FirstAsk, n
    <3>. QED
      BY <3>1, <1>1, <1>2 DEF Leads, n
  <2>. QED
    BY <2>1, <2>2
<1>3. ASSUME NEW i \in 1..n, a[i].kind \in kinds, LastAsk(a, i)
      PROVE  a[i].on = v[a[i].kind]
  <2>1. CASE i = n
    BY <2>1, <1>1, <1>3
  <2>2. CASE i # n
    <3>1. i \in DOMAIN q /\ LastAsk(q, i) /\ q[i].kind # k /\ q[i].kind \in Kinds
      BY <1>1, <1>3, <2>2 DEF LastAsk, n, Requests
    <3>. QED
      BY <3>1, <1>1, <1>3 DEF Leads
  <2>. QED
    BY <2>1, <2>2
<1>4. ASSUME NEW i \in 1..n, a[i].kind \in kinds, NEW j \in 1..n, Following(a, i, j)
      PROVE  a[j].on = ~a[i].on
  <2>1. CASE j = n
    <3>1. i \in DOMAIN q /\ LastAsk(q, i) /\ q[i].kind = k /\ k \in kinds
      BY <1>1, <1>4, <2>1 DEF Following, LastAsk, n
    <3>2. q[i].on = w[k]
      BY <3>1 DEF Leads
    <3>. QED
      BY <1>1, <2>1, <3>1, <3>2
  <2>2. CASE j # n
    <3>1. i \in 1..Len(q) /\ j \in 1..Len(q)
      <4>1. i < j /\ Len(q) \in Nat
        BY <1>1, <1>4 DEF Following
      <4>. QED
        BY <2>2, <4>1 DEF n
    <3>2. a[i] = q[i] /\ a[j] = q[j] /\ \A m \in (i + 1)..(j - 1) : a[m] = q[m]
      BY <1>1, <3>1
    <3>3. Following(q, i, j)
      BY <1>4, <3>2 DEF Following
    <3>. QED
      BY <1>1, <1>4, <3>1, <3>2, <3>3 DEF Leads
  <2>. QED
    BY <2>1, <2>2
<1>5. ASSUME NEW l \in kinds, \A i \in DOMAIN a : a[i].kind # l
      PROVE  v[l] = (l \in h)
  <2>1. l # k /\ \A i \in DOMAIN q : q[i].kind # l
    BY <1>1, <1>5 DEF n
  <2>. QED
    BY <2>1 DEF Leads
<1>. QED
  BY <1>1, <1>2, <1>3, <1>4, <1>5 DEF Leads, a

\* The first request changes what the HAL has; the others lead on from there.
LEMMA LeadsTail ==
    ASSUME NEW kinds \in SUBSET Kinds, NEW q \in Seq(Requests), NEW h,
           NEW w \in [Kinds -> BOOLEAN], Leads(q, h, w, kinds), q # <<>>
    PROVE  /\ Head(q).kind \in kinds => Head(q).on = (Head(q).kind \notin h)
           /\ Leads(Tail(q), IF Head(q).on THEN h \cup {Head(q).kind} ELSE h \ {Head(q).kind},
                    w, kinds)
<1> DEFINE t == Tail(q)
           r == Head(q)
           g == IF r.on THEN h \cup {r.kind} ELSE h \ {r.kind}
<1>1. /\ r = q[1] /\ Len(q) \in Nat \ {0} /\ Len(t) = Len(q) - 1
      /\ DOMAIN q = 1..Len(q) /\ DOMAIN t = 1..Len(t)
      /\ \A i \in 1..(Len(q) - 1) : t[i] = q[i + 1]
      /\ \A i \in 1..Len(q) : q[i] \in Requests
  OBVIOUS
<1> HIDE DEF t, r
<1>2. /\ r.kind \in kinds => r.on = (r.kind \notin h)
      /\ r.on \in BOOLEAN /\ r.kind \in Kinds
  BY <1>1 DEF Leads, FirstAsk, Requests
<1>3. (r.kind \in g <=> r.on) /\ \A k \in Kinds : k # r.kind => (k \in g <=> k \in h)
  <2>1. CASE r.on = TRUE
    <3>1. g = h \cup {r.kind}
      BY <2>1
    <3>. HIDE DEF g
    <3>. QED
      BY <2>1, <3>1
  <2>2. CASE r.on = FALSE
    <3>1. g = h \ {r.kind}
      BY <2>2
    <3>. HIDE DEF g
    <3>. QED
      BY <2>2, <3>1
  <2>. QED
    BY <1>2, <2>1, <2>2
<1>. HIDE DEF g
<1>4. ASSUME NEW i \in DOMAIN t, t[i].kind \in kinds, FirstAsk(t, i)
      PROVE  t[i].on = (t[i].kind \notin g)
  <2>1. i + 1 \in DOMAIN q /\ t[i] = q[i + 1] /\ q[i + 1].kind \in Kinds
    BY <1>1 DEF Requests
  <2>2. \A j \in 2..i : q[j].kind # q[i + 1].kind
    <3>1. ASSUME NEW j \in 2..i PROVE q[j].kind # q[i + 1].kind
      <4>1. j - 1 \in 1..(i - 1) /\ t[j - 1] = q[j] /\ t[i] = q[i + 1]
        BY <1>1
      <4>. QED
        BY <4>1, <1>4 DEF FirstAsk
    <3>. QED
      BY <3>1
  <2>3. CASE q[i + 1].kind = r.kind
    <3>1. Following(q, 1, i + 1)
      BY <1>1, <2>1, <2>2, <2>3 DEF Following
    <3>2. q[i + 1].on = ~r.on
      BY <1>1, <1>4, <2>1, <2>3, <3>1 DEF Leads
    <3>. QED
      BY <1>2, <1>3, <2>1, <2>3, <3>2
  <2>4. CASE q[i + 1].kind # r.kind
    <3>1. FirstAsk(q, i + 1)
      BY <1>1, <2>1, <2>2, <2>4 DEF FirstAsk
    <3>. QED
      BY <1>3, <1>4, <2>1, <2>4, <3>1 DEF Leads
  <2>. QED
    BY <2>3, <2>4
<1>5. ASSUME NEW i \in DOMAIN t, t[i].kind \in kinds, LastAsk(t, i)
      PROVE  t[i].on = w[t[i].kind]
  <2>1. i + 1 \in DOMAIN q /\ t[i] = q[i + 1]
    BY <1>1
  <2>2. ASSUME NEW j \in (i + 2)..Len(q) PROVE q[j].kind # q[i + 1].kind
    <3>1. j - 1 \in (i + 1)..Len(t) /\ t[j - 1] = q[j]
      BY <1>1
    <3>. QED
      BY <3>1, <2>1, <1>5 DEF LastAsk
  <2>3. LastAsk(q, i + 1)
    BY <2>2 DEF LastAsk
  <2>. QED
    BY <1>5, <2>1, <2>3 DEF Leads
<1>6. ASSUME NEW i \in DOMAIN t, t[i].kind \in kinds, NEW j \in DOMAIN t, Following(t, i, j)
      PROVE  t[j].on = ~t[i].on
  <2>1. i + 1 \in DOMAIN q /\ t[i] = q[i + 1] /\ j + 1 \in DOMAIN q /\ t[j] = q[j + 1]
    BY <1>1
  <2>2. ASSUME NEW m \in (i + 2)..j PROVE q[m].kind # q[i + 1].kind
    <3>1. m - 1 \in (i + 1)..(j - 1) /\ t[m - 1] = q[m]
      BY <1>1
    <3>. QED
      BY <3>1, <2>1, <1>6 DEF Following
  <2>3. Following(q, i + 1, j + 1)
    BY <1>1, <1>6, <2>1, <2>2 DEF Following
  <2>. QED
    BY <1>6, <2>1, <2>3 DEF Leads
<1>7. ASSUME NEW k \in kinds, \A i \in DOMAIN t : t[i].kind # k PROVE w[k] = (k \in g)
  <2>1. ASSUME NEW i \in 2..Len(q) PROVE q[i].kind # k
    <3>1. i - 1 \in DOMAIN t /\ t[i - 1] = q[i]
      BY <1>1
    <3>. QED
      BY <3>1, <1>7
  <2>2. CASE r.kind = k
    <3>1. LastAsk(q, 1)
      BY <1>1, <2>1, <2>2 DEF LastAsk
    <3>. QED
      BY <1>1, <1>3, <2>2, <3>1 DEF Leads
  <2>3. CASE r.kind # k
    <3>1. \A i \in DOMAIN q : q[i].kind # k
      BY <1>1, <2>1, <2>3
    <3>. QED
      BY <1>3, <2>3, <3>1 DEF Leads
  <2>. QED
    BY <2>2, <2>3
<1>8. Leads(t, g, w, kinds)
  BY <1>4, <1>5, <1>6, <1>7 DEF Leads
<1>. QED
  BY <1>2, <1>8 DEF t, r, g

\* What is wanted of each sensor.
Wants == [k \in Kinds |-> IF k = "prox" THEN holders["prox"] # {}
                          ELSE IF k = "light" THEN backlight.sensing ELSE TRUE]

\* The kinds that have one master.
Ruled == Kinds \ held

\* Until an enable fails the requests lead to what is wanted in these kinds, and as
\* long as these are all the count that gates the poll loop is exact.
Followed ==
    /\ Leads(queue, hal, Wants, Ruled)
    /\ held = {} => enabled = Cardinality(hal)

\* A lit panel without the framework has no age, so that the two reconciliations of a
\* timeout agree.
FollowInv ==
    /\ failures = 0 => Followed
    /\ held \subseteq Kinds \ {"prox"}
    /\ noArt /\ panelOn => offAge = "live"

\* The age of the panel, over every step.
LEMMA AgeKept ==
    ASSUME noArt /\ panelOn => offAge = "live", PowerStep
    PROVE  (noArt /\ panelOn => offAge = "live")'
<1>1. ASSUME NEW on, SetPanelOn(on)
      PROVE  (noArt /\ panelOn => offAge = "live")'
  BY <1>1 DEF SetPanelOn, OnScreenState, AgeAfter
<1>2. ASSUME NEW p \in Pids, CallBegins(p) \/ CallEnds(p) \/ ForgetPower(p)
      PROVE  UNCHANGED <<noArt, panelOn, offAge>>
  BY <1>2 DEF CallBegins, CallEnds, ForgetPower, Recadence
<1>3. ASSUME NEW p, NEW on, Video(p, on) \/ ReportClass(p, on) \/ SetTimeout(on) \/ OnProximity(on)
      PROVE  UNCHANGED <<noArt, panelOn, offAge>>
  BY <1>3 DEF Video, ReportClass, SetTimeout, OnProximity, panelVars, dozeVars
<1>4. ASSUME NEW on, ScreenPoll(on)
      PROVE  ~noArt'
  BY <1>4 DEF ScreenPoll
<1>5. ASSUME NEW arg, SetBrightness(arg) \/ SetScale(arg) \/ OnLight(arg)
      PROVE  UNCHANGED <<noArt, panelOn, offAge>>
  BY <1>5 DEF SetBrightness, SetScale, OnLight, panelVars, dozeVars
<1>6. CASE UserActivity \/ GrowIdle \/ UNCHANGED powerVars
  BY <1>6 DEF UserActivity, GrowIdle, panelVars, dozeVars, powerVars
<1>7. CASE GrowOff
  BY <1>7 DEF GrowOff, panelVars
<1>8. CASE PowerKey \/ IdleTick
  BY <1>1, <1>8 DEF PowerKey, IdleTick, panelVars, dozeVars
<1>. QED
  BY <1>1, <1>2, <1>3, <1>4, <1>5, <1>6, <1>7, <1>8 DEF PowerStep, PowerOwn

\* The hardware's level and the levels that are wanted do not warm the sensor.
LEMMA ShineSenses ==
    ASSUME NEW b \in Backlights, NEW level
    PROVE  /\ Shine(b, level).sensing = b.sensing /\ Shine(b, level).manual = b.manual
           /\ level \in Levels => Shine(b, level) \in Backlights
BY DEF Shine, Backlights

LEMMA AppliedSenses ==
    ASSUME NEW b \in Backlights, NEW level \in Levels
    PROVE  /\ Applied(b, level).sensing = b.sensing /\ Applied(b, level).manual = b.manual
           /\ Applied(b, level) \in Backlights
<1> DEFINE c == [b EXCEPT !.applied = level, !.byDefault = FALSE]
<1>1. c \in Backlights /\ c.sensing = b.sensing /\ c.manual = b.manual
  BY DEF Backlights, Shades
<1>2. Applied(b, level) = Shine(c, level)
  BY DEF Applied
<1>. HIDE DEF c
<1>. QED
  BY <1>1, <1>2, ShineSenses

LEMMA ReassertSenses ==
    ASSUME NEW b \in Backlights, NEW shown
    PROVE  /\ Reassert(b, shown).sensing = b.sensing /\ Reassert(b, shown).manual = b.manual
           /\ Reassert(b, shown) \in Backlights
<1>1. Wanted(b) # NoLevel => Wanted(b) \in Levels
  BY DEF Wanted, Backlights, Shades
<1>. QED
  BY <1>1, AppliedSenses DEF Reassert

LEMMA PoweredSenses ==
    ASSUME NEW b \in Backlights, NEW on
    PROVE  /\ Powered(b, on).sensing = b.sensing /\ Powered(b, on).manual = b.manual
           /\ Powered(b, on) \in Backlights
<1> DEFINE level == IF on THEN DefaultOn ELSE 0
           d == on /\ Wanted(b) = NoLevel
           c == [b EXCEPT !.byDefault = d]
<1>1. level \in Levels /\ d \in BOOLEAN
  BY DEF DefaultOn, Levels, Full
<1>2. Powered(b, on) = Shine(c, level)
  BY DEF Powered
<1>. HIDE DEF d, level
<1>3. c \in Backlights /\ c.sensing = b.sensing /\ c.manual = b.manual
  BY <1>1 DEF Backlights
<1>. HIDE DEF c
<1>. QED
  BY <1>1, <1>2, <1>3, ShineSenses

\* Calls, covers and brightness leave the light sensor as it is.
LEMMA SameSensing ==
    ASSUME PowerTypeOK,
           \/ \E p \in Pids : \/ CallBegins(p) \/ CallEnds(p) \/ ForgetPower(p)
                              \/ \E on \in BOOLEAN : Video(p, on) \/ ReportClass(p, on)
           \/ \E on \in BOOLEAN : SetTimeout(on) \/ ScreenPoll(on) \/ OnProximity(on)
           \/ UserActivity \/ GrowIdle \/ GrowOff
           \/ \E level \in Shades : SetBrightness(level)
           \/ \E s \in Scales : SetScale(s)
           \/ \E lux \in Lux : OnLight(lux)
    PROVE  backlight'.sensing = backlight.sensing
<1>1. backlight \in Backlights
  BY DEF PowerTypeOK, Backlights, Shades
<1>2. ASSUME EnsureUnblanked \/ KeepPanel \/ Blank
      PROVE  backlight'.sensing = backlight.sensing
  <2>1. \A on : /\ Powered(backlight, on).sensing = backlight.sensing
                /\ Reassert(Powered(backlight, on), on).sensing = backlight.sensing
    BY <1>1, PoweredSenses, ReassertSenses
  <2>2. \/ backlight' = backlight
        \/ \E on : backlight' = Powered(backlight, on)
        \/ \E on : backlight' = Reassert(Powered(backlight, on), on)
    BY <1>2 DEF EnsureUnblanked, KeepPanel, Blank
  <2>. QED
    BY <2>1, <2>2
<1>3. ASSUME NEW p \in Pids, CallBegins(p) \/ CallEnds(p) \/ ForgetPower(p)
      PROVE  EnsureUnblanked \/ KeepPanel
  BY <1>3 DEF CallBegins, CallEnds, ForgetPower
<1>4. ASSUME NEW p, NEW on, Video(p, on) \/ OnProximity(on)
      PROVE  EnsureUnblanked \/ KeepPanel \/ Blank
  BY <1>4 DEF Video, OnProximity
<1>5. ASSUME NEW p, NEW on, ReportClass(p, on) \/ SetTimeout(on) \/ ScreenPoll(on)
      PROVE  UNCHANGED backlight
  BY <1>5 DEF ReportClass, SetTimeout, ScreenPoll
<1>6. CASE UserActivity \/ GrowIdle \/ GrowOff
  BY <1>6 DEF UserActivity, GrowIdle, GrowOff
<1>7. ASSUME NEW level \in Shades, SetBrightness(level)
      PROVE  backlight'.sensing = backlight.sensing
  <2> DEFINE b == [backlight EXCEPT !.manual = level]
  <2>1. b \in Backlights /\ b.sensing = backlight.sensing
    BY <1>1 DEF Backlights
  <2>2. backlight' = Reassert(b, panelOn /\ ~blanked)
    BY <1>7 DEF SetBrightness
  <2>. HIDE DEF b
  <2>. QED
    BY <2>1, <2>2, ReassertSenses
<1>8. ASSUME NEW s \in Scales, SetScale(s)
      PROVE  backlight'.sensing = backlight.sensing
  <2> DEFINE b == [backlight EXCEPT !.scale = s,
                       !.ambient = IF backlight.lux = NoLevel THEN backlight.ambient
                                   ELSE Curve(backlight.lux, s)]
  <2>1. s \in Nat /\ (backlight.lux # NoLevel => backlight.lux \in Nat)
    BY <1>1, PowerAssumption DEF Backlights
  <2>2. (IF backlight.lux = NoLevel THEN backlight.ambient ELSE Curve(backlight.lux, s)) \in Shades
    BY <1>1, <2>1, CurveLevel DEF Backlights, Shades
  <2>3. b \in Backlights /\ b.sensing = backlight.sensing
    BY <1>1, <2>1, <2>2 DEF Backlights
  <2>4. backlight' = Reassert(b, panelOn /\ ~blanked) \/ backlight' = b
    BY <1>8 DEF SetScale
  <2>. HIDE DEF b
  <2>. QED
    BY <2>3, <2>4, ReassertSenses
<1>9. ASSUME NEW lux \in Lux, OnLight(lux)
      PROVE  backlight'.sensing = backlight.sensing
  <2> DEFINE b == [backlight EXCEPT !.lux = lux, !.ambient = Curve(lux, backlight.scale)]
  <2>1. Curve(lux, backlight.scale) \in Levels
    BY <1>1, PowerAssumption, CurveLevel DEF Backlights
  <2>2. b \in Backlights /\ b.sensing = backlight.sensing /\ b.ambient \in Levels
    BY <1>1, <2>1 DEF Backlights, Shades
  <2>3. backlight' = AutoApply(b, panelOn /\ ~blanked)
    BY <1>9 DEF OnLight
  <2>. HIDE DEF b
  <2>. QED
    BY <2>2, <2>3, AppliedSenses DEF AutoApply
<1>. QED
  BY <1>2, <1>3, <1>4, <1>5, <1>6, <1>7, <1>8, <1>9

\* The panel and the idle timer switch the light sensor and record it, together.
LightStep ==
    \/ UNCHANGED sensorVars /\ backlight'.sensing = backlight.sensing
    \/ SwitchLight(~backlight.sensing) /\ backlight'.sensing = ~backlight.sensing

LEMMA PanelLight ==
    ASSUME PowerTypeOK, NEW on \in BOOLEAN, SetPanelOn(on), LightFollows(on, offAge)
    PROVE  LightStep
<1> DEFINE b == IF blanked THEN backlight ELSE Powered(backlight, on)
           c == Reassert(b, on /\ ~blanked)
<1>1. backlight \in Backlights
  BY DEF PowerTypeOK, Backlights, Shades
<1>2. b \in Backlights /\ b.manual = backlight.manual
  BY <1>1, PoweredSenses
<1>3. c \in Backlights /\ c.manual = backlight.manual
  BY <1>2, ReassertSenses
<1>4. backlight' = Sensed(c, on, offAge)
  BY DEF SetPanelOn
<1>. HIDE DEF c
<1>5. backlight'.sensing = Warm(backlight, on, offAge)
  BY <1>3, <1>4 DEF Sensed, Warm, Backlights
<1>6. Warm(backlight, on, offAge) \in BOOLEAN /\ backlight.sensing \in BOOLEAN
  BY <1>1 DEF Warm, Backlights
<1>. QED
  BY <1>5, <1>6 DEF LightFollows, LightSwitched, LightStep

LEMMA IdleLight ==
    ASSUME PowerTypeOK, noArt /\ panelOn => offAge = "live", IdleTick, LightFollows(panelOn, offAge)
    PROVE  LightStep
<1>1. backlight \in Backlights /\ panelOn \in BOOLEAN
  BY DEF PowerTypeOK, Backlights, Shades
<1>2. CASE FallsAsleep
  <2>1. SetPanelOn(FALSE) /\ panelOn /\ offAge = "live"
    BY <1>2 DEF IdleTick, FallsAsleep
  <2>2. Warm(backlight, panelOn, offAge) = Warm(backlight, FALSE, offAge)
    BY <2>1 DEF Warm
  <2>3. LightFollows(FALSE, offAge)
    BY <2>2 DEF LightFollows, LightSwitched
  <2>. QED
    BY <2>1, <2>3, PanelLight
<1>3. CASE ~FallsAsleep
  <2>1. backlight' = Sensed(backlight, panelOn, offAge)
    BY <1>3 DEF IdleTick
  <2>2. backlight'.sensing = Warm(backlight, panelOn, offAge)
    BY <1>1, <2>1 DEF Sensed, Backlights
  <2>3. Warm(backlight, panelOn, offAge) \in BOOLEAN /\ backlight.sensing \in BOOLEAN
    BY <1>1 DEF Warm, Backlights
  <2>. QED
    BY <2>2, <2>3 DEF LightFollows, LightSwitched, LightStep
<1>. QED
  BY <1>2, <1>3

\* The steps as the sensors see them.
FollowStep ==
    \/ LightStep /\ held' = held
    \/ /\ backlight'.sensing = backlight.sensing
       /\ \/ /\ \E r \in Pids \cup {Manual} : Acquire("prox", r) \/ Release("prox", r)
             /\ held' = held
          \/ \E kind \in Kinds \ {"prox"} :
                /\ Acquire(kind, Manual) \/ Release(kind, Manual)
                /\ held' = held \cup {kind}
          \/ (Enable \/ Disable) /\ held' = held
          \/ UNCHANGED <<holders, queue, hal, enabled, failures, held>>

LEMMA FollowSteps ==
    ASSUME PowerTypeOK, noArt /\ panelOn => offAge = "live", [Next]_vars
    PROVE  FollowStep
<1>1. CASE UNCHANGED <<powerVars, sensorVars, held>>
  BY <1>1 DEF powerVars, FollowStep, LightStep
<1>2. ASSUME NEW p \in Pids, HostExit(p) \/ AudioCallStart(p) \/ AudioCallEnd(p)
      PROVE  FollowStep
  <2>1. backlight'.sensing = backlight.sensing
    BY <1>2, SameSensing DEF HostExit, AudioCallStart, AudioCallEnd
  <2>. QED
    BY <1>2, <2>1 DEF HostExit, AudioCallStart, AudioCallEnd, FollowStep
<1>3. ASSUME NEW p \in Pids, AudioRingStart(p) \/ AudioRingStop(p)
      PROVE  FollowStep
  BY <1>3 DEF AudioRingStart, AudioRingStop, FollowStep, powerVars, history
<1>4. ASSUME NEW kind \in Kinds, NEW on \in BOOLEAN, SensorHold(kind, on)
      PROVE  FollowStep
  <2>1. (Acquire(kind, Manual) \/ Release(kind, Manual)) /\ UNCHANGED powerVars
        /\ held' = IF kind = "prox" THEN held ELSE held \cup {kind}
    BY <1>4 DEF SensorHold
  <2>. QED
    BY <2>1 DEF FollowStep, powerVars
<1>5. ASSUME NEW on \in BOOLEAN, Panel(on)
      PROVE  FollowStep
  BY <1>5, PanelLight DEF Panel, FollowStep, Powerly, history
<1>6. CASE PressPower
  <2>1. (~panelOn) \in BOOLEAN
    BY DEF PowerTypeOK
  <2>. QED
    BY <1>6, <2>1, PanelLight DEF PressPower, PowerKey, FollowStep, Powerly, history
<1>7. CASE InactivityTick
  BY <1>7, IdleLight DEF InactivityTick, FollowStep, Powerly, history
<1>8. CASE Worker
  BY <1>8 DEF Worker, FollowStep, powerVars, Powerly, history
<1>9. CASE Poll
  BY <1>9 DEF Poll, Drain, FollowStep, powerVars, serviceVars, Powerly, history
<1>10. ASSUME NEW d \in Distances, PhoneMoves(d)
       PROVE  FollowStep
  BY <1>10 DEF PhoneMoves, MovePhone, FollowStep, powerVars, serviceVars, Powerly, history
<1>11. CASE ProximitySample
  <2>1. (proxNear' = "near") \in BOOLEAN
    OBVIOUS
  <2>2. OnProximity(proxNear' = "near") \/ UNCHANGED powerVars
    BY <1>11 DEF ProximitySample
  <2>3. backlight'.sensing = backlight.sensing
    BY <2>1, <2>2, SameSensing DEF powerVars
  <2>. QED
    BY <1>11, <2>3 DEF ProximitySample, TakeSample, FollowStep, Powerly, history
<1>12. ASSUME NEW p \in Pids, NEW arg, LaunchHost(p) \/ HostDies(p) \/ KillHost(p)
              \/ AudioFocusRequest(p, arg) \/ AudioFocusAbandon(p) \/ AppMicMute(p, arg) \/ AppMute(p, arg)
       PROVE  UNCHANGED <<powerVars, sensorVars, held>>
  BY <1>12 DEF LaunchHost, HostDies, KillHost, Alone, AudioFocusRequest, AudioFocusAbandon,
     AppMicMute, AppMute, Audibly, history
<1>13. ASSUME NEW arg, AudioRingerMode(arg) \/ GlobalMute(arg) \/ MicMute(arg) \/ AudioRoute(arg)
       PROVE  UNCHANGED <<powerVars, sensorVars, held>>
  BY <1>13 DEF AudioRingerMode, GlobalMute, MicMute, AudioRoute, Audibly, history
<1>14. ASSUME NEW p \in Pids, NEW on \in BOOLEAN, AudioCallVideo(p, on) \/ ReportPowerClass(p, on)
       PROVE  FollowStep
  BY <1>14, SameSensing DEF AudioCallVideo, ReportPowerClass, FollowStep, LightStep, Powerly, history
<1>15. ASSUME NEW on \in BOOLEAN, ScreenTimeout(on) \/ ScreenPolled(on)
       PROVE  FollowStep
  BY <1>15, SameSensing DEF ScreenTimeout, ScreenPolled, FollowStep, LightStep, Powerly, history
<1>16. CASE Touch \/ IdleGrows \/ OffGrows
  <2>1. UNCHANGED sensorVars
    BY <1>16 DEF Touch, IdleGrows, OffGrows
  <2>2. backlight'.sensing = backlight.sensing
    BY <1>16, SameSensing DEF Touch, IdleGrows, OffGrows
  <2>. QED
    BY <1>16, <2>1, <2>2 DEF Touch, IdleGrows, OffGrows, FollowStep, LightStep, Powerly, history
<1>17. ASSUME NEW level \in Levels \cup {NoLevel}, Brightness(level)
       PROVE  FollowStep
  BY <1>17, SameSensing DEF Brightness, FollowStep, LightStep, Shades, Powerly, history
<1>18. ASSUME NEW s \in Scales, BrightnessScale(s)
       PROVE  FollowStep
  BY <1>18, SameSensing DEF BrightnessScale, FollowStep, LightStep, Powerly, history
<1>19. ASSUME NEW lux \in Lux, LightReading(lux)
       PROVE  FollowStep
  BY <1>19, SameSensing DEF LightReading, FollowStep, LightStep, Powerly, history
<1>20. CASE UNCHANGED vars
  BY <1>1, <1>20 DEF vars, history
<1>21. ASSUME NEW p \in Pids, NEW id, PostNote(p, id) \/ CancelNote(p, id)
       PROVE  UNCHANGED <<powerVars, sensorVars, held>>
  BY <1>21 DEF PostNote, CancelNote, Notably
<1>22. ASSUME NEW n, ClickNote(n)
       PROVE  UNCHANGED <<powerVars, sensorVars, held>>
  BY <1>22 DEF ClickNote, Notably
<1>. QED
  BY <1>1, <1>2, <1>3, <1>4, <1>5, <1>6, <1>7, <1>8, <1>9, <1>10, <1>11, <1>12, <1>13, <1>14,
     <1>15, <1>16, <1>17, <1>18, <1>19, <1>20, <1>21, <1>22 DEF Next

\* A request that follows a change of the wish, or is of a kind that follows nothing.
LEMMA AskLeads ==
    ASSUME SensorsTypeOK, PowerTypeOK, PowerTypeOK', Leads(queue, hal, Wants, Ruled),
           NEW k \in Kinds, NEW on \in BOOLEAN, Ask(k, on), UNCHANGED hal, held \subseteq held',
           k \in Ruled' => on = Wants'[k] /\ Wants'[k] = ~Wants[k],
           \A l \in Kinds \ {k} : Wants'[l] = Wants[l]
    PROVE  Leads(queue, hal, Wants, Ruled)'
<1> DEFINE r == [kind |-> k, on |-> on]
<1>1. queue \in Seq(Requests) /\ Wants \in [Kinds -> BOOLEAN] /\ Wants' \in [Kinds -> BOOLEAN]
  BY DEF Wants, Kinds, PowerTypeOK, SensorsTypeOK, Requests
<1>2. Ruled' \in SUBSET Ruled /\ Ruled' \in SUBSET Kinds
  BY DEF Ruled
<1>3. Leads(queue, hal, Wants, Ruled')
  BY <1>2, LeadsFewer
<1>4. r \in Requests /\ r.kind = k /\ r.on = on
  BY DEF Requests
<1>. HIDE DEF r
<1>5. Leads(Append(queue, r), hal, Wants', Ruled')
  BY <1>1, <1>2, <1>3, <1>4, LeadsAppend
<1>. QED
  BY <1>5 DEF Ask, r

\* The sensors are three.
LEMMA KindsFinite == IsFiniteSet(Kinds)
<1>1. Kinds = (({} \cup {"prox"}) \cup {"light"}) \cup {"orient"}
  BY DEF Kinds
<1>. QED
  BY <1>1, FS_EmptySet, FS_AddElement

\* What the requests lead to, over every step.
LEMMA FollowKept ==
    ASSUME SensorsTypeOK, PowerTypeOK, PowerTypeOK', SensorsTypeOK', FollowInv, FollowStep,
           failures' = 0
    PROVE  Followed'
<1>1. /\ {"prox", "light"} \subseteq Kinds /\ "prox" \in Ruled
      /\ Wants["prox"] = (holders["prox"] # {}) /\ Wants["light"] = backlight.sensing
      /\ Wants'["prox"] = (holders'["prox"] # {}) /\ Wants'["light"] = backlight'.sensing
      /\ backlight.sensing \in BOOLEAN
  BY DEF Wants, Kinds, Ruled, FollowInv, PowerTypeOK
<1>11. \A k \in Kinds :
          /\ k # "prox" /\ backlight'.sensing = backlight.sensing => Wants'[k] = Wants[k]
          /\ k # "light" /\ holders'["prox"] = holders["prox"] => Wants'[k] = Wants[k]
  BY DEF Wants
<1>2. IsFiniteSet(hal)
  BY KindsFinite, FS_Subset DEF SensorsTypeOK
<1>3. failures = 0
  <2>1. failures \in Nat
    BY SensorsAssumption DEF SensorsTypeOK
  <2>2. UNCHANGED failures \/ failures' = failures + 1
    BY DEF FollowStep, LightStep, SwitchLight, Acquire, Release, Enable, Disable, sensorVars, driverVars
  <2>. QED
    BY <2>1, <2>2
<1>4. Leads(queue, hal, Wants, Ruled) /\ (held = {} => enabled = Cardinality(hal))
  BY <1>3 DEF FollowInv, Followed
<1>5. ASSUME UNCHANGED <<queue, hal, enabled, held>>, UNCHANGED holders,
             backlight'.sensing = backlight.sensing
      PROVE  Followed'
  <2>1. Wants' = Wants /\ Ruled' = Ruled
    BY <1>5 DEF Wants, Ruled
  <2>. QED
    BY <1>4, <1>5, <2>1 DEF Followed
<1>7. CASE /\ SwitchLight(~backlight.sensing) /\ backlight'.sensing = ~backlight.sensing
           /\ held' = held
  <2>1. UNCHANGED <<holders, hal, enabled>> /\ Ask("light", ~backlight.sensing)
    BY <1>7 DEF SwitchLight, serviceVars, driverVars
  <2>2. Leads(queue, hal, Wants, Ruled)'
    BY <1>1, <1>4, <1>7, <1>11, <2>1, AskLeads
  <2>. QED
    BY <1>4, <1>7, <2>1, <2>2 DEF Followed
<1>8. ASSUME NEW r \in Pids \cup {Manual}, Acquire("prox", r) \/ Release("prox", r), held' = held,
             backlight'.sensing = backlight.sensing
      PROVE  Followed'
  <2>1. UNCHANGED <<hal, enabled>>
    BY <1>8 DEF Acquire, Release, driverVars
  <2>2. /\ holders \in [Kinds -> SUBSET (Pids \cup {Manual})]
        /\ \/ holders' = [holders EXCEPT !["prox"] = @ \cup {r}]
           \/ holders' = [holders EXCEPT !["prox"] = @ \ {r}]
    BY <1>8 DEF Acquire, Release, SensorsTypeOK
  <2>3. CASE (holders'["prox"] # {}) = (holders["prox"] # {})
    <3>1. UNCHANGED queue
      BY <1>1, <1>8, <2>2, <2>3 DEF Acquire, Release
    <3>2. Wants' = Wants /\ Ruled' = Ruled
      BY <1>8, <2>3 DEF Wants, Ruled
    <3>. QED
      BY <1>4, <1>8, <2>1, <3>1, <3>2 DEF Followed
  <2>4. CASE (holders'["prox"] # {}) # (holders["prox"] # {})
    <3>1. Ask("prox", holders'["prox"] # {})
      BY <1>1, <1>8, <2>2, <2>4 DEF Acquire, Release
    <3>2. Leads(queue, hal, Wants, Ruled)'
      BY <1>1, <1>4, <1>8, <1>11, <2>1, <2>4, <3>1, AskLeads
    <3>. QED
      BY <1>4, <1>8, <2>1, <3>2 DEF Followed
  <2>. QED
    BY <2>3, <2>4
<1>9. ASSUME NEW kind \in Kinds \ {"prox"}, Acquire(kind, Manual) \/ Release(kind, Manual),
             held' = held \cup {kind}, backlight'.sensing = backlight.sensing
      PROVE  Followed'
  <2>1. UNCHANGED <<hal, enabled>>
    BY <1>9 DEF Acquire, Release, driverVars
  <2>2. holders'["prox"] = holders["prox"] /\ holders \in [Kinds -> SUBSET (Pids \cup {Manual})]
    BY <1>1, <1>9 DEF Acquire, Release, SensorsTypeOK
  <2>3. \A k \in Kinds : Wants'[k] = Wants[k]
    BY <1>1, <1>9, <1>11, <2>2
  <2>4. kind \notin Ruled' /\ held \subseteq held' /\ held' # {}
    BY <1>9 DEF Ruled
  <2>5. CASE UNCHANGED queue
    <3>1. Wants' = Wants
      BY <1>9, <2>2 DEF Wants
    <3>2. Ruled' \in SUBSET Ruled
      BY <2>4 DEF Ruled
    <3>. QED
      BY <1>4, <2>1, <2>4, <2>5, <3>1, <3>2, LeadsFewer DEF Followed
  <2>6. ASSUME NEW on \in BOOLEAN, Ask(kind, on)
        PROVE  Followed'
    <3>1. Leads(queue, hal, Wants, Ruled)'
      BY <1>4, <2>1, <2>3, <2>4, <2>6, AskLeads
    <3>. QED
      BY <2>4, <3>1 DEF Followed
  <2>. QED
    BY <1>9, <2>5, <2>6 DEF Acquire, Release
<1>10. ASSUME Enable \/ Disable, backlight'.sensing = backlight.sensing, held' = held
       PROVE  Followed'
  <2> DEFINE k == Head(queue).kind
  <2>1. queue \in Seq(Requests) /\ queue # <<>> /\ queue' = Tail(queue) /\ UNCHANGED holders
    BY <1>10 DEF Enable, Disable, serviceVars, SensorsTypeOK, Requests
  <2>2. Wants' = Wants /\ Ruled' = Ruled /\ Wants \in [Kinds -> BOOLEAN] /\ Ruled \in SUBSET Kinds
    BY <2>1, <1>10 DEF Wants, Ruled, PowerTypeOK
  <2>3. /\ k \in Ruled => Head(queue).on = (k \notin hal)
        /\ Leads(queue', IF Head(queue).on THEN hal \cup {k} ELSE hal \ {k}, Wants, Ruled)
    BY <1>4, <2>1, <2>2, LeadsTail
  <2>4. held = {} => k \in Ruled
    <3>1. Head(queue) \in Requests
      BY <2>1, HeadTail
    <3>. QED
      BY <3>1 DEF Ruled, Requests
  <2>. HIDE DEF k
  <2>5. CASE Enable
    <3>1. hal' = hal \cup {k} /\ enabled' = enabled + 1 /\ Head(queue).on
      BY <1>3, <2>5 DEF Enable, k
    <3>2. held = {} => Cardinality(hal') = Cardinality(hal) + 1
      BY <1>2, <2>3, <2>4, <3>1, FS_AddElement
    <3>. QED
      BY <1>4, <1>10, <2>2, <2>3, <3>1, <3>2 DEF Followed
  <2>6. CASE Disable
    <3>1. /\ hal' = hal \ {k} /\ ~Head(queue).on
          /\ enabled' = IF enabled = 0 THEN 0 ELSE enabled - 1
      BY <2>6 DEF Disable, k
    <3>2. held = {} => k \in hal /\ Cardinality(hal') = Cardinality(hal) - 1
      BY <1>2, <2>3, <2>4, <3>1, FS_RemoveElement
    <3>3. Cardinality(hal) \in Nat /\ Cardinality(hal') \in Nat
      <4>1. IsFiniteSet(hal')
        BY <1>2, <3>1, FS_Subset
      <4>. QED
        BY <1>2, <4>1, FS_CardinalityType
    <3>4. held = {} => enabled' = Cardinality(hal')
      BY <1>4, <3>1, <3>2, <3>3
    <3>. QED
      BY <1>10, <2>2, <2>3, <3>1, <3>4 DEF Followed
  <2>. QED
    BY <1>10, <2>5, <2>6
<1>12. UNCHANGED sensorVars => UNCHANGED <<holders, queue, hal, enabled>>
  BY DEF sensorVars, serviceVars, driverVars
<1>. QED
  BY <1>5, <1>7, <1>8, <1>9, <1>10, <1>12 DEF FollowStep, LightStep

-----------------------------------------------------------------------------
(* The invariant, and what it says *)

CallsInv ==
    /\ FocusInv /\ PanelInv /\ ToldInv /\ BadgeInv /\ GateInv
    /\ CallHoldsSensor /\ FollowInv
    /\ RestTypes

\* At the start.
LEMMA CallsStart == ASSUME Init PROVE CallsInv
<1>1. FocusInv /\ PanelInv /\ ToldInv
  BY FocusStart, PowerStarts
<1>2. /\ callers = {} /\ notes = {} /\ micGate = [p \in Pids |-> "unset"] /\ declined = {}
      /\ HostsTypeOK
  BY <1>1 DEF Init, PowerInit, NotifyInit, AudioInit, ToldInv
<1>8. stray = {} /\ held = {}
  BY DEF Init
<1>3. BadgeInv /\ GateInv /\ CallHoldsSensor
  BY <1>2, RegisteredPids DEF BadgeInv, BadgesTrue, GateInv, Gates, MicGateTrue, CallHoldsSensor
<1>4. CallTypes
  BY DEF Init, AudioInit, CallTypes, Modes, Gates
<1>5. SensorsTypeOK
  <2>1. SensorsInit /\ 0 \in 0..MaxFailures
    BY SensorsAssumption DEF Init
  <2>2. queue \in Seq([kind : Kinds, on : BOOLEAN])
    BY <2>1 DEF SensorsInit
  <2>. QED
    BY <2>1, <2>2 DEF SensorsInit, SensorsTypeOK, Distances, Kinds
<1>6. RestTypes
  BY <1>2, <1>4, <1>5, <1>8 DEF RestTypes, NoteTypes, NotifyTypeOK, Init
<1>7. FollowInv
  <2>1. /\ queue = <<>> /\ hal = {"orient"} /\ enabled = 1 /\ offAge = "live"
        /\ holders = [kind \in Kinds |-> {}] /\ backlight.sensing = FALSE
    BY DEF Init, SensorsInit, PowerInit
  <2>2. \A i \in DOMAIN queue : FALSE
    <3>1. queue \in Seq(Requests) /\ Len(queue) = 0
      BY <2>1
    <3>. QED
      BY <3>1
  <2>3. \A k \in Kinds : Wants[k] = (k \in hal)
    <3>1. "prox" \in Kinds /\ holders["prox"] = {}
      BY <2>1 DEF Kinds
    <3>2. /\ Wants["prox"] = FALSE
          /\ \A k \in Kinds : k = "light" => Wants[k] = FALSE
          /\ \A k \in Kinds : k = "orient" => Wants[k] = TRUE
      BY <2>1, <3>1 DEF Wants
    <3>3. \A k \in Kinds : k \in {"prox", "light", "orient"}
      BY DEF Kinds
    <3>4. ASSUME NEW k \in Kinds, k # "orient"
          PROVE  Wants[k] = FALSE /\ (k \in hal) = FALSE
      BY <2>1, <3>2, <3>3, <3>4
    <3>5. ASSUME NEW k \in Kinds, k = "orient"
          PROVE  Wants[k] = TRUE /\ (k \in hal) = TRUE
      BY <2>1, <3>2, <3>5
    <3>. QED
      BY <3>4, <3>5
  <2>4. Leads(queue, hal, Wants, Ruled)
    BY <2>2, <2>3 DEF Leads, Ruled
  <2>5. Cardinality(hal) = 1
    BY <2>1, FS_Singleton
  <2>. QED
    BY <1>8, <2>1, <2>4, <2>5 DEF FollowInv, Followed
<1>. QED
  BY <1>1, <1>3, <1>6, <1>7 DEF CallsInv

\* Over one step.
LEMMA CallsStep == ASSUME CallsInv, [Next]_vars PROVE CallsInv'
<1>1. PowerStep /\ OwedStep
  BY PowerSteps, OwedSteps
<1>2. FocusInv'
  BY FocusStep DEF CallsInv
<1>3. PanelInv' /\ ToldInv'
  BY <1>1, PanelKept, ToldKept DEF CallsInv
<1>4. BadgeInv' /\ GateInv' /\ CallHoldsSensor'
  BY <1>1, BadgesKept, GatesKept, SensorHeld DEF CallsInv, RestTypes
<1>5. RestTypes'
  BY CallTypesKept, SensorTypesKept, NoteTypesKept DEF CallsInv, RestTypes, PanelInv
<1>6. FollowInv'
  <2>1. FollowStep
    BY FollowSteps DEF CallsInv, PanelInv, FollowInv
  <2>2. PowerTypeOK /\ PowerTypeOK' /\ SensorsTypeOK /\ SensorsTypeOK'
    BY <1>3, <1>5 DEF CallsInv, PanelInv, RestTypes
  <2>3. failures' = 0 => Followed'
    BY <2>1, <2>2, FollowKept DEF CallsInv
  <2>4. held' \subseteq Kinds \ {"prox"}
    BY <2>1 DEF FollowStep, CallsInv, FollowInv
  <2>. QED
    BY <1>1, <2>3, <2>4, AgeKept DEF CallsInv, FollowInv
<1>. QED
  BY <1>2, <1>3, <1>4, <1>5, <1>6 DEF CallsInv

\* The invariant holds of every behaviour of the composition.
THEOREM CallsInvariant == Spec => []CallsInv
<1>1. Init => CallsInv
  BY CallsStart
<1>2. CallsInv /\ [Next]_vars => CallsInv'
  BY CallsStep
<1>. QED
  BY <1>1, <1>2, PTL DEF Spec

\* Every variable keeps its type, the queue of the sensor worker and the count
\* of its enabled sensors among them.
THEOREM CallsTyped == Spec => []CallsTypeOK
<1>1. CallsInv => CallsTypeOK
  BY DEF CallsInv, FocusInv, PanelInv, ToldInv, GateInv, RestTypes, NoteTypes, CallTypes,
     CallsTypeOK, AudioTypeOK
<1>. QED
  BY <1>1, CallsInvariant, PTL

\* The panel is dark for the ear in a call without video only, and touch is
\* suppressed on no registered host otherwise.
THEOREM BlankIsJustified == Spec => []BlankJustified
<1>1. CallsInv => BlankJustified
  BY DEF CallsInv, PanelInv, ToldInv, BlankJustified
<1>. QED
  BY <1>1, CallsInvariant, PTL

\* The panel shows what the user and the light ask for, for every light curve, and
\* the default only as long as nothing was to be applied since it was powered.
THEOREM PanelIsTrue == Spec => []PanelTrue
<1>1. CallsInv => PanelTrue
  BY DEF CallsInv, PanelInv, PowerTypeOK, Faithful, Lit, InBand, PanelTrue
<1>. QED
  BY <1>1, CallsInvariant, PTL

\* No call is throttled by doze, and nobody outside doze.
THEOREM CallersStayAwake == Spec => []CallsStayAwake
<1>1. CallsInv => CallsStayAwake
  BY DEF CallsInv, ToldInv
<1>. QED
  BY <1>1, CallsInvariant, PTL

\* A call holds the proximity sensor, unless its host declined a ring.
THEOREM CallersHoldSensor == Spec => []CallHoldsSensor
<1>1. CallsInv => CallHoldsSensor
  BY DEF CallsInv
<1>. QED
  BY <1>1, CallsInvariant, PTL

\* Once the worker has caught up, and unless an enable failed, each sensor is on
\* exactly while its master wants it - whatever sensor-hold does to the others - and
\* the count that gates the poll loop is right while sensor-hold keeps to proximity.
THEOREM SensorsAreAsWanted == Spec => []SensorsFollow
<1>1. CallsInv => SensorsFollow
  <2>1. SUFFICES ASSUME CallsInv, failures = 0
                 PROVE  /\ EndsAs("prox", holders["prox"] # {})
                        /\ "light" \notin held => EndsAs("light", backlight.sensing)
                        /\ "orient" \notin held => EndsAs("orient", TRUE)
                        /\ held = {} => enabled = Cardinality(hal)
    BY DEF SensorsFollow
  <2>2. Leads(queue, hal, Wants, Ruled) /\ (held = {} => enabled = Cardinality(hal))
    BY <2>1 DEF CallsInv, FollowInv, Followed
  <2>3. ASSUME NEW k \in Ruled
        PROVE  EndsAs(k, Wants[k])
    <3>1. \A i \in DOMAIN queue : queue[i].kind = k
                                 /\ (\A j \in (i + 1)..Len(queue) : queue[j].kind # k)
                                 => queue[i].on = Wants[k]
      BY <2>2 DEF Leads, LastAsk
    <3>2. (\A i \in DOMAIN queue : queue[i].kind # k) => (k \in hal) = Wants[k]
      BY <2>2 DEF Leads
    <3>. QED
      BY <3>1, <3>2 DEF EndsAs
  <2>4. /\ Kinds = {"prox", "light", "orient"} /\ "prox" \notin held
        /\ Wants["prox"] = (holders["prox"] # {}) /\ Wants["light"] = backlight.sensing
        /\ Wants["orient"] = TRUE
    BY <2>1 DEF Wants, Kinds, CallsInv, FollowInv
  <2>5. "prox" \in Ruled /\ ("light" \notin held => "light" \in Ruled)
        /\ ("orient" \notin held => "orient" \in Ruled)
    BY <2>4 DEF Ruled
  <2>6. EndsAs("prox", holders["prox"] # {})
    BY <2>3, <2>4, <2>5
  <2>7. "light" \notin held => EndsAs("light", backlight.sensing)
    BY <2>3, <2>4, <2>5
  <2>8. "orient" \notin held => EndsAs("orient", TRUE)
    BY <2>3, <2>4, <2>5
  <2>. QED
    BY <2>2, <2>6, <2>7, <2>8
<1>. QED
  BY <1>1, CallsInvariant, PTL

\* The badge of a call stands as long as the power service counts the call of its
\* registered host, unless another hand was on it.
THEOREM BadgesAreTrue == Spec => []BadgesTrue
<1>1. CallsInv => BadgesTrue
  BY DEF CallsInv, BadgeInv
<1>. QED
  BY <1>1, CallsInvariant, PTL

\* Every host applies the microphone gate that the switches say.
THEOREM MicGatesAreTrue == Spec => []MicGateTrue
<1>1. CallsInv => MicGateTrue
  BY DEF CallsInv, GateInv
<1>. QED
  BY <1>1, CallsInvariant, PTL
=============================================================================
