------------------------------- MODULE Power -------------------------------
(***************************************************************************)
(* The power service of the arbiter: the panel and its POWER toggle, the   *)
(* proximity blank of a call, doze and its per-class cadence, the          *)
(* inactivity timeout, and the backlight.  Time is the age of the screen-  *)
(* off instant and of the last activity, in the steps the code compares    *)
(* with; brightness is a small number of levels, MinStep apart to count.   *)
(***************************************************************************)
EXTENDS Hosts, Integers

CONSTANTS
    Lux,       \* the ambient readings that occur, numbers from 1 to Full
    Scales     \* the curve ceilings brightness-scale may set, as slopes

ASSUME PowerAssumption == Lux \subseteq Nat \ {0} /\ Scales \subseteq Nat \ {0}

VARIABLES
    noArt,       \* WANDR_NO_ART: the arbiter owns the display
    panelOn, blanked,        \* PowerModule::panel_on, blanked
    callers, videoCalls,     \* comms, video_calls
    dozing, bgService,       \* dozing, bg_service
    offAge,      \* age of screen_off_at
    idle,        \* the last activity is older than the timeout
    timeout,     \* screen_off_timeout is set
    backlight,   \* light_frac, manual_frac, last_applied_frac, last_lux,
                 \* full_scale_lux, light_on, the level of the hardware, and the
                 \* history byDefault: lit with no level known, and none applied since
    lit,         \* the display is powered, as last applied
    suppressed,  \* the hosts last told input-suppress 1
    cadence      \* the doze line each host last got

panelVars  == <<panelOn, blanked, lit, suppressed>>
callerVars == <<callers, videoCalls>>
dozeVars   == <<dozing, bgService, offAge, cadence>>
idleVars   == <<idle, timeout>>
powerVars  == <<noArt, panelVars, callerVars, dozeVars, idleVars, backlight>>

Full == 4
MinStep == 2
DefaultOn == 3
NoLevel == -1
Levels == 0..Full
Ages == {"live", "new", "grace", "long"}
Cadences == {"awake", "maintenance", "suspend"}

PowerTypeOK ==
    /\ {noArt, panelOn, blanked, dozing, idle, timeout, lit} \subseteq BOOLEAN
    /\ callers \subseteq Pids /\ videoCalls \subseteq Pids
    /\ bgService \subseteq Pids /\ suppressed \subseteq Pids
    /\ offAge \in Ages /\ cadence \in [Pids -> Cadences]
    /\ backlight \in [ambient : Levels \cup {NoLevel}, manual : Levels \cup {NoLevel},
                      applied : Levels \cup {NoLevel}, level : Levels,
                      lux : Lux \cup {NoLevel}, scale : Nat,
                      sensing : BOOLEAN, byDefault : BOOLEAN]

PowerInit ==
    /\ noArt \in BOOLEAN
    /\ panelOn = TRUE /\ blanked = FALSE /\ lit = TRUE /\ suppressed = {}
    /\ callers = {} /\ videoCalls = {}
    /\ dozing = FALSE /\ bgService = {} /\ offAge = "live"
    /\ cadence = [p \in Pids |-> "awake"]
    /\ idle = FALSE /\ timeout = TRUE
    /\ backlight = [ambient |-> NoLevel, manual |-> NoLevel, applied |-> NoLevel,
                    level |-> DefaultOn, lux |-> NoLevel, scale |-> 1,
                    sensing |-> FALSE, byDefault |-> TRUE]
-----------------------------------------------------------------------------
(* The backlight, as functions from one state of it to the next. *)

\* lux_to_fraction: monotone in the ambient, full from the ceiling on.
Curve(lux, scale) == IF lux * scale > Full THEN Full ELSE lux * scale

Distance2(a, b) == IF a > b THEN a - b ELSE b - a

\* apply_backlight_mode: with the framework up DisplayManager owns it.
Shine(b, level) == IF noArt THEN [b EXCEPT !.level = level] ELSE b

Wanted(b) == IF b.manual # NoLevel THEN b.manual ELSE b.ambient

\* The backlight half of apply_display_power.
Powered(b, on) ==
    Shine([b EXCEPT !.byDefault = on /\ Wanted(b) = NoLevel], IF on THEN DefaultOn ELSE 0)

\* A level that is asked for is remembered as applied.
Applied(b, level) == Shine([b EXCEPT !.applied = level, !.byDefault = FALSE], level)

\* reassert_backlight on a panel that is shown or not.
Reassert(b, shown) ==
    IF shown /\ Wanted(b) # NoLevel
    THEN Applied(b, Wanted(b)) ELSE b

\* apply_auto_brightness: only past the dead band of what was applied last.
AutoApply(b, shown) ==
    IF /\ shown /\ b.manual = NoLevel /\ b.ambient # NoLevel
       /\ b.applied = NoLevel \/ Distance2(b.ambient, b.applied) >= MinStep
    THEN Applied(b, b.ambient) ELSE b

\* light_should_be_warm, and reconcile_light's record of it.
Warm(b, on, age) == b.manual = NoLevel /\ (on \/ age # "long")
Sensed(b, on, age) == [b EXCEPT !.sensing = Warm(b, on, age)]

\* reconcile_light asks for the light sensor only on a change.
LightSwitched(on, age) == Warm(backlight, on, age) # backlight.sensing
-----------------------------------------------------------------------------
(* Doze. *)

\* cadence_for, for given callers.
CadenceFor(p, calls) ==
    IF p \in calls THEN "awake" ELSE IF p \in bgService THEN "maintenance" ELSE "suspend"

\* screen_off_at starts to age at the first report that is not live.
AgeAfter(live) == IF live THEN "live" ELSE IF offAge = "live" THEN "new" ELSE offAge

\* on_screen_state: on a change of doze every registered host hears its cadence.
OnScreenState(live) ==
    LET dozes == AgeAfter(live) \in {"grace", "long"}
    IN  /\ offAge' = AgeAfter(live)
        /\ dozing' = dozes
        /\ cadence' = [p \in Pids |-> IF dozes # dozing /\ p \in Registered
                                      THEN IF dozes THEN CadenceFor(p, callers) ELSE "awake"
                                      ELSE cadence[p]]
        /\ UNCHANGED bgService

\* The screen poller, with the framework up: it reports what SurfaceFlinger has.
ScreenPoll(live) ==
    /\ ~noArt
    /\ OnScreenState(live)
    /\ UNCHANGED <<noArt, panelVars, callerVars, idleVars, backlight>>

ReportClass(p, background) ==
    /\ bgService' = IF background THEN bgService \cup {p} ELSE bgService \ {p}
    /\ UNCHANGED <<noArt, panelVars, callerVars, idleVars, backlight, dozing, offAge, cadence>>
-----------------------------------------------------------------------------
(* The panel. *)

\* set_panel_on with the ScreenState cascade; a blank keeps the hardware off.
SetPanelOn(on) ==
    LET powered == IF blanked THEN backlight ELSE Powered(backlight, on)
        shown   == on /\ ~blanked
    IN  /\ panelOn' = on
        /\ lit' = IF blanked THEN lit ELSE on
        /\ idle' = IF on THEN FALSE ELSE idle
        \* reconcile_light reads screen_off_at before the cascade delivers ScreenState
        /\ backlight' = Sensed(Reassert(powered, shown), on, offAge)
        /\ OnScreenState(on)
        /\ UNCHANGED <<noArt, blanked, suppressed, callerVars, timeout>>

\* power-key
PowerKey == SetPanelOn(~panelOn)

\* set_panel_blanked(true): panel and touch of every registered host together.
Blank ==
    /\ blanked' = TRUE
    /\ lit' = FALSE
    /\ suppressed' = suppressed \cup Registered
    /\ backlight' = Powered(backlight, FALSE)

\* Mutant of EnsureUnblanked: the level is not reasserted.
EnsureUnblankedDefault ==
    IF blanked
    THEN /\ blanked' = FALSE
         /\ lit' = panelOn
         /\ suppressed' = suppressed \ Registered
         /\ backlight' = Powered(backlight, panelOn)
    ELSE UNCHANGED <<blanked, lit, suppressed, backlight>>

\* ensure_unblanked: back to what the user has chosen, or nothing to do.
EnsureUnblanked ==
    IF blanked
    THEN /\ blanked' = FALSE
         /\ lit' = panelOn
         /\ suppressed' = suppressed \ Registered
         /\ backlight' = Reassert(Powered(backlight, panelOn), panelOn)
    ELSE UNCHANGED <<blanked, lit, suppressed, backlight>>

KeepPanel == UNCHANGED <<blanked, lit, suppressed, backlight>>

\* Mutant of OnProximity: an uncover counts only once the call is over.
OnProximityCallOnly(near) ==
    LET inCall == callers # {} /\ videoCalls = {}
    IN  /\ IF inCall /\ near /\ ~blanked THEN Blank
           ELSE IF ~inCall THEN EnsureUnblanked ELSE KeepPanel
        /\ UNCHANGED <<noArt, panelOn, callerVars, dozeVars, idleVars>>

\* ProximityChanged: only a call without video blanks.
OnProximity(near) ==
    LET inCall == callers # {} /\ videoCalls = {}
    IN  /\ IF inCall /\ near /\ ~blanked THEN Blank
           ELSE IF ~near \/ ~inCall THEN EnsureUnblanked ELSE KeepPanel
        /\ UNCHANGED <<noArt, panelOn, callerVars, dozeVars, idleVars>>
-----------------------------------------------------------------------------
(* Calls. *)

\* Mutant of Recadence: the cadence waits for the next change of doze.
RecadenceLater(p, calls) == UNCHANGED dozeVars

\* Mid-doze, p hears the cadence it now deserves.
Recadence(p, calls) ==
    /\ cadence' = IF dozing THEN [cadence EXCEPT ![p] = CadenceFor(p, calls)] ELSE cadence
    /\ UNCHANGED <<dozing, bgService, offAge>>

\* CommsActive, active.
CallBegins(p) ==
    /\ callers' = callers \cup {p}
    /\ Recadence(p, callers')
    /\ KeepPanel
    /\ UNCHANGED <<noArt, panelOn, videoCalls, idleVars>>

\* VideoCallActive off, then CommsActive off: the last one lifts the blank.
CallEnds(p) ==
    /\ callers' = callers \ {p}
    /\ videoCalls' = videoCalls \ {p}
    /\ Recadence(p, callers')
    /\ IF callers' = {} THEN EnsureUnblanked ELSE KeepPanel
    /\ UNCHANGED <<noArt, panelOn, idleVars>>

\* VideoCallActive on its own.
Video(p, on) ==
    /\ videoCalls' = IF on THEN videoCalls \cup {p} ELSE videoCalls \ {p}
    /\ IF on THEN EnsureUnblanked ELSE KeepPanel
    /\ UNCHANGED <<noArt, panelOn, callers, dozeVars, idleVars>>

\* Mutant of ForgetPower: a call that ends by a death leaves the blank alone.
ForgetPowerDark(p) ==
    /\ callers' = callers \ {p}
    /\ videoCalls' = videoCalls \ {p}
    /\ bgService' = bgService \ {p}
    /\ KeepPanel
    /\ UNCHANGED <<noArt, panelOn, idleVars, dozing, offAge, cadence>>

\* SurfaceRemoved: the host is already out of the registry.
ForgetPower(p) ==
    /\ callers' = callers \ {p}
    /\ videoCalls' = videoCalls \ {p}
    /\ bgService' = bgService \ {p}
    /\ IF callers' = {} THEN EnsureUnblanked ELSE KeepPanel
    /\ UNCHANGED <<noArt, panelOn, idleVars, dozing, offAge, cadence>>
-----------------------------------------------------------------------------
(* Brightness. *)

\* brightness: a level of the user's, 0 among them, or NoLevel for auto.
SetBrightness(level) ==
    LET shown == panelOn /\ ~blanked
        b == [backlight EXCEPT !.manual = level]
    IN  /\ backlight' = Reassert(b, shown)
        /\ UNCHANGED <<noArt, panelVars, callerVars, dozeVars, idleVars>>

SetScale(scale) ==
    LET b == [backlight EXCEPT !.scale = scale,
                  !.ambient = IF backlight.lux = NoLevel THEN backlight.ambient
                              ELSE Curve(backlight.lux, scale)]
    IN  /\ backlight' = IF backlight.lux # NoLevel /\ backlight.manual = NoLevel
                        THEN Reassert(b, panelOn /\ ~blanked) ELSE b
        /\ UNCHANGED <<noArt, panelVars, callerVars, dozeVars, idleVars>>

\* A reading of the ambient light.
OnLight(lux) ==
    LET b == [backlight EXCEPT !.lux = lux, !.ambient = Curve(lux, backlight.scale)]
    IN  /\ backlight' = AutoApply(b, panelOn /\ ~blanked)
        /\ UNCHANGED <<noArt, panelVars, callerVars, dozeVars, idleVars>>
-----------------------------------------------------------------------------
(* Inactivity. *)

UserActivity ==
    /\ idle' = FALSE
    /\ UNCHANGED <<noArt, panelVars, callerVars, dozeVars, timeout, backlight>>

SetTimeout(on) ==
    /\ timeout' = on
    /\ idle' = IF on THEN FALSE ELSE idle
    /\ UNCHANGED <<noArt, panelVars, callerVars, dozeVars, backlight>>

\* The idle timer falls asleep unless a call holds the screen awake.
FallsAsleep == panelOn /\ ~blanked /\ callers = {} /\ timeout /\ idle

\* IdleTick, without the framework: reconcile_light first, and set_panel_on
\* reconciles again before ScreenState is delivered.
IdleTick ==
    /\ noArt
    /\ IF FallsAsleep THEN SetPanelOn(FALSE)
       ELSE /\ backlight' = Sensed(backlight, panelOn, offAge)
            /\ UNCHANGED <<noArt, panelVars, callerVars, dozeVars, idleVars>>
-----------------------------------------------------------------------------
(* Time. *)

GrowIdle ==
    /\ ~idle /\ idle' = TRUE
    /\ UNCHANGED <<noArt, panelVars, callerVars, dozeVars, timeout, backlight>>

GrowOff ==
    /\ \/ offAge = "new" /\ offAge' = "grace"
       \/ offAge = "grace" /\ offAge' = "long"
    /\ UNCHANGED <<noArt, panelVars, callerVars, dozing, bgService, cadence, idleVars, backlight>>
=============================================================================
