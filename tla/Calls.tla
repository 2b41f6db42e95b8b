------------------------------- MODULE Calls -------------------------------
(***************************************************************************)
(* Audio, power and sensors composed over the life of the hosts: each      *)
(* action is one command, timer tick, sample or exit handled under         *)
(* arbiter_lock, with everything the three services do in its cascade.     *)
(*                                                                         *)
(* A mix is the set of topics that happen in a behaviour.  It is chosen at *)
(* the start and keeps the product of independent topics out of a run;     *)
(* every property is checked in every mix.                                 *)
(***************************************************************************)
EXTENDS Audio, Power, Sensors, Notify

CONSTANTS Mixes,   \* the sets of topics a behaviour may consist of
          Crowd,   \* one host of each app; the other pids are launched later
          Few      \* the hosts that take part, unless the topic is a crowd

ASSUME CallsAssumption ==
    /\ {"call", "ring"} \subseteq NoteIds
    /\ Few \subseteq Crowd /\ Crowd \subseteq Pids
    /\ \A p, q \in Crowd : AppId[p] = AppId[q] => p = q

VARIABLES mix,
          \* histories: the hosts that declined a ring in a call of theirs,
          declined,
          \* the apps whose call badge was clicked, posted or cancelled by another
          \* than the audio service, or was left by a host they had before,
          stray,
          \* and the kinds that sensor-hold switched beside their usual master
          held

history == <<declined, stray, held>>
vars == <<proc, audioVars, powerVars, sensorVars, notes, mix, history>>

CallsTypeOK ==
    /\ HostsTypeOK /\ AudioTypeOK /\ PowerTypeOK /\ SensorsTypeOK /\ NotifyTypeOK
    /\ mix \in Mixes /\ declined \subseteq Pids /\ stray \subseteq Apps \cup {Unknown}
    /\ held \subseteq Kinds

Init ==
    /\ mix \in Mixes /\ declined = {} /\ stray = {} /\ held = {}
    /\ HostsInit(IF "launch" \in mix THEN {} ELSE IF "crowd" \in mix THEN Crowd ELSE Few)
    /\ AudioInit /\ PowerInit /\ SensorsInit /\ NotifyInit
    /\ noArt <=> "framework" \notin mix

On(topic) == topic \in mix

\* p speaks: as long as it is registered, or late, behind its own end.
Speaks(p) == Heard(p) /\ (p \in Registered \/ On("late"))

Audibly == UNCHANGED <<proc, powerVars, sensorVars, notes, mix, history>>
Powerly == UNCHANGED <<proc, audioVars, notes, mix, history>>

\* The light sensor follows a change of the panel, the override or the clock.
LightFollows(on, age) ==
    IF LightSwitched(on, age) THEN SwitchLight(~backlight.sensing) ELSE UNCHANGED sensorVars
-----------------------------------------------------------------------------
(* Hosts. *)

Alone == UNCHANGED <<audioVars, powerVars, sensorVars, notes, mix, declined, held>>

\* The app with this badge, if it stands.
Badged(app) == IF <<app, "call">> \in notes THEN {app} ELSE {}

\* The pids that a launch may bring.
Arrivals == (IF On("launch") THEN Few ELSE {}) \cup (IF On("relaunch") THEN Pids \ Crowd ELSE {})

\* A new host of an app finds the badge as the one before left it.
LaunchHost(p) ==
    /\ p \in Arrivals
    /\ Launch(p)
    /\ stray' = (stray \ {AppId[p]}) \cup Badged(AppId[p])
    /\ Alone
HostDies(p) == On("die") /\ Die(p) /\ UNCHANGED stray /\ Alone
KillHost(p) == On("kill") /\ Cut(p) /\ UNCHANGED stray /\ Alone

\* SurfaceRemoved, in the three services.
HostExit(p) ==
    /\ Unclogged
    /\ Exit(p)
    /\ ForgetAudio(p)
    /\ ForgetPower(p)
    /\ Release("prox", p)
    /\ UNCHANGED notes   \* the app is out of the registry, so its badges stay
    /\ declined' = declined \ {p}
    /\ UNCHANGED <<mix, stray, held>>
-----------------------------------------------------------------------------
(* Focus, calls and rings. *)

AudioFocusRequest(p, kind) == On("focus") /\ Speaks(p) /\ RequestFocus(p, kind) /\ Audibly
AudioFocusAbandon(p) == On("focus") /\ Speaks(p) /\ AbandonFocus(p) /\ Audibly

AudioCallStart(p) ==
    /\ On("call") /\ Speaks(p) /\ Unclogged
    /\ StartCall(p)
    /\ notes' = (IF ringing = p THEN Cancelled(p, "ring") ELSE notes) \cup {<<AppOf(p), "call">>}
    /\ CallBegins(p)
    /\ Acquire("prox", p)
    /\ declined' = declined \ {p} /\ stray' = stray \ {AppOf(p)}
    /\ UNCHANGED <<proc, mix, held>>

AudioCallEnd(p) ==
    /\ On("call") /\ Speaks(p) /\ Unclogged
    /\ EndCall(p)
    /\ notes' = Cancelled(p, "call")
    /\ CallEnds(p)
    /\ Release("prox", p)
    /\ declined' = declined \ {p} /\ stray' = stray \ {AppOf(p)}
    /\ UNCHANGED <<proc, mix, held>>

AudioCallVideo(p, on) ==
    /\ On("video") /\ Speaks(p)
    /\ comms = p
    /\ Video(p, on)
    /\ UNCHANGED <<proc, audioVars, sensorVars, notes, mix, history>>

\* The sensor is warmed while the phone rings.
AudioRingStart(p) ==
    /\ On("ring") /\ Speaks(p) /\ Unclogged
    /\ StartRing(p)
    /\ notes' = Posted(p, "ring")
    /\ Acquire("prox", p)
    /\ UNCHANGED <<proc, powerVars, mix, history>>

AudioRingStop(p) ==
    /\ On("ring") /\ Speaks(p) /\ Unclogged
    /\ DeclineRing(p)
    /\ notes' = Cancelled(p, "ring")
    /\ Release("prox", p)
    /\ declined' = IF p \in callers THEN declined \cup {p} ELSE declined
    /\ UNCHANGED <<proc, powerVars, mix, stray, held>>

AudioRingerMode(m) == On("mode") /\ SetRingerMode(m) /\ Audibly
-----------------------------------------------------------------------------
(* Notifications: the badges of calls and rings are entries like any other. *)

Notably == UNCHANGED <<audioVars, powerVars, sensorVars, mix, declined, held>>

\* Not the audio service, but the app or the user has a hand on an entry.
Touched(app, id) == stray' = IF id = "call" THEN stray \cup {app} ELSE stray

PostNote(p, id) ==
    On("note") /\ Speaks(p) /\ NotifyPost(p, id) /\ Touched(AppId[p], id) /\ UNCHANGED proc /\ Notably
CancelNote(p, id) ==
    On("note") /\ Speaks(p) /\ NotifyCancel(p, id) /\ Touched(AppId[p], id) /\ UNCHANGED proc /\ Notably

\* The click may launch the app, which then finds what is left of its entries.
ClickNote(n) ==
    /\ On("note")
    /\ NotifyClick(n)
    /\ Touched(n[1], IF HostsOf(n[1]) = {} /\ Badged(n[1]) # {} THEN "call" ELSE n[2])
    /\ Notably
-----------------------------------------------------------------------------
(* Mutes. *)

AudioRoute(toSpeaker) == On("mute") /\ SetRoute(toSpeaker) /\ Audibly
GlobalMute(arg) == On("mute") /\ SetMute(arg) /\ Audibly
MicMute(arg) == On("mute") /\ SetMicMute(arg) /\ Audibly
AppMicMute(p, arg) == On("mute") /\ Speaks(p) /\ SetAppMicMute(p, arg) /\ Audibly
AppMute(p, arg) == On("mute") /\ Speaks(p) /\ SetAppMute(p, arg) /\ Audibly
-----------------------------------------------------------------------------
(* Power. *)

Panel(on) ==
    /\ On("panel") /\ Unclogged
    /\ SetPanelOn(on)
    /\ LightFollows(on, offAge)
    /\ Powerly

PressPower ==
    /\ On("panel") /\ Unclogged
    /\ PowerKey
    /\ LightFollows(~panelOn, offAge)
    /\ Powerly

InactivityTick ==
    /\ On("idle") /\ Unclogged
    /\ IdleTick
    /\ LightFollows(panelOn, offAge)
    /\ Powerly

Touch == On("idle") /\ UserActivity /\ UNCHANGED sensorVars /\ Powerly
ScreenTimeout(on) == On("idle") /\ SetTimeout(on) /\ UNCHANGED sensorVars /\ Powerly
IdleGrows == On("idle") /\ GrowIdle /\ UNCHANGED sensorVars /\ Powerly
OffGrows == On("age") /\ GrowOff /\ UNCHANGED sensorVars /\ Powerly
ScreenPolled(live) == On("framework") /\ ScreenPoll(live) /\ UNCHANGED sensorVars /\ Powerly
ReportPowerClass(p, bg) ==
    On("class") /\ Speaks(p) /\ ReportClass(p, bg) /\ UNCHANGED sensorVars /\ Powerly
Brightness(level) == On("light") /\ SetBrightness(level) /\ UNCHANGED sensorVars /\ Powerly
BrightnessScale(s) == On("light") /\ SetScale(s) /\ UNCHANGED sensorVars /\ Powerly
LightReading(lux) ==
    On("light") /\ "light" \in hal /\ OnLight(lux) /\ UNCHANGED sensorVars /\ Powerly
-----------------------------------------------------------------------------
(* Sensors. *)

\* A drained sample is handled: Power hears of a crossing only.
ProximitySample ==
    /\ TakeSample
    /\ IF Crossing THEN OnProximity(proxNear' = "near") ELSE UNCHANGED powerVars
    /\ Powerly

\* sensor-hold, of any kind: also of those that are switched past the holders.
SensorHold(kind, on) ==
    /\ IF kind = "prox" THEN On("hold") ELSE On("kinds")
    /\ Unclogged
    /\ IF on THEN Acquire(kind, Manual) ELSE Release(kind, Manual)
    /\ held' = IF kind = "prox" THEN held ELSE held \cup {kind}
    /\ UNCHANGED <<proc, audioVars, powerVars, notes, mix, declined, stray>>

\* The enable worker; that the HAL refuses an enable is a topic, too.
Worker ==
    /\ Enable \/ Disable
    /\ failures' = failures \/ On("fail")
    /\ UNCHANGED powerVars /\ Powerly
Poll == Drain /\ UNCHANGED powerVars /\ Powerly
PhoneMoves(d) == On("ear") /\ MovePhone(d) /\ UNCHANGED powerVars /\ Powerly
-----------------------------------------------------------------------------
Next ==
    \/ \E p \in Pids :
        \/ LaunchHost(p) \/ HostDies(p) \/ KillHost(p) \/ HostExit(p)
        \/ \E kind \in {"gain", "transient", "duck"} : AudioFocusRequest(p, kind)
        \/ AudioFocusAbandon(p)
        \/ AudioCallStart(p) \/ AudioCallEnd(p)
        \/ AudioRingStart(p) \/ AudioRingStop(p)
        \/ \E on \in BOOLEAN : AudioCallVideo(p, on) \/ ReportPowerClass(p, on)
        \/ \E arg \in {"on", "off", "toggle"} : AppMicMute(p, arg) \/ AppMute(p, arg)
        \/ \E id \in NoteIds : PostNote(p, id) \/ CancelNote(p, id)
    \/ \E n \in notes : ClickNote(n)
    \/ \E m \in Modes : AudioRingerMode(m)
    \/ \E arg \in {"on", "off", "toggle"} : GlobalMute(arg) \/ MicMute(arg)
    \/ \E on \in BOOLEAN :
        \/ Panel(on) \/ AudioRoute(on) \/ ScreenTimeout(on) \/ ScreenPolled(on)
        \/ \E kind \in Kinds : SensorHold(kind, on)
    \/ PressPower \/ InactivityTick \/ Touch \/ IdleGrows \/ OffGrows
    \/ \E level \in Levels \cup {NoLevel} : Brightness(level)
    \/ \E s \in Scales : BrightnessScale(s)
    \/ \E lux \in Lux : LightReading(lux)
    \/ ProximitySample \/ Worker \/ Poll
    \/ \E d \in Distances : PhoneMoves(d)

\* Threads that wait for nothing but the lock or the HAL make progress.
Fairness ==
    /\ WF_vars(Worker) /\ WF_vars(Poll) /\ WF_vars(ProximitySample)
    /\ \A p \in Pids : WF_vars(HostExit(p))

Spec == Init /\ [][Next]_vars
FairSpec == Spec /\ Fairness
-----------------------------------------------------------------------------
(* What the three services owe each other and the hosts. *)

\* What the hosts were told about focus is a behaviour of FocusPromise.
Promise == INSTANCE FocusPromise WITH
    owners  <- {p \in Pids : focus[p] = "own"},
    waiting <- {p \in Pids : focus[p] \in {"paused", "ducked"}}

\* Whatever hosts request, abandon, ring, call, die or are killed, at most one
\* believes it owns the focus, and when that one leaves a waiting one is told
\* (grant and drop_pid of the audio service).
FocusKept == Promise!Spec

\* The panel is dark for the ear only during a call without video, and then the
\* hosts of the registry that ignore touch do so only because of it
\* (set_panel_blanked and ensure_unblanked over call ends, video and deaths).
BlankJustified ==
    /\ blanked => callers # {} /\ videoCalls = {}
    /\ suppressed \cap Registered # {} => blanked

\* The display is powered exactly when the user wants it and no call hides it,
\* and without the framework the backlight shows what the user or the ambient
\* light asks for, within the dead band - however presses, blanks, overrides and
\* readings alternate.  One exception: after a wake with no level known the
\* default stays while the readings are within the dead band of a level applied
\* before the panel went dark (reassert_backlight leaves last_applied_frac as it
\* was, and apply_auto_brightness compares with it).
PanelTrue ==
    /\ lit = (panelOn /\ ~blanked)
    /\ noArt /\ ~lit => backlight.level = 0
    /\ noArt /\ lit =>
        \/ Wanted(backlight) = NoLevel
        \/ Distance2(backlight.level, Wanted(backlight)) < MinStep
        \/ /\ backlight.byDefault /\ backlight.level = DefaultOn /\ backlight.manual = NoLevel
           /\ backlight.applied # NoLevel
           /\ Distance2(backlight.ambient, backlight.applied) < MinStep

\* A host in a call is never left throttled, and nobody is outside doze
\* (a call that starts or ends in doze against the fan-out of on_screen_state).
CallsStayAwake ==
    \A p \in Registered : p \in callers \/ ~dozing => cadence[p] = "awake"

\* When the worker has caught up the HAL has the sensor of that kind on or off:
\* the last request for it says so, or it is so and none waits.
EndsAs(kind, on) ==
    /\ \A i \in DOMAIN queue :
        /\ queue[i].kind = kind
        /\ \A j \in (i + 1)..Len(queue) : queue[j].kind # kind
        => queue[i].on = on
    /\ (\A i \in DOMAIN queue : queue[i].kind # kind) => (kind \in hal) = on

\* Unless an enable failed, the sensors end as they are wanted: proximity by its
\* holders, light by the power service, orientation by everybody, whatever
\* sensor-hold does to another kind; and the count that gates the poll loop is
\* the number of sensors enabled as long as sensor-hold leaves those alone that
\* are switched past the holders (acquire, release, reconcile_light, spawn;
\* set_sensor's FIFO).
SensorsFollow ==
    failures = 0 =>
        /\ EndsAs("prox", holders["prox"] # {})
        /\ "light" \notin held => EndsAs("light", backlight.sensing)
        /\ "orient" \notin held => EndsAs("orient", TRUE)
        /\ held = {} => enabled = Cardinality(hal)

\* During a call its host holds the proximity sensor, so that the uncover that
\* lifts a blank is heard - but for a host that declined another ring meanwhile
\* (cmd_ring_stop releases what cmd_call_start acquired).
CallHoldsSensor == callers \subseteq holders["prox"] \cup declined

\* The ongoing-call badge of an app stands exactly as long as the power service
\* counts the call of its registered host - unless the app or the user took or made
\* the badge meanwhile, or a host that crashed or was killed left it to the one
\* launched next (post and cancel in the audio service, CommsActive in power; a
\* later call of another host replaces the session but ends neither).
BadgesTrue ==
    \A p \in Registered :
        AppId[p] \notin stray => (<<AppId[p], "call">> \in notes <=> p \in callers)

\* "If the comms-session owner died, end the session: clear the mode marker + the
\* ongoing-call badge", the comment says: the exit is dispatched after the pid left
\* the registry, so no badge is found to clear.
DeathClearsBadge ==
    [][\A p \in Pids :
          proc[p] = "exited" /\ proc'[p] = "gone" /\ comms = p => <<AppId[p], "call">> \notin notes']_vars

\* A registered host applies the microphone gate as the global and its own
\* switch say, or heard of no switch yet (mic_effective, over toggles of both).
MicGateTrue ==
    \A p \in Registered :
        micGate[p] \in {"unset", OnOff(MicOff(micMuted, micMutedApps, p))}

\* Once the phone stays away from the ear the panel comes back and stays, in
\* any calls that go on, if no enable failed and no call's sensor was given up:
\* the worker, the poll thread and the sample get their turn.
PanelReturns ==
    <>[](distance = "far" /\ failures = 0 /\ declined = {}) => <>[]~blanked
=============================================================================
