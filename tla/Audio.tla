------------------------------- MODULE Audio -------------------------------
(***************************************************************************)
(* The audio service of the arbiter: the focus stack, the comms session    *)
(* (one call), the ringer, and the mute switches - with what each host was *)
(* last told about them.  A handler is an action over the audio variables  *)
(* only; Calls conjoins what the power and sensor services do in the same  *)
(* bus cascade.  Badges, routes and wire texts carry no decision of this   *)
(* service; entries of the stack are pids, since their kind is never read. *)
(***************************************************************************)
EXTENDS Hosts, Sequences

VARIABLES
    stack,        \* AudioModule::stack, the owner last
    comms,        \* AudioModule::comms
    ringing,      \* AudioModule::ringing
    ringerMode,   \* AudioModule::ringer_mode
    focus,        \* what each host was last told or answered about focus
    alerting,     \* the hosts told to play the ringtone or to vibrate
    commMode,     \* the hosts told set-mode comm
    muted, speaker,            \* the global output mute, the call route
    micMuted, micMutedApps,    \* the global and per-app input mute
    appMuted,                  \* the per-app output mute
    micGate, outGate           \* what each host last applied: mic, own output

focusVars == <<stack, focus>>
callVars  == <<comms, ringing, ringerMode, alerting, commMode>>
muteVars  == <<muted, speaker, micMuted, micMutedApps, appMuted, micGate, outGate>>
audioVars == <<focusVars, callVars, muteVars>>

Modes == {"normal", "vibrate", "silent"}
Views == {"none", "own", "lost", "paused", "ducked"}
Gates == {"unset", "on", "off"}

AudioTypeOK ==
    /\ stack \in Seq(Pids) /\ focus \in [Pids -> Views]
    /\ comms \in Pids \cup {None} /\ ringing \in Pids \cup {None}
    /\ ringerMode \in Modes
    /\ alerting \subseteq Pids /\ commMode \subseteq Pids
    /\ muted \in BOOLEAN /\ speaker \in BOOLEAN /\ micMuted \in BOOLEAN
    /\ micMutedApps \subseteq Pids /\ appMuted \subseteq Pids
    /\ micGate \in [Pids -> Gates] /\ outGate \in [Pids -> Gates]

AudioInit ==
    /\ stack = <<>> /\ focus = [p \in Pids |-> "none"]
    /\ comms = None /\ ringing = None /\ ringerMode = "normal"
    /\ alerting = {} /\ commMode = {}
    /\ muted = FALSE /\ speaker = FALSE /\ micMuted = FALSE
    /\ micMutedApps = {} /\ appMuted = {}
    /\ micGate = [p \in Pids |-> "unset"] /\ outGate = [p \in Pids |-> "unset"]
-----------------------------------------------------------------------------
(* The focus stack. *)

Owner(s) == IF s = <<>> THEN None ELSE s[Len(s)]

Stacked(s) == {s[i] : i \in 1..Len(s)}

\* Vec::retain on a stack that holds each pid at most once.
Without(s, p) ==
    IF p \notin Stacked(s) THEN s
    ELSE LET k == CHOOSE i \in 1..Len(s) : s[i] = p
         IN  [i \in 1..(Len(s) - 1) |-> IF i < k THEN s[i] ELSE s[i + 1]]

\* Tell q, if there is one.
Told(view, q, what) == IF q = None THEN view ELSE [view EXCEPT ![q] = what]

\* A permanent grab tells everybody else on the stack and clears it.
GrantGain(p) ==
    /\ stack' = <<p>>
    /\ focus' = [q \in Pids |-> IF q = p THEN "own"
                                ELSE IF q \in Stacked(stack) THEN "lost" ELSE focus[q]]

\* A transient grab tells the owner below p only.
GrantOver(p, what) ==
    LET rest == Without(stack, p)
    IN  /\ stack' = Append(rest, p)
        /\ focus' = [Told(focus, Owner(rest), what) EXCEPT ![p] = "own"]

Grant(p, kind) ==
    \/ kind = "gain" /\ GrantGain(p)
    \/ kind = "transient" /\ GrantOver(p, "paused")
    \/ kind = "duck" /\ GrantOver(p, "ducked")

\* Mutant of DropPid: the new top is not told.
DropPidQuietly(p) ==
    /\ stack' = Without(stack, p)
    /\ focus' = IF p \in Stacked(stack) THEN [focus EXCEPT ![p] = "none"] ELSE focus

\* Remove p; only if it owned the focus, the new top hears that it regained it.
DropPid(p) ==
    LET rest == Without(stack, p)
    IN  /\ stack' = rest
        /\ focus' = IF p \notin Stacked(stack) THEN focus
                    ELSE [(IF p = Owner(stack) THEN Told(focus, Owner(rest), "own") ELSE focus)
                             EXCEPT ![p] = "none"]

RequestFocus(p, kind) == Grant(p, kind) /\ UNCHANGED <<callVars, muteVars>>
AbandonFocus(p) == DropPid(p) /\ UNCHANGED <<callVars, muteVars>>
-----------------------------------------------------------------------------
(* Calls and rings. *)

\* stop_ring: nothing unless p itself rings.
StopRing(p) ==
    /\ ringing' = IF ringing = p THEN None ELSE ringing
    /\ alerting' = IF ringing = p THEN alerting \ {p} ELSE alerting

\* audio-call-start: answers p's ring, pauses the owner, becomes the session.
StartCall(p) ==
    /\ StopRing(p)
    /\ Grant(p, "transient")
    /\ comms' = p
    /\ commMode' = commMode \cup {p}
    /\ UNCHANGED <<ringerMode, muteVars>>

\* audio-call-end: refused unless p is the session.
EndCall(p) ==
    /\ comms = p
    /\ comms' = None
    /\ commMode' = commMode \ {p}
    /\ DropPid(p)
    /\ UNCHANGED <<ringing, ringerMode, alerting, muteVars>>

\* audio-ring-start: the latest ring replaces an earlier one.
StartRing(p) ==
    /\ ringing' = p
    /\ Grant(p, "transient")
    /\ alerting' = IF ringerMode = "silent" THEN alerting ELSE alerting \cup {p}
    /\ UNCHANGED <<comms, ringerMode, commMode, muteVars>>

\* audio-ring-stop: declined or missed; refused unless p is the one ringing.
DeclineRing(p) ==
    /\ ringing = p
    /\ StopRing(p)
    /\ DropPid(p)
    /\ UNCHANGED <<comms, ringerMode, commMode, muteVars>>

SetRingerMode(m) ==
    /\ ringerMode' = m
    /\ UNCHANGED <<focusVars, comms, ringing, alerting, commMode, muteVars>>
-----------------------------------------------------------------------------
(* Mutes and routes. *)

\* mic_effective, for given switches.
MicOff(global, apps, p) == global \/ p \in apps

OnOff(b) == IF b THEN "on" ELSE "off"

\* The argument <on|off|toggle> of a switch that stands at old.
Switched(arg, old) == IF arg = "toggle" THEN ~old ELSE arg = "on"

Member(set, p, on) == IF on THEN set \cup {p} ELSE set \ {p}

\* audio-route: remembers the route whoever asks for it.
SetRoute(toSpeaker) ==
    /\ speaker' = toSpeaker
    /\ UNCHANGED <<focusVars, callVars, muted, micMuted, micMutedApps, appMuted, micGate, outGate>>

\* mute: one host applies it to the output; only the switch is kept.  Without a
\* host to apply it (no call, no Foreground slot, no sender) the command is
\* refused and changes nothing; the slot and the sender are not modelled here.
SetMute(arg) ==
    /\ muted' = Switched(arg, muted)
    /\ UNCHANGED <<focusVars, callVars, speaker, micMuted, micMutedApps, appMuted, micGate, outGate>>

\* mic-mute: every registered host hears its own effective state.
SetMicMute(arg) ==
    LET on == Switched(arg, micMuted)
    IN  /\ micMuted' = on
        /\ micGate' = [p \in Pids |-> IF p \in Registered
                                      THEN OnOff(MicOff(on, micMutedApps, p)) ELSE micGate[p]]
        /\ UNCHANGED <<focusVars, callVars, muted, speaker, micMutedApps, appMuted, outGate>>

\* Mutant of SetAppMicMute: p hears its own switch only.
SetAppMicMuteOwn(p, arg) ==
    LET on == Switched(arg, p \in micMutedApps)
    IN  /\ micMutedApps' = Member(micMutedApps, p, on)
        /\ micGate' = [micGate EXCEPT ![p] = OnOff(on)]
        /\ UNCHANGED <<focusVars, callVars, muted, speaker, micMuted, appMuted, outGate>>

\* app-mic-mute: p alone hears its effective state.
SetAppMicMute(p, arg) ==
    LET apps == Member(micMutedApps, p, Switched(arg, p \in micMutedApps))
    IN  /\ micMutedApps' = apps
        /\ micGate' = [micGate EXCEPT ![p] = OnOff(MicOff(micMuted, apps, p))]
        /\ UNCHANGED <<focusVars, callVars, muted, speaker, micMuted, appMuted, outGate>>

\* app-mute: the per-app output switch, sent as it stands.
SetAppMute(p, arg) ==
    LET on == Switched(arg, p \in appMuted)
    IN  /\ appMuted' = Member(appMuted, p, on)
        /\ outGate' = [outGate EXCEPT ![p] = OnOff(on)]
        /\ UNCHANGED <<focusVars, callVars, muted, speaker, micMuted, micMutedApps, micGate>>
-----------------------------------------------------------------------------
\* SurfaceRemoved: the session and the ring of a dead host end in silence, its
\* switches go, and the next owner regains the focus.
ForgetAudio(p) ==
    /\ comms' = IF comms = p THEN None ELSE comms
    /\ ringing' = IF ringing = p THEN None ELSE ringing
    /\ appMuted' = appMuted \ {p}
    /\ micMutedApps' = micMutedApps \ {p}
    /\ alerting' = alerting \ {p} /\ commMode' = commMode \ {p}   \* gone with the process
    /\ DropPid(p)
    /\ UNCHANGED <<ringerMode, muted, speaker, micMuted, micGate, outGate>>
=============================================================================
