------------------------------ MODULE MCCalls ------------------------------
(* Instances of Calls: which topics are explored together. *)
EXTENDS Calls, TLC

CONSTANTS p, q, r, s   \* s is a later host of p's app

MCAppId == p :> "phone" @@ q :> "chat" @@ r :> "mail" @@ s :> "phone"
MCMixes == {
    {"crowd", "focus", "die", "kill", "late"},
    {"launch", "focus", "call", "die"},
    {"call", "video", "ear", "die"},
    {"call", "ring", "die"},
    {"call", "die", "kill", "relaunch"},
    {"call", "die", "note"},
    {"call", "ring", "ear"},
    {"call", "ear", "die", "kill"},
    {"call", "die", "late"},
    {"call", "ear", "hold", "fail"},
    {"kinds", "panel", "age"},
    {"call", "framework", "age", "class", "die"},
    {"call", "framework", "age", "ear"},
    {"call", "panel", "idle", "age"},
    {"light", "panel", "age"},
    {"light", "ear", "call"},
    {"mute", "launch", "die"},
    {"ring", "mode"} }
MCBadgeMix == { {"call", "die"} }
MCLux == {1, 2, 4}
MCScales == {1, 2}
=============================================================================
