----------------------------- MODULE MCServices -----------------------------
(* Instances of Services: which topics are explored together. *)
EXTENDS Services

CONSTANTS p, q, r, s   \* s is a later host of p's app

MCAppId == p :> "mail" @@ q :> "music" @@ r :> "radio" @@ s :> "mail"
MCSsids == {"", "home", "my cafe"}
MCFirstWord == "home" :> "home" @@ "my cafe" :> "my"
MCMixes == {
    {"daemon", "roam", "other", "respawn"},
    {"daemon", "roam", "connect"},
    {"daemon", "roam", "other", "restart"},
    {"daemon", "roam", "radio"},
    {"daemon", "saved", "query"},
    {"daemon", "roam", "net"},
    {"net", "events", "die", "late"},
    {"store", "restart"},
    {"events", "net", "restart"},
    {"events", "die", "kill"},
    {"notes", "die", "restart"},
    {"media", "crowd", "die"},
    {"media", "kill", "late"},
    {"media", "restart"},
    {"press", "fan", "restart"} }
=============================================================================
