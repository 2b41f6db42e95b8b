CONSTANTS
    None = None
    p = p
    q = q
    r = r
    s = s
    Pids = {p, q, r, s}
    Crowd = {p, q, r}
    Few = {p, q}
    Apps = {"mail", "music", "radio"}
    AppId <- MCAppId
    NoteIds = {"mail", "song"}
    Ssids <- MCSsids
    Empty = ""
    FirstWord <- MCFirstWord
    FrameworkNet = "home"
    Reannounce = 2
    MaxInbox = 2
    MaxSaved = 2
    MaxGen = 3
    Mixes <- MCMixes
SPECIFICATION FairSpec
INVARIANTS ServicesTypeOK HostsTold SavedSound PressOnce
PROPERTIES RelayReturns StatusConverges ActiveSession
CHECK_DEADLOCK FALSE
