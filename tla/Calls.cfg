CONSTANTS
    None = None
    p = p
    q = q
    r = r
    s = s
    Pids = {p, q, r, s}
    Crowd = {p, q, r}
    Few = {p, q}
    Apps = {"phone", "chat", "mail"}
    AppId <- MCAppId
    NoteIds = {"call", "ring"}
    MaxQueue = 2
    MaxFailures = 2
    Lux <- MCLux
    Scales <- MCScales
    Mixes <- MCMixes
SPECIFICATION FairSpec
INVARIANTS CallsTypeOK BlankJustified PanelTrue CallsStayAwake SensorsFollow CallHoldsSensor MicGateTrue BadgesTrue

PROPERTIES FocusKept PanelReturns
CHECK_DEADLOCK FALSE
