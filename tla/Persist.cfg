SPECIFICATION PersistSpec
CONSTANTS
    MaxPid = 3
    NumApps = 2
    ChromeApps = {1}
    LaunchModes <- MCLaunchModes
    ImeApps = {}
    HomeApps = {2}
    EditorApps = {2}
    Enabled = {"kill"}
INVARIANT PersistTypeOK
INVARIANT PointersTracked
PROPERTY RestoreSound
PROPERTY BootsHome
