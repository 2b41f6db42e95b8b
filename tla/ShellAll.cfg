SPECIFICATION Spec
CONSTANTS
    MaxPid = 3
    NumApps = 3
    ChromeApps = {1}
    LaunchModes <- MCLaunchModes
    ImeApps = {1}
    HomeApps = {}
    EditorApps = {1, 2, 3}
    Enabled = {"kill", "task-kill", "overlay"}
INVARIANT TypeOK
INVARIANT SlotUnique
INVARIANT PointersTracked
