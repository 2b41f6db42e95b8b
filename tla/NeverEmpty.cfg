SPECIFICATION Spec
CONSTANTS
    MaxPid = 3
    NumApps = 3
    ChromeApps = {1}
    LaunchModes <- MCLaunchModes
    ImeApps = {1}
    HomeApps = {2}
    EditorApps = {1, 2, 3}
    Enabled = {"task-kill"}
PROPERTY NeverEmpty
