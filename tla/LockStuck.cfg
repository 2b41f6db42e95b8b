SPECIFICATION KeyguardSpec
CONSTANTS
    MaxPid = 4
    NumApps = 4
    ChromeApps = {1, 2, 4}
    LaunchModes <- MCLaunchModes
    ImeApps = {4}
    HomeApps = {3}
    EditorApps = {3}
    Enabled = {}
    KeyguardApp = 1
    PowermenuApp = 2
INVARIANT LockscreenOnlyLocked
