SPECIFICATION KeyguardSpec
CONSTANTS
    MaxPid = 4
    NumApps = 4
    ChromeApps = {1, 2, 4}
    LaunchModes <- MCLaunchModes
    ImeApps = {4}
    HomeApps = {}
    EditorApps = {3}
    Enabled = {}
    KeyguardApp = 1
    PowermenuApp = 2
INVARIANT KeyguardTypeOK
INVARIANT InputRestored
PROPERTY UnlockRestores
PROPERTY OverlayHidesKeyboard
