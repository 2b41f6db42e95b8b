SPECIFICATION Spec
CONSTANTS
    MaxPid = 3
    NumApps = 3
    ChromeApps = {1}
    LaunchModes <- MCLaunchModes
    ImeApps = {1, 3}
    HomeApps = {2}
    EditorApps = {2, 3}
    Enabled = {}
INVARIANT BehindUnique
INVARIANT HostAgrees
PROPERTY NeverEmpty
INVARIANT SwitchShows
PROPERTY FinishInput
PROPERTY KeyboardReconciled
PROPERTY ImeTold
