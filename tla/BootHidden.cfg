SPECIFICATION PersistSpec
CONSTANTS
    MaxPid = 2
    NumApps = 2
    ChromeApps = {1}
    LaunchModes <- MCLaunchModes
    ImeApps = {1}
    HomeApps = {2}
    EditorApps = {1, 2}
    Enabled = {}
PROPERTY BootShowsHome
