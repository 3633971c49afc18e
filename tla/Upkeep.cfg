CONSTANTS
    Games = {"p", "q"}
    Depots = {"m", "l", "n", "o", "k"}
    Kind <- MCKind
    Unified = "m"
    Scripted = {"l", "o", "m"}
    SteamDeps <- MCSteam
    ManifestDeps <- MCManifest
    WindowsGames = {"p"}
    MaxLaunches = 2
    ScanOrder <- MCScan
    GeReleases <- MCGeReleases
    MaxActs = 5
    Versions <- MCVersions
    MaxUpdateActs = 5
    Paths = {"a", "b", "c"}
    FirstDrives <- MCFirstDrives
    Volume <- MCVolume
    Titles = {"p"}
    HidesDots = TRUE
    MaxDrives = 3
    MaxClicks = 4
    Slips = {}
    Hashes = {"h", "k", "u", "r"}
    Unparsed = {"u"}
    Refused = {"r"}
    Telling = {"h", "k"}
    Entries <- MCEntries
    Searched <- MCSearched
    MaxNewTasks = 4
    Again = FALSE
    MaxAsks = 3
SPECIFICATION Spec
INVARIANTS LaunchReady ResolveRuns UpdateSound   
PROPERTIES NeverBack
CHECK_DEADLOCK FALSE
