CONSTANTS
    Names = {"cloud", "box", "localhost"}
    LocalNames = {"box"}
    HasKVM = TRUE
    Configs <- MCConfigs
    Images = {"latest", "v2"}
    BootImage = "latest"
    AlwaysPull = FALSE
    MaxEdits = 1
    MaxPushes = 1
    MaxOps = 3
    MaxTokens = 3
    MaxReleases = 2
SPECIFICATION HostSpec
INVARIANTS ReportedAutostartIsReal
CHECK_DEADLOCK FALSE
