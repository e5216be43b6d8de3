SPECIFICATION FairSpec
CONSTANTS
    Observability = FALSE
    MaxGenerations = 1
    MaxBoots = 1
PROPERTIES
    TransitionsEnd
    FailuresAreHandled
    ShutdownCompletes
CHECK_DEADLOCK FALSE
