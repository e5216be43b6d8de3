SPECIFICATION FairSpec
CONSTANTS
    Observability = FALSE
    MaxGenerations = 1
    MaxBoots = 1
PROPERTIES
    ShutdownPreservesDesired
CHECK_DEADLOCK FALSE
