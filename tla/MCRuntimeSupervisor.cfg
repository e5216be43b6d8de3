SPECIFICATION Spec
CONSTANTS
    Observability = FALSE
    MaxGenerations = 2
    MaxBoots = 2
INVARIANTS
    TypeOK
    DroppedOwnsNothing
    ActualIsTruthful
    StopIsDurable
    StopPausesRemote
    NothingExecutesAfterClose
CHECK_DEADLOCK FALSE
