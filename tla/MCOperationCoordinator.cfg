SPECIFICATION FairSpec
CONSTANTS
    MaxHistory = 2
    MaxOps = 4
INVARIANTS
    RegistryExact
PROPERTIES
    SlotImplemented
    EveryOperationIsRecorded
CHECK_DEADLOCK FALSE
