SPECIFICATION Spec
CONSTANTS
    r1 = r1
    r2 = r2
    n1 = n1
    n2 = n2
    Request = {r1, r2}
    Namespace = {n1}
    MaxProcs = 2
    MaxStarts = 2
    MaxTeardowns = 2
SYMMETRY Symmetric
INVARIANTS
    OneRunPerProcess
    RunningIsTruthful
    CleanEndsStored
CHECK_DEADLOCK FALSE
