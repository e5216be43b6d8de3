SPECIFICATION FairSpec
CONSTANTS
    r1 = r1
    r2 = r2
    n1 = n1
    n2 = n2
    Request = {r1, r2}
    MaxProcs = 2
    Namespace = {n1}
    MaxStarts = 2
    MaxTeardowns = 1
PROPERTIES
    LateStartKeepsReplacement
CHECK_DEADLOCK FALSE
