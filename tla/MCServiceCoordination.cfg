SPECIFICATION FairSpec
CONSTANTS
    a = a
    b = b
    c1 = c1
    c2 = c2
    Cmd = {a, b}
    Config = {c1, c2}
    Fingerprint <- FingerprintOf
    MaxRequests = 2
    Timely = TRUE
INVARIANTS
    SingleHandler
    AppliedIsTrue
PROPERTIES
    AnsweredOnce
    RequestAnswered
CHECK_DEADLOCK FALSE
