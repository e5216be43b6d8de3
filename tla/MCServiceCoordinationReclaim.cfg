SPECIFICATION Spec
CONSTANTS
    a = a
    b = b
    c1 = c1
    c2 = c2
    Cmd = {a, b}
    Config = {c1, c2}
    Fingerprint <- FingerprintOf
    MaxRequests = 1
    Timely = TRUE
INVARIANTS
    HandlerIsAlone
CHECK_DEADLOCK FALSE
