SPECIFICATION Spec
CONSTANTS
    Keys = {"runtime", "device", "url", "mode", "service"}
    MaxSaves = 2
    MaxEdits = 1
INVARIANTS
    PendingIsHonest
    InPlaceIsSafe
CHECK_DEADLOCK FALSE
