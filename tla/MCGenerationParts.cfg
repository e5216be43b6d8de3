CONSTANTS
    Inventories <- MCInventories
    Endpoints <- MCEndpoints
    MaxApplies = 1
    MaxAttempts = 2
    MaxRequests = 1
    MaxStarts = 2
SPECIFICATION Spec
INVARIANTS ReleasedIsFree TunnelIsOwned EndIsReported PublishedIsActive EndpointIsVerified
PROPERTIES DevicesAreKept DeadPartEndsGeneration
CHECK_DEADLOCK FALSE
