SPECIFICATION Spec
CONSTANTS
    Caller = {c1, c2}
    Catalog <- Catalogs
    Override = {"", "big"}
    Request <- Requests
    Headroom = 1
    DefaultWindow = 4
    MaxCalls = 1
    MaxFailures = 1
    MaxClears = 1
INVARIANTS
    OneInstancePerKey
    FailureIsAnnounced
    
SYMMETRY CallerSymmetry
CHECK_DEADLOCK FALSE
