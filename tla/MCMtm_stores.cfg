SPECIFICATION Spec
CONSTANTS
    Backends <- AllBackends
    Id = {1, 2}
    Layouts <- TwoLayouts
    AuthorizedIds <- Auth
    SharedNs = {"team"}
    Queries <- AllQueries
    Anyone = Anyone
    Limit = 1
    MinWiden = 2
    Caller = {c1, c2}
    MaxCalls = 3
    MaxAbandoned = 1
    MaxCrashes = 1
INVARIANTS
    
    
    IndexCoversDocstore

    
SYMMETRY CallerSymmetry
CHECK_DEADLOCK FALSE
