SPECIFICATION Spec
CONSTANTS
    Task = {t1, t2}
    Item <- ThreeIds
    Limits = {0, 2}
    Backends = {"memory", "redis", "memcached"}
    Ttl = 2
    Cap = 2
    CasMax = 2
    MaxCalls = 3
    MaxNow = 2
    MaxFaults = 1
    None = None
SYMMETRY TaskSymmetry
INVARIANTS
    ContentionIsReal
PROPERTIES
    CapKeepsNewest
    ImplementsFloor
CHECK_DEADLOCK FALSE
