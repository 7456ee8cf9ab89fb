SPECIFICATION FairSpec
CONSTANTS
    Distiller = {d1, d2}
    Windows <- MixedWindows
    Functional <- FunctionalSlots
    CandidateK = 5
    FirstFactId = 10
    MaxPasses = 3
    MaxCancels = 1
    None = None
INVARIANTS
    TypeOK
    OneActivePerSlot
    IntervalsWellFormed
    SupersedeReachesAll
    
PROPERTIES
    PassesEnd
CHECK_DEADLOCK FALSE
