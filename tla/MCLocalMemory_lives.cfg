SPECIFICATION Spec
CONSTANTS
    Adder = {t1}
    Consolidator = {d1}
    Messages <- MessageLists
    Extract <- Statements
    Storages <- AnyStorage
    Functional <- FunctionalSlots
    CandidateK = 5
    Limit = 50
    FirstFactId = 10
    MaxRows = 3
    MaxPasses = 2
    MaxFailures = 1
    MaxLives = 2
    None = None
INVARIANTS
    SlotAlwaysAnswered
    RecalledIsCurrent
    StampIsJustified
    DuplicateNeedsRestart
    
CHECK_DEADLOCK FALSE
