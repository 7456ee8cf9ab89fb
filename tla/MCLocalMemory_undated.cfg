SPECIFICATION Spec
CONSTANTS
    Adder = {t1}
    Consolidator = {d1}
    Messages <- OneMessage
    Extract <- Undated
    Storages <- ServersOnly
    Functional <- FunctionalSlots
    CandidateK = 5
    Limit = 50
    FirstFactId = 10
    MaxRows = 3
    MaxPasses = 2
    MaxFailures = 0
    MaxLives = 1
    None = None
INVARIANTS
    RecordedOrderDecides
CHECK_DEADLOCK FALSE
