SPECIFICATION Spec
CONSTANTS
    Memory <- AllMemories
    Stm <- Windows
    Mtm <- Points
    Ltm <- Facts
    Old <- Paris
    New <- Rome
    Limits = {1, 5}
    Weight <- Equal
    RrfK = 60
    MaxRank = 4
    Scale <- Multiple
    MaxRecalls = 1
    None = None
INVARIANTS
    ConflictIsAnswered
    FloorIsKept
    
CHECK_DEADLOCK FALSE
