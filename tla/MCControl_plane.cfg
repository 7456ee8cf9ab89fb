SPECIFICATION Spec
CONSTANTS
    Dialect = {"postgresql", "sqlite", "mysql"}
    Worker = {w1, w2}
    Item <- Items
    Bundle <- Bundles
    QueueMax = 2
    MaxAttempts = 2
    MaxSyncs = 3
    MaxRecords = 3
    MaxUnknown = 2
    MaxCancels = 1
    MaxCrashes = 1
INVARIANTS
    StampedMatchesMetadata
    ReturnedIsMirrored
    AuditInOrder
    CloseFlushes
CHECK_DEADLOCK FALSE
