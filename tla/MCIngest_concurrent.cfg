SPECIFICATION Spec
CONSTANTS
    Caller = {c1, c2}
    Activity <- SharedContent
    ImportancePromote = 6
    MaxFailures = 0
    None = None
SYMMETRY CallerSymmetry
INVARIANTS
    TypeOK
    RecordedIsDurable
    AnnouncedInOrder
    TiersAgree
    ReceiptIsBacked
