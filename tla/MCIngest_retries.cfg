SPECIFICATION FairSpec
CONSTANTS
    Caller = {c1}
    Activity <- AllKinds
    ImportancePromote = 6
    MaxFailures = 1
    None = None
PROPERTIES
    RecordedEventsArePublished
