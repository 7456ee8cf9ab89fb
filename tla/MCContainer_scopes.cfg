SPECIFICATION Spec
CONSTANTS
    Task <- MCTask
    Kinds <- MCKinds
    Event <- MCEvent
    EventType <- MCEventType
    Component <- MCComponent
    Reason <- MCReason
    Handler = {"h1"}
    Failure <- MCFailure
    MaxFaults = 1
    MaxCalls = 3
INVARIANTS
    RolledBackIsSilent
    HeardInOrder
    CommittedIsPublished
    OperatorHearsFirst
CHECK_DEADLOCK FALSE
