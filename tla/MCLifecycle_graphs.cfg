SPECIFICATION FairSpec
CONSTANTS
    Component <- ThreeComponents
    MaxStarts = 2
    MaxErrors = 1
PROPERTIES
    ClosedAfterDependents
    
CHECK_DEADLOCK FALSE
