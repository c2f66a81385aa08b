SPECIFICATION FairSpec
CONSTANTS
    Dispatchers = {d1}
    Layouts = {L1, L2, Empty}
    Empty = Empty
    MaxRetries = 1
    MaxFiles = 3
    MaxEdits = 1
INVARIANTS
    
    DroppedIsReopened
    StaleIsNoticed
PROPERTIES
    Reattaches
CHECK_DEADLOCK FALSE
