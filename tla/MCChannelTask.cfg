SPECIFICATION ReachableSpec
CONSTANTS
    Commands = {"connect", "disconnect", "query"}
    QueueCap = 2
    MaxAttempts = 2
    MaxRounds = 1
    ZeroThreshold = 2
    SelfHealing = TRUE
    AttemptCap = 2
    MaxSends = 3
INVARIANTS
    AttemptsBounded
    NoGhostOnline
PROPERTIES
    RemovalEnds
    OnlineCatchesUp
    ReconnectsUnlessFrozen
CHECK_DEADLOCK FALSE
