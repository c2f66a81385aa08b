SPECIFICATION ReachableSpec
CONSTANTS
    Commands = {"query"}
    QueueCap = 1
    MaxAttempts = 0
    MaxRounds = 0
    ZeroThreshold = 2
    SelfHealing = FALSE
    AttemptCap = 2
    MaxSends = 1
PROPERTIES
    AutoReconnect
CHECK_DEADLOCK FALSE
