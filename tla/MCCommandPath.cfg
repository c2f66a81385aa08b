SPECIFICATION FairSpec
CONSTANTS
    Dispatchers = {d1, d2}
    NotFinite = {2}
    QueueCap = 1
    Workers = 2
    MaxCommands = 3
    MaxConns = 2
    MaxStarts = 2
INVARIANTS
    DeviceMatchesSlot
PROPERTIES
    InOrder
    DeliveredSettles
    SendReturns
CHECK_DEADLOCK FALSE
