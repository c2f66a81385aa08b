SPECIFICATION Spec
CONSTANTS
    Writers = {w1}
    Readers = {r1}
    SeqMod = 6
    MaxRetries = 2
    MaxSets = 6
    None = None
INVARIANTS
    NoTornRead
PROPERTIES
    RegisterSpec
CHECK_DEADLOCK FALSE
