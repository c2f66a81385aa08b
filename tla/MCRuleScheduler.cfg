\* One point, three versions of the rules table, two requests that may overlap.
SPECIFICATION FairSpec
CONSTANTS
    p1 = p1
    p2 = p2
    Points = {p1}
    Values = {1, 2}
    NaN = NaN
    None = None
    Catalog <- Edited
    Requests = {q1, q2}
    EventCap = 1
    MaxSamples = 1
    MaxAge = 1
INVARIANTS
    
    RulesFollowDb
PROPERTIES
    StampsOwnRule
    MemorySettles
    ChangeEvaluatedByTick
