SPECIFICATION FairSpec
CONSTANTS
    Requests = {"r1", "r2"}
    Ops = {"create", "enable", "disable", "delete", "update", "respawn", "reload"}
INVARIANTS
    InSync
    RowGoverns
PROPERTIES
    DisplacedEnds
CHECK_DEADLOCK FALSE
