SPECIFICATION Spec
CHECK_DEADLOCK FALSE
CONSTANTS
    MqTasks = {p1}
    MqSubs = 1
    MqCap = 2
    OpRows = 3
    OpBatchSize = 2
    AlRules = {r1}
    AlCalls = {c1}
    AlMaxAlerts = 2
    HiDbs = {d1}
    HiCalls = {c1}
    HiPoints = 2
    HiFaults = 0
    HqMax = 8
    CaConfigs = {f1, f2}
    CaServices = {s1}
    CaCalls = {c1, c2}
    CaVersions = 2
    CaCapacity = 2
    CaEdits = 1
    WsConns = {k1, k2}
    WsIds = {i1, i2}
    WsLimit = 1
    WsDepth = 1
    UgUploads = {u1, u2}
    UgRestarts = 0
    ArCalls = {c1}
    ArNames = {n1, n2}
    ArIds = 2
    ArEvents = 2
    ArRequests = 3
    ArSizes = {0, 1, 2}
    SsNames = {n1, n2}
    SsWords = {w1, w2}
    SsCalls = {c1, c2}
    SsUsers = 3
    SsPairs = 2
    SsChanges = 1
    SsRequests = 3
    RaBodies <- JsonBodies
    RaRequests = 1
    RaMaxRead = 2
    RaMaxShown = 4
    RaTexts <- Texts
    LfGateway = FALSE
    LfKinds = {"log"}
    LfMax = 1
    LfRetention = 2
    LfWrites = 2
    LfTicks = 3
    LfRestarts = 1
    LfDeletes = 1
    NfIps = {a1}
    NfHosts = {h1, h2}
    NfBits = 32
    NfLengths = {0, 24, 32}
    NfUpdates = 2
    CiIds = {i1}
    CiFiles = 3
    CiMaxFiles = 2
    LcChannels = {a1}
    LcMax = 1
    LcRuns = 2
    LcCalls = 1
    SmStarts <- OldDatabases
    SmCrashes = 3
    RmKeys <- RedisKeys
    RmFields = {f1, f2}
    RmVals = {1}
    RmMax = 1
    RmBounds <- ListBounds
    RmLoose = {"del", "scan", "blpop0", "hdel_many"}
INVARIANT CloudSound
INVARIANT GatewaySound
INVARIANT AlertsSound
 
 
PROPERTY NothingLost
