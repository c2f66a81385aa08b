SPECIFICATION Spec
CHECK_DEADLOCK FALSE
CONSTANTS
    SySlots = 2
    SyInsts = {i1, i2}
    SyMax = 1
    SyFiles = 2
    SyReroutes = 1
    SyPipe = 1
    SyCap = 1
    SyFull = 2
    WbKeys = {1, 2}
    WbMaxKeys = 1
    WbWrites = 1
    HiDbs = {d1}
    HiCalls = {c1}
    HiPoints = 1
    HiFaults = 1
    LcChannels = {a1}
    LcMax = 1
    LcRuns = 2
    LcCalls = 1
    SmStarts <- OldDatabases
    SmCrashes = 3
    RfDocs <- Flows
    RfPoints <- FlowPoints
    RfNumbers = {0, 1}
    RfMaxVisits = 4
    RfMoves = 0
    JtCallers = {"poll", "hook"}
    JtDocs <- Documents
    JtRows <- MappingRows
    JtReadyId = 0
    JtCalls = 2
    JtCrashes = 1
    JtRetries = 2
    DwCalls = {"c1", "c2"}
    DwIds = {1}
    DwVals = {1}
    DwTypes = {"C"}
    DwCap = 1
    DwBatch = 1
    DwRequests = 2
    DwTasks = 1
    DwFaults = 1
    UgUploads = {"u1"}
    UgRestarts = 1
    LfGateway = FALSE
    LfKinds = {"log"}
    LfMax = 1
    LfRetention = 1
    LfWrites = 1
    LfTicks = 4
    LfRestarts = 1
    LfDeletes = 1
    CnPoints = {p1}
    CnFrames = 2
    CnConnects = 1
    EvKinds = {"mqtt"}
    EvConnects = 3
    EvLosses = 2
    EvCommands = 2
    AlRules = {"r1"}
    AlCalls = {"c1"}
    AlMaxAlerts = 1
    OpRows = 2
    OpBatchSize = 2
    HqMax = 8
    ArCalls = {c1}
    ArNames = {n1, n2}
    ArIds = 2
    ArEvents = 2
    ArRequests = 3
    ArSizes = {0, 1, 2}
    RsIds = 2
    RsCalls = {c1, c2}
    RsPrints = {p1, p2}
    RsKeep = 1
    RsCascade = FALSE
    RsRows = 2
    RsEdits = 3
    CsPeriod = "quarterly"
    CsFirstDays = {180}
    CsDays = 1
    CsOddDays = {}
    CsValues = {0, 2}
    CsWindows = {0, 2}
    CsCalls = 3
    MqTasks = {p1}
    MqSubs = 1
    MqCap = 2
    AwCalls = {c1, c2}
    AwChannels = {t1}
    AwMax = 2
    AwReroutes = 1
    CaConfigs = {f1, f2}
    CaServices = {s1}
    CaCalls = {c1, c2}
    CaVersions = 2
    CaCapacity = 2
    CaEdits = 1
    CiIds = {i1}
    CiFiles = 3
    CiMaxFiles = 2
PROPERTY WorkCompletes
