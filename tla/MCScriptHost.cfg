SPECIFICATION ScriptSpec
CHECK_DEADLOCK FALSE
CONSTANTS
    DcAddrs <- MeterAddrs
    DcIds <- MeterIds
    DcData <- MeterData
    DcNoise <- MeterNoise
    DcBytes = {0, 104, 255}
    DlPoints = 3
    DlRetries = 2
    DlLate = FALSE
    MbConfigs <- RegisterLists
    MbMaxGap = 2
    MbMaxBatch = 8
    MbChanges = 2
    McWide <- WideValues
    McSmall <- SmallValues
    McTexts <- Texts
    McCommands <- WriteLists
    CnPoints = {p1}
    CnFrames = 2
    CnConnects = 2
    EvKinds = {"mqtt", "zigbee", "ble", "http", "matter"}
    EvConnects = 4
    EvLosses = 2
    EvCommands = 2
    IeConfigs <- IoaLists
    IeIoas = {101, 102, 7}
    IeEvents = 2
    OuConfigs <- NodeLists
    OuNodes = {n1, n2}
    OuChanges = 2
    OuSessions = 2
    VfTargets = 2
    VfRetries = 1
    VfLate = FALSE
    GpIns = {1, 2}
    GpOuts = {11, 12}
    GpLow = {2, 12}
    GpSteps = 3
    MsLengths <- PduLengths
    MsNames = {1, 20, 40, 64}
    MsDatas = {3, 44}
    MsSizes = {1, 4, 9}
    MsOptions <- ReportOptions
    ImPoints = 2
    ImCtls = 1
    ImMembers <- DataSets
    ZbDevices = {1, 2}
    ZbMapped = {1}
    ZbFrames = 2
    MtBatch = 2
    MtReports = FALSE
    MtLate = FALSE
    MtWrites = 2
    MtWrap = 3
    JtCallers = {"poll", "hook"}
    JtDocs <- Documents
    JtRows <- MappingRows
    JtReadyId <- HostReadyId
    JtCalls = 2
    JtCrashes = 1
    JtRetries = 2
    MvKinds = {"mock", "tcp", "rtu"}
    MvConns = {a1}
    MvRequests <- Requests
    MvTotal = 2
    MvSplit = TRUE
    MvFaulty = TRUE
    SySlots = 2
    SyInsts = {i1, i2}
    SyMax = 2
    SyFiles = 2
    SyReroutes = 0
    SyPipe = 1
    SyCap = 1
    SyFull = 2
    WbKeys = {k1, k2}
    WbMaxKeys = 1
    WbWrites = 2
    SaTotal = 4
    SaOwners = {o1, o2, o3}
    SaSizes = {1, 2}
    SnChannels = 2
    SnConfigs <- PointCounts
    SnMax = 1
    SnStarts = 2
    SwPoints = {"a", "b"}
    SwLayouts <- SlotLayouts
    SwSlots = 2
    SwWrites = 1
    SwStarts = 2
    SwModStarts = 1
    SwSwaps = 1
    SwEdits = 1
    SwCap = 1
    RmKeys <- RedisKeys
    RmFields = {f1, f2}
    RmVals = {1, 2}
    RmMax = 2
    RmBounds <- ListBounds
    RmLoose = {}
    n1 = n1
    n2 = n2
INVARIANT JtStartedOnce
