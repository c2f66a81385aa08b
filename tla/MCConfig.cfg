SPECIFICATION Spec
CHECK_DEADLOCK FALSE
CONSTANTS
    InIds = {1, 2}
    InNames = {n1, n2}
    InCalls = {c1, c2}
    InBound = 2
    IrPoints = {m1, a1}
    IrKind <- PointKinds
    IrChans = {t1, k1, k2}
    IrType <- ChannelTypes
    IrOwner <- PointOwners
    IrCalls = {c1, c2}
    IrBound = 2
    CcPoints <- RoutedPoints
    CcForeign = {3}
    CcDepth = 1
    CcChans = {a1, a2}
    CcInsts = {b1, b2}
    AwCalls = {c1, c2}
    AwChannels = {t1}
    AwMax = 2
    AwReroutes = 1
    PtChans = {1, 2}
    PtMaxId = 2
    PtFields = {f1, f2}
    PtConns = {k1, k2}
    PtCalls = {c1, c2}
    PtBound = 2
    CfChans = {1, 2}
    CfNames = {11, 12}
    CfIds = {1, 2}
    CfRules = {"r1"}
    CfDirs <- Directories
    CfSame = 2
    CfEdits = 2
    RfDocs <- Flows
    RfPoints <- FlowPoints
    RfNumbers = {0, 1}
    RfMaxVisits = 5
    RfMoves = 1
    CsPeriod = "quarterly"
    CsFirstDays = {180}
    CsDays = 1
    CsOddDays = {}
    CsValues = {0, 2}
    CsWindows = {0, 2}
    CsCalls = 3
    RsIds = 2
    RsCalls = {c1, c2}
    RsPrints = {p1, p2}
    RsKeep = 1
    RsCascade = FALSE
    RsRows = 2
    RsEdits = 3
    ToProducts <- Products
    ToFlows <- Drawings
    ToIds = {1, 2, 3}
    ToRoutes <- InstanceRoutes
    ToCalls = {c1, c2}
    ToEdits = 4
    IvInstances = {i1, i2}
    IvIds = {1, 2}
    IvNames = {"a", "b"}
    IvTemplates <- PropertyTemplates
    IvPoints = {1}
    IvValues = {1, 2}
    IvEdits = 3
    LgDays = 2
    LgEvents = 2
    LgFaults = 1
    LgChanges = 1
    KvChannelSet <- ChannelEntries
    KvMaxChannels = 2
    KvPorts = {0, 80, 6001}
    DfDrivers <- Drivers
    DfPaths = {"gateway", "manager"}
    CbProtos = {"virtual", "modbus_tcp", "gpio", "can", "voltage_485", "iec61850", "grpc"}
    CbTables <- PointTables
    CbBits = {"b"}
    CbCells = {"b", "w"}
    CbWrites = 1
    MkProtos = {"modbus_tcp", "gpio", "iec61850"}
    MkObjects <- SentMappings
    MkImported <- StoredMappings
    MkUpdates = 2
    VwChans = {1, 2}
    VwFresh = 2
    VwGrace = 1
    VwClock = 2
    VwSets = {0, 1}
    VwSizes = {0, 1, 2, 200}
    DwCalls = {c1, c2}
    DwIds = {0, 1}
    DwVals = {1, 2}
    DwTypes = {"C"}
    DwCap = 1
    DwBatch = 1
    DwRequests = 2
    DwTasks = 1
    DwFaults = 1
    PaProtocols = {"modbus", "iec104", "opcua", "can", "virtual", "gpio", "dl645", "ble", "zigbee", "matter"}
    PaParts <- AddressParts
    PaMaxParts = 3
    m1 = m1
    a1 = a1
    t1 = t1
    k1 = k1
    k2 = k2
INVARIANT AnswersTrue
INVARIANT TransferComplete
 
PROPERTY ConfigSound
