---------------------------- MODULE MCField ----------------------------
(* The drivers of the field protocols, their codecs, the shared memory around them and the    *)
(* stores they feed, model-checked side by side. Each behaviour runs one of the components,   *)
(* the one that focus names, under its own bounds; the components share no variables.         *)
EXTENDS WireFormats, PolledChannels, EventChannels, Telecontrol, ModbusServers, RedisSync,
        WriteBuffer, SharedMemory, RtdbMemory

CONSTANTS n1, n2

\* Dl645Codec: addresses, data identifiers and data with the bytes that frames are made of
\* (16H, 33H, 68H) and with carries of the 33H offset.
MeterAddrs == {<<18, 52, 86, 120, 144, 18>>, <<104, 0, 22, 104, 0, 1>>}
MeterIds == {<<0, 1, 1, 2>>, <<53, 0, 0, 53>>}
MeterData == {<<>>, <<153, 137, 86, 18>>, <<0, 0, 128, 147>>, <<53, 34, 145, 0>>}
MeterNoise == {<<>>, <<254, 254, 254, 254>>, <<0, 104, 1>>}
MeterRest ==
    [addr |-> <<18, 52, 86, 120, 144, 18>>, di |-> <<0, 1, 1, 2>>, data |-> <<>>, noise |-> <<>>,
     at |-> 0, byte |-> 0]

\* ModbusPoll: lists with gaps, a batch at its limit, two functions, and the last register.
Register(f, x, c) == [fc |-> f, a |-> x, n |-> c]
RegisterLists ==
    {<<Register(3, 10, 2), Register(3, 0, 1), Register(3, 1, 4)>>,
     <<Register(3, 65534, 1), Register(3, 65535, 1), Register(1, 0, 1)>>,
     <<Register(4, 0, 2), Register(3, 0, 2), Register(3, 0, 1), Register(3, 5, 1)>>,
     <<Register(3, 0, 4), Register(3, 4, 4), Register(3, 8, 1)>>}

\* ModbusCodec: 32 and 64 bit values, 16 bit values around both ends of their range, texts
\* with an embedded NUL, and write lists with adjacent, equal and wrapping registers.
WideValues ==
    {<<1, 2, 3, 4>>, <<255, 0, 128, 7>>, <<1, 2, 3, 4, 5, 6, 7, 8>>,
     <<0, 0, 255, 255, 1, 0, 9, 128>>}
SmallValues ==
    {-40000, -32769, -32768, -1, 0, 1, 255, 256, 32767, 32768, 65535, 65536, 70000}
Texts == {<<>>, <<65>>, <<65, 66>>, <<65, 66, 67>>, <<65, 0, 66>>}
Write == [a : {0, 1, 2, 65535}, v : {<<1, 2>>, <<3, 4, 5, 6>>}, ok : BOOLEAN]
WriteLists ==
    {<<x>> : x \in Write} \cup {<<x, y>> : x \in Write, y \in Write}
    \cup {<<x, [a |-> 2, v |-> <<7, 8>>, ok |-> TRUE], y>> : x \in Write, y \in Write}

\* Iec104Channel: distinct point ids, the same id in every type, and two points of one address.
Ioa(i, t, o) == [id |-> i, type |-> t, ioa |-> o]
IoaLists ==
    {<<Ioa(1, "T", 101), Ioa(2, "S", 102), Ioa(3, "C", 103), Ioa(4, "A", 104)>>,
     <<Ioa(1, "T", 101), Ioa(1, "S", 102), Ioa(1, "C", 103), Ioa(1, "A", 104)>>,
     <<Ioa(7, "T", 101), Ioa(8, "T", 101), Ioa(9, "C", 7)>>}

\* OpcUaChannel: distinct points, the same id in two types, and two points of one node.
Node(i, t, o) == [id |-> i, type |-> t, node |-> o]
NodeLists ==
    {<<Node(1, "T", n1), Node(2, "S", n2)>>, <<Node(1, "T", n1), Node(1, "A", n2)>>,
     <<Node(1, "T", n1), Node(2, "T", n1)>>}

\* Iec61850Codec: PDU lengths on both sides of each change of the BER length form, and optional
\* fields of a report alone and together.
PduLengths == {0, 1, 100, 110, 111, 112, 113, 118, 119, 120, 127, 128, 236, 240, 255, 256, 300}
ReportOptions == {{}, {1, 2, 4}, {1, 5, 9}, {1, 2, 4, 5, 6, 7, 8, 9}}

\* Iec61850Channel: one data set with the first of the points.
DataSets == <<{1}>>

\* JsonTransform: a script that yields points, one that raises, and a body that is no JSON.
Document(x) == [json |-> TRUE, does |-> x, fields |-> ("f" :> "digits" @@ "g" :> "null")]
Documents ==
    <<Document("points"), Document("raises"), [json |-> FALSE, does |-> "points", fields |-> <<>>]>>
MappingRows ==
    {[point |-> 1, field |-> "f", type |-> "float", sound |-> TRUE],
     [point |-> 2, field |-> "g", type |-> "int", sound |-> TRUE]}

\* ModbusServers: reads and writes of nine coils (a partial last byte) and of two registers, at
\* the start, in the middle and across the end of the table; no quantity; an unknown function.
Request(f, u, x, q, vs) == [fc |-> f, unit |-> u, addr |-> x, qty |-> q, vals |-> vs]
NineCoils == <<1, 0, 1, 1, 0, 0, 0, 1, 1>>
Requests ==
    {Request(15, 1, 0, 9, NineCoils), Request(1, 1, 0, 9, <<>>), Request(16, 2, 7, 2, <<513, 65534>>),
     Request(3, 2, 7, 2, <<>>), Request(1, 1, 65530, 9, <<>>), Request(15, 1, 65530, 9, NineCoils),
     Request(2, 2, 0, 0, <<>>), Request(5, 1, 0, 1, <<65280>>), Request(5, 1, 0, 1, <<0>>),
     Request(16, 2, 65535, 2, <<513, 65534>>), Request(3, 2, 65535, 2, <<>>),
     Request(4, 2, 65535, 2, <<>>), Request(6, 2, 0, 1, <<7>>), Request(7, 1, 0, 1, <<>>)}

\* ShmSnapshot: of two channels the numbers of T, S, C and A points.
PointCounts ==
    {<<<<1, 0, 1, 0>>, <<1, 0, 0, 0>>>>, <<<<0, 1, 0, 1>>, <<1, 0, 0, 0>>>>,
     <<<<0, 0, 1, 0>>, <<0, 1, 1, 1>>>>}

\* ShmWatch: two layouts that put different points in the first slot.
SlotLayouts == {("a" :> 1 @@ "b" :> 2), ("b" :> 1)}

\* RtdbMemory: one key of one type at a time, and list indices counted from either end.
RedisKeys ==
    {<<{"s"}, {}, {}, {}>>, <<{}, {"h"}, {}, {}>>, <<{}, {}, {"l"}, {}>>, <<{}, {}, {}, {"m"}>>,
     <<{}, {}, {}, {}>>}
ListBounds == {-3, -1, 0, 1, 3}

-----------------------------------------------------------------------------
\* the component that runs; the others rest in one of their initial states
VARIABLE focus

Components ==
    {"Dl645Codec", "Dl645Poll", "ModbusPoll", "ModbusCodec", "CanChannel", "EventAdapters",
     "Iec104Channel", "OpcUaChannel", "Voltage485", "GpioChannel", "Iec61850Codec",
     "Iec61850Channel", "ZigbeeStream", "MatterChannel", "JsonTransform", "ModbusServers",
     "RedisSync", "WriteBuffer", "SlotAllocator", "ShmSnapshot", "ShmWatch", "RtdbMemory"}

Init ==
    /\ focus \in Components
    /\ IF focus = "Dl645Codec" THEN DcInit ELSE dcCase = MeterRest
    /\ DlInit
    /\ MbInit /\ (focus = "ModbusPoll" \/ mbCfg = CHOOSE c \in MbConfigs : TRUE)
    /\ IF focus = "ModbusCodec" THEN McInit ELSE mcCase = [kind |-> "text", s |-> <<>>]
    /\ CnInit
    /\ EvInit /\ (focus = "EventAdapters" \/ evKind = "mqtt")
    /\ IeInit /\ (focus = "Iec104Channel" \/ iePoints = CHOOSE c \in IeConfigs : TRUE)
    /\ OuInit /\ (focus = "OpcUaChannel" \/ ouPoints = CHOOSE c \in OuConfigs : TRUE)
    /\ VfInit /\ (focus = "Voltage485" \/ vfEcho = FALSE)
    /\ GpInit
    /\ IF focus = "Iec61850Codec" THEN MsInit ELSE msCase = [kind |-> "frame", n |-> 0, cut |-> 0]
    /\ ImInit
    /\ ZbInit /\ (focus = "ZigbeeStream" \/ zbSent = [i \in 1..ZbFrames |-> CHOOSE f \in ZbSendable : TRUE])
    /\ MtInit
    /\ JtInit /\ (focus = "JsonTransform" \/ jtScripted = FALSE)
    /\ MvInit /\ (focus = "ModbusServers" \/ mvKind = CHOOSE k \in MvKinds : TRUE)
    /\ SyInit /\ (focus = "RedisSync" \/ syRoute = CHOOSE r \in SyRoutes : TRUE)
    /\ WbInit
    /\ SaInit
    /\ SnInit /\ (focus = "ShmSnapshot" \/ snDb = CHOOSE c \in SnConfigs : TRUE)
    /\ SwInit /\ (focus = "ShmWatch" \/ swDb = CHOOSE l \in SwLayouts : TRUE)
    /\ RmInit /\ (focus = "RtdbMemory" \/ <<rmStr, rmHash, rmList, rmSet>> = <<<<>>, <<>>, <<>>, <<>>>>)

Step ==
    \/ focus = "Dl645Codec" /\ DcNext
    \/ focus = "Dl645Poll" /\ DlNext
    \/ focus = "ModbusPoll" /\ MbNext
    \/ focus = "ModbusCodec" /\ McNext
    \/ focus = "CanChannel" /\ CnNext
    \/ focus = "EventAdapters" /\ EvNext
    \/ focus = "Iec104Channel" /\ IeNext
    \/ focus = "OpcUaChannel" /\ OuNext
    \/ focus = "Voltage485" /\ VfNext
    \/ focus = "GpioChannel" /\ GpNext
    \/ focus = "Iec61850Codec" /\ MsNext
    \/ focus = "Iec61850Channel" /\ ImNext
    \/ focus = "ZigbeeStream" /\ ZbNext
    \/ focus = "MatterChannel" /\ MtNext
    \/ focus = "JsonTransform" /\ JtNext
    \/ focus = "ModbusServers" /\ MvNext
    \/ focus = "RedisSync" /\ SyNext
    \/ focus = "WriteBuffer" /\ WbNext
    \/ focus = "SlotAllocator" /\ SaNext
    \/ focus = "ShmSnapshot" /\ SnNextStep
    \/ focus = "ShmWatch" /\ SwNext
    \/ focus = "RtdbMemory" /\ RmNextStep

Others ==
    /\ IF focus = "Dl645Codec" THEN TRUE ELSE UNCHANGED dcCase
    /\ IF focus = "Dl645Poll" THEN TRUE ELSE UNCHANGED dlVars
    /\ IF focus = "ModbusPoll" THEN TRUE ELSE UNCHANGED mbVars
    /\ IF focus = "ModbusCodec" THEN TRUE ELSE UNCHANGED mcCase
    /\ IF focus = "CanChannel" THEN TRUE ELSE UNCHANGED cnVars
    /\ IF focus = "EventAdapters" THEN TRUE ELSE UNCHANGED evVars
    /\ IF focus = "Iec104Channel" THEN TRUE ELSE UNCHANGED ieVars
    /\ IF focus = "OpcUaChannel" THEN TRUE ELSE UNCHANGED ouVars
    /\ IF focus = "Voltage485" THEN TRUE ELSE UNCHANGED vfVars
    /\ IF focus = "GpioChannel" THEN TRUE ELSE UNCHANGED gpVars
    /\ IF focus = "Iec61850Codec" THEN TRUE ELSE UNCHANGED msCase
    /\ IF focus = "Iec61850Channel" THEN TRUE ELSE UNCHANGED imVars
    /\ IF focus = "ZigbeeStream" THEN TRUE ELSE UNCHANGED zbVars
    /\ IF focus = "MatterChannel" THEN TRUE ELSE UNCHANGED mtVars
    /\ IF focus = "JsonTransform" THEN TRUE ELSE UNCHANGED jtVars
    /\ IF focus = "ModbusServers" THEN TRUE ELSE UNCHANGED mvVars
    /\ IF focus = "RedisSync" THEN TRUE ELSE UNCHANGED syVars
    /\ IF focus = "WriteBuffer" THEN TRUE ELSE UNCHANGED wbVars
    /\ IF focus = "SlotAllocator" THEN TRUE ELSE UNCHANGED saVars
    /\ IF focus = "ShmSnapshot" THEN TRUE ELSE UNCHANGED snVars
    /\ IF focus = "ShmWatch" THEN TRUE ELSE UNCHANGED swVars
    /\ IF focus = "RtdbMemory" THEN TRUE ELSE UNCHANGED rmVars

Next == Step /\ Others /\ UNCHANGED focus

vars == <<focus, dcCase, dlVars, mbVars, mcCase, cnVars, evVars, ieVars, ouVars, vfVars, gpVars,
        msCase, imVars, zbVars, mtVars, jtVars, mvVars, syVars, wbVars, saVars, snVars, swVars,
        rmVars>>

Spec == Init /\ [][Next]_vars

\* The type invariants of the components.
FieldTypes ==
    /\ focus \in Components
    /\ DlTypeOK
    /\ MbTypeOK
    /\ CnTypeOK
    /\ EvTypeOK
    /\ IeTypeOK
    /\ OuTypeOK
    /\ VfTypeOK
    /\ GpTypeOK
    /\ ImTypeOK
    /\ MtTypeOK
    /\ JtTypeOK
    /\ SyTypeOK
    /\ WbTypeOK
    /\ SaTypeOK
    /\ SnTypeOK
    /\ SwTypeOK

\* A reading is stored under the point it was read for, whatever is late, damaged, echoed,
\* restarted or renumbered in between, in one piece and with the time of its own frame; and a
\* command reaches the object it names.
OwnReadings ==
    /\ DlOwnAnswer /\ VfOwnAnswer /\ ImOwnAnswer /\ IeOwnReading /\ IeOwnCommand
    /\ OuSubOfSession /\ OuOwnReading /\ MbNotTorn /\ CnStamped /\ SnOwnReadings
    /\ SwOwnReading

\* What one end writes the other reads: frames, numbers, reports and merged writes come back as
\* they were, with noise in front and in pieces of any size, and a damaged frame is not taken for
\* a whole one.
WireReadsBack ==
    /\ DcReadsBack /\ DcNoiseHarmless /\ DcNumbers /\ McReadsBack /\ McMergeSame
    /\ MsRequestRead /\ MsFrameReadsBack /\ MsReportRead /\ MtReadsBack /\ ZbIntactOnly

\* The bookkeeping of drivers and stores is sound: every point is asked and answered for, no loop
\* or subprocess is left behind, an output follows its command, counters and injected faults are
\* exact, the pool of slots is exactly partitioned, no two points share a line of the snapshot,
\* and every variable keeps its type. And no step puts an older value in the place of a newer one
\* in the exported CAN points; an answer, a feedback and a register read are those of the
\* request; and a file is only opened whole.
FieldSound ==
    /\ [](/\ FieldTypes /\ DlAllTold /\ MbSegmentsComplete /\ ImCovered /\ EvNoOrphanLoop
          /\ JtStartedOnce /\ GpDrivesCommand /\ MtCountTrue /\ MvInjectedExactly /\ SaExact
          /\ SaFindsRoom /\ SnLinesApart)
    /\ CnNoRollback /\ GpFeedback /\ JtOwnAnswer /\ MvReadsBack /\ SwOpensAligned

\* The script host of the repository (libs/voltage-script-host/main.py) announces itself with
\* this id; the script runner alone, before that host.
HostReadyId == -1
ScriptSpec == focus = "JsonTransform" /\ Init /\ [][Next]_vars
=============================================================================
