---------------------------- MODULE MCConfig ----------------------------
(* Configuration, instances, routing and rules: what the APIs of comsrv and modsrv and the    *)
(* monarch tool store, load and show. Each behaviour runs one of the components, the one that *)
(* focus names, under its own bounds; the components share no variables.                      *)
EXTENDS Instances, Routing, ActionPath, ChannelApi, ConfigFiles, Rules, ChannelSetup,
        MCMappingCheck

CONSTANTS m1, a1, t1, k1, k2

\* InstanceRouting: a measurement and an action point of one instance; a T, a C and an A point.
PointKinds == (m1 :> "M") @@ (a1 :> "A")
ChannelTypes == (t1 :> "T") @@ (k1 :> "C") @@ (k2 :> "A")
PointOwners == (m1 :> 1) @@ (a1 :> 1)

\* C2cRouting: two channels, one of them with two points.
RoutedPoints == {<<1, 1>>, <<1, 2>>, <<3, 1>>}

\* ConfigFiles: no files, a channel with a routed tree of instances, and a directory that
\* renumbers and reroutes what the other one named.
TreeDirectory ==
    [chan |-> {1}, pt |-> {1},
     inst |-> <<[id |-> 1, name |-> 11, par |-> 0], [id |-> 2, name |-> 12, par |-> 1]>>,
     route |-> 11 :> 1, prop |-> {11}, rule |-> {"r1"}]
OtherDirectory ==
    [chan |-> {1, 2}, pt |-> {2}, inst |-> <<[id |-> 0, name |-> 12, par |-> 0]>>,
     route |-> 12 :> 2, prop |-> {}, rule |-> {}]
Directories == {CfEmptyDir, TreeDirectory, OtherDirectory}

\* RuleFlow: the nodes of a saved flow.
FlowNode(id, type, inner, vars, rule, wires) ==
    [id |-> id, type |-> type, inner |-> inner, config |-> TRUE, period |-> "daily", vars |-> vars,
     rule |-> rule, wires |-> wires]
Var(name, kind, k) == [name |-> name, point |-> <<kind, k>>, formula |-> <<>>]
Formula(name, names) == [name |-> name, point |-> <<>>, formula |-> names]
Cond(rel, v, op, n) == [rel |-> rel, var |-> v, op |-> op, val |-> n]
Branch(conds, to) == [conds |-> conds, to |-> to]
Sum(out, terms) == [out |-> out, terms |-> terms]
Change(v, lit, from) == [var |-> v, lit |-> lit, from |-> from]
StartAt(w) == FlowNode(1, "start", "", <<>>, <<>>, w)
EndAt(i) == FlowNode(i, "end", "", <<>>, <<>>, <<>>)
Switch(i, vars, rule) == FlowNode(i, "custom", "function-switch", vars, rule, <<>>)
Calculation(i, vars, rule, w) == FlowNode(i, "custom", "action-calculation", vars, rule, w)
X == Var("x", "M", 1)
\* A flow with every kind of node, two branches, a loop and a wire to a missing node.
FullFlow ==
    <<StartAt(<<2, 3>>),
      Switch(2, <<X>>, <<Branch(<<Cond("&&", "x", ">", 0)>>, <<4>>),
                         Branch(<<Cond("&&", "x", "<=", 0), Cond("||", "x", "==", 1)>>, <<3, 9>>)>>),
      Calculation(3, <<X, Var("y", "A", 1)>>, <<Sum("y", <<"x", "x">>), Sum("z", <<"x">>)>>, <<4, 2>>),
      FlowNode(4, "custom", "action-changeValue", <<Var("y", "A", 1), X>>,
               <<Change("y", 0, "x"), Change("q", 1, ""), Change("x", 1, "")>>, <<5>>),
      EndAt(5), FlowNode(7, "note", "", <<>>, <<>>, <<>>)>>
\* A calculation over a name nobody set, and a switch without branches.
BrokenSum ==
    <<StartAt(<<2>>), Calculation(2, <<X>>, <<Sum("x", <<"x", "x">>), Sum("w", <<"nope">>)>>, <<3>>),
      Switch(3, <<X>>, <<>>)>>
\* A switch over what an earlier calculation left, and over a formula.
Chained ==
    <<StartAt(<<2, 3>>), Calculation(2, <<X>>, <<Sum("k", <<"x">>), Sum("w", <<"nope">>)>>, <<3>>),
      Switch(3, <<X>>, <<Branch(<<Cond("&&", "k", ">", 0)>>, <<4>>),
                         Branch(<<Cond("&&", "x", ">", 0)>>, <<5>>)>>),
      Switch(4, <<X, Formula("s", <<"x", "x">>)>>, <<Branch(<<Cond("&&", "s", ">", 0)>>, <<5>>)>>),
      EndAt(5)>>
\* A period delta in a loop, and an action without its configuration.
PeriodLoop ==
    <<StartAt(<<2>>),
      [FlowNode(2, "custom", "action-periodDelta", <<X, Var("d", "M", 2)>>, <<>>, <<3>>)
         EXCEPT !.period = "weekly"],
      Switch(3, <<Var("d", "M", 2)>>, <<Branch(<<Cond("&&", "d", "!=", 1)>>, <<2, 4>>)>>),
      [FlowNode(4, "custom", "action-changeValue", <<>>, <<>>, <<8>>) EXCEPT !.config = FALSE]>>
\* No start node; a start that leads nowhere; a variable without a point.
NoStart == <<EndAt(1), [Switch(2, <<>>, <<>>) EXCEPT !.config = FALSE]>>
BareStart == <<StartAt(<<>>)>>
Pointless == <<StartAt(<<2>>), Switch(2, <<[name |-> "u", point |-> <<>>, formula |-> <<>>]>>, <<>>)>>
\* Two switches that send the walk to each other.
PingPong ==
    <<StartAt(<<2, 3>>), Switch(2, <<X>>, <<Branch(<<Cond("&&", "x", ">", 0)>>, <<4>>)>>),
      Calculation(3, <<X>>, <<Sum("k", <<"x">>)>>, <<4, 6>>),
      Switch(4, <<X>>, <<Branch(<<Cond("&&", "k", ">", 0)>>, <<6>>)>>),
      Switch(6, <<>>, <<Branch(<<Cond("&&", "k", "==", 1)>>, <<4>>)>>)>>
Flows == {FullFlow, BrokenSum, Chained, PeriodLoop, NoStart, BareStart, Pointless, PingPong}
FlowPoints == {<<"M", 1>>, <<"M", 2>>, <<"A", 1>>}
RestingFlow ==
    /\ rfFlow = RfExtract(BareStart) /\ rfPoint = [p \in RfPoints |-> 0]
    /\ rfLeft = RfMoves /\ rfRun = RfFreshRun(rfFlow)

\* Topology: a product that needs one bus, and a bus with two kinds of ports; drawings with
\* double nodes, double instances, loops and double edges.
Products ==
    [Pv |-> <<[peers |-> {"Bus"}, min |-> 1, max |-> 1]>>,
     Bus |-> <<[peers |-> {"Pv"}, min |-> 0, max |-> 2], [peers |-> {"Pv", "Bus"}, min |-> 0, max |-> 1]>>]
Drawn(id, p, i) == [id |-> id, product |-> p, inst |-> i]
Edge(id, s, t) == [id |-> id, source |-> s, target |-> t]
DrawnNodes ==
    {<<>>, <<Drawn("a", "Pv", 1)>>, <<Drawn("a", "Bus", 1)>>,
     <<Drawn("a", "Pv", 1), Drawn("b", "Bus", 2)>>, <<Drawn("a", "Bus", 1), Drawn("b", "Bus", 2)>>,
     <<Drawn("a", "Pv", 1), Drawn("a", "Bus", 2)>>, <<Drawn("a", "Pv", 1), Drawn("b", "Bus", 1)>>}
DrawnEdges ==
    {<<>>, <<Edge("x", "a", "b")>>, <<Edge("x", "a", "b"), Edge("y", "b", "a")>>,
     <<Edge("x", "a", "a")>>, <<Edge("x", "b", "a")>>}
Drawings == [nodes : DrawnNodes, edges : DrawnEdges, fixed : {<<>>, <<2>>, <<3>>}]
InstanceRoutes == {<<1, 11>>, <<2, 11>>, <<2, 12>>}

\* InstanceValues: templates that give a property another id, or none.
PropertyTemplates == {<<"a", "b">>, <<"b">>, (2 :> "a")}

\* ConfigValidation: channel entries with double ids and names, without a name or a protocol,
\* with an unknown protocol and with missing parameters.
Entry(i, n, p, q) == [id |-> i, name |-> n, proto |-> p, params |-> q]
ChannelEntries ==
    {Entry(1, "a", "modbus_tcp", {"host", "port"}), Entry(1, "b", "modbus_tcp", {"host"}),
     Entry(2, "a", "modbus_rtu", {"device", "baud_rate"}), Entry(2, "", "virtual", {}),
     Entry(3, "c", "grpc", {}), Entry(3, "d", "", {}), Entry(4, "b", "can", {})}
PlainFiles == [t \in {"global", "comsrv", "modsrv"} |-> [KvPlain EXCEPT !.channels = <<>>]]

\* DriverForms: the drivers with a form on both paths.
Drivers == 
    {"gpiod", "modbus_tcp", "sunspec_rtu", "iec104", "iec61850", "can", "ble", "zigbee", "matter",
     "dl645", "voltage_485"}
GpioCase == [driver |-> "gpiod", path |-> "gateway", given |-> DfRequired("gpiod")]

\* ChannelBuild: points of every type, scaled, shifted and reversed, and a fifth point that may
\* have no mapping, a bad one, or the cell of another one.
PointRow(t, i, m, s, o, r) == [type |-> t, id |-> i, map |-> m, scale |-> s, off |-> o, rev |-> r]
PointTables ==
    {{PointRow("T", 1, "w", s, 1, FALSE), PointRow("A", 1, "w", s, 1, FALSE),
      PointRow("S", 1, "b", 1, 0, r), PointRow("C", 1, "b", 1, 0, r), PointRow(t, 2, m, 1, 0, FALSE)} :
        s \in {1, 2}, r \in BOOLEAN, t \in {"T", "S", "C", "A"}, m \in {"none", "bad", "b"}}
RestingBuild ==
    /\ cbProto = "virtual" /\ cbRows = {} /\ cbPhase = "new" /\ cbDriver = {} /\ cbStore = {}
    /\ cbDevice = [c \in CbCells |-> 0] /\ cbBuffer = <<>> /\ cbSeen = <<>> /\ cbLast = {} /\ cbLeft = 0

\* PointAddress: a small and a large number, a hexadecimal one, a word, a namespace, an identifier.
AddressParts == {PaDec(0), PaDec(300), PaHex(1), PaWord("out"), PaNs(1), PaId("a")}
OneWord == [protocol |-> "gpio", sep |-> ":", parts |-> <<PaWord("out")>>, notify |-> FALSE]

-----------------------------------------------------------------------------
\* the component that runs; the others rest in one of their initial states
VARIABLE focus

Components ==
    {"Instances", "InstanceRouting", "C2cRouting", "ActionWrite", "ChannelPoints",
     "ConfigFiles", "RuleFlow", "CalcState", "RuleStore", "Topology", "InstanceValues",
     "ChannelLog", "ConfigValidation", "DriverForms", "ChannelBuild", "MappingCheck",
     "ChannelViews", "DirectWrite", "PointAddress"}

Init ==
    /\ focus \in Components
    /\ InInit /\ (focus = "Instances" \/ inDb = <<>>)
    /\ IrInit /\ (focus = "InstanceRouting" \/ irInst = {})
    /\ IF focus = "C2cRouting" THEN CcInit ELSE ccIn = CcNoBatch /\ ccRows = <<>>
    /\ AwInit /\ (focus = "ActionWrite" \/ awRow = AwNone)
    /\ PtInit /\ (focus = "ChannelPoints" \/ ptChan = {1})
    /\ CfInit /\ (focus = "ConfigFiles" \/ cfFile = CfEmptyDir)
    /\ IF focus = "RuleFlow" THEN RfInit ELSE RestingFlow
    /\ CsInit /\ (focus = "CalcState" \/ csUse = "formula")
    /\ RsInit
    /\ ToInit /\ (focus = "Topology" \/ toInst = <<>>)
    /\ IvInit /\ (focus = "InstanceValues" \/ ivTemplate = <<"b">>)
    /\ LgInit /\ (focus = "ChannelLog" \/ lgStored = [enabled |-> TRUE, level |-> "debug"])
    /\ IF focus = "ConfigValidation" THEN KvInit ELSE kvFile = PlainFiles /\ kvForce = FALSE /\ kvAt = 1 /\ kvSynced = {}
    /\ DfInit /\ (focus = "DriverForms" \/ dfCase = GpioCase)
    /\ IF focus = "ChannelBuild" THEN CbInit ELSE RestingBuild
    /\ MkInit /\ (focus = "MappingCheck" \/ (mkProto = "gpio" /\ mkType = "T" /\ mkRow = MkNone))
    /\ VwInit /\ (focus = "ChannelViews" \/ vwRow = <<>>)
    /\ DwInit
    /\ IF focus = "PointAddress" THEN PaInit ELSE paCase = OneWord

Step ==
    \/ focus = "Instances" /\ InNext
    \/ focus = "InstanceRouting" /\ IrNext
    \/ focus = "C2cRouting" /\ CcNext
    \/ focus = "ActionWrite" /\ AwNextStep
    \/ focus = "ChannelPoints" /\ PtNext
    \/ focus = "ConfigFiles" /\ CfNext
    \/ focus = "RuleFlow" /\ RfNext
    \/ focus = "CalcState" /\ CsNext
    \/ focus = "RuleStore" /\ RsNext
    \/ focus = "Topology" /\ ToNext
    \/ focus = "InstanceValues" /\ IvNext
    \/ focus = "ChannelLog" /\ LgNext
    \/ focus = "ConfigValidation" /\ KvNext
    \/ focus = "DriverForms" /\ DfNext
    \/ focus = "ChannelBuild" /\ CbNext
    \/ focus = "MappingCheck" /\ MkNext
    \/ focus = "ChannelViews" /\ VwNext
    \/ focus = "DirectWrite" /\ DwNext
    \/ focus = "PointAddress" /\ PaNext

Others ==
    /\ IF focus = "Instances" THEN TRUE ELSE UNCHANGED inVars
    /\ IF focus = "InstanceRouting" THEN TRUE ELSE UNCHANGED irVars
    /\ IF focus = "C2cRouting" THEN TRUE ELSE UNCHANGED ccVars
    /\ IF focus = "ActionWrite" THEN TRUE ELSE UNCHANGED awVars
    /\ IF focus = "ChannelPoints" THEN TRUE ELSE UNCHANGED ptVars
    /\ IF focus = "ConfigFiles" THEN TRUE ELSE UNCHANGED cfVars
    /\ IF focus = "RuleFlow" THEN TRUE ELSE UNCHANGED rfVars
    /\ IF focus = "CalcState" THEN TRUE ELSE UNCHANGED csVars
    /\ IF focus = "RuleStore" THEN TRUE ELSE UNCHANGED rsVars
    /\ IF focus = "Topology" THEN TRUE ELSE UNCHANGED toVars
    /\ IF focus = "InstanceValues" THEN TRUE ELSE UNCHANGED ivVars
    /\ IF focus = "ChannelLog" THEN TRUE ELSE UNCHANGED lgVars
    /\ IF focus = "ConfigValidation" THEN TRUE ELSE UNCHANGED kvVars
    /\ IF focus = "DriverForms" THEN TRUE ELSE UNCHANGED dfVars
    /\ IF focus = "ChannelBuild" THEN TRUE ELSE UNCHANGED cbVars
    /\ IF focus = "MappingCheck" THEN TRUE ELSE UNCHANGED mkVars
    /\ IF focus = "ChannelViews" THEN TRUE ELSE UNCHANGED vwVars
    /\ IF focus = "DirectWrite" THEN TRUE ELSE UNCHANGED dwVars
    /\ IF focus = "PointAddress" THEN TRUE ELSE UNCHANGED paCase

Next == Step /\ Others /\ UNCHANGED focus

vars == <<focus, inVars, irVars, ccVars, awVars, ptVars, cfVars, rfVars, csVars, rsVars, toVars,
        ivVars, lgVars, kvVars, dfVars, cbVars, mkVars, vwVars, dwVars, paCase>>

Spec == Init /\ [][Next]_vars

\* The type invariants of the components.
ConfigTypes ==
    /\ focus \in Components
    /\ InTypeOK
    /\ IrTypeOK
    /\ AwTypeOK
    /\ PtTypeOK
    /\ RfTypeOK
    /\ CsTypeOK
    /\ RsTypeOK
    /\ ToTypeOK
    /\ IvTypeOK
    /\ LgTypeOK
    /\ VwTypeOK
    /\ DwTypeOK

\* Every stored row refers to rows that exist, whatever the order of the requests: parents of
\* instances, routes, points of channels, rows of imported files, runs of rules, nodes of the
\* topology; what is enabled can run, what is written was validated, and every variable keeps
\* its type. And a change is made as a whole: a reload repairs the mirrors, a deletion takes the
\* subtree, a refresh puts the routes in force, both mirrors of an action agree, a migrated
\* channel takes its points along, a merge keeps the fields it was not given, a log is never
\* truncated, and a write comes back through the transform it left by.
ConfigSound ==
    /\ [](/\ ConfigTypes /\ InParentsExist /\ IrRowsSound /\ PtPointsOwned /\ CfRefs
          /\ RsHistorySound /\ RsEnabledRuns /\ ToSound /\ KvWrittenSound)
    /\ InReloadRepairs /\ InSubtreeGone /\ IrInForce /\ AwMirrorsAgree /\ PtMovedTogether
    /\ PtMergeAdds /\ LgKept /\ CbLoopback

\* What a caller is told happened: no action is accepted that no channel got, no write is
\* mirrored that was not dispatched, a channel shown as connected has been polled, the views of
\* an instance agree, and the text of a rule run names the values, branches, results and failures
\* of that run.
AnswersTrue ==
    /\ AwNoFalseAccept /\ DwToldTrue /\ DwMirrorDispatched /\ VwNotZombie /\ IvViewsAgree
    /\ RfNoFiction /\ RdReasonTrue /\ RdRowsMatch /\ RdSummaryHonest

\* What is configured arrives: a forced sync replaces, another carries over what the files do not
\* mention, every row becomes one point, an accepted mapping loads as it was sent, a form with
\* its required fields makes a channel with the defaults the form shows, no part of an address is
\* ignored, and a file that passes one level of validation passes those below.
TransferComplete ==
    /\ CfForceReplaces /\ CfCarriesOver /\ CbOnePointPerRow /\ MkAcceptedLoads /\ MkTaken
    /\ DfRequiredSuffices /\ DfSameDefaults /\ PaNothingIgnored /\ KvLevelsNest

\* What is computed agrees with its definition: forwarding along channel routes with the closure
\* of the routes, the walk over a rule with its graph, averages, integrals and period differences
\* with the values and times they cover, pages with the list, a day file with its day, the
\* measurement hash with what arrived.
ComputedExactly ==
    /\ CcBatchForwards /\ CcReverseConsistent /\ RfNothingDropped /\ RdGraphWhole
    /\ CsMeanOfLast /\ CsNoTimeTwice /\ CsDeltaTrue /\ VwPagesComplete /\ LgDayFiles
    /\ IvMeasurementKept
=============================================================================
