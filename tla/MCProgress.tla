---------------------------- MODULE MCProgress ----------------------------
(* What must come about in the end: the liveness properties of the components, each under the  *)
(* fairness its own scheduling justifies. Each behaviour runs one component, the one that      *)
(* focus names; the others rest.                                                               *)
EXTENDS RedisSync, WriteBuffer, History, Lifecycle, Rules, EventChannels, ActionPath,
        ConfigVersions, AlarmMonitor, CloudLink

\* SchemaMigration: no database, one of before the version stamp, one at version 1 one at 5 and one at 6.
Unstamped ==
    [SmNone EXCEPT !.products = TRUE, !.column = TRUE, !.rkey = "text", !.rules = {7}, !.hist = {7, 8},
                   !.inst = {(1 :> [prod |-> "legacy", props |-> TRUE])
                             @@ (2 :> [prod |-> "other", props |-> TRUE])}]
AtOne ==
    [SmNone EXCEPT !.ver = 1, !.column = TRUE, !.rkey = "int", !.rules = {7}, !.hist = {7, 8},
                   !.inst = {(1 :> [prod |-> "legacy", props |-> TRUE])
                             @@ (2 :> [prod |-> "builtin", props |-> FALSE])}]
AtFive ==
    [SmNone EXCEPT !.ver = 5, !.prop = {1}, !.rkey = "int", !.rtrig = TRUE, !.rules = {7}, !.hist = {8},
                   !.inst = {1 :> [prod |-> "builtin", props |-> FALSE]}]
AtSix == [AtFive EXCEPT !.ver = 6]
OldDatabases == {SmNone, Unstamped, AtOne, AtFive, AtSix}

\* RuleFlow: the nodes of a saved flow.
FlowNode(id, type, inner, vars, rule, wires) ==
    [id |-> id, type |-> type, inner |-> inner, config |-> TRUE, period |-> "daily", vars |-> vars,
     rule |-> rule, wires |-> wires]
Var(name, kind, k) == [name |-> name, point |-> <<kind, k>>, formula |-> <<>>]
Cond(rel, v, op, n) == [rel |-> rel, var |-> v, op |-> op, val |-> n]
Branch(conds, to) == [conds |-> conds, to |-> to]
Sum(out, terms) == [out |-> out, terms |-> terms]
Change(v, lit, from) == [var |-> v, lit |-> lit, from |-> from]
StartAt(w) == FlowNode(1, "start", "", <<>>, <<>>, w)
EndAt(i) == FlowNode(i, "end", "", <<>>, <<>>, <<>>)
Switch(i, vars, rule) == FlowNode(i, "custom", "function-switch", vars, rule, <<>>)
Calculation(i, vars, rule, w) == FlowNode(i, "custom", "action-calculation", vars, rule, w)
X == Var("x", "M", 1)
\* A flow with every kind of node, two branches, a loop and a wire to a missing node.
FullFlow ==
    <<StartAt(<<2, 3>>),
      Switch(2, <<X>>, <<Branch(<<Cond("&&", "x", ">", 0)>>, <<4>>),
                         Branch(<<Cond("&&", "x", "<=", 0), Cond("||", "x", "==", 1)>>, <<3, 9>>)>>),
      Calculation(3, <<X, Var("y", "A", 1)>>, <<Sum("y", <<"x", "x">>), Sum("z", <<"x">>)>>, <<4, 2>>),
      FlowNode(4, "custom", "action-changeValue", <<Var("y", "A", 1), X>>,
               <<Change("y", 0, "x"), Change("q", 1, ""), Change("x", 1, "")>>, <<5>>),
      EndAt(5), FlowNode(7, "note", "", <<>>, <<>>, <<>>)>>
\* A period delta in a loop, and an action without its configuration.
PeriodLoop ==
    <<StartAt(<<2>>),
      [FlowNode(2, "custom", "action-periodDelta", <<X, Var("d", "M", 2)>>, <<>>, <<3>>)
         EXCEPT !.period = "weekly"],
      Switch(3, <<Var("d", "M", 2)>>, <<Branch(<<Cond("&&", "d", "!=", 1)>>, <<2, 4>>)>>),
      [FlowNode(4, "custom", "action-changeValue", <<>>, <<>>, <<8>>) EXCEPT !.config = FALSE]>>
BareStart == <<StartAt(<<>>)>>
Flows == {FullFlow, BareStart}
FlowPoints == {<<"M", 1>>, <<"M", 2>>, <<"A", 1>>}
RestingFlow ==
    /\ rfFlow = RfExtract(BareStart) /\ rfPoint = [p \in RfPoints |-> 0]
    /\ rfLeft = RfMoves /\ rfRun = RfFreshRun(rfFlow)

\* JsonTransform: a script that yields points, one that raises, and a body that is no JSON.
Document(x) == [json |-> TRUE, does |-> x, fields |-> ("f" :> "digits" @@ "g" :> "null")]
Documents ==
    <<Document("points"), Document("raises"), [json |-> FALSE, does |-> "points", fields |-> <<>>]>>
MappingRows ==
    {[point |-> 1, field |-> "f", type |-> "float", sound |-> TRUE],
     [point |-> 2, field |-> "g", type |-> "int", sound |-> TRUE]}

-----------------------------------------------------------------------------
\* the component that runs; the others rest in one of their initial states
VARIABLE focus

Components ==
    {"RedisSync", "WriteBuffer", "HistoryStore", "ServiceLifecycle", "SchemaMigration",
     "RuleFlow", "JsonTransform", "DirectWrite", "Upgrade", "LogFiles", "CanChannel",
     "EventAdapters", "AlarmMonitor", "OperationUpload"}

Init ==
    /\ focus \in Components
    /\ SyInit /\ (focus = "RedisSync" \/ syRoute = CHOOSE r \in SyRoutes : TRUE)
    /\ WbInit
    /\ HiInit /\ (focus = "HistoryStore" \/ (~hiSaved.on /\ hiSaved.db = CHOOSE d \in HiDbs : TRUE))
    /\ LcInit /\ (focus = "ServiceLifecycle" \/ lcEnabled = {})
    /\ SmInit /\ (focus = "SchemaMigration" \/ smDb = AtSix)
    /\ IF focus = "RuleFlow" THEN RfInit ELSE RestingFlow
    /\ JtInit /\ (focus = "JsonTransform" \/ jtScripted = FALSE)
    /\ DwInit
    /\ UgInit
    /\ LfInit
    /\ CnInit
    /\ EvInit
    /\ AlInit /\ (focus = "AlarmMonitor" \/ (alRule = [r \in AlRules |-> "new"] /\ alHot = {}))
    /\ OpInit
    /\ HqInit /\ (hqRows = 0 /\ hqArg = 1)
    /\ ArInit /\ arFk = TRUE
    /\ RsInit
    /\ CsInit /\ csUse = "formula"
    /\ MqInit /\ mqConfig = FALSE
    /\ AwInit /\ awRow = AwNone
    /\ CaInit /\ caData.cfg = CHOOSE f \in CaConfigs : TRUE
    /\ CiInit

Step ==
    \/ focus = "RedisSync" /\ SyNext
    \/ focus = "WriteBuffer" /\ WbNext
    \/ focus = "HistoryStore" /\ HiNextStep
    \/ focus = "ServiceLifecycle" /\ LcNext
    \/ focus = "SchemaMigration" /\ SmNext
    \/ focus = "RuleFlow" /\ RfNext
    \/ focus = "JsonTransform" /\ JtNext
    \/ focus = "DirectWrite" /\ DwNext
    \/ focus = "Upgrade" /\ UgNext
    \/ focus = "LogFiles" /\ LfNextStep
    \/ focus = "CanChannel" /\ CnNext
    \/ focus = "EventAdapters" /\ EvNext
    \/ focus = "AlarmMonitor" /\ AlNext
    \/ focus = "OperationUpload" /\ OpNext

Others ==
    /\ IF focus = "RedisSync" THEN TRUE ELSE UNCHANGED syVars
    /\ IF focus = "WriteBuffer" THEN TRUE ELSE UNCHANGED wbVars
    /\ IF focus = "HistoryStore" THEN TRUE ELSE UNCHANGED hiVars
    /\ IF focus = "ServiceLifecycle" THEN TRUE ELSE UNCHANGED lcVars
    /\ IF focus = "SchemaMigration" THEN TRUE ELSE UNCHANGED smVars
    /\ IF focus = "RuleFlow" THEN TRUE ELSE UNCHANGED rfVars
    /\ IF focus = "JsonTransform" THEN TRUE ELSE UNCHANGED jtVars
    /\ IF focus = "DirectWrite" THEN TRUE ELSE UNCHANGED dwVars
    /\ IF focus = "Upgrade" THEN TRUE ELSE UNCHANGED ugVars
    /\ IF focus = "LogFiles" THEN TRUE ELSE UNCHANGED lfVars
    /\ IF focus = "CanChannel" THEN TRUE ELSE UNCHANGED cnVars
    /\ IF focus = "EventAdapters" THEN TRUE ELSE UNCHANGED evVars
    /\ IF focus = "AlarmMonitor" THEN TRUE ELSE UNCHANGED alVars
    /\ IF focus = "OperationUpload" THEN TRUE ELSE UNCHANGED opVars
    /\ UNCHANGED hqVars
    /\ UNCHANGED arVars
    /\ UNCHANGED rsVars
    /\ UNCHANGED csVars
    /\ UNCHANGED mqVars
    /\ UNCHANGED awVars
    /\ UNCHANGED caVars
    /\ UNCHANGED ciVars

Next == Step /\ Others /\ UNCHANGED focus

vars == <<focus, syVars, wbVars, hiVars, lcVars, smVars, rfVars, jtVars, dwVars, ugVars, lfVars,
        cnVars, evVars, alVars, opVars, hqVars, arVars, rsVars, csVars, mqVars, awVars, caVars,
        ciVars>>

\* The steps that are taken once they stay possible: a loop of its own task, or a thread.
Weak(i) ==
    \/ /\ focus = "RedisSync"
       /\ \/ i = 1 /\ (SyScan \/ \E s \in SySlotSet : SyPeek(s) \/ SyLoad(s))
          \/ i = 2 /\ SyWriteEnd(1)
          \/ i = 3 /\ SyWriteEnd(2)
          \/ i = 4 /\ SyMarkDirty(1)
          \/ i = 5 /\ SyMarkDirty(2)
    \/ /\ focus = "WriteBuffer"
       /\ \/ i = 1 /\ WbWake
          \/ i = 2 /\ WbDrain(1)
          \/ i = 3 /\ WbDrain(2)
          \/ i = 4 /\ WbRequeue(1)
          \/ i = 5 /\ WbRequeue(2)
    \/ /\ focus = "HistoryStore"
       /\ \/ i = 1 /\ HiFlushNext
          \/ i = 2 /\ HiAppend
    \/ /\ focus = "ServiceLifecycle"
       /\ \/ i = 1 /\ LcMain
          \/ i = 2 /\ LcFlush
    \/ /\ focus = "SchemaMigration"
       /\ \/ i = 1 /\ SmStart
          \/ i = 2 /\ SmStep
          \/ i = 3 /\ SmError
    \/ focus = "RuleFlow" /\ i = 1 /\ RfWalk
    \/ /\ focus = "JsonTransform"
       /\ \/ i = 1 /\ (JtCheck("poll") \/ JtStart("poll") \/ JtSend("poll") \/ JtKill("poll"))
          \/ i = 2 /\ (JtCheck("hook") \/ JtStart("hook") \/ JtSend("hook") \/ JtKill("hook"))
    \/ /\ focus = "DirectWrite"
       /\ \/ i = 1 /\ DwServe
          \/ i = 2 /\ DwServeProto
          \/ i = 3 /\ DwStep("c1")
          \/ i = 4 /\ DwStep("c2")
    \/ /\ focus = "Upgrade"
       /\ \/ i = 1 /\ UgWork("u1")
          \/ i = 2 /\ UgInstalled
    \/ /\ focus = "LogFiles"
       /\ \/ i = 1 /\ LfPackStep
          \/ i = 2 /\ LfSweep
    \/ /\ focus = "CanChannel"
       /\ \/ i = 1 /\ CnPollStart
          \/ i = 2 /\ CnPolled
          \/ i = 3 /\ (\E p \in CnPoints : CnExport(p))
          \/ i = 4 /\ (\E s \in DOMAIN cnTasks : CnStamp(s) \/ CnValue(s))
          \/ i = 5 /\ 1 \in DOMAIN cnTasks /\ CnDecode(1)
          \/ i = 6 /\ 2 \in DOMAIN cnTasks /\ CnDecode(2)
    \/ /\ focus = "EventAdapters"
       /\ \/ i = 1 /\ EvTaskSteps
          \/ i = 2 /\ EvLoopSteps
    \/ /\ focus = "AlarmMonitor"
       /\ \/ i = 1 /\ AlTick
          \/ i = 2 /\ AlCountRead
          \/ i = 3 /\ AlCheck("r1")
          \/ i = 4 /\ (AlDisabled("c1") \/ AlResolved("c1") \/ AlCallTells("c1"))
    \/ focus = "OperationUpload" /\ i = 1 /\ OpDone

\* The steps that may fail again and again, and succeed if tried for ever.
Strong(i) ==
    \/ focus = "RedisSync" /\ i = 1 /\ SyPushed
    \/ focus = "WriteBuffer" /\ i = 1 /\ WbPush
    \/ focus = "HistoryStore" /\ i = 1 /\ HiWritten
    \/ /\ focus = "AlarmMonitor"
       /\ \/ i = 1 /\ AlCountSent
          \/ i = 2 /\ AlReadValue("r1")
    \/ /\ focus = "OperationUpload"
       /\ \/ i = 1 /\ OpFetch
          \/ i = 2 /\ OpConnect
          \/ i = 3 /\ OpPublish
          \/ i = 4 /\ OpReceive
          \/ i = 5 /\ OpMark

Fairness ==
    /\ \A i \in 1..6 : WF_vars(Weak(i) /\ Others /\ UNCHANGED focus)
    /\ \A i \in 1..5 : SF_vars(Strong(i) /\ Others /\ UNCHANGED focus)

Spec == Init /\ [][Next]_vars /\ Fairness

\* Whatever is under way comes to its end: dirty slots arrive in the mirror, buffered writes and
\* collected points in their stores, records at the broker, frames in the exported points, alarms
\* and their number at the gateway, old logs in archives; calls to a script or a channel are
\* answered, an upgrade settles, a rule run, a shutdown and a migration end, and an MQTT channel
\* that lost its broker finds it again.
WorkCompletes ==
    /\ SyConverges /\ WbFlushed /\ HiWrittenAtLast /\ OpAllUploaded /\ CnExported
    /\ AlRaised /\ AlCountCatchesUp /\ LfArchived
    /\ JtAnswered /\ DwAnswered /\ UgStatusSettles /\ RfEnds /\ LcStops /\ SmMigrates
    /\ EvMqttHeals
=============================================================================
