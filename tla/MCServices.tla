---------------------------- MODULE MCServices ----------------------------
(* The services around the field data: cloud session and uploads, alarms, history, the API    *)
(* gateway with its sessions, audit, log files, imports and upgrades, the life of a service.  *)
(* Each behaviour runs one of the components, the one that focus names, under its own bounds; *)
(* the components share no variables.                                                         *)
EXTENDS CloudLink, AlarmMonitor, History, ConfigVersions, Gateway, Observability, Lifecycle,
        RtdbMemory

\* RequestAudit: a plain value, an object with a secret key, a secret key below an array, an
\* empty array.
Leaf == <<"leaf", "v">>
Object(s) == <<"obj", s>>
JsonBodies ==
    {Leaf, Object(<<<<"k", Leaf>>, <<"s", Leaf>>>>), <<"arr", <<>>>>,
     Object(<<<<"k", <<"arr", <<Object(<<<<"s", Object(<<<<"k", Leaf>>>>)>>>>), Leaf>>>>>>>>)}
Texts == UNION {[1..n -> {1, 3}] : n \in 0..3}
PlainRequest ==
    [write |-> FALSE, skip |-> FALSE, auth |-> FALSE, json |-> FALSE, size |-> 0,
     body |-> CHOOSE b \in JsonBodies : TRUE, user |-> FALSE]

\* SchemaMigration: no database, one of before the version stamp, one at version 1 and one at 5.
Unstamped ==
    [SmNone EXCEPT !.products = TRUE, !.column = TRUE, !.rkey = "text", !.rules = {7}, !.hist = {7, 8},
                   !.inst = {(1 :> [prod |-> "legacy", props |-> TRUE])
                             @@ (2 :> [prod |-> "other", props |-> TRUE])}]
AtOne ==
    [SmNone EXCEPT !.ver = 1, !.column = TRUE, !.rkey = "int", !.rules = {7}, !.hist = {7, 8},
                   !.inst = {(1 :> [prod |-> "legacy", props |-> TRUE])
                             @@ (2 :> [prod |-> "builtin", props |-> FALSE])}]
AtFive ==
    [SmNone EXCEPT !.ver = 5, !.prop = {1}, !.rkey = "int", !.rtrig = TRUE, !.rules = {7}, !.hist = {8},
                   !.inst = {1 :> [prod |-> "builtin", props |-> FALSE]}]
OldDatabases == {SmNone, Unstamped, AtOne, AtFive}

\* RtdbMemory: the calls whose answers differ from those of Redis too.
RedisKeys == {<<{"s"}, {}, {}, {}>>, <<{}, {"h"}, {}, {}>>, <<{}, {}, {"l"}, {}>>, <<{}, {}, {}, {"m"}>>,
              <<{}, {}, {}, {}>>}
ListBounds == {0, -1}

-----------------------------------------------------------------------------
\* the component that runs; the others rest in one of their initial states
VARIABLE focus

Components ==
    {"MqttSession", "OperationUpload", "AlarmMonitor", "HistoryStore", "HistoryQuery",
     "ConfigApply", "WsHub", "Upgrade", "AlarmRules", "Sessions", "RequestAudit", "LogFiles",
     "NetworkFiles", "ConfigImport", "ErrorPaths", "ServiceLifecycle", "SchemaMigration",
     "RtdbMemory"}

Init ==
    /\ focus \in Components
    /\ MqInit /\ (focus = "MqttSession" \/ mqConfig = FALSE)
    /\ OpInit
    /\ AlInit /\ (focus = "AlarmMonitor" \/ (alRule = [r \in AlRules |-> "new"] /\ alHot = {}))
    /\ HiInit /\ (focus = "HistoryStore" \/ (~hiSaved.on /\ hiSaved.db = CHOOSE d \in HiDbs : TRUE))
    /\ HqInit /\ (focus = "HistoryQuery" \/ (hqRows = 0 /\ hqArg = 1))
    /\ CaInit /\ (focus = "ConfigApply" \/ caData.cfg = CHOOSE f \in CaConfigs : TRUE)
    /\ WsInit /\ (focus = "WsHub" \/ wsId = [k \in WsConns |-> CHOOSE i \in WsIds : TRUE])
    /\ UgInit
    /\ ArInit /\ (focus = "AlarmRules" \/ arFk = TRUE)
    /\ SsInit
    /\ RaInit /\ (focus = "RequestAudit" \/ raReq = [i \in RaIds |-> PlainRequest])
    /\ LfInit
    /\ NfInit
    /\ CiInit
    /\ EpInit /\ (focus = "ErrorPaths" \/ epErr = <<"sqlx", "RowNotFound", "">>)
    /\ LcInit /\ (focus = "ServiceLifecycle" \/ lcEnabled = {})
    /\ SmInit /\ (focus = "SchemaMigration" \/ smDb = SmNone)
    /\ RmInit /\ (focus = "RtdbMemory" \/ <<rmStr, rmHash, rmList, rmSet>> = <<<<>>, <<>>, <<>>, <<>>>>)

Step ==
    \/ focus = "MqttSession" /\ MqNext
    \/ focus = "OperationUpload" /\ OpNext
    \/ focus = "AlarmMonitor" /\ AlNext
    \/ focus = "HistoryStore" /\ HiNextStep
    \/ focus = "HistoryQuery" /\ HqNext
    \/ focus = "ConfigApply" /\ CaNext
    \/ focus = "WsHub" /\ WsNext
    \/ focus = "Upgrade" /\ UgNext
    \/ focus = "AlarmRules" /\ ArNextStep
    \/ focus = "Sessions" /\ SsNextStep
    \/ focus = "RequestAudit" /\ RaNext
    \/ focus = "LogFiles" /\ LfNextStep
    \/ focus = "NetworkFiles" /\ NfNext
    \/ focus = "ConfigImport" /\ CiNext
    \/ focus = "ErrorPaths" /\ EpNext
    \/ focus = "ServiceLifecycle" /\ LcNext
    \/ focus = "SchemaMigration" /\ SmNext
    \/ focus = "RtdbMemory" /\ RmNextStep

Others ==
    /\ IF focus = "MqttSession" THEN TRUE ELSE UNCHANGED mqVars
    /\ IF focus = "OperationUpload" THEN TRUE ELSE UNCHANGED opVars
    /\ IF focus = "AlarmMonitor" THEN TRUE ELSE UNCHANGED alVars
    /\ IF focus = "HistoryStore" THEN TRUE ELSE UNCHANGED hiVars
    /\ IF focus = "HistoryQuery" THEN TRUE ELSE UNCHANGED hqVars
    /\ IF focus = "ConfigApply" THEN TRUE ELSE UNCHANGED caVars
    /\ IF focus = "WsHub" THEN TRUE ELSE UNCHANGED wsVars
    /\ IF focus = "Upgrade" THEN TRUE ELSE UNCHANGED ugVars
    /\ IF focus = "AlarmRules" THEN TRUE ELSE UNCHANGED arVars
    /\ IF focus = "Sessions" THEN TRUE ELSE UNCHANGED ssVars
    /\ IF focus = "RequestAudit" THEN TRUE ELSE UNCHANGED raVars
    /\ IF focus = "LogFiles" THEN TRUE ELSE UNCHANGED lfVars
    /\ IF focus = "NetworkFiles" THEN TRUE ELSE UNCHANGED nfVars
    /\ IF focus = "ConfigImport" THEN TRUE ELSE UNCHANGED ciVars
    /\ IF focus = "ErrorPaths" THEN TRUE ELSE UNCHANGED epVars
    /\ IF focus = "ServiceLifecycle" THEN TRUE ELSE UNCHANGED lcVars
    /\ IF focus = "SchemaMigration" THEN TRUE ELSE UNCHANGED smVars
    /\ IF focus = "RtdbMemory" THEN TRUE ELSE UNCHANGED rmVars

Next == Step /\ Others /\ UNCHANGED focus

vars == <<focus, mqVars, opVars, alVars, hiVars, hqVars, caVars, wsVars, ugVars, arVars, ssVars,
        raVars, lfVars, nfVars, ciVars, epVars, lcVars, smVars, rmVars>>

Spec == Init /\ [][Next]_vars

\* The type invariants of the components.
ServicesTypes ==
    /\ focus \in Components
    /\ RmTypeOK
    /\ MqTypeOK
    /\ OpTypeOK
    /\ AlTypeOK
    /\ HiTypeOK
    /\ CaTypeOK
    /\ WsTypeOK
    /\ UgTypeOK
    /\ ArTypeOK
    /\ SsTypeOK
    /\ RaTypeOK
    /\ LfTypeOK
    /\ CiTypeOK
    /\ LcTypeOK

\* Services that fail, restart and are called while they work leave their tables sound and tell
\* the truth: one rule per cell, the schema version is that of the schema, a channel shown as
\* online was seen by this run, a clean exit left nothing unflushed, the audit row tells what was
\* done, an error is blamed on and retried by whom it concerns. What is read back is what was
\* stored: points in the order of their collection, a sample spread over the series, buckets that
\* cover the window, pages without gap or repetition, network settings and cut texts that read as
\* written, a log file that is there again after it was deleted. And every variable keeps its
\* type.
ServicesSound ==
    /\ ServicesTypes /\ ArOneRulePerCell /\ SmStampTrue /\ LcOnlineOfThisRun /\ LcCleanExit
    /\ RaTruthful /\ EpFaultNotBlamed /\ EpRetryAgrees
    /\ HiInOrder /\ HqSampleFair /\ HqBucketsCover /\ HqPagesComplete /\ ArPagesComplete
    /\ NfReadsBack /\ RaCuts /\ LfHealed

\* What was recorded is still there or on its way, and as it was, whatever fails, restarts or is
\* cleaned up in between: collected points, log records until their retention ends and the rows
\* of an older database under migration; no step rewrites the alarm history, an event tells the
\* rule as it was when the alert was raised, and switching a port between DHCP and a static
\* address keeps the address.
NothingLost ==
    /\ [](HiNothingLost /\ LfRetained /\ SmNothingLost)
    /\ ArHistoryKept /\ ArRaisedAsStored /\ NfSwitchKeeps
=============================================================================
