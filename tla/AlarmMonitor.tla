---------------------------- MODULE AlarmMonitor ----------------------------
(***************************************************************************)
(* alarmsrv: a monitor that checks every enabled rule in a task of its     *)
(* own, the HTTP calls that change rules and resolve alerts, and the       *)
(* number of active alarms shown by the gateway.                           *)
(*                                                                         *)
(* Tables are functions: a rule is a row of alert_rule, an alert a row of  *)
(* alert, an event a row of alert_event.  A statement or a transaction of  *)
(* SQLite is one step; between two of them any other task may run.         *)
(***************************************************************************)
EXTENDS Naturals, FiniteSets

CONSTANTS AlRules,     \* rule ids
          AlCalls,     \* HTTP calls in progress at a time
          AlMaxAlerts  \* bound: alerts raised

ASSUME AlAssumption == AlMaxAlerts \in Nat

AlIds == 1 .. AlMaxAlerts

VARIABLES
    alRule,    \* the rules: "new", "enabled", "disabled" or "deleted"
    alAlert,   \* the active alerts: id to rule
    alNext,    \* next alert id
    alEvents,  \* recovery events of each alert id
    alHot,     \* rules whose point satisfies the condition now
    alTask,    \* check_single_rule(): step and what it has read
    alCall,    \* the HTTP calls
    alCount,   \* counts read and not yet delivered by the periodic broadcast
    alShown    \* the count last delivered to the gateway

alVars == <<alRule, alAlert, alNext, alEvents, alHot, alTask, alCall, alCount, alShown>>

AlIdle == [at |-> "none", hot |-> FALSE, alert |-> 0]
AlNoCount == AlMaxAlerts + 1
AlFree == [at |-> "none", id |-> 0, rule |-> "none"]

AlInit ==
    /\ alRule \in [AlRules -> {"new", "enabled"}]
    /\ alAlert = [i \in {} |-> 0] /\ alNext = 1 /\ alEvents = [i \in AlIds |-> 0]
    /\ alHot \in SUBSET AlRules
    /\ alTask = [r \in AlRules |-> AlIdle] /\ alCall = [c \in AlCalls |-> AlFree]
    /\ alCount = AlNoCount /\ alShown = 0

AlActive == DOMAIN alAlert
AlOf(r) == {i \in AlActive : alAlert[i] = r}
AlRow(r) == alRule[r] \in {"enabled", "disabled"}

\* The alert rows of ids are replaced by one recovery event each, in a transaction.
AlRecover(ids) ==
    /\ alEvents' = [i \in AlIds |-> IF i \in ids THEN alEvents[i] + 1 ELSE alEvents[i]]
    /\ alAlert' = [i \in AlActive \ ids |-> alAlert[i]]

----------------------------------------------------------------------------
(* The monitor *)

\* A tick: tasks of the previous one have been joined, and every rule enabled
\* now gets a task.
AlTick ==
    /\ \A r \in AlRules : alTask[r] = AlIdle
    /\ \E r \in AlRules : alRule[r] = "enabled"
    /\ alTask' = [r \in AlRules |->
                     IF alRule[r] = "enabled" THEN [AlIdle EXCEPT !.at = "start"] ELSE AlIdle]
    /\ UNCHANGED <<alRule, alAlert, alNext, alEvents, alHot, alCall, alCount, alShown>>

\* The value is read and compared.
AlReadValue(r) ==
    /\ alTask[r].at = "start"
    /\ alTask' = [alTask EXCEPT ![r] = [AlIdle EXCEPT !.at = "value", !.hot = r \in alHot]]
    /\ UNCHANGED <<alRule, alAlert, alNext, alEvents, alHot, alCall, alCount, alShown>>

\* No value, one that is not a number, or an error of Redis ends the task.
AlNoValue(r) ==
    /\ alTask[r].at = "start"
    /\ alTask' = [alTask EXCEPT ![r] = AlIdle]
    /\ UNCHANGED <<alRule, alAlert, alNext, alEvents, alHot, alCall, alCount, alShown>>

AlLookUp(r) ==
    /\ alTask[r].at = "value"
    /\ \E i \in IF AlOf(r) = {} THEN {0} ELSE AlOf(r) :
          alTask' = [alTask EXCEPT ![r].at = "act", ![r].alert = i]
    /\ UNCHANGED <<alRule, alAlert, alNext, alEvents, alHot, alCall, alCount, alShown>>

\* Mutant: the alert that was looked up is not considered.
AlRaiseAgain(r) ==
    /\ alTask[r].at = "act" /\ alTask[r].hot
    /\ IF AlRow(r)
         THEN /\ alNext \in AlIds
              /\ alAlert' = [i \in AlActive \union {alNext} |-> IF i = alNext THEN r ELSE alAlert[i]]
              /\ alNext' = alNext + 1
              /\ alTask' = [alTask EXCEPT ![r] = [AlIdle EXCEPT !.at = "tell"]]
         ELSE /\ alTask' = [alTask EXCEPT ![r] = AlIdle]
              /\ UNCHANGED <<alAlert, alNext>>
    /\ UNCHANGED <<alRule, alEvents, alHot, alCall, alCount, alShown>>

\* insert_alert(): the foreign key refuses the alert of a rule that is gone.
AlRaise(r) ==
    /\ alTask[r].at = "act" /\ alTask[r].hot /\ alTask[r].alert = 0
    /\ IF AlRow(r)
         THEN /\ alNext \in AlIds
              /\ alAlert' = [i \in AlActive \union {alNext} |-> IF i = alNext THEN r ELSE alAlert[i]]
              /\ alNext' = alNext + 1
              /\ alTask' = [alTask EXCEPT ![r] = [AlIdle EXCEPT !.at = "tell"]]
         ELSE /\ alTask' = [alTask EXCEPT ![r] = AlIdle]
              /\ UNCHANGED <<alAlert, alNext>>
    /\ UNCHANGED <<alRule, alEvents, alHot, alCall, alCount, alShown>>

\* resolve_alert() of the alert that was looked up: the event is inserted whether
\* or not the row is still there.
AlClear(r) ==
    /\ alTask[r].at = "act" /\ ~alTask[r].hot /\ alTask[r].alert # 0
    /\ AlRecover({alTask[r].alert})
    /\ alTask' = [alTask EXCEPT ![r] = [AlIdle EXCEPT !.at = "tell"]]
    /\ UNCHANGED <<alRule, alNext, alHot, alCall, alCount, alShown>>

\* Nothing to do, or only the value of the alert to update.
AlKeep(r) ==
    /\ alTask[r].at = "act" /\ alTask[r].hot = (alTask[r].alert # 0)
    /\ alTask' = [alTask EXCEPT ![r] = AlIdle]
    /\ UNCHANGED <<alRule, alAlert, alNext, alEvents, alHot, alCall, alCount, alShown>>

\* send_alarm_count_broadcast() of a task; the request may fail.
AlTell(r) ==
    /\ alTask[r].at = "tell"
    /\ alTask' = [alTask EXCEPT ![r] = AlIdle]
    /\ alShown' \in {Cardinality(AlActive), alShown}
    /\ UNCHANGED <<alRule, alAlert, alNext, alEvents, alHot, alCall, alCount>>

----------------------------------------------------------------------------
(* The periodic broadcast: the count is read, and delivered later *)

AlCountRead ==
    /\ alCount = AlNoCount
    /\ alCount' = Cardinality(AlActive)
    /\ UNCHANGED <<alRule, alAlert, alNext, alEvents, alHot, alTask, alCall, alShown>>

AlCountSent ==
    /\ alCount # AlNoCount
    /\ alShown' = alCount /\ alCount' = AlNoCount
    /\ UNCHANGED <<alRule, alAlert, alNext, alEvents, alHot, alTask, alCall>>

AlCountFailed ==
    /\ alCount # AlNoCount
    /\ alCount' = AlNoCount
    /\ UNCHANGED <<alRule, alAlert, alNext, alEvents, alHot, alTask, alCall, alShown>>

----------------------------------------------------------------------------
(* HTTP calls, and the world *)

AlCreate(r) ==
    /\ alRule[r] = "new"
    /\ alRule' \in {[alRule EXCEPT ![r] = s] : s \in {"enabled", "disabled"}}
    /\ UNCHANGED <<alAlert, alNext, alEvents, alHot, alTask, alCall, alCount, alShown>>

\* enable_rule(), and an update that sets enabled
AlEnable(r) ==
    /\ AlRow(r)
    /\ alRule' = [alRule EXCEPT ![r] = "enabled"]
    /\ UNCHANGED <<alAlert, alNext, alEvents, alHot, alTask, alCall, alCount, alShown>>

\* disable_rule(), and an update that clears enabled: the row first
AlDisable(c, r) ==
    /\ alCall[c] = AlFree /\ AlRow(r)
    /\ alRule' = [alRule EXCEPT ![r] = "disabled"]
    /\ alCall' = [alCall EXCEPT ![c] = [at |-> "disabled", id |-> 0, rule |-> r]]
    /\ UNCHANGED <<alAlert, alNext, alEvents, alHot, alTask, alCount, alShown>>

\* then on_rule_updated(): if the rule is still disabled its alerts recover, and
\* if there were any the count is broadcast
AlDisabled(c) ==
    LET r == alCall[c].rule IN
    /\ alCall[c].at = "disabled"
    /\ IF alRule[r] = "disabled" /\ AlOf(r) # {}
         THEN AlRecover(AlOf(r)) /\ alCall' = [alCall EXCEPT ![c] = [AlFree EXCEPT !.at = "tell"]]
         ELSE alCall' = [alCall EXCEPT ![c] = AlFree] /\ UNCHANGED <<alAlert, alEvents>>
    /\ UNCHANGED <<alRule, alNext, alHot, alTask, alCount, alShown>>

\* delete_rule(): alerts and row in one transaction
AlDelete(c, r) ==
    /\ alCall[c] = AlFree /\ AlRow(r)
    /\ AlRecover(AlOf(r))
    /\ alRule' = [alRule EXCEPT ![r] = "deleted"]
    /\ alCall' = [alCall EXCEPT ![c].at = IF AlOf(r) = {} THEN "none" ELSE "tell"]
    /\ UNCHANGED <<alNext, alHot, alTask, alCount, alShown>>

\* The manual resolve fetches the alert, and resolves what it fetched.
AlResolve(c, i) ==
    /\ alCall[c] = AlFree /\ i \in AlActive
    /\ alCall' = [alCall EXCEPT ![c] = [at |-> "resolve", id |-> i, rule |-> alAlert[i]]]
    /\ UNCHANGED <<alRule, alAlert, alNext, alEvents, alHot, alTask, alCount, alShown>>

AlResolved(c) ==
    /\ alCall[c].at = "resolve"
    /\ AlRecover({alCall[c].id})
    /\ alCall' = [alCall EXCEPT ![c] = [AlFree EXCEPT !.at = "tell"]]
    /\ UNCHANGED <<alRule, alNext, alHot, alTask, alCount, alShown>>

\* The count of a call; the request may fail.
AlCallTells(c) ==
    /\ alCall[c].at = "tell"
    /\ alCall' = [alCall EXCEPT ![c] = AlFree]
    /\ alShown' \in {Cardinality(AlActive), alShown}
    /\ UNCHANGED <<alRule, alAlert, alNext, alEvents, alHot, alTask, alCount>>

AlValueMoves(r) ==
    /\ alHot' = IF r \in alHot THEN alHot \ {r} ELSE alHot \union {r}
    /\ UNCHANGED <<alRule, alAlert, alNext, alEvents, alTask, alCall, alCount, alShown>>

AlCheck(r) ==
    AlReadValue(r) \/ AlNoValue(r) \/ AlLookUp(r) \/ AlRaise(r) \/ AlClear(r) \/ AlKeep(r) \/ AlTell(r)

AlNext ==
    \/ AlTick \/ AlCountRead \/ AlCountSent \/ AlCountFailed
    \/ \E r \in AlRules : AlCheck(r) \/ AlCreate(r) \/ AlEnable(r) \/ AlValueMoves(r)
    \/ \E c \in AlCalls : AlDisabled(c) \/ AlResolved(c) \/ AlCallTells(c)
    \/ \E c \in AlCalls, r \in AlRules : AlDisable(c, r) \/ AlDelete(c, r)
    \/ \E c \in AlCalls, i \in AlIds : AlResolve(c, i)

AlSpec == AlInit /\ [][AlNext]_alVars

----------------------------------------------------------------------------

\* Types of the tables, the tasks and the calls.
AlTypeOK ==
    /\ alRule \in [AlRules -> {"new", "enabled", "disabled", "deleted"}]
    /\ AlActive \subseteq AlIds /\ \A i \in AlActive : alAlert[i] \in AlRules
    /\ alNext \in 1 .. AlMaxAlerts + 1
    /\ alEvents \in [AlIds -> Nat] /\ alHot \subseteq AlRules
    /\ alTask \in [AlRules -> [at : {"none", "start", "value", "act", "tell"},
                               hot : BOOLEAN, alert : 0 .. AlMaxAlerts]]
    /\ alCall \in [AlCalls -> [at : {"none", "disabled", "resolve", "tell"}, id : 0 .. AlMaxAlerts,
                               rule : AlRules \union {"none"}]]
    /\ alCount \in 0 .. AlMaxAlerts + 1 /\ alShown \in 0 .. AlMaxAlerts

\* A rule has at most one active alert, though look-up and insertion are two
\* statements: no two tasks ever check the same rule.
AlOneAlert == \A r \in AlRules : Cardinality(AlOf(r)) <= 1

\* An alert does not vanish: every id ever raised is active or has its recovery
\* in the history, and never both.
AlHistoryComplete == \A i \in AlIds : i < alNext => (i \in AlActive <=> alEvents[i] = 0)

\* Alerts are accounted for, though the ticks of the monitor overlap with calls that
\* disable, delete and resolve: one active alert per rule, and each alert ever raised is
\* active or has its recovery on record.
AlertsSound == AlOneAlert /\ AlHistoryComplete

\* The number of alarms shown catches up with the table, whatever broadcasts were
\* lost or overtook each other.
AlCountCatchesUp == []<>(alShown = Cardinality(AlActive))

\* An alarm condition that lasts, under a rule that stays enabled, is raised: the
\* rule has an alert in the end.
AlRaised ==
    \A r \in AlRules : []<>(\/ alRule[r] # "enabled" \/ r \notin alHot
                            \/ AlOf(r) # {} \/ alNext > AlMaxAlerts)
=============================================================================
