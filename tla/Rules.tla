------------------------------- MODULE Rules -------------------------------
(***************************************************************************)
(* A rule as a flow of nodes: how it is extracted and run, what the page of a run *)
(* shows, the tables of rules and of the history of their runs, and the state of *)
(* their calculation nodes.                                                *)
(***************************************************************************)
EXTENDS Integers, Sequences, FiniteSets, Functions, SequencesExt, FiniteSetsExt, TLC

-----------------------------------------------------------------------------
(*-------------------------------- RuleFlow -------------------------------*)
(***************************************************************************)
(* One execution of a rule: the flow the editor saved is parsed into a     *)
(* graph, the graph is walked with a work queue, every node reads its      *)
(* variables into one map shared by the whole run, switches choose a port, *)
(* action nodes write points, and the trace of the run becomes the history *)
(* a user reads.  Points move between two nodes; a node reads them at once. *)
(*                                                                         *)
(* A number is a small natural, RfNaN is not a number; a formula is the    *)
(* sum of its variables.  A point that is absent or not finite is RfNaN.   *)
(***************************************************************************)

CONSTANTS RfDocs,       \* saved flows: sequences of nodes
          RfPoints,     \* points <<"M" or "A", number>>
          RfNumbers,    \* values of points
          RfMaxVisits,  \* MAX_VISITS
          RfMoves       \* bound: changes of points by others

ASSUME RfAssumption == RfNumbers \subseteq Nat /\ RfMaxVisits \in Nat /\ RfMoves \in Nat

VARIABLES
    rfFlow,    \* the parsed flow
    rfPoint,   \* values of the points
    rfLeft,    \* changes by others that are left
    rfRun      \* locals of execute()

rfVars == <<rfFlow, rfPoint, rfLeft, rfRun>>

RfNaN == -1
RfPeriods == {"daily", "weekly", "monthly", "quarterly"}
RfKept == {"function-switch", "action-changeValue", "action-calculation", "action-periodDelta"}

-----------------------------------------------------------------------------
(* Parsing. *)

\* A node without a config is an error for two kinds and empty for the others.
RfUnreadable(n) ==
    /\ n.type = "custom"
    /\ \/ n.inner \in {"function-switch", "action-periodDelta"} /\ ~n.config
       \/ n.inner = "action-periodDelta" /\ n.period \notin RfPeriods

RfCompact(n) ==
    IF n.config THEN n ELSE [n EXCEPT !.vars = <<>>, !.rule = <<>>, !.wires = <<>>]

\* Nodes of other kinds are dropped; the last start node is the start.
RfExtract(doc) ==
    LET kept == SelectSeq(doc, LAMBDA n : n.type \in {"start", "end"} \/ (n.type = "custom" /\ n.inner \in RfKept))
        starts == SelectSeq(doc, LAMBDA n : n.type = "start")
        ids == {kept[i].id : i \in DOMAIN kept}
    IN  [ok |-> starts # <<>> /\ \A i \in DOMAIN doc : ~RfUnreadable(doc[i]),
         start |-> IF starts = <<>> THEN 0 ELSE Last(starts).id,
         nodes |-> [id \in ids |-> RfCompact(Last(SelectSeq(kept, LAMBDA n : n.id = id)))]]

-----------------------------------------------------------------------------
(* Reading variables. *)

RfPut(f, x, v) == x :> v @@ f

RfSum(names, vals) ==
    IF \E i \in DOMAIN names : vals[names[i]] = RfNaN THEN RfNaN
    ELSE FoldLeft(LAMBDA acc, x : acc + vals[x], 0, names)

\* Points first (names are distinct within a node): a missing measurement
\* stops the node, a missing action point is left unset.
RfReadPoints(vars, vals) ==
    LET base == {v \in Range(vars) : v.formula = <<>>}
        known == {v \in base : rfPoint[v.point] # RfNaN}
        value(name) == rfPoint[(CHOOSE v \in known : v.name = name).point]
        new == [name \in {v.name : v \in known} |-> value(name)]
    IN  [vals |-> new @@ vals,
         changed |-> \E x \in DOMAIN new : x \notin DOMAIN vals \/ vals[x] # new[x],
         seen |-> [p \in {v.point : v \in known} |-> rfPoint[p]],
         missing |-> {v.name : v \in {u \in base \ known : u.point[1] = "M"}}]

\* Then the formulas, in order; one over an unknown name is a missing variable.
RfReadFormula(acc, v) ==
    IF \E i \in DOMAIN v.formula : v.formula[i] \notin DOMAIN acc.vals
    THEN [acc EXCEPT !.missing = @ \cup {v.name}]
    ELSE LET value == RfSum(v.formula, acc.vals)
         IN  [acc EXCEPT !.vals = RfPut(@, v.name, value),
                         !.changed = @ \/ v.name \notin DOMAIN acc.vals \/ acc.vals[v.name] # value]

RfUnbound(vars) == \E i \in DOMAIN vars : vars[i].formula = <<>> /\ vars[i].point = <<>>

RfReadAll(vars, vals) ==
    FoldLeft(RfReadFormula, RfReadPoints(vars, vals), SelectSeq(vars, LAMBDA v : v.formula # <<>>))

-----------------------------------------------------------------------------
(* Conditions of a switch. *)

RfHolds(c, vals) ==
    /\ c.var \in DOMAIN vals /\ vals[c.var] # RfNaN
    /\ CASE c.op = "==" -> vals[c.var] = c.val
         [] c.op = "!=" -> vals[c.var] # c.val
         [] c.op = ">" -> vals[c.var] > c.val
         [] c.op = "<=" -> vals[c.var] <= c.val
         [] OTHER -> FALSE

\* Folded from the left with no precedence: each condition by the relation before it.
RfAll(conds, vals) ==
    FoldLeft(LAMBDA acc, c : IF c.rel = "||" THEN acc \/ RfHolds(c, vals) ELSE acc /\ RfHolds(c, vals),
             TRUE, conds)

\* The first branch that holds, and where its port leads.
RfPort(branches, vals) ==
    SelectInSeq(branches, LAMBDA b : RfAll(b.conds, vals))

-----------------------------------------------------------------------------
(* The walk. *)

RfFreshRun(flow) ==
    [queue |-> IF flow.ok THEN <<flow.start>> ELSE <<>>, visited |-> {}, path |-> <<>>, edges |-> {},
     status |-> <<>>, vals |-> <<>>, cache |-> {}, detail |-> <<>>, seen |-> <<>>, acts |-> 0,
     errors |-> IF flow.ok THEN 0 ELSE 1, torn |-> FALSE, over |-> FALSE]

RfInit ==
    /\ \E doc \in RfDocs : rfFlow = RfExtract(doc)
    /\ rfPoint \in [RfPoints -> RfNumbers \cup {RfNaN}]
    /\ rfLeft = RfMoves
    /\ rfRun = RfFreshRun(rfFlow)

\* pop_front and the visited set; the node is on the path before it runs.
RfPop ==
    [rfRun EXCEPT !.queue = Tail(@), !.visited = @ \cup {Head(rfRun.queue)},
                  !.path = Append(@, Head(rfRun.queue))]

RfFail(r, id, how) ==
    [r EXCEPT !.status = RfPut(@, id, how), !.errors = @ + 1]

RfGoOn(r, id, targets) ==
    [r EXCEPT !.status = RfPut(@, id, "executed"),
              !.edges = @ \cup {<<id, targets[i]>> : i \in DOMAIN targets},
              !.queue = @ \o targets]

\* snapshot_or_reuse
RfSnapshot(r, changed) ==
    IF ~changed /\ r.cache # {} THEN r.cache ELSE {r.vals}

RfAtNode(id) ==
    /\ ~rfRun.over /\ rfRun.queue # <<>> /\ id = Head(rfRun.queue)
    /\ id \notin rfRun.visited /\ Cardinality(rfRun.visited) < RfMaxVisits

RfIs(id, kind) ==
    /\ RfAtNode(id) /\ id \in DOMAIN rfFlow.nodes
    /\ LET n == rfFlow.nodes[id] IN (IF n.type = "custom" THEN n.inner ELSE n.type) = kind

RfAgain ==
    /\ ~rfRun.over /\ rfRun.queue # <<>> /\ Head(rfRun.queue) \in rfRun.visited
    /\ rfRun' = [rfRun EXCEPT !.queue = Tail(@)]
    /\ UNCHANGED <<rfFlow, rfPoint, rfLeft>>

RfTooMany ==
    /\ ~rfRun.over /\ rfRun.queue # <<>> /\ Head(rfRun.queue) \notin rfRun.visited
    /\ Cardinality(rfRun.visited) >= RfMaxVisits
    /\ rfRun' = [rfRun EXCEPT !.queue = <<>>, !.visited = @ \cup {Head(rfRun.queue)}, !.errors = @ + 1]
    /\ UNCHANGED <<rfFlow, rfPoint, rfLeft>>

RfUnknown(id) ==
    /\ RfAtNode(id) /\ id \notin DOMAIN rfFlow.nodes
    /\ rfRun' = RfFail(RfPop, id, "failed")
    /\ UNCHANGED <<rfFlow, rfPoint, rfLeft>>

RfEnd(id) ==
    /\ RfIs(id, "end")
    /\ rfRun' = RfGoOn(RfPop, id, <<>>)
    /\ UNCHANGED <<rfFlow, rfPoint, rfLeft>>

RfStart(id) ==
    /\ RfIs(id, "start")
    /\ LET wires == rfFlow.nodes[id].wires
       IN  rfRun' = IF wires = <<>> THEN RfFail(RfPop, id, "failed") ELSE RfGoOn(RfPop, id, wires)
    /\ UNCHANGED <<rfFlow, rfPoint, rfLeft>>

\* The reading every node begins with, and how it can end the branch.
RfEnter(id, vars) ==
    LET read == RfReadAll(vars, rfRun.vals)
        noted == [RfPop EXCEPT !.vals = read.vals, !.seen = read.seen @@ @]
    IN  IF RfUnbound(vars) THEN [run |-> RfFail(RfPop, id, "failed"), on |-> FALSE]
        ELSE IF read.missing # {} THEN [run |-> RfFail(noted, id, "skipped"), on |-> FALSE]
        ELSE [run |-> [noted EXCEPT !.cache = RfSnapshot(noted, read.changed)], on |-> TRUE]

RfSwitch(id) ==
    /\ RfIs(id, "function-switch")
    /\ \E n \in {rfFlow.nodes[id]}, in \in {RfEnter(id, rfFlow.nodes[id].vars)} :
       LET port == RfPort(n.rule, in.run.vals)
           targets == IF port = 0 THEN <<>> ELSE n.rule[port].to
           told == [in.run EXCEPT !.detail = RfPut(@, id, [input |-> in.run.cache, port |-> port, acts |-> <<>>])]
       IN  rfRun' = IF in.on THEN RfGoOn(told, id, targets) ELSE in.run
    /\ UNCHANGED <<rfFlow, rfPoint, rfLeft>>

-----------------------------------------------------------------------------
(* Actions. *)

\* validate_write_target and write_to_point: an unbound target or a value that
\* is no number fails before the write; an action point without a route is
\* written and yet counted as failed.
RfOutcome(v, value, how) ==
    IF v.point = <<>> \/ value = RfNaN THEN "invalid"
    ELSE IF how = "unrouted" /\ v.point[1] # "A" THEN "failed" ELSE how

RfStores(outcome) == outcome \in {"ok", "unrouted"}

RfWrite(points, v, value, outcome) ==
    IF RfStores(outcome) THEN [points EXCEPT ![v.point] = value] ELSE points

RfVarOf(vars, name) == SelectInSeq(vars, LAMBDA v : v.name = name)

\* The assignments that have a target among the variables, in order.
RfAssigned(n) == SelectSeq(n.rule, LAMBDA a : RfVarOf(n.vars, a.var) # 0)

RfChange(id) ==
    /\ RfIs(id, "action-changeValue")
    /\ \E n \in {rfFlow.nodes[id]}, in \in {RfEnter(id, rfFlow.nodes[id].vars)} :
       LET todo == RfAssigned(n)
           target(a) == n.vars[RfVarOf(n.vars, a.var)]
           value(a) == IF a.from = "" THEN a.lit
                       ELSE IF a.from \in DOMAIN in.run.vals THEN in.run.vals[a.from] ELSE RfNaN
       IN  IF ~in.on THEN rfRun' = in.run /\ UNCHANGED rfPoint
           ELSE \E hows \in [DOMAIN todo -> {"ok", "failed", "unrouted"}] :
                  LET out == [i \in DOMAIN todo |-> RfOutcome(target(todo[i]), value(todo[i]), hows[i])]
                      told == [in.run EXCEPT
                                 !.detail = RfPut(@, id, [input |-> in.run.cache, port |-> 0, acts |-> out]),
                                 !.acts = @ + Len(out)]
                  IN  /\ rfPoint' = FoldLeft(LAMBDA p, i : RfWrite(p, target(todo[i]), value(todo[i]), out[i]),
                                             rfPoint, [i \in DOMAIN todo |-> i])
                      /\ rfRun' = RfGoOn(told, id, n.wires)
    /\ UNCHANGED <<rfFlow, rfLeft>>

\* One formula of a calculation: it fails on an unknown name, else its result
\* is written if the node has a variable of that name, and stored in the map.
RfCompute(n, acc, i, how) ==
    LET c == n.rule[i]
        result == RfSum(c.terms, acc.vals)
        at == RfVarOf(n.vars, c.out)
        outcome == RfOutcome(n.vars[at], result, how)
    IN  IF acc.failed \/ \E k \in DOMAIN c.terms : c.terms[k] \notin DOMAIN acc.vals
        THEN [acc EXCEPT !.failed = TRUE]
        ELSE [failed |-> FALSE,
              vals |-> RfPut(acc.vals, c.out, result),
              points |-> IF at = 0 THEN acc.points ELSE RfWrite(acc.points, n.vars[at], result, outcome),
              acts |-> IF at = 0 THEN acc.acts ELSE Append(acc.acts, outcome)]

\* A formula that fails ends the node at once, the snapshot stays cached.
RfCalculate(id) ==
    /\ RfIs(id, "action-calculation")
    /\ \E n \in {rfFlow.nodes[id]}, in \in {RfEnter(id, rfFlow.nodes[id].vars)} :
       LET first == [failed |-> FALSE, vals |-> in.run.vals, points |-> rfPoint, acts |-> <<>>]
       IN  IF ~in.on THEN rfRun' = in.run /\ UNCHANGED rfPoint
           ELSE \E hows \in [DOMAIN n.rule -> {"ok", "failed"}] :
                \E end \in {FoldLeft(LAMBDA acc, i : RfCompute(n, acc, i, hows[i]),
                                     first, [i \in DOMAIN n.rule |-> i])} :
                  LET after == [in.run EXCEPT !.vals = end.vals, !.acts = @ + Len(end.acts)]
                      told == [after EXCEPT !.cache = {},
                                 !.detail = RfPut(@, id, [input |-> in.run.cache, port |-> 0, acts |-> end.acts])]
                  IN  /\ rfPoint' = end.points
                      /\ rfRun' = IF end.failed
                                  THEN [RfFail(after, id, "failed") EXCEPT !.torn = @ \/ end.vals # in.run.vals]
                                  ELSE RfGoOn(told, id, n.wires)
    /\ UNCHANGED <<rfFlow, rfLeft>>

\* The delta is no number on the first call of a period counter.
RfPeriod(id) ==
    /\ RfIs(id, "action-periodDelta")
    /\ \E n \in {rfFlow.nodes[id]}, in \in {RfEnter(id, <<rfFlow.nodes[id].vars[1]>>)} :
           IF ~in.on THEN rfRun' = in.run /\ UNCHANGED rfPoint
           ELSE IF n.vars[1].name \notin DOMAIN in.run.vals
           THEN rfRun' = RfFail(in.run, id, "skipped") /\ UNCHANGED rfPoint
           ELSE \E delta \in {RfNaN, 0}, how \in {"ok", "failed"} :
                  LET out == RfOutcome(n.vars[2], delta, how)
                      told == [in.run EXCEPT !.vals = RfPut(@, n.vars[2].name, delta), !.cache = {},
                                 !.detail = RfPut(@, id, [input |-> in.run.cache, port |-> 0, acts |-> <<out>>]),
                                 !.acts = @ + 1]
                  IN  /\ rfPoint' = RfWrite(rfPoint, n.vars[2], delta, out)
                      /\ rfRun' = RfGoOn(told, id, n.wires)
    /\ UNCHANGED <<rfFlow, rfLeft>>

RfReturn ==
    /\ ~rfRun.over /\ rfRun.queue = <<>>
    /\ rfRun' = [rfRun EXCEPT !.over = TRUE]
    /\ UNCHANGED <<rfFlow, rfPoint, rfLeft>>

\* A device, a user or another rule changes a point between two nodes.
RfMove(p, v) ==
    /\ ~rfRun.over /\ rfLeft > 0 /\ rfLeft' = rfLeft - 1
    /\ rfPoint[p] # v /\ rfPoint' = [rfPoint EXCEPT ![p] = v]
    /\ UNCHANGED <<rfFlow, rfRun>>

RfVisit(id) ==
    RfUnknown(id) \/ RfEnd(id) \/ RfStart(id) \/ RfSwitch(id) \/ RfChange(id) \/ RfCalculate(id) \/ RfPeriod(id)

RfWalk ==
    \/ \E id \in Range(rfRun.queue) : RfVisit(id)
    \/ RfAgain \/ RfTooMany \/ RfReturn

RfNext == RfWalk \/ \E p \in RfPoints, v \in RfNumbers \cup {RfNaN} : RfMove(p, v)

RfSpec == RfInit /\ [][RfNext]_rfVars

RfTypeOK ==
    /\ rfPoint \in [RfPoints -> Int] /\ rfLeft \in 0 .. RfMoves
    /\ Range(rfRun.path) \subseteq rfRun.visited
    /\ DOMAIN rfRun.detail \subseteq DOMAIN rfFlow.nodes

-----------------------------------------------------------------------------
\* Every wire a node activated leads to a node that ran, every node but the
\* start ran because of such a wire, no node ran twice, and the run counts as
\* a success exactly when no node failed or was skipped (execute: the queue,
\* the visited set and branch_errors; "every one of them actually runs").
RfNothingDropped ==
    (rfRun.over /\ rfFlow.ok /\ Cardinality(rfRun.visited) <= RfMaxVisits) =>
        /\ \A e \in rfRun.edges : e[2] \in Range(rfRun.path)
        /\ \A i \in 2 .. Len(rfRun.path) : \E e \in rfRun.edges : e[2] = rfRun.path[i]
        /\ Cardinality(Range(rfRun.path)) = Len(rfRun.path)
        /\ (rfRun.errors = 0) <=> \A id \in DOMAIN rfRun.status : rfRun.status[id] = "executed"

\* No decision and no write rests on a reading that was not there: a node that
\* left a detail had a number for each of its own measurements among the values
\* it recorded (read_rule_variables: the caller must stop when one is missing).
RfNoFiction ==
    \A id \in DOMAIN rfRun.detail : \A input \in rfRun.detail[id].input :
        LET n == rfFlow.nodes[id]
            own == IF n.inner = "action-periodDelta" THEN {1} ELSE DOMAIN n.vars
        IN  \A i \in own : (n.vars[i].formula = <<>> /\ n.vars[i].point[1] = "M") =>
                n.vars[i].name \in DOMAIN input /\ input[n.vars[i].name] # RfNaN

\* Whatever the wires, cycles included, an execution ends.
RfEnds == []<>(rfRun.path = <<>> \/ rfRun.over)

-----------------------------------------------------------------------------
(*------------------------------ RuleDisplay ------------------------------*)
(***************************************************************************)
(* The history entry of a rule execution: what a user reads about the run  *)
(* RuleFlow describes.  One table of variable bindings serves the whole    *)
(* text, every node's step uses the values recorded for that node, and the *)
(* rows of an action node are paired with its results by position.         *)
(***************************************************************************)

RdNode(id) == rfFlow.nodes[id]
RdKind(id) == IF RdNode(id).type = "custom" THEN RdNode(id).inner ELSE RdNode(id).type

\* collect_all_variables: one definition per name (sorted, then deduplicated)
RdAllVariables == UNION {Range(RdNode(id).vars) : id \in DOMAIN rfFlow.nodes}
RdVarDefs == [name \in {v.name : v \in RdAllVariables} |-> CHOOSE v \in RdAllVariables : v.name = name]

\* build_var_info_map: the binding and the value in one snapshot, if it has one
RdVarInfo(input) ==
    [name \in DOMAIN RdVarDefs |->
        [point |-> RdVarDefs[name].point, formula |-> RdVarDefs[name].formula,
         value |-> IF name \in DOMAIN input THEN {input[name]} ELSE {}]]

RdInput(id) == CHOOSE input \in rfRun.detail[id].input : TRUE

\* enrich_switch_step: each condition with its result, and the matched port
RdSwitchStep(id) ==
    [conditions |-> [b \in DOMAIN RdNode(id).rule |-> RfAll(RdNode(id).rule[b].conds, RdInput(id))],
     matched |-> rfRun.detail[id].port]

\* enrich_change_step and enrich_calculation_step: row and action by position
RdRowResult(id, i) ==
    IF i \in DOMAIN rfRun.detail[id].acts THEN rfRun.detail[id].acts[i] ELSE "none"

RdChangeRows(id) ==
    [i \in DOMAIN RdNode(id).rule |->
        LET a == RdNode(id).rule[i]
        IN  [target |-> IF a.var \in DOMAIN RdVarDefs THEN {RdVarInfo(RdInput(id))[a.var]} ELSE {},
             source |-> IF a.from \in DOMAIN RdVarDefs THEN "variable" ELSE "literal",
             result |-> RdRowResult(id, i)]]

RdCalculationRows(id) ==
    [i \in DOMAIN RdNode(id).rule |-> [output |-> RdNode(id).rule[i].out, result |-> RdRowResult(id, i)]]

RdPeriodStep(id) == [period |-> RdNode(id).period, result |-> RdRowResult(id, 1)]

RdEnriched(id) ==
    CASE RdKind(id) = "function-switch" -> RdSwitchStep(id)
      [] RdKind(id) = "action-changeValue" -> RdChangeRows(id)
      [] RdKind(id) = "action-calculation" -> RdCalculationRows(id)
      [] OTHER -> RdPeriodStep(id)

\* build_execution_steps: a step per node of the path; only a node with a detail
\* that is still in the flow says more than its name
RdSteps ==
    [i \in DOMAIN rfRun.path |->
        LET id == rfRun.path[i]
        IN  [id |-> id, kind |-> IF id \in DOMAIN rfFlow.nodes THEN RdKind(id) ELSE "",
             told |-> IF id \in DOMAIN rfRun.detail THEN {RdEnriched(id)} ELSE {}]]

\* build_execution_graph
RdGraph ==
    [nodes |-> {[id |-> RdSteps[i].id, status |-> rfRun.status[RdSteps[i].id]] : i \in DOMAIN RdSteps},
     edges |-> rfRun.edges]

\* build_summary: how many actions failed to write, unless the run failed
RdFailedActs ==
    LET ids == DOMAIN rfRun.detail
    IN  {<<id, i>> \in ids \X (1 .. rfRun.acts) :
            i \in DOMAIN rfRun.detail[id].acts /\ rfRun.detail[id].acts[i] # "ok"}
RdSummary ==
    IF rfRun.errors > 0 THEN "failed"
    ELSE IF rfRun.acts = 0 THEN "no actions"
    ELSE IF RdFailedActs # {} THEN "some failed to write" ELSE "done"

\* build_trigger_reason: the switches that took a port, else the first action
RdSwitchReasons ==
    SelectSeq(rfRun.path, LAMBDA id : id \in DOMAIN rfRun.detail
                                        /\ RdKind(id) = "function-switch" /\ rfRun.detail[id].port # 0)
RdReason ==
    LET acting == SelectSeq(rfRun.path, LAMBDA id : id \in DOMAIN rfRun.detail /\ RdKind(id) # "function-switch")
    IN  IF RdSwitchReasons # <<>> THEN "condition"
        ELSE IF acting = <<>> THEN "rule triggered" ELSE RdKind(acting[1])

-----------------------------------------------------------------------------
\* The graph a user sees is the run: its nodes are the nodes that ran, each
\* with a verdict, and both ends of every edge are among them.
RdGraphWhole ==
    (rfRun.over /\ Cardinality(rfRun.visited) <= RfMaxVisits) =>
        LET shown == {n.id : n \in RdGraph.nodes}
        IN  /\ shown = rfRun.visited
            /\ \A e \in RdGraph.edges : e[1] \in shown /\ e[2] \in shown

\* The history explains the run: with the values shown beside it, the first
\* condition of a switch that holds is the port it took, and a run that says a
\* condition was met has such a port (each step uses the "variable values when
\* entering this node"), unless a calculation failed half-way.
RdExplained(id) ==
    LET step == RdSwitchStep(id)
    IN  /\ step.matched # 0 => step.conditions[step.matched]
        /\ \A b \in DOMAIN step.conditions : step.conditions[b] => step.matched \in 1 .. b
RdSwitches == {id \in DOMAIN rfRun.detail : RdKind(id) = "function-switch"}
RdReasonTrue ==
    ~rfRun.torn => /\ \A id \in RdSwitches : RdExplained(id)
                   /\ RdReason = "condition" => \E id \in RdSwitches : rfRun.detail[id].port # 0

\* A summary that reports success covers the whole run: every node ran to its
\* end and every write of every node was accepted.
RdSummaryHonest ==
    (rfRun.over /\ RdSummary = "done") =>
        /\ \A id \in rfRun.visited : rfRun.status[id] = "executed"
        /\ \A id \in DOMAIN rfRun.detail : Range(rfRun.detail[id].acts) \subseteq {"ok"}

\* Where every assignment has a target among the node's variables, a row shows
\* the outcome of its own write.
RdOwnAction(id, i) ==
    Cardinality({k \in 1 .. i : RfVarOf(RdNode(id).vars, RdNode(id).rule[k].var) # 0})
RdOwnRow(id, i) ==
    LET a == RdNode(id).rule[i]
    IN  RdChangeRows(id)[i].result =
            IF RfVarOf(RdNode(id).vars, a.var) = 0 THEN "none" ELSE rfRun.detail[id].acts[RdOwnAction(id, i)]
RdRowsMatch ==
    \A id \in DOMAIN rfRun.detail :
        (RdKind(id) = "action-changeValue" /\ Len(RfAssigned(RdNode(id))) = Len(RdNode(id).rule)) =>
            \A i \in DOMAIN RdNode(id).rule : RdOwnRow(id, i)

-----------------------------------------------------------------------------
(*------------------------------- RuleStore -------------------------------*)
(***************************************************************************)
(* The tables rules and rule_history and everything that writes them: the  *)
(* rule API of modsrv (create, update, enable, disable, delete, each       *)
(* followed by a reload of the scheduler), the scheduler's record of what  *)
(* a run did, with its suppression of repeated outcomes, and the pruning.  *)
(*                                                                         *)
(* A flow is "none" (a rule just created), "bad" (parsed, its start node   *)
(* is no start node) or "good".  An outcome is a fingerprint.              *)
(***************************************************************************)

CONSTANTS RsIds,       \* rowids 1 .. RsIds (bound: creations)
          RsCalls,     \* requests in flight
          RsPrints,    \* fingerprints of outcomes
          RsKeep,      \* rows of history kept per rule
          RsCascade,   \* the history table deletes with its rule (migration v6)
          RsRows,      \* bound: rows of history ever written
          RsEdits      \* bound: requests

ASSUME RsAssumption == /\ RsIds \in Nat /\ RsKeep \in Nat \ {0} /\ RsCascade \in BOOLEAN
                       /\ RsRows \in Nat /\ RsEdits \in Nat

VARIABLES
    rsRule,     \* table rules: id -> [enabled, flow]
    rsHist,     \* table rule_history, by id: <<rule, print>>, {} when deleted
    rsLive,     \* the scheduler's rules: id -> last fingerprint written ({} none)
    rsPend,     \* history rows decided under the lock and not yet written
    rsPrune,    \* prune tasks spawned
    rsCall,     \* requests: [at, id]
    rsLeft, rsNextId

rsVars == <<rsRule, rsHist, rsLive, rsPend, rsPrune, rsCall, rsLeft, rsNextId>>

RsIdle == [at |-> "idle", id |-> 0]

RsInit ==
    /\ rsRule = <<>> /\ rsHist = <<>> /\ rsLive = <<>> /\ rsPend = {} /\ rsPrune = {}
    /\ rsCall = [c \in RsCalls |-> RsIdle] /\ rsLeft = RsEdits /\ rsNextId = 1

-----------------------------------------------------------------------------
(* Requests: the transaction, then the reload. *)

RsBegin(c) == rsCall[c].at = "idle" /\ rsLeft > 0 /\ rsLeft' = rsLeft - 1
RsReloadNext(c, id) == rsCall' = [rsCall EXCEPT ![c] = [at |-> "reload", id |-> id]]
RsRefuse(c) == rsCall' = [rsCall EXCEPT ![c] = [at |-> "refused", id |-> 0]] /\ UNCHANGED rsRule

RsCreate(c) ==
    /\ RsBegin(c) /\ rsNextId <= RsIds /\ rsNextId' = rsNextId + 1
    /\ rsRule' = rsNextId :> [enabled |-> FALSE, flow |-> "none"] @@ rsRule
    /\ RsReloadNext(c, rsNextId)
    /\ UNCHANGED <<rsHist, rsLive, rsPend, rsPrune>>

\* validate_enabled_rule, inside the transaction of the change
RsRunnable(row) == row.enabled => row.flow = "good"

\* PUT: any of the fields; BEGIN IMMEDIATE, so two updates do not overlap.
\* Extraction of a flow without a start node fails before the row is touched.
RsUpdate(c, id, fields) ==
    /\ RsBegin(c)
    /\ IF id \notin DOMAIN rsRule \/ fields = <<>> THEN RsRefuse(c)
       ELSE LET row == fields @@ rsRule[id]
            IN  IF RsRunnable(row) THEN rsRule' = [rsRule EXCEPT ![id] = row] /\ RsReloadNext(c, id)
                ELSE RsRefuse(c)
    /\ UNCHANGED <<rsHist, rsLive, rsPend, rsPrune, rsNextId>>

RsEnable(c, id) ==
    /\ RsBegin(c)
    /\ IF id \in DOMAIN rsRule /\ RsRunnable([rsRule[id] EXCEPT !.enabled = TRUE])
       THEN rsRule' = [rsRule EXCEPT ![id].enabled = TRUE] /\ RsReloadNext(c, id) ELSE RsRefuse(c)
    /\ UNCHANGED <<rsHist, rsLive, rsPend, rsPrune, rsNextId>>

RsDisable(c, id) ==
    /\ RsBegin(c)
    /\ IF id \in DOMAIN rsRule
       THEN rsRule' = [rsRule EXCEPT ![id].enabled = FALSE] /\ RsReloadNext(c, id) ELSE RsRefuse(c)
    /\ UNCHANGED <<rsHist, rsLive, rsPend, rsPrune, rsNextId>>

RsRowsOf(hist, id) == {i \in DOMAIN hist : \E r \in hist[i] : r[1] = id}
RsWithout(rows) == [i \in DOMAIN rsHist |-> IF i \in rows THEN {} ELSE rsHist[i]]

\* delete_rule is two statements on the pool, not one transaction.
RsDeleteHistory(c, id) ==
    /\ RsBegin(c)
    /\ rsHist' = RsWithout(RsRowsOf(rsHist, id))
    /\ rsCall' = [rsCall EXCEPT ![c] = [at |-> "delete", id |-> id]]
    /\ UNCHANGED <<rsRule, rsLive, rsPend, rsPrune, rsNextId>>

RsDeleteRule(c) ==
    /\ rsCall[c].at = "delete"
    /\ LET id == rsCall[c].id
           held == RsRowsOf(rsHist, id) # {} /\ ~RsCascade
       IN  IF id \notin DOMAIN rsRule THEN RsRefuse(c) /\ UNCHANGED rsHist
           ELSE IF held
           THEN rsCall' = [rsCall EXCEPT ![c] = [at |-> "failed", id |-> id]] /\ UNCHANGED <<rsRule, rsHist>>
           ELSE /\ rsRule' = [i \in DOMAIN rsRule \ {id} |-> rsRule[i]]
                /\ rsHist' = RsWithout(RsRowsOf(rsHist, id))
                /\ RsReloadNext(c, id)
    /\ UNCHANGED <<rsLive, rsPend, rsPrune, rsLeft, rsNextId>>

\* reload_rules: load_enabled_rules fails as a whole on one row that does not
\* parse, and the rules in force stay; else every rule starts with fresh state.
RsLoads == \A id \in DOMAIN rsRule : rsRule[id].enabled => rsRule[id].flow # "none"
RsEnabled == {id \in DOMAIN rsRule : rsRule[id].enabled}

RsReload(c) ==
    /\ rsCall[c].at = "reload"
    /\ rsLive' = IF RsLoads THEN [id \in RsEnabled |-> {}] ELSE rsLive
    /\ rsCall' = [rsCall EXCEPT ![c].at = "done"]
    /\ UNCHANGED <<rsRule, rsHist, rsPend, rsPrune, rsLeft, rsNextId>>

RsAnswer(c) ==
    /\ rsCall[c].at \in {"done", "refused", "failed"}
    /\ rsCall' = [rsCall EXCEPT ![c] = RsIdle]
    /\ UNCHANGED <<rsRule, rsHist, rsLive, rsPend, rsPrune, rsLeft, rsNextId>>

-----------------------------------------------------------------------------
(* The record of a run. *)

\* Under the write lock: a new outcome, or the repeat timer.
RsRan(id, print, timer) ==
    /\ id \in DOMAIN rsLive
    /\ rsLive[id] # {print} \/ timer
    /\ Len(rsHist) + Cardinality(rsPend) < RsRows
    /\ rsLive' = [rsLive EXCEPT ![id] = {print}]
    /\ rsPend' = rsPend \cup {<<id, print>>}
    /\ UNCHANGED <<rsRule, rsHist, rsPrune, rsCall, rsLeft, rsNextId>>

\* write_rule_history_to_db after the lock: a rule that is gone refuses the row
\* (foreign key); a prune task follows a row that was written.
RsRecord(row) ==
    /\ row \in rsPend /\ rsPend' = rsPend \ {row}
    /\ IF row[1] \in DOMAIN rsRule
       THEN rsHist' = Append(rsHist, {row}) /\ rsPrune' = rsPrune \cup {row[1]}
       ELSE UNCHANGED <<rsHist, rsPrune>>
    /\ UNCHANGED <<rsRule, rsLive, rsCall, rsLeft, rsNextId>>

RsNewest(id, n) ==
    {i \in RsRowsOf(rsHist, id) : Cardinality({k \in RsRowsOf(rsHist, id) : k > i}) < n}

RsPruneTask(id) ==
    /\ id \in rsPrune /\ rsPrune' = rsPrune \ {id}
    /\ rsHist' = RsWithout(RsRowsOf(rsHist, id) \ RsNewest(id, RsKeep))
    /\ UNCHANGED <<rsRule, rsLive, rsPend, rsCall, rsLeft, rsNextId>>

-----------------------------------------------------------------------------
(* Queries. *)

\* get_rule_history: the total is counted on the table, the rows come from the
\* join, newest first, page by page.
RsFilter(id) == IF id = 0 THEN {i \in DOMAIN rsHist : rsHist[i] # {}} ELSE RsRowsOf(rsHist, id)
RsJoined(id) == {i \in RsFilter(id) : \A r \in rsHist[i] : r[1] \in DOMAIN rsRule}
RsHistoryPage(id, page, size) ==
    LET rows == SetToSortSeq(RsFilter(id), LAMBDA a, b : a > b)
        offset == (page - 1) * size
    IN  [rows |-> SubSeq(rows, offset + 1, Min({offset + size, Len(rows)})), total |-> Cardinality(RsFilter(id))]

\* list_rules_paginated, in priority and id order
RsRulePage(page, size) ==
    LET ids == SetToSortSeq(DOMAIN rsRule, LAMBDA a, b : a < b)
        offset == (page - 1) * size
    IN  [rows |-> SubSeq(ids, offset + 1, Min({offset + size, Len(ids)})), total |-> Len(ids)]

-----------------------------------------------------------------------------
RsFields == {f @@ g : f \in {<<>>} \cup {[flow |-> x] : x \in {"bad", "good"}},
                      g \in {<<>>} \cup {[enabled |-> x] : x \in BOOLEAN}}

RsRequest(c) ==
    \/ RsCreate(c)
    \/ \E id \in 1 .. RsIds : RsEnable(c, id) \/ RsDisable(c, id) \/ RsDeleteHistory(c, id)
    \/ \E id \in 1 .. RsIds, fields \in RsFields : RsUpdate(c, id, fields)

RsServe(c) == RsDeleteRule(c) \/ RsReload(c) \/ RsAnswer(c)

RsHistory ==
    \/ \E row \in rsPend : RsRecord(row)
    \/ \E id \in rsPrune : RsPruneTask(id)

RsRuns == \E id \in 1 .. RsIds, print \in RsPrints, timer \in BOOLEAN : RsRan(id, print, timer)

RsNext == (\E c \in RsCalls : RsRequest(c) \/ RsServe(c)) \/ RsHistory \/ RsRuns

RsSpec == RsInit /\ [][RsNext]_rsVars

RsTypeOK ==
    /\ DOMAIN rsRule \subseteq 1 .. RsIds /\ DOMAIN rsLive \subseteq 1 .. RsIds
    /\ Len(rsHist) + Cardinality(rsPend) <= RsRows

-----------------------------------------------------------------------------
\* No request can leave an enabled rule without a flow that runs, in whatever
\* order updates, enables and disables of it interleave: one such row would
\* make every later reload fail, for all rules (validate_enabled_rule inside the
\* transaction, load_enabled_rules).
RsEnabledRuns == \A id \in RsEnabled : rsRule[id].flow = "good"

\* When the requests are answered and no write is on its way, the history holds
\* rows of existing rules only, at most the kept number for each, and every page
\* of it, put together, is the history; so it is with the pages of the rules.
RsQuiet == rsPend = {} /\ rsPrune = {} /\ \A c \in RsCalls : rsCall[c].at = "idle"
RsHistorySound ==
    /\ RsJoined(0) = RsFilter(0)
    /\ RsQuiet => \A id \in DOMAIN rsRule : Cardinality(RsRowsOf(rsHist, id)) <= RsKeep
    /\ LET pages == RsHistoryPage(0, 1, 1).rows \o RsHistoryPage(0, 2, 1).rows \o RsHistoryPage(0, 3, 1).rows
       IN  RsHistoryPage(0, 1, 1).total <= 3 => (ToSet(pages) = RsFilter(0) /\ Len(pages) = Cardinality(RsFilter(0)))
    /\ LET pages == RsRulePage(1, 1).rows \o RsRulePage(2, 1).rows
       IN  RsRulePage(1, 1).total <= 2 => (ToSet(pages) = DOMAIN rsRule /\ Len(pages) = Cardinality(DOMAIN rsRule))

-----------------------------------------------------------------------------
(*------------------------------- CalcState -------------------------------*)
(***************************************************************************)
(* The stateful functions of the calculation engine: integrate, moving_avg,*)
(* rate_of_change and period_delta of one variable of one rule, each with a *)
(* state kept in the store between two evaluations, and the evaluation of a *)
(* formula that calls some of them in a fixed order.                       *)
(*                                                                         *)
(* Time is counted in half days; day 0 is the first of January of a year   *)
(* that is not a leap year, a Monday.  The clock may be set back.          *)
(***************************************************************************)

CONSTANTS CsPeriod,     \* the period of the period_delta node
          CsFirstDays,  \* days on which the engine may start
          CsDays,       \* bound: days one behaviour lasts
          CsOddDays,    \* days whose midnight does not exist exactly once
          CsValues,     \* values of the variable
          CsWindows,    \* windows a formula may ask moving_avg for (0 is refused)
          CsCalls       \* bound: evaluations

ASSUME CsAssumption ==
    /\ CsPeriod \in {"daily", "weekly", "monthly", "quarterly"}
    /\ CsFirstDays \subseteq 100 .. 364 /\ CsDays \in Nat /\ CsValues \subseteq Nat
    /\ CsWindows \subseteq Nat /\ CsCalls \in Nat

VARIABLES
    csNow,      \* the clock, in half days
    csBegan,    \* when the behaviour began
    csUse,      \* what the rule does: evaluates a formula or has a period node
    csLeft,     \* evaluations left
    csAvg,      \* MovingAvgState, or {} when the key is absent
    csInt,      \* IntegrateState, or {}
    csRate,     \* RateOfChangeState, or {}
    csPer,      \* PeriodDeltaState, or {}
    csOut,      \* result of the last call of each function
    csSamples,  \* history: samples of moving_avg since its window changed
    csReads     \* history: <<half day, value>> of each call of period_delta

csVars == <<csNow, csBegan, csUse, csLeft, csAvg, csInt, csRate, csPer, csOut, csSamples, csReads>>

CsNaN == -99

-----------------------------------------------------------------------------
(* The calendar. *)

CsMonthLengths == <<31, 28, 31, 30, 31, 30, 31, 31, 30, 31, 30, 31>>
CsMonthStarts == [m \in 1 .. 12 |-> FoldLeft(LAMBDA a, b : a + b, 0, SubSeq(CsMonthLengths, 1, m - 1))]
CsMonths == [day \in 0 .. 364 |-> Max({m \in 1 .. 12 : CsMonthStarts[m] <= day})]
CsMonth(day) == CsMonths[day % 365]
CsDayOfMonth(day) == (day % 365) - CsMonthStarts[CsMonth(day)] + 1
CsYearStart(day) == day - (day % 365)

\* get_period_start: the day of the start, {} where chrono has no such date.
\* with_month keeps the day of the month and fails when the month is shorter.
CsStartDay(day, period) ==
    CASE period = "daily" -> {day}
      [] period = "weekly" -> {day - (day % 7)}
      [] period = "monthly" -> {day - CsDayOfMonth(day) + 1}
      [] period = "quarterly" ->
           LET qm == ((CsMonth(day) - 1) \div 3) * 3 + 1
           IN  IF CsDayOfMonth(day) <= CsMonthLengths[qm] THEN {CsYearStart(day) + CsMonthStarts[qm]} ELSE {}

\* ... and its timestamp, which falls back to now.
CsPeriodStart(now, period) ==
    LET midnight == CsStartDay(now \div 2, period) \ CsOddDays
    IN  IF midnight = {} THEN now ELSE 2 * (CHOOSE d \in midnight : TRUE)

-----------------------------------------------------------------------------
(* The functions, as state |-> [state, out]. *)

CsNewRing(window) == [values |-> [i \in 1 .. window |-> 0], position |-> 0, count |-> 0]

\* MovingAvgState::add, the average kept as <<sum, number>>
CsAdd(ring, v) ==
    LET w == Len(ring.values)
        at == ring.position % w
    IN  [values |-> [ring.values EXCEPT ![at + 1] = v], position |-> (at + 1) % w,
         count |-> IF ring.count < w THEN ring.count + 1 ELSE ring.count]
CsAverage(ring) ==
    IF ring.count = 0 THEN <<0, 1>>
    ELSE <<FoldLeft(LAMBDA a, b : a + b, 0, SubSeq(ring.values, 1, ring.count)), ring.count>>

\* moving_avg: another window starts over
CsRingFor(window) ==
    IF \E r \in csAvg : Len(r.values) = window THEN CHOOSE r \in csAvg : TRUE ELSE CsNewRing(window)

\* Mutant: a clock that was set back moves the time of the last sample.
CsIntegrateRestamps(v) ==
    IF csInt = {} THEN [state |-> {[ts |-> csNow, acc |-> 0]}, out |-> 0]
    ELSE LET s == CHOOSE s \in csInt : TRUE
             new == s.acc + v * (csNow - s.ts)
         IN  IF csNow <= s.ts THEN [state |-> {[s EXCEPT !.ts = csNow]}, out |-> s.acc]
             ELSE [state |-> {[ts |-> csNow, acc |-> new]}, out |-> new]

CsIntegrate(v) ==
    IF csInt = {} THEN [state |-> {[ts |-> csNow, acc |-> 0]}, out |-> 0]
    ELSE LET s == CHOOSE s \in csInt : TRUE
             new == s.acc + v * (csNow - s.ts)
         IN  IF csNow <= s.ts THEN [state |-> csInt, out |-> s.acc]
             ELSE [state |-> {[ts |-> csNow, acc |-> new]}, out |-> new]

CsRateOfChange(v) ==
    [state |-> {[ts |-> csNow, value |-> v]},
     out |-> IF \E s \in csRate : csNow > s.ts
             THEN LET s == CHOOSE s \in csRate : TRUE IN <<v - s.value, csNow - s.ts>> ELSE <<>>]

\* period_delta: a later period, and a smaller value, take a new snapshot
CsPeriodDelta(v, period) ==
    LET start == CsPeriodStart(csNow, period)
    IN  IF csPer = {} THEN [state |-> {[snapshot |-> v, start |-> start]}, out |-> CsNaN]
        ELSE LET s == CHOOSE s \in csPer : TRUE
                 s1 == IF start > s.start THEN [snapshot |-> v, start |-> start] ELSE s
                 s2 == IF v < s1.snapshot THEN [s1 EXCEPT !.snapshot = v] ELSE s1
             IN  [state |-> {s2}, out |-> v - s2.snapshot]

-----------------------------------------------------------------------------
CsInit ==
    /\ csBegan \in {2 * d : d \in CsFirstDays} /\ csNow = csBegan /\ csLeft = CsCalls
    /\ csUse \in {"formula", "period"}
    /\ csAvg = {} /\ csInt = {} /\ csRate = {} /\ csPer = {}
    /\ csOut = [avg |-> <<0, 1>>, int |-> 0, rate |-> <<>>, per |-> CsNaN]
    /\ csSamples = <<>> /\ csReads = <<>>

\* evaluate: integrate, then moving_avg, then rate_of_change; an error ends the
\* evaluation and keeps what the functions before it stored.
CsEvaluate(v, calls, window, bound) ==
    /\ csUse = "formula" /\ csLeft > 0 /\ csLeft' = csLeft - 1
    /\ LET i == CsIntegrate(v)
           ring == CsAdd(CsRingFor(window), v)
           r == CsRateOfChange(v)
           int == "int" \in calls
           avg == "avg" \in calls /\ bound /\ window # 0
           rate == "rate" \in calls /\ ("avg" \in calls => avg)
       IN  /\ csInt' = IF int THEN i.state ELSE csInt
           /\ csAvg' = IF avg THEN {ring} ELSE csAvg
           /\ csRate' = IF rate THEN r.state ELSE csRate
           /\ csOut' = [csOut EXCEPT !.int = IF int THEN i.out ELSE @,
                                     !.avg = IF avg THEN CsAverage(ring) ELSE @,
                                     !.rate = IF rate THEN r.out ELSE @]
           /\ csSamples' = IF ~avg THEN csSamples
                           ELSE IF \E old \in csAvg : Len(old.values) = window THEN Append(csSamples, v)
                           ELSE <<v>>
    /\ UNCHANGED <<csNow, csBegan, csUse, csPer, csReads>>

\* A period delta node.
CsNode(v) ==
    /\ csUse = "period" /\ csLeft > 0 /\ csLeft' = csLeft - 1
    /\ LET p == CsPeriodDelta(v, CsPeriod)
       IN  csPer' = p.state /\ csOut' = [csOut EXCEPT !.per = p.out]
    /\ csReads' = Append(csReads, <<csNow, v>>)
    /\ UNCHANGED <<csNow, csBegan, csUse, csAvg, csInt, csRate, csSamples>>

CsClock(step) ==
    /\ csNow + step \in csBegan .. csBegan + 2 * CsDays /\ csNow' = csNow + step
    /\ UNCHANGED <<csBegan, csUse, csLeft, csAvg, csInt, csRate, csPer, csOut, csSamples, csReads>>

CsNext ==
    \/ \E v \in CsValues, calls \in SUBSET {"int", "avg", "rate"}, w \in CsWindows, b \in BOOLEAN :
           CsEvaluate(v, calls, w, b)
    \/ \E v \in CsValues : CsNode(v)
    \/ \E step \in {-1, 1, 3} : CsClock(step)

CsSpec == CsInit /\ [][CsNext]_csVars

CsTypeOK ==
    /\ csNow \in Nat /\ csLeft \in 0 .. CsCalls
    /\ \A r \in csAvg : r.position < Len(r.values) /\ r.count <= Len(r.values)
    /\ Cardinality(csAvg) <= 1 /\ Cardinality(csInt) <= 1 /\ Cardinality(csPer) <= 1

-----------------------------------------------------------------------------
\* The ring buffer answers what a list of all samples would: the mean of the
\* last window samples since the window last changed, of fewer while there are
\* fewer (MovingAvgState: position, count and the slots it sums).
CsMeanOfLast ==
    \A r \in csAvg :
        LET n == Min({Len(csSamples), Len(r.values)})
            last == SubSeq(csSamples, Len(csSamples) - n + 1, Len(csSamples))
        IN  csOut.avg = <<FoldLeft(LAMBDA a, b : a + b, 0, last), n>>

\* No half day is integrated twice, whatever is done to the clock: the integral
\* of a variable that never exceeds its largest value is bounded by the time
\* between the first call and the latest instant a call has seen.
CsNoTimeTwice ==
    \A s \in csInt : s.acc <= Max(CsValues) * (s.ts - csBegan)

\* The period a call belongs to, from the calendar alone.
CsBoundary(day) ==
    CASE CsPeriod = "daily" -> TRUE
      [] CsPeriod = "weekly" -> day % 7 = 0
      [] CsPeriod = "monthly" -> CsDayOfMonth(day) = 1
      [] CsPeriod = "quarterly" -> CsDayOfMonth(day) = 1 /\ CsMonth(day) \in {1, 4, 7, 10}
CsPeriodOf(now) == Max({d \in ((now \div 2) - 92) .. (now \div 2) : CsBoundary(d)})

\* Where the clock only went forward and the counter only grew, a delta is the
\* growth since the first call of the same calendar period, and no number on
\* the very first call ("quarterly: Resets at Q1/Q2/Q3/Q4 start").
CsForward(reads) ==
    \A i, k \in DOMAIN reads : i < k => reads[i][1] <= reads[k][1] /\ reads[i][2] <= reads[k][2]
CsDeltaTrue ==
    (Len(csReads) > 1 /\ CsForward(csReads)) =>
        LET now == Last(csReads)
            same == {i \in DOMAIN csReads : CsPeriodOf(csReads[i][1]) = CsPeriodOf(now[1])}
        IN  csOut.per = now[2] - csReads[Min(same)][2]

=============================================================================
