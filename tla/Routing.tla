------------------------------ MODULE Routing ------------------------------
(***************************************************************************)
(* Who is connected to whom: routes between channels, routes between points of *)
(* instances and of channels, and the drawn topology.                      *)
(***************************************************************************)
EXTENDS Integers, Sequences, FiniteSets, Functions, SequencesExt, FiniteSetsExt, TLC

-----------------------------------------------------------------------------
(*------------------------------- C2cRouting ------------------------------*)
(***************************************************************************)
(* voltage-routing: the tables of the routing cache, and the forwarding of *)
(* a batch of channel values along channel-to-channel routes.  Pure        *)
(* algorithms, checked over every input of a small instance.               *)
(*                                                                         *)
(* A point is <<group, id>>, a group being a channel and a point type.     *)
(* The groups of a batch are kept in a hash map, so their order is an      *)
(* input.  A write is <<point, source>>, the source being the update of    *)
(* the batch from which the value comes.                                   *)
(***************************************************************************)

CONSTANTS CcPoints,   \* points
          CcForeign,  \* groups whose slots modsrv writes (control, adjustment)
          CcDepth,    \* MAX_C2C_CASCADE_DEPTH
          CcChans, CcInsts   \* channel and instance points of the C2M table

ASSUME CcAssumption == CcDepth \in Nat

CcNone == <<0, 0>>   \* no route

VARIABLES ccIn,   \* routes, batch, order of the groups, and whether shared memory is written
          ccRows  \* rows of measurement_routing

ccVars == <<ccIn, ccRows>>

CcRow == CcChans \X CcInsts \X BOOLEAN
CcBatches == {b \in SeqOf(CcPoints, 2) : b # <<>> /\ IsInjective(b)}

----------------------------------------------------------------------------
(* write_channel_batch_*(): an update is [pt, depth, src] *)

CcGroups(us, up) ==
    SetToSortSeq({us[i].pt[1] : i \in DOMAIN us}, LAMBDA a, b : IF up THEN a < b ELSE a > b)

CcOfGroup(us, g) == SelectSeq(us, LAMBDA u : u.pt[1] = g)

\* What the i-th update of a group forwards: nothing at the last level, without a
\* route, or to a point that the chain or an update before it has visited.
CcForward(us, i, routes, seen) ==
    LET visited == seen \union {us[j].pt : j \in 1 .. i}
        target == routes[us[i].pt]
    IN  IF us[i].depth < CcDepth /\ target # CcNone /\ target \notin visited
        THEN <<[pt |-> target, depth |-> us[i].depth + 1, src |-> us[i].src]>>
        ELSE <<>>

CcForwards(us, routes, seen) ==
    FlattenSeq([i \in DOMAIN us |-> CcForward(us, i, routes, seen)])

\* Writes of a batch in their order.  The groups are passed one after the other,
\* each with its own copy of the visited points; what a group forwards is
\* written before the next group.
RECURSIVE CcWrites(_, _, _, _, _)
CcWrites(updates, routes, up, direct, seen) ==
    LET us == IF direct THEN SelectSeq(updates, LAMBDA u : u.pt[1] \notin CcForeign) ELSE updates
        one(g) == LET gs == CcOfGroup(us, g)
                      fs == CcForwards(gs, routes, seen)
                  IN  [i \in DOMAIN gs |-> <<gs[i].pt, gs[i].src>>]
                      \o (IF fs = <<>> THEN <<>>
                          ELSE CcWrites(fs, routes, up, direct, seen \union {gs[i].pt : i \in DOMAIN gs}))
        order == CcGroups(us, up)
    IN  FlattenSeq([i \in DOMAIN order |-> one(order[i])])

CcLog(in) ==
    CcWrites([i \in DOMAIN in.batch |-> [pt |-> in.batch[i], depth |-> 0, src |-> in.batch[i]]],
             in.routes, in.up, in.direct, {})

----------------------------------------------------------------------------
(* load_c2m_routes() and build_tables(): later rows and entries win *)

CcEnabled(rows) == SelectSeq(rows, LAMBDA r : r[3])
CcC2m(rows) ==
    [c \in {CcEnabled(rows)[i][1] : i \in DOMAIN CcEnabled(rows)} |->
        LET es == SelectSeq(CcEnabled(rows), LAMBDA r : r[1] = c) IN es[Len(es)][2]]
\* The entries come out of a hash map; `order` is the order they come in.
CcReverse(c2m, order) ==
    [i \in {c2m[c] : c \in DOMAIN c2m} |->
        LET cs == SelectSeq(order, LAMBDA c : c \in DOMAIN c2m /\ c2m[c] = i) IN cs[Len(cs)]]

----------------------------------------------------------------------------

CcInputs(batches) ==
    [routes : [CcPoints -> CcPoints \union {CcNone}], batch : batches, up : BOOLEAN, direct : BOOLEAN]
CcNoBatch == [routes |-> [p \in CcPoints |-> CcNone], batch |-> <<>>, up |-> TRUE, direct |-> TRUE]

CcInit == ccIn \in CcInputs(CcBatches) \union {CcNoBatch} /\ ccRows = <<>>

\* The other inputs: tables with up to three rows.
CcNext ==
    /\ ccIn = CcNoBatch /\ Len(ccRows) < 3
    /\ \E r \in CcRow : ccRows' = Append(ccRows, r)
    /\ UNCHANGED ccIn

CcSpec == CcInit /\ [][CcNext]_ccVars

----------------------------------------------------------------------------
(* Properties *)

\* The chain that starts at a point: at most CcDepth hops, ended by a missing route, a
\* point of the chain, or (in shared memory) a point that modsrv writes.
CcChain(in, p) ==
    LET allowed(q) == q # CcNone /\ (in.direct => q[1] \notin CcForeign)
        next(q) == IF q = CcNone THEN CcNone ELSE in.routes[q]
        hop[n \in 0 .. CcDepth] ==
            IF n = 0 THEN p
            ELSE LET q == next(hop[n - 1])
                 IN  IF allowed(q) /\ (\A m \in 0 .. n - 1 : hop[m] # q) THEN q ELSE CcNone
    IN  {q \in {hop[n] : n \in 0 .. CcDepth} : allowed(q)}

\* A value never leaves the chain of its point and no point gets it twice, so a cycle of
\* routes ends; and a chain that meets no other source of the batch is complete, whatever
\* the order of the groups: it is cut only where it closes.
CcBatchForwards ==
    LET log == CcLog(ccIn)
        from(p) == {log[i][1] : i \in {j \in DOMAIN log : log[j][2] = p}}
    IN  /\ IsInjective(log)
        /\ \A p \in ToSet(ccIn.batch) :
              LET chain == IF ccIn.direct /\ p[1] \in CcForeign THEN {} ELSE CcChain(ccIn, p)
              IN  /\ from(p) \subseteq chain
                  /\ chain \intersect ToSet(ccIn.batch) \subseteq {p} => from(p) = chain

\* The reverse table names, for every instance point with a route and no other, a channel
\* point whose route leads there, in whichever order the entries are inserted.
CcReverseConsistent ==
    ccRows # <<>> =>
      \A order \in {o \in SeqOf(CcChans, Cardinality(CcChans)) : ToSet(o) = CcChans} :
        LET c2m == CcC2m(ccRows)
            rev == CcReverse(c2m, order)
        IN  /\ DOMAIN rev = {c2m[c] : c \in DOMAIN c2m}
            /\ \A i \in DOMAIN rev : c2m[rev[i]] = i
            /\ \A r \in ToSet(ccRows) : r[3] => r[1] \in DOMAIN c2m

-----------------------------------------------------------------------------
(*---------------------------- InstanceRouting ----------------------------*)
(***************************************************************************)
(* Routing of instance points to channel points in modsrv: the rows of     *)
(* measurement_routing and action_routing, the routing cache that every    *)
(* handler refreshes after its change, the instance hashes in Redis that   *)
(* an unbinding sweeps.  Handlers interleave at their awaits; a refresh    *)
(* loads the tables and publishes them in two steps.                       *)
(***************************************************************************)

CONSTANTS IrPoints,   \* points of instances, each of kind "M" or "A" by IrKind
          IrKind,     \* [IrPoints -> {"M", "A"}]
          IrChans,    \* channel points, of type "T", "S", "C" or "A" by IrType
          IrType,     \* [IrChans -> {"T", "S", "C", "A"}]
          IrOwner,    \* [IrPoints -> the instance of the point]
          IrCalls,    \* concurrent requests
          IrBound     \* bound on the requests of a behaviour

ASSUME IrAssumption ==
  /\ IrKind \in [IrPoints -> {"M", "A"}]
  /\ IrType \in [IrChans -> {"T", "S", "C", "A"}]
  /\ IrBound \in Nat

VARIABLES irRows,     \* routing rows: point -> channel point and enabled
          irInst,     \* instances that have a row in the instances table
          irCache,    \* the routing cache: point -> channel point
          irHash,     \* points that have a field in the instance's Redis hash
          irCall,     \* the requests in progress
          irLeft

irVars == <<irRows, irInst, irCache, irHash, irCall, irLeft>>

IrInsts == Range(IrOwner)
IrIdle == [pc |-> "idle"]
IrOf(i) == {p \in IrPoints : IrOwner[p] = i}

\* validate_*_routing: T/S channel points feed M points, C/A ones take A points.
IrFits(p, ch) == IrType[ch] \in IF IrKind[p] = "M" THEN {"T", "S"} ELSE {"C", "A"}

\* load_routing_maps: the enabled rows.
IrEnabled(rows) == [p \in {q \in DOMAIN rows : rows[q].on} |-> rows[p].ch]

\* Call c goes on as r; the calls in progress beside it are no longer alone.
IrStep(c, r) ==
  irCall' = [d \in IrCalls |->
               IF d = c THEN r
               ELSE IF irCall[d].pc = "idle" THEN IrIdle
               ELSE [irCall[d] EXCEPT !.alone = FALSE]]
IrAlone(c) == \A d \in IrCalls \ {c} : irCall[d].pc = "idle"
IrStart(c, r) ==
  /\ irCall[c] = IrIdle /\ irLeft > 0
  /\ irLeft' = irLeft - 1
  /\ IrStep(c, r)
IrRefreshWith(c, drop, hashes) ==
  [pc |-> "load", drop |-> drop, hashes |-> hashes, alone |-> IrAlone(c)]

IrTypeOK ==
  /\ DOMAIN irRows \subseteq IrPoints
  /\ \A p \in DOMAIN irRows : irRows[p] \in [ch : IrChans, on : BOOLEAN]
  /\ irInst \subseteq IrInsts
  /\ DOMAIN irCache \subseteq IrPoints /\ Range(irCache) \subseteq IrChans
  /\ irHash \subseteq IrPoints

IrInit ==
  /\ irInst \in SUBSET IrInsts
  /\ irRows \in UNION {[S -> [ch : IrChans, on : BOOLEAN]] : S \in SUBSET IrPoints}
  /\ \A p \in DOMAIN irRows : IrOwner[p] \in irInst /\ IrFits(p, irRows[p].ch)
  /\ irCache = IrEnabled(irRows)
  /\ irHash = UNION {IrOf(i) : i \in irInst}
  /\ irCall = [c \in IrCalls |-> IrIdle]
  /\ irLeft = IrBound

-----------------------------------------------------------------------------
(* upsert_measurement_routing, upsert_action_routing, create_instance_routing *)
(* (which fails when the point has a row, and enables it).                  *)
IrUpsert(c, p, ch, on) ==
  /\ IrOwner[p] \in irInst /\ IrFits(p, ch)
  /\ irRows' = p :> [ch |-> ch, on |-> on] @@ irRows
  /\ IrStart(c, IrRefreshWith(c, {}, {}))
  /\ UNCHANGED <<irInst, irCache, irHash>>

\* toggle_*_routing and delete_*_routing: nothing happens without a row.
IrToggle(c, p, on) ==
  /\ p \in DOMAIN irRows
  /\ irRows' = [irRows EXCEPT ![p].on = on]
  /\ IrStart(c, IrRefreshWith(c, {}, {}))
  /\ UNCHANGED <<irInst, irCache, irHash>>

IrDeletePoint(c, p) ==
  /\ p \in DOMAIN irRows
  /\ irRows' = Restrict(irRows, DOMAIN irRows \ {p})
  /\ IrStart(c, IrRefreshWith(c, {}, {}))
  /\ UNCHANGED <<irInst, irCache, irHash>>

\* delete_all_routing_handler, delete_instance_routing_handler,
\* delete_channel_routing_handler: both tables in one transaction, then a refresh.
IrDeleteMany(c, S) ==
  /\ \/ S = IrPoints
     \/ \E i \in IrInsts : S = IrOf(i)
     \/ \E ch \in IrChans : S = {p \in DOMAIN irRows : irRows[p].ch = ch}
  /\ irRows' = Restrict(irRows, DOMAIN irRows \ S)
  /\ IrStart(c, IrRefreshWith(c, {}, {}))
  /\ UNCHANGED <<irInst, irCache, irHash>>

(* update_instance_routing: every request of the list in one transaction, an *)
(* error rolls all back; the fields of unbound points are deleted from Redis *)
(* after the commit and before the refresh.                                 *)
IrReplace(c, i, binds, unbinds) ==
  /\ i \in irInst
  /\ DOMAIN binds \union unbinds \subseteq IrOf(i)
  /\ DOMAIN binds \intersect unbinds = {}
  /\ IF \A p \in DOMAIN binds : IrFits(p, binds[p])
     THEN /\ irRows' = [p \in DOMAIN binds |-> [ch |-> binds[p], on |-> TRUE]]
                       @@ Restrict(irRows, DOMAIN irRows \ unbinds)
          /\ IrStart(c, IF unbinds = {} THEN IrRefreshWith(c, {}, {})
                        ELSE [pc |-> "unbind", drop |-> unbinds, alone |-> IrAlone(c)])
     ELSE UNCHANGED irRows /\ IrStart(c, IrIdle)
  /\ UNCHANGED <<irInst, irCache, irHash>>

\* hash_del of one field; an error is only logged.
IrUnbind(c, p, ok) ==
  LET r == irCall[c] IN
  /\ r.pc = "unbind" /\ p \in r.drop
  /\ irHash' = IF ok THEN irHash \ {p} ELSE irHash
  /\ IrStep(c, IF r.drop = {p}
               THEN [pc |-> "load", drop |-> {}, hashes |-> {}, alone |-> r.alone]
               ELSE [r EXCEPT !.drop = @ \ {p}])
  /\ UNCHANGED <<irRows, irInst, irCache, irLeft>>

(* delete_instance_routing: the two tables are deleted one after the other,  *)
(* then the cache is refreshed, then the hashes are deleted.                *)
IrDeleteOfInstance(c, i) ==
  /\ irRows' = Restrict(irRows, {p \in DOMAIN irRows : ~ (IrOwner[p] = i /\ IrKind[p] = "M")})
  /\ IrStart(c, [pc |-> "actions", inst |-> i, alone |-> IrAlone(c)])
  /\ UNCHANGED <<irInst, irCache, irHash>>

IrDeleteActions(c) ==
  LET i == irCall[c].inst IN
  /\ irCall[c].pc = "actions"
  /\ irRows' = Restrict(irRows, {p \in DOMAIN irRows : ~ (IrOwner[p] = i /\ IrKind[p] = "A")})
  /\ IrStep(c, [pc |-> "load", drop |-> {}, hashes |-> {i}, alone |-> irCall[c].alone])
  /\ UNCHANGED <<irInst, irCache, irHash, irLeft>>

\* refresh_routing_cache: the maps are loaded ...
IrLoad(c) ==
  /\ irCall[c].pc = "load"
  /\ IrStep(c, [pc |-> "publish", maps |-> IrEnabled(irRows), hashes |-> irCall[c].hashes,
                alone |-> irCall[c].alone])
  /\ UNCHANGED <<irRows, irInst, irCache, irHash, irLeft>>

\* ... and replace the cache.
IrPublish(c) ==
  LET r == irCall[c] IN
  /\ r.pc = "publish"
  /\ irCache' = r.maps
  /\ IrStep(c, IF r.hashes = {} THEN IrIdle
               ELSE [pc |-> "sweep", hashes |-> r.hashes, alone |-> r.alone])
  /\ UNCHANGED <<irRows, irInst, irHash, irLeft>>

\* DEL of the four hashes of the instance; an error is only logged.
IrSweep(c, ok) ==
  /\ irCall[c].pc = "sweep"
  /\ irHash' = IF ok THEN {p \in irHash : IrOwner[p] \notin irCall[c].hashes} ELSE irHash
  /\ IrStep(c, IrIdle)
  /\ UNCHANGED <<irRows, irInst, irCache, irLeft>>

-----------------------------------------------------------------------------
(* delete_single_instance and create_instance, as far as routing goes: the  *)
(* rows of the instance cascade; the cache is not refreshed.                *)
IrDropInstance(c, i) ==
  /\ i \in irInst
  /\ irInst' = irInst \ {i}
  /\ irRows' = Restrict(irRows, DOMAIN irRows \ IrOf(i))
  /\ irHash' = irHash \ IrOf(i)
  /\ IrStart(c, IrIdle)
  /\ UNCHANGED <<irCache>>

IrNewInstance(c, i) ==
  /\ i \notin irInst
  /\ irInst' = irInst \union {i}
  /\ irHash' = irHash \union IrOf(i)
  /\ IrStart(c, IrIdle)
  /\ UNCHANGED <<irRows, irCache>>

IrNext ==
  \E c \in IrCalls :
    \/ \E p \in IrPoints :
         \/ \E ch \in IrChans, on \in BOOLEAN : IrUpsert(c, p, ch, on)
         \/ \E on \in BOOLEAN : IrToggle(c, p, on) \/ IrUnbind(c, p, on)
         \/ IrDeletePoint(c, p)
    \/ \E S \in SUBSET IrPoints : IrDeleteMany(c, S)
    \/ \E i \in IrInsts :
         \/ \E B \in SUBSET IrOf(i) :
              \E binds \in [B -> IrChans], unbinds \in SUBSET (IrOf(i) \ B) :
                IrReplace(c, i, binds, unbinds)
         \/ IrDeleteOfInstance(c, i) \/ IrDropInstance(c, i) \/ IrNewInstance(c, i)
    \/ IrDeleteActions(c) \/ IrLoad(c) \/ IrPublish(c)
    \/ \E ok \in BOOLEAN : IrSweep(c, ok)

IrSpec == IrInit /\ [][IrNext]_irVars

-----------------------------------------------------------------------------
\* Every row, however it came about, joins points of matching direction and
\* belongs to an instance that exists; no batch leaves a part of itself behind.
IrRowsSound ==
  \A p \in DOMAIN irRows : IrOwner[p] \in irInst /\ IrFits(p, irRows[p].ch)

\* A routing change that ran alone is in force when it ends: the cache then
\* holds exactly the enabled rows of the instances.
IrInForce ==
  [][\A c \in IrCalls :
       (irCall[c].pc = "publish" /\ irCall[c].alone /\ irCall'[c].pc # "publish")
       => irCache' = IrEnabled(irRows)]_irVars

-----------------------------------------------------------------------------
(*-------------------------------- Topology -------------------------------*)
(***************************************************************************)
(* The energy topology of the station: a drawing of product nodes, each    *)
(* bound to an instance, joined by edges the products' connection rules    *)
(* allow.  A save is validated against the instances and stored whole;     *)
(* instances come and go between the two, and afterwards.                  *)
(***************************************************************************)

CONSTANTS ToProducts,   \* product -> sequence of rules [peers, min, max]
          ToFlows,      \* drawings that may be sent: [nodes, edges, fixed]
          ToIds,        \* instance ids
          ToRoutes,     \* enabled measurement routes: <<instance, channel>>
          ToCalls,      \* save requests in flight
          ToEdits       \* bound: requests and changes of instances

VARIABLES
    toInst,    \* table instances: id -> product
    toSaved,   \* row 'station' of station_topology: {} or {flow}
    toCall,    \* requests: [at, flow]
    toLeft

toVars == <<toInst, toSaved, toCall, toLeft>>

ToIdle == [at |-> "idle", flow |-> {}]
ToInit ==
    /\ toInst \in {<<>>, [i \in ToIds |-> "Pv"]} /\ toSaved = {}
    /\ toCall = [c \in ToCalls |-> ToIdle] /\ toLeft = ToEdits

-----------------------------------------------------------------------------
(* validate_final_topology *)

ToDistinct(s) == IsInjective(s)
ToNode(flow, id) == CHOOSE n \in Range(flow.nodes) : n.id = id

\* Nodes: distinct ids, distinct bound instances, a product of the topology.
ToNodesOk(flow) ==
    /\ ToDistinct([i \in DOMAIN flow.nodes |-> flow.nodes[i].id])
    /\ ToDistinct([i \in DOMAIN flow.nodes |-> flow.nodes[i].inst] \o flow.fixed)
    /\ \A n \in Range(flow.nodes) : n.product \in DOMAIN ToProducts /\ n.inst > 0

\* Bindings: the instance exists and is of the product; a fixed binding is a Station.
ToBound(flow, inst) ==
    /\ \A n \in Range(flow.nodes) : n.inst \in DOMAIN inst /\ inst[n.inst] = n.product
    /\ \A i \in Range(flow.fixed) : i \in DOMAIN inst /\ inst[i] = "Station"

\* matching_rule: the first rule of the product that lists the peer, 0 if none
ToRule(product, peer) == SelectInSeq(ToProducts[product], LAMBDA r : peer \in r.peers)

ToEnds(e) == {e.source, e.target}
ToProductAt(flow, id) == ToNode(flow, id).product
ToEdgesOk(flow) ==
    LET ids == {n.id : n \in Range(flow.nodes)}
    IN  /\ ToDistinct([i \in DOMAIN flow.edges |-> flow.edges[i].id])
        /\ \A e \in Range(flow.edges) : e.source # e.target /\ ToEnds(e) \subseteq ids
        /\ ToDistinct([i \in DOMAIN flow.edges |-> ToEnds(flow.edges[i])])
        /\ \A e \in Range(flow.edges) :
             /\ ToRule(ToProductAt(flow, e.source), ToProductAt(flow, e.target)) # 0
             /\ ToRule(ToProductAt(flow, e.target), ToProductAt(flow, e.source)) # 0

\* rule_counts: edges counted at each end under the rule that matched
ToCount(flow, id, k) ==
    Cardinality({e \in Range(flow.edges) :
        \E peer \in ToEnds(e) : ToEnds(e) = {id, peer} /\ peer # id
                                  /\ ToRule(ToProductAt(flow, id), ToProductAt(flow, peer)) = k})
ToCountsOk(flow) ==
    \A n \in Range(flow.nodes) : \A k \in DOMAIN ToProducts[n.product] :
        LET r == ToProducts[n.product][k] IN ToCount(flow, n.id, k) \in r.min .. r.max

ToValid(flow, inst) == ToNodesOk(flow) /\ ToBound(flow, inst) /\ ToEdgesOk(flow) /\ ToCountsOk(flow)

-----------------------------------------------------------------------------
ToPut(c, flow) ==
    /\ toCall[c].at = "idle" /\ toLeft > 0 /\ toLeft' = toLeft - 1
    /\ toCall' = [toCall EXCEPT ![c] = IF ToValid(flow, toInst) THEN [at |-> "save", flow |-> {flow}] ELSE ToIdle]
    /\ UNCHANGED <<toInst, toSaved>>

ToStore(c) ==
    /\ toCall[c].at = "save"
    /\ toSaved' = toCall[c].flow
    /\ toCall' = [toCall EXCEPT ![c] = ToIdle]
    /\ UNCHANGED <<toInst, toLeft>>

\* The instance API does not look at the drawing.
ToDropInstance(i) ==
    /\ i \in DOMAIN toInst /\ toLeft > 0 /\ toLeft' = toLeft - 1
    /\ toInst' = [k \in DOMAIN toInst \ {i} |-> toInst[k]]
    /\ UNCHANGED <<toSaved, toCall>>

ToAddInstance(i, product) ==
    /\ i \notin DOMAIN toInst /\ toLeft > 0 /\ toLeft' = toLeft - 1
    /\ toInst' = i :> product @@ toInst
    /\ UNCHANGED <<toSaved, toCall>>

\* get_channel_bindings: one entry per node, with the channels that feed its
\* instance; an instance that is gone has no name.
ToBindings ==
    {[node |-> n.id, named |-> n.inst \in DOMAIN toInst,
      channels |-> {r[2] : r \in {q \in ToRoutes : q[1] = n.inst /\ n.inst \in DOMAIN toInst}}]
        : n \in UNION {Range(f.nodes) : f \in toSaved}}

ToNext ==
    \/ \E c \in ToCalls : (\E flow \in ToFlows : ToPut(c, flow)) \/ ToStore(c)
    \/ \E i \in ToIds : ToDropInstance(i) \/ \E p \in DOMAIN ToProducts \cup {"Station"} : ToAddInstance(i, p)

ToSpec == ToInit /\ [][ToNext]_toVars

ToTypeOK == DOMAIN toInst \subseteq ToIds /\ toLeft \in 0 .. ToEdits /\ Cardinality(toSaved) <= 1

-----------------------------------------------------------------------------
\* The drawing that is stored is a simple graph whose edges both products allow,
\* and no order of its edges changes how many a rule counts: the edges at a node
\* are shared out among its rules, each edge to exactly one, within each rule's
\* limits (validate_final_topology: pairs, matching_rule and rule_counts).  Each node
\* of it has one binding.
ToDegree(flow, id) == Cardinality({e \in Range(flow.edges) : id \in ToEnds(e)})
ToSound ==
    \A flow \in toSaved :
        /\ Cardinality({ToEnds(e) : e \in Range(flow.edges)}) = Len(flow.edges)
        /\ \A e \in Range(flow.edges) : Cardinality(ToEnds(e)) = 2
        /\ \A n \in Range(flow.nodes) :
             ToDegree(flow, n.id) = FoldFunction(LAMBDA a, b : a + b, 0,
                                        [k \in DOMAIN ToProducts[n.product] |-> ToCount(flow, n.id, k)])
        /\ \A n \in Range(flow.nodes) : \A k \in DOMAIN ToProducts[n.product] :
             ToCount(flow, n.id, k) <= ToProducts[n.product][k].max
        /\ Cardinality(ToBindings) = Len(flow.nodes)

=============================================================================
