----------------------------- MODULE Instances -----------------------------
(***************************************************************************)
(* The instances of modsrv: the tree of instances with its tables and mirrors, *)
(* and the values a client sees of them.                                   *)
(***************************************************************************)
EXTENDS Integers, Sequences, FiniteSets, Functions, TLC

-----------------------------------------------------------------------------
(*------------------------------- Instances -------------------------------*)
(***************************************************************************)
(* The life cycle of modsrv's model instances: the SQLite rows are the     *)
(* truth, Redis holds inst:{id}:name (with the data hashes of the id) and  *)
(* the reverse index inst:name:index, and the InstanceManager keeps a      *)
(* name -> id cache for the cloud's point writes.  A handler commits to    *)
(* SQLite first and then updates Redis key by key, "best effort"; handlers *)
(* of several requests interleave at every await.                          *)
(***************************************************************************)

CONSTANTS InIds,      \* instance ids (positive numbers; 0 is "no parent")
          InNames,    \* instance names
          InCalls,    \* concurrent requests
          InBound     \* bound on the requests of a behaviour

ASSUME InAssumption == InIds \subseteq Nat \ {0} /\ InBound \in Nat

VARIABLES inDb,       \* instances table: id -> name, parent, whether a Station
          inName,     \* Redis inst:{id}:name, standing for all keys of the id
          inIndex,    \* Redis inst:name:index: name -> id
          inCache,    \* name_cache of the InstanceManager: name -> id
          inCall,     \* the requests in progress
          inLeft      \* requests still to come

inVars == <<inDb, inName, inIndex, inCache, inCall, inLeft>>

InIdle == [op |-> "idle"]
InTaken(n) == \E i \in DOMAIN inDb : inDb[i].name = n
InStations == {i \in DOMAIN inDb : inDb[i].station}
InForget(f, x) == Restrict(f, DOMAIN f \ {x})

\* Call c goes on as r; a call that shared its run with another is not alone.
InStep(c, r) ==
  inCall' = [d \in InCalls |->
               IF d = c THEN r
               ELSE IF inCall[d].op = "idle" THEN InIdle
               ELSE [inCall[d] EXCEPT !.alone = FALSE]]
InEnd(c) == InStep(c, InIdle)
\* A request arrives.
InStart(c, r) ==
  /\ inCall[c] = InIdle /\ inLeft > 0
  /\ inLeft' = inLeft - 1
  /\ InStep(c, r)
InAlone(c) == \A d \in InCalls \ {c} : inCall[d].op = "idle"
InAt(c, pc) == inCall[c].op # "idle" /\ inCall[c].pc = pc
InTo(c, pc) == InStep(c, [inCall[c] EXCEPT !.pc = pc])

\* The ids below id in the parent relation.
InBelow(id) ==
  LET S == DOMAIN inDb
      level[k \in 0..Cardinality(S)] ==
        IF k = 0 THEN {i \in S : inDb[i].parent = id}
        ELSE level[k - 1] \union {i \in S : inDb[i].parent \in level[k - 1]}
  IN level[Cardinality(S)]

InTypeOK ==
  /\ DOMAIN inDb \subseteq InIds
  /\ \A i \in DOMAIN inDb :
       inDb[i] \in [name : InNames, parent : InIds \union {0}, station : BOOLEAN]
  /\ DOMAIN inName \subseteq InIds /\ Range(inName) \subseteq InNames
  /\ DOMAIN inIndex \subseteq InNames /\ Range(inIndex) \subseteq InIds
  /\ DOMAIN inCache \subseteq InNames /\ Range(inCache) \subseteq InIds

\* Any table, with Redis as start-up leaves it.
InInit ==
  /\ inDb \in UNION {[S -> [name : InNames, parent : InIds \union {0}, station : BOOLEAN]] :
                       S \in SUBSET InIds}
  /\ \A i, j \in DOMAIN inDb : i # j => inDb[i].name # inDb[j].name
  /\ \A i \in DOMAIN inDb : inDb[i].parent \in {0} \union {j \in DOMAIN inDb : j < i}
  /\ Cardinality(InStations) <= 1
  /\ inName = [i \in DOMAIN inDb |-> inDb[i].name]
  /\ inIndex = [n \in Range(inName) |-> CHOOSE i \in DOMAIN inDb : inName[i] = n]
  /\ inCache = <<>>
  /\ inCall = [c \in InCalls |-> InIdle]
  /\ inLeft = InBound

-----------------------------------------------------------------------------
(* create_instance: the parent is checked before the transaction begins.    *)
InCreate(c, n, p, st) ==
  /\ p = 0 \/ p \in DOMAIN inDb
  /\ InStart(c, [op |-> "create", pc |-> "insert", name |-> n, parent |-> p,
                station |-> st, alone |-> InAlone(c)])
  /\ UNCHANGED <<inDb, inName, inIndex, inCache>>

\* The INSERT with its UNIQUE, foreign key and single-Station conditions.
InInsertable(r, i) ==
  /\ i \notin DOMAIN inDb
  /\ ~ InTaken(r.name)
  /\ r.parent = 0 \/ r.parent \in DOMAIN inDb
  /\ r.station => InStations = {}

InInsert(c, i) ==
  LET r == inCall[c] IN
  /\ InAt(c, "insert")
  /\ UNCHANGED <<inName, inIndex, inCache>>
  /\ IF InInsertable(r, i)
     THEN /\ inDb' = i :> [name |-> r.name, parent |-> r.parent, station |-> r.station]
                     @@ inDb
          /\ InStep(c, [op |-> "create", pc |-> "keys", id |-> i, name |-> r.name,
                        alone |-> r.alone])
     ELSE InEnd(c) /\ UNCHANGED inDb

\* The next instance a reload registers, or the end of the call.
InGoOn(c) ==
  IF inCall[c].op = "reload" /\ inCall[c].list # <<>>
  THEN InTo(c, "next") ELSE InEnd(c)

\* register_instance: the keys of the id (HSETNX of the points, SET of the name) ...
InRegisterKeys(c) ==
  /\ InAt(c, "keys")
  /\ inName' = inCall[c].id :> inCall[c].name @@ inName
  /\ InTo(c, "index")
  /\ UNCHANGED <<inDb, inIndex, inCache>>

\* ... and the reverse index.
InRegisterIndex(c) ==
  /\ InAt(c, "index")
  /\ inIndex' = inCall[c].name :> inCall[c].id @@ inIndex
  /\ InGoOn(c)
  /\ UNCHANGED <<inDb, inName, inCache>>

(* update_instance with a new name: the old name is read and the new one    *)
(* checked before the transaction.                                          *)
InRename(c, i, n) ==
  /\ i \in DOMAIN inDb /\ inDb[i].name # n
  /\ ~ InTaken(n)
  /\ InStart(c, [op |-> "rename", pc |-> "update", id |-> i, name |-> n,
                old |-> inDb[i].name, alone |-> InAlone(c)])
  /\ UNCHANGED <<inDb, inName, inIndex, inCache>>

\* rename_instance: an UPDATE of a row that is gone changes nothing and succeeds.
InUpdateName(c) ==
  LET r == inCall[c] IN
  /\ InAt(c, "update")
  /\ IF \E i \in DOMAIN inDb \ {r.id} : inDb[i].name = r.name /\ r.id \in DOMAIN inDb
     THEN InEnd(c) /\ UNCHANGED inDb
     ELSE /\ inDb' = [i \in DOMAIN inDb |->
                        IF i = r.id THEN [inDb[i] EXCEPT !.name = r.name] ELSE inDb[i]]
          /\ InTo(c, "drop")
  /\ UNCHANGED <<inName, inIndex, inCache>>

\* rename_instance_in_redis: drop the old name, index the new one, set the key.
InRenameDrop(c) ==
  /\ InAt(c, "drop")
  /\ inIndex' = InForget(inIndex, inCall[c].old)
  /\ InTo(c, "put")
  /\ UNCHANGED <<inDb, inName, inCache>>

InRenamePut(c) ==
  /\ InAt(c, "put")
  /\ inIndex' = inCall[c].name :> inCall[c].id @@ inIndex
  /\ InTo(c, "key")
  /\ UNCHANGED <<inDb, inName, inCache>>

InRenameKey(c) ==
  /\ InAt(c, "key")
  /\ inName' = inCall[c].id :> inCall[c].name @@ inName
  /\ InEnd(c)
  /\ UNCHANGED <<inDb, inIndex, inCache>>

-----------------------------------------------------------------------------
(* delete_instance: the descendants are collected first, then deleted one   *)
(* by one, leaves first, and the instance itself last.                      *)
InDelete(c, i) ==
  /\ InStart(c, [op |-> "delete", pc |-> "pick", target |-> i,
                all |-> InBelow(i) \union {i}, todo |-> InBelow(i) \union {i},
                alone |-> InAlone(c)])
  /\ UNCHANGED <<inDb, inName, inIndex, inCache>>

\* The ids of the call left to delete, after d.
InNextDelete(c, d) ==
  LET rest == inCall[c].todo \ {d} IN
  IF rest = {} THEN InEnd(c)
  ELSE InStep(c, [op |-> "delete", pc |-> "pick", target |-> inCall[c].target,
                  all |-> inCall[c].all, todo |-> rest, alone |-> inCall[c].alone])

\* delete_single_instance: the name is read; an instance that is gone is skipped.
InPick(c, d) ==
  /\ InAt(c, "pick")
  /\ d \in inCall[c].todo
  /\ d = inCall[c].target => inCall[c].todo = {d}
  /\ \A e \in inCall[c].todo \intersect DOMAIN inDb : inDb[e].parent = d => e = inCall[c].target
  /\ IF d \in DOMAIN inDb
     THEN InStep(c, [inCall[c] EXCEPT !.pc = "erase"] @@ [id |-> d, name |-> inDb[d].name])
     ELSE InNextDelete(c, d)
  /\ UNCHANGED <<inDb, inName, inIndex, inCache>>

\* Mutant: the parent of the children is not cleared.
InEraseOrphans(c) ==
  LET d == inCall[c].id IN
  /\ InAt(c, "erase")
  /\ inDb' = [i \in DOMAIN inDb \ {d} |->
                inDb[i]]
  /\ IF d \in DOMAIN inDb THEN InTo(c, "unkey") ELSE InNextDelete(c, d)
  /\ UNCHANGED <<inName, inIndex, inCache>>

\* The row goes; children left behind lose their parent (ON DELETE SET NULL).
InErase(c) ==
  LET d == inCall[c].id IN
  /\ InAt(c, "erase")
  /\ inDb' = [i \in DOMAIN inDb \ {d} |->
                IF inDb[i].parent = d THEN [inDb[i] EXCEPT !.parent = 0] ELSE inDb[i]]
  /\ IF d \in DOMAIN inDb THEN InTo(c, "unkey") ELSE InNextDelete(c, d)
  /\ UNCHANGED <<inName, inIndex, inCache>>

\* unregister_instance: the keys of the id, then the entry of the name.
InUnregisterKeys(c) ==
  /\ InAt(c, "unkey")
  /\ inName' = InForget(inName, inCall[c].id)
  /\ InTo(c, "unindex")
  /\ UNCHANGED <<inDb, inIndex, inCache>>

InUnregisterIndex(c) ==
  /\ InAt(c, "unindex")
  /\ inIndex' = InForget(inIndex, inCall[c].name)
  /\ InTo(c, IF inCall[c].op = "reload" THEN "next" ELSE "uncache")
  /\ UNCHANGED <<inDb, inName, inCache>>

InUncache(c) ==
  /\ InAt(c, "uncache")
  /\ inCache' = InForget(inCache, inCall[c].name)
  /\ InNextDelete(c, inCall[c].id)
  /\ UNCHANGED <<inDb, inName, inIndex>>

-----------------------------------------------------------------------------
(* reload_from_database: the rows are listed, then Redis is scanned for the *)
(* ids it knows; ids without a row are unregistered, the rows registered.   *)
InReload(c) ==
  /\ InStart(c, [op |-> "reload", pc |-> "scan", fault |-> FALSE, alone |-> InAlone(c),
                rows |-> [i \in DOMAIN inDb |-> inDb[i].name]])
  /\ UNCHANGED <<inDb, inName, inIndex, inCache>>

InScan(c) ==
  LET r == inCall[c] IN
  /\ InAt(c, "scan")
  /\ IF inName = <<>> /\ r.rows = <<>> THEN InEnd(c)
     ELSE InStep(c, [op |-> "reload", pc |-> "next", fault |-> FALSE, alone |-> r.alone,
                     list |-> r.rows, gone |-> DOMAIN inName \ DOMAIN r.rows])
  /\ UNCHANGED <<inDb, inName, inIndex, inCache>>

\* A stale id: its name is taken from Redis for the index.
InReloadRemove(c, i) ==
  LET r == inCall[c] IN
  /\ InAt(c, "next") /\ i \in r.gone
  /\ InStep(c, IF i \in DOMAIN inName
               THEN [op |-> "reload", pc |-> "unkey", fault |-> r.fault, alone |-> r.alone,
                     list |-> r.list, gone |-> r.gone \ {i}, id |-> i, name |-> inName[i]]
               ELSE [r EXCEPT !.gone = @ \ {i}])
  /\ UNCHANGED <<inDb, inName, inIndex, inCache>>

\* A listed row: get_instance fails when it is gone; else it is registered under
\* the name it had in the list.
InReloadRegister(c, i) ==
  LET r == inCall[c] IN
  /\ InAt(c, "next") /\ r.gone = {} /\ i \in DOMAIN r.list
  /\ InStep(c, IF i \in DOMAIN inDb
               THEN [op |-> "reload", pc |-> "keys", fault |-> r.fault, alone |-> r.alone,
                     list |-> InForget(r.list, i), gone |-> {}, id |-> i, name |-> r.list[i]]
               ELSE [r EXCEPT !.list = InForget(r.list, i)])
  /\ UNCHANGED <<inDb, inName, inIndex, inCache>>

InReloadDone(c) ==
  /\ InAt(c, "next") /\ inCall[c].gone = {} /\ inCall[c].list = <<>>
  /\ InEnd(c)
  /\ UNCHANGED <<inDb, inName, inIndex, inCache>>

\* Redis refuses a command: the rest of that instance's update is given up.
InRedisFails(c) ==
  /\ \/ InAt(c, "keys") \/ InAt(c, "index") \/ InAt(c, "unkey") \/ InAt(c, "unindex")
     \/ InAt(c, "drop") \/ InAt(c, "put") \/ InAt(c, "key")
  /\ CASE inCall[c].op = "delete" -> InTo(c, "uncache")
       [] inCall[c].op = "reload" -> InStep(c, [inCall[c] EXCEPT !.pc = "next", !.fault = TRUE])
       [] OTHER -> InEnd(c)
  /\ UNCHANGED <<inDb, inName, inIndex, inCache>>

-----------------------------------------------------------------------------
(* get_instance_id, on behalf of a write addressed by device name.          *)
InResolve(c, n) ==
  /\ n \notin DOMAIN inCache /\ InTaken(n)
  /\ InStart(c, [op |-> "resolve", pc |-> "fill", name |-> n, alone |-> InAlone(c),
                id |-> CHOOSE i \in DOMAIN inDb : inDb[i].name = n])
  /\ UNCHANGED <<inDb, inName, inIndex, inCache>>

InFill(c) ==
  /\ InAt(c, "fill")
  /\ inCache' = inCall[c].name :> inCall[c].id @@ inCache
  /\ InEnd(c)
  /\ UNCHANGED <<inDb, inName, inIndex>>

(* modsrv restarts: keys of unknown ids are cleaned up, the index is         *)
(* overlaid with the rows' names, and every row is registered.               *)
InRestart ==
  LET named == [i \in DOMAIN inDb |-> inDb[i].name] IN
  /\ inName' = named
  /\ inIndex' = [n \in Range(named) |-> CHOOSE i \in DOMAIN inDb : named[i] = n] @@ inIndex
  /\ inCache' = <<>>
  /\ inCall' = [c \in InCalls |-> InIdle]
  /\ UNCHANGED <<inDb, inLeft>>

\* A request arrives, or one in progress takes its next step.
InArrive(c) ==
  \/ \E n \in InNames, p \in InIds \union {0}, st \in BOOLEAN : InCreate(c, n, p, st)
  \/ \E i \in InIds, n \in InNames : InRename(c, i, n)
  \/ \E i \in InIds : InDelete(c, i)
  \/ InReload(c)
  \/ \E n \in InNames : InResolve(c, n)

InGo(c) ==
  \/ \E i \in InIds : InInsert(c, i) \/ InPick(c, i) \/ InReloadRemove(c, i)
                       \/ InReloadRegister(c, i)
  \/ InRegisterKeys(c) \/ InRegisterIndex(c)
  \/ InUpdateName(c) \/ InRenameDrop(c) \/ InRenamePut(c) \/ InRenameKey(c)
  \/ InErase(c) \/ InUnregisterKeys(c) \/ InUnregisterIndex(c) \/ InUncache(c)
  \/ InScan(c) \/ InReloadDone(c) \/ InRedisFails(c) \/ InFill(c)

InNext ==
  \/ \E c \in InCalls : InArrive(c) \/ (InGo(c) /\ UNCHANGED inLeft)
  \/ InRestart

InSpec == InInit /\ [][InNext]_inVars

-----------------------------------------------------------------------------

\* No instance has a parent that does not exist, although create_instance
\* checks the parent before its transaction and deletions run meanwhile.
InParentsExist == \A i \in DOMAIN inDb : inDb[i].parent \in DOMAIN inDb \union {0}

\* A reload that ran alone, and whose Redis commands succeeded, leaves Redis
\* with exactly the instances of the table, each under its name both ways:
\* what a failed update left behind is repaired by the next reload.
InReloadRepairs ==
  [][\A c \in InCalls :
       (inCall[c].op = "reload" /\ inCall[c].alone /\ ~ inCall[c].fault
        /\ inCall'[c] = InIdle /\ ~ InRestart)
       => /\ inName' = [i \in DOMAIN inDb |-> inDb[i].name]
          /\ \A i \in DOMAIN inDb : inDb[i].name \in DOMAIN inIndex'
                                    /\ inIndex'[inDb[i].name] = i]_inVars

\* A deletion that ran alone leaves no row of the instance or of anything
\* below it, and no cached name of one of them it still knew by that name.
InSubtreeGone ==
  [][\A c \in InCalls :
       (inCall[c].op = "delete" /\ inCall[c].alone /\ inCall'[c] = InIdle /\ ~ InRestart)
       => inCall[c].all \intersect DOMAIN inDb' = {}]_inVars

-----------------------------------------------------------------------------
(*----------------------------- InstanceValues ----------------------------*)
(***************************************************************************)
(* What modsrv keeps for an instance besides its row: property values, by  *)
(* property id, read through the product's template, which another version *)
(* of the program may have changed; its points with their routes; and the  *)
(* hash of measurements in Redis, which registration fills with zeros      *)
(* while measurements already arrive, and deletion removes.                *)
(***************************************************************************)

CONSTANTS IvInstances, IvIds, IvNames,  \* instances, property ids, property names
          IvTemplates,   \* templates a version of the program may have: id -> name, partial
          IvPoints,      \* measurement ids of the product
          IvValues,      \* values of properties and points
          IvEdits        \* bound: requests, restarts and measurements

VARIABLES
    ivTemplate,   \* the product's property template in force
    ivInst,       \* table instances
    ivRow,        \* table instance_properties: <<instance, id>> -> value
    ivRoute,      \* table measurement_routing: <<instance, point>> -> enabled
    ivRedis,      \* Redis hash inst:{id}:M : <<instance, point>> -> value
    ivReg,        \* points still to be registered: set of <<instance, point>>
    ivLast,       \* history: last measurement since the instance was registered
    ivLeft

ivVars == <<ivTemplate, ivInst, ivRow, ivRoute, ivRedis, ivReg, ivLast, ivLeft>>

IvInit ==
    /\ ivTemplate \in IvTemplates /\ ivInst = {} /\ ivRow = <<>> /\ ivRoute = <<>>
    /\ ivRedis = <<>> /\ ivReg = {} /\ ivLast = <<>> /\ ivLeft = IvEdits

IvStep == ivLeft > 0 /\ ivLeft' = ivLeft - 1
IvWithout(f, i) == [k \in {x \in DOMAIN f : x[1] # i} |-> f[k]]

-----------------------------------------------------------------------------
\* write_properties_tx: by name, the whole creation fails on an unknown one
IvIdOf(name) == CHOOSE id \in DOMAIN ivTemplate : ivTemplate[id] = name
IvCreate(i, props) ==
    /\ IvStep /\ i \notin ivInst
    /\ IF DOMAIN props \subseteq Range(ivTemplate)
       THEN /\ ivInst' = ivInst \cup {i}
            /\ ivRow' = [k \in {<<i, IvIdOf(n)>> : n \in DOMAIN props} |-> props[ivTemplate[k[2]]]] @@ ivRow
            /\ ivReg' = ivReg \cup ({i} \X IvPoints)
       ELSE UNCHANGED <<ivInst, ivRow, ivReg>>
    /\ UNCHANGED <<ivTemplate, ivRoute, ivRedis, ivLast>>

\* upsert_single_property and delete_single_property: by id
IvSetProperty(i, id, v) ==
    /\ IvStep /\ i \in ivInst /\ id \in DOMAIN ivTemplate
    /\ ivRow' = <<i, id>> :> v @@ ivRow
    /\ UNCHANGED <<ivTemplate, ivInst, ivRoute, ivRedis, ivReg, ivLast>>
IvDeleteProperty(i, id) ==
    /\ IvStep /\ i \in ivInst /\ id \in DOMAIN ivTemplate
    /\ ivRow' = [k \in DOMAIN ivRow \ {<<i, id>>} |-> ivRow[k]]
    /\ UNCHANGED <<ivTemplate, ivInst, ivRoute, ivRedis, ivReg, ivLast>>

IvRouteSet(i, p, on) ==
    /\ IvStep /\ i \in ivInst /\ ivRoute' = <<i, p>> :> on @@ ivRoute
    /\ UNCHANGED <<ivTemplate, ivInst, ivRow, ivRedis, ivReg, ivLast>>

\* register_instance: HSETNX point by point, so a registration at a restart or
\* a reload changes nothing that is there
IvRegister(i, p) ==
    /\ <<i, p>> \in ivReg /\ ivReg' = ivReg \ {<<i, p>>}
    /\ ivRedis' = ivRedis @@ (<<i, p>> :> 0)
    /\ UNCHANGED <<ivTemplate, ivInst, ivRow, ivRoute, ivLast, ivLeft>>

\* sync_measurement: nobody asks whether the instance exists
IvSync(i, p, v) ==
    /\ IvStep
    /\ ivRedis' = <<i, p>> :> v @@ ivRedis /\ ivLast' = <<i, p>> :> v @@ ivLast
    /\ UNCHANGED <<ivTemplate, ivInst, ivRow, ivRoute, ivReg>>

\* Deletion: the row with its properties and routes, then the keys in Redis; a
\* registration under way goes on.
IvDelete(i) ==
    /\ IvStep /\ i \in ivInst
    /\ ivInst' = ivInst \ {i}
    /\ ivRow' = IvWithout(ivRow, i) /\ ivRoute' = IvWithout(ivRoute, i)
    /\ ivRedis' = IvWithout(ivRedis, i) /\ ivLast' = IvWithout(ivLast, i)
    /\ UNCHANGED <<ivTemplate, ivReg>>

\* A restart, perhaps of another version: every instance is registered again.
IvRestart(t) ==
    /\ IvStep /\ ivTemplate' = t
    /\ ivReg' = ivInst \X IvPoints
    /\ UNCHANGED <<ivInst, ivRow, ivRoute, ivRedis, ivLast>>

-----------------------------------------------------------------------------
(* The views. *)

IvKnown(i) == {id \in DOMAIN ivTemplate : <<i, id>> \in DOMAIN ivRow}

\* fetch_properties: rows whose id the template no longer has are skipped
IvFetch(i) ==
    [n \in {ivTemplate[id] : id \in IvKnown(i)} |-> ivRow[<<i, IvIdOf(n)>>]]

\* fetch_properties_batch and attach_properties_batch
IvFetchBatch(is) ==
    LET rows == {k \in DOMAIN ivRow : k[1] \in is /\ k[2] \in DOMAIN ivTemplate}
    IN  [i \in is |-> [n \in {ivTemplate[k[2]] : k \in {r \in rows : r[1] = i}} |-> ivRow[<<i, IvIdOf(n)>>]]]

\* load_instance_points: every property of the template, with its value or none
IvPropertyPoints(i) ==
    {[id |-> id, name |-> ivTemplate[id], value |-> IF <<i, id>> \in DOMAIN ivRow THEN {ivRow[<<i, id>>]} ELSE {}]
        : id \in DOMAIN ivTemplate}
IvMeasurementPoints(i) ==
    {[id |-> p, routing |-> IF <<i, p>> \in DOMAIN ivRoute THEN {ivRoute[<<i, p>>]} ELSE {}] : p \in IvPoints}

\* load_single_measurement_point
IvSinglePoint(i, p) ==
    [id |-> p, routing |-> {ivRoute[k] : k \in {x \in DOMAIN ivRoute : x[1] = i /\ x[2] = p}}]

\* get_instance_data
IvData(i) == [p \in {k[2] : k \in {x \in DOMAIN ivRedis : x[1] = i}} |-> ivRedis[<<i, p>>]]

-----------------------------------------------------------------------------
IvProps == UNION {[S -> IvValues] : S \in SUBSET IvNames}
IvNext ==
    \/ \E i \in IvInstances, props \in IvProps : IvCreate(i, props)
    \/ \E i \in IvInstances, id \in IvIds : IvDeleteProperty(i, id) \/ \E v \in IvValues : IvSetProperty(i, id, v)
    \/ \E i \in IvInstances, p \in IvPoints :
         \/ IvRegister(i, p)
         \/ \E v \in IvValues : IvSync(i, p, v)
         \/ \E on \in BOOLEAN : IvRouteSet(i, p, on)
    \/ \E i \in IvInstances : IvDelete(i)
    \/ \E t \in IvTemplates : IvRestart(t)

IvSpec == IvInit /\ [][IvNext]_ivVars

IvTypeOK ==
    /\ DOMAIN ivTemplate \subseteq IvIds /\ ivInst \subseteq IvInstances
    /\ DOMAIN ivRow \subseteq IvInstances \X IvIds /\ DOMAIN ivRedis \subseteq IvInstances \X IvPoints

-----------------------------------------------------------------------------
\* Three readers of the property table agree, whatever the template was when a
\* value was written: the list of instances, the single instance and the points
\* of an instance show the same values under the same names, and a value whose
\* property the template lost appears in none of them.
IvViewsAgree ==
    \A i \in ivInst :
        LET points == {p \in IvPropertyPoints(i) : p.value # {}}
        IN  /\ IvFetchBatch(ivInst)[i] = IvFetch(i)
            /\ {<<p.name, p.value>> : p \in points} = {<<n, {IvFetch(i)[n]}>> : n \in DOMAIN IvFetch(i)}
            /\ IvMeasurementPoints(i) = {IvSinglePoint(i, p) : p \in IvPoints}

\* Registration never costs a measurement: at any moment, during a creation, a
\* reload or a restart, Redis holds the last measurement of a point, and zero
\* only where none has arrived.
IvMeasurementKept ==
    \A i \in IvInstances : \A p \in IvPoints :
        IF <<i, p>> \in DOMAIN ivLast THEN p \in DOMAIN IvData(i) /\ IvData(i)[p] = ivLast[<<i, p>>]
        ELSE p \in DOMAIN IvData(i) => IvData(i)[p] = 0

=============================================================================
