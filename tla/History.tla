------------------------------ MODULE History ------------------------------
(***************************************************************************)
(* What is kept for later: the points that hissrv collects and the arithmetic of *)
(* its queries, and the rules and the history of alerts behind the API of alarmsrv. *)
(***************************************************************************)
EXTENDS Integers, Sequences, FiniteSets, SequencesExt, FiniteSetsExt

-----------------------------------------------------------------------------
(*------------------------------ HistoryStore -----------------------------*)
(***************************************************************************)
(* hissrv: the collector appends the points it reads to a buffer, the      *)
(* flush task writes the buffer to the storage backend, and HTTP calls     *)
(* change the storage settings and the backend under both of them.         *)
(*                                                                         *)
(* A point is its number in the order of collection.  A database counts    *)
(* the rows each point has in it.  What a lock protects is one step.       *)
(***************************************************************************)

CONSTANTS HiDbs,     \* the databases a DSN can name
          HiCalls,   \* HTTP calls in progress at a time
          HiPoints,  \* bound: points collected
          HiFaults   \* bound: writes whose outcome the client does not learn

ASSUME HiAssumption == HiPoints \in Nat /\ HiFaults \in Nat

HiNull == "null"          \* NullBackend

VARIABLES
    hiUp,      \* the process: "run", "stopping" or "down"
    hiSaved,   \* the storage settings in SQLite
    hiSet,     \* the storage settings in memory
    hiStore,   \* the backend in AppState
    hiBatch,   \* batch_size, saved and in memory
    hiBuf,     \* the buffer
    hiCol,     \* collector_task(): step and the points it has read
    hiFlush,   \* flush_task(): step, what is left to write, what failed, the backend
    hiCall,    \* the HTTP calls
    hiNext,    \* number of the next point
    hiRows,    \* rows of each point, over all databases
    hiUnsure,  \* writes of each point that were done and reported as failed
    hiLost     \* points that were in memory when the process ended

hiVars == <<hiUp, hiSaved, hiSet, hiStore, hiBatch, hiBuf, hiCol, hiFlush, hiCall, hiNext,
            hiRows, hiUnsure, hiLost>>

HiIds == 1 .. HiPoints
HiIdle == [at |-> "sleep", batch |-> 1, todo |-> <<>>, failed |-> <<>>, to |-> HiNull, final |-> FALSE]
HiFree == [at |-> "none", on |-> FALSE, db |-> HiNull]
HiSettings == [on : BOOLEAN, db : HiDbs]
HiInMemory == ToSet(hiBuf) \union ToSet(hiCol.got) \union ToSet(hiFlush.todo)
              \union ToSet(hiFlush.failed)

\* main(): the backend is the saved one when it is enabled and can be reached;
\* when it cannot, the settings stay enabled with NullBackend.
HiBoot(saved) == IF saved.on THEN {saved.db, HiNull} ELSE {HiNull}

HiInit ==
    /\ hiUp = "run" /\ hiSaved \in HiSettings /\ hiSet = hiSaved
    /\ hiStore \in HiBoot(hiSaved)
    /\ hiBatch = 1 /\ hiBuf = <<>> /\ hiCol = [at |-> "sleep", got |-> <<>>] /\ hiFlush = HiIdle
    /\ hiCall = [c \in HiCalls |-> HiFree] /\ hiNext = 1
    /\ hiRows = [p \in HiIds |-> 0] /\ hiUnsure = [p \in HiIds |-> 0] /\ hiLost = {}

HiAlive == hiUp # "down"

----------------------------------------------------------------------------
(* The collector *)

\* A second has passed, storage is enabled and some pattern is due (the sleep
\* may win the race with the cancellation).
HiTick ==
    /\ HiAlive /\ hiCol.at = "sleep" /\ hiSet.on
    /\ hiCol' = [hiCol EXCEPT !.at = "scan"]
    /\ UNCHANGED <<hiUp, hiSaved, hiSet, hiStore, hiBatch, hiBuf, hiFlush, hiCall, hiNext, hiRows,
                   hiUnsure, hiLost>>

\* collect_patterns(): the keys that can be read give points; none may.
HiScan ==
    /\ HiAlive /\ hiCol.at = "scan"
    /\ \E n \in 0 .. 2 :
          /\ hiNext + n - 1 <= HiPoints
          /\ hiCol' = [at |-> IF n = 0 THEN "sleep" ELSE "append",
                       got |-> [i \in 1 .. n |-> hiNext + i - 1]]
          /\ hiNext' = hiNext + n
    /\ UNCHANGED <<hiUp, hiSaved, hiSet, hiStore, hiBatch, hiBuf, hiFlush, hiCall, hiRows, hiUnsure, hiLost>>

HiAppend ==
    /\ HiAlive /\ hiCol.at = "append"
    /\ hiBuf' = hiBuf \o hiCol.got
    /\ hiCol' = [at |-> "sleep", got |-> <<>>]
    /\ UNCHANGED <<hiUp, hiSaved, hiSet, hiStore, hiBatch, hiFlush, hiCall, hiNext, hiRows, hiUnsure, hiLost>>

----------------------------------------------------------------------------
(* The flush task *)

HiFlushEnds == [HiIdle EXCEPT !.at = IF hiFlush.final THEN "ended" ELSE "sleep"]

\* The interval has passed, or shutdown asks for the last flush; the settings
\* are looked at before the buffer is.
HiFlushStart ==
    /\ HiAlive /\ hiFlush.at = "sleep"
    /\ \E final \in IF hiUp = "stopping" THEN BOOLEAN ELSE {FALSE} :
          hiFlush' = IF hiSet.on
                       THEN [HiIdle EXCEPT !.at = "take", !.batch = hiBatch, !.final = final]
                       ELSE [HiIdle EXCEPT !.at = IF final THEN "ended" ELSE "sleep"]
    /\ UNCHANGED <<hiUp, hiSaved, hiSet, hiStore, hiBatch, hiBuf, hiCol, hiCall, hiNext, hiRows,
                   hiUnsure, hiLost>>

HiTake ==
    /\ HiAlive /\ hiFlush.at = "take"
    /\ hiFlush' = IF hiBuf = <<>> THEN HiFlushEnds ELSE [hiFlush EXCEPT !.at = "clone", !.todo = hiBuf]
    /\ hiBuf' = <<>>
    /\ UNCHANGED <<hiUp, hiSaved, hiSet, hiStore, hiBatch, hiCol, hiCall, hiNext, hiRows, hiUnsure, hiLost>>

HiClone ==
    /\ HiAlive /\ hiFlush.at = "clone"
    /\ hiFlush' = [hiFlush EXCEPT !.at = "write", !.to = hiStore]
    /\ UNCHANGED <<hiUp, hiSaved, hiSet, hiStore, hiBatch, hiBuf, hiCol, hiCall, hiNext, hiRows,
                   hiUnsure, hiLost>>

HiChunk == SubSeq(hiFlush.todo, 1, IF Len(hiFlush.todo) < hiFlush.batch THEN Len(hiFlush.todo)
                                   ELSE hiFlush.batch)
HiRest == SubSeq(hiFlush.todo, Len(HiChunk) + 1, Len(hiFlush.todo))
HiCount(f, s) == [p \in HiIds |-> IF p \in ToSet(s) THEN f[p] + 1 ELSE f[p]]

\* write_batch() of one chunk: one INSERT, which has no key to conflict on.
HiWritten ==
    /\ HiAlive /\ hiFlush.at = "write" /\ hiFlush.todo # <<>> /\ hiFlush.to # HiNull
    /\ hiRows' = HiCount(hiRows, HiChunk)
    /\ hiFlush' = [hiFlush EXCEPT !.todo = HiRest]
    /\ UNCHANGED <<hiUp, hiSaved, hiSet, hiStore, hiBatch, hiBuf, hiCol, hiCall, hiNext, hiUnsure, hiLost>>

\* The chunk fails: always with NullBackend; the INSERT may have been done
\* when the connection breaks.
HiWriteFails ==
    /\ HiAlive /\ hiFlush.at = "write" /\ hiFlush.todo # <<>>
    /\ \/ UNCHANGED <<hiRows, hiUnsure>>
       \/ /\ hiFlush.to # HiNull /\ \A p \in HiIds : hiUnsure[p] < HiFaults
          /\ hiRows' = HiCount(hiRows, HiChunk) /\ hiUnsure' = HiCount(hiUnsure, HiChunk)
    /\ hiFlush' = [hiFlush EXCEPT !.todo = HiRest, !.failed = @ \o HiChunk]
    /\ UNCHANGED <<hiUp, hiSaved, hiSet, hiStore, hiBatch, hiBuf, hiCol, hiCall, hiNext, hiLost>>

\* Mutant: the failed batches are dropped.
HiPutBackNothing ==
    /\ HiAlive /\ hiFlush.at = "write" /\ hiFlush.todo = <<>>
    /\ hiBuf' = hiBuf
    /\ hiFlush' = HiFlushEnds
    /\ UNCHANGED <<hiUp, hiSaved, hiSet, hiStore, hiBatch, hiCol, hiCall, hiNext, hiRows, hiUnsure, hiLost>>

\* What failed goes back in front of what was collected meanwhile.
HiPutBack ==
    /\ HiAlive /\ hiFlush.at = "write" /\ hiFlush.todo = <<>>
    /\ hiBuf' = hiFlush.failed \o hiBuf
    /\ hiFlush' = HiFlushEnds
    /\ UNCHANGED <<hiUp, hiSaved, hiSet, hiStore, hiBatch, hiCol, hiCall, hiNext, hiRows, hiUnsure, hiLost>>

----------------------------------------------------------------------------
(* The HTTP calls *)

HiUpdateConfig ==
    /\ HiAlive
    /\ hiBatch' \in {1, 2}
    /\ UNCHANGED <<hiUp, hiSaved, hiSet, hiStore, hiBuf, hiCol, hiFlush, hiCall, hiNext, hiRows,
                   hiUnsure, hiLost>>

\* update_storage(): SQLite, then the backend when disabling, then memory.
HiUpdate(c) ==
    /\ HiAlive /\ hiCall[c] = HiFree
    /\ \E s \in HiSettings :
          /\ hiSaved' = s
          /\ hiCall' = [hiCall EXCEPT ![c] = [at |-> IF s.on THEN "set" ELSE "null", on |-> s.on, db |-> s.db]]
    /\ UNCHANGED <<hiUp, hiSet, hiStore, hiBatch, hiBuf, hiCol, hiFlush, hiNext, hiRows, hiUnsure, hiLost>>

HiUpdateNull(c) ==
    /\ HiAlive /\ hiCall[c].at = "null"
    /\ hiStore' = HiNull
    /\ hiCall' = [hiCall EXCEPT ![c].at = "set"]
    /\ UNCHANGED <<hiUp, hiSaved, hiSet, hiBatch, hiBuf, hiCol, hiFlush, hiNext, hiRows, hiUnsure, hiLost>>

HiUpdateSet(c) ==
    /\ HiAlive /\ hiCall[c].at = "set"
    /\ hiSet' = [on |-> hiCall[c].on, db |-> hiCall[c].db]
    /\ hiCall' = [hiCall EXCEPT ![c] = HiFree]
    /\ UNCHANGED <<hiUp, hiSaved, hiStore, hiBatch, hiBuf, hiCol, hiFlush, hiNext, hiRows, hiUnsure, hiLost>>

\* reconnect_storage(): the settings are read, and used after the connection is made.
HiReconnect(c) ==
    /\ HiAlive /\ hiCall[c] = HiFree /\ hiSet.on
    /\ hiCall' = [hiCall EXCEPT ![c] = [at |-> "connect", on |-> TRUE, db |-> hiSet.db]]
    /\ UNCHANGED <<hiUp, hiSaved, hiSet, hiStore, hiBatch, hiBuf, hiCol, hiFlush, hiNext, hiRows,
                   hiUnsure, hiLost>>

HiConnected(c) ==
    /\ HiAlive /\ hiCall[c].at = "connect"
    /\ hiStore' \in {hiCall[c].db, hiStore}       \* the second: it cannot be reached
    /\ hiCall' = [hiCall EXCEPT ![c] = HiFree]
    /\ UNCHANGED <<hiUp, hiSaved, hiSet, hiBatch, hiBuf, hiCol, hiFlush, hiNext, hiRows, hiUnsure, hiLost>>

----------------------------------------------------------------------------
(* Shutdown, crash and restart *)

HiShutdown ==
    /\ hiUp = "run"
    /\ hiUp' = "stopping"
    /\ UNCHANGED <<hiSaved, hiSet, hiStore, hiBatch, hiBuf, hiCol, hiFlush, hiCall, hiNext, hiRows,
                   hiUnsure, hiLost>>

\* The process ends: main() returns without waiting for the tasks, or a crash.
HiEnd ==
    /\ HiAlive
    /\ hiUp' = "down" /\ hiLost' = hiLost \union HiInMemory
    /\ hiBuf' = <<>> /\ hiCol' = [at |-> "sleep", got |-> <<>>] /\ hiFlush' = HiIdle
    /\ hiCall' = [c \in HiCalls |-> HiFree]
    /\ UNCHANGED <<hiSaved, hiSet, hiStore, hiBatch, hiNext, hiRows, hiUnsure>>

HiStart ==
    /\ hiUp = "down"
    /\ hiUp' = "run" /\ hiSet' = hiSaved
    /\ hiStore' \in HiBoot(hiSaved)
    /\ UNCHANGED <<hiSaved, hiBatch, hiBuf, hiCol, hiFlush, hiCall, hiNext, hiRows, hiUnsure, hiLost>>

HiFlushNext == HiFlushStart \/ HiTake \/ HiClone \/ HiWritten \/ HiWriteFails \/ HiPutBack

HiNextStep ==
    \/ HiTick \/ HiScan \/ HiAppend \/ HiFlushNext
    \/ HiUpdateConfig \/ HiShutdown \/ HiEnd \/ HiStart
    \/ \E c \in HiCalls : HiUpdate(c) \/ HiUpdateNull(c) \/ HiUpdateSet(c) \/ HiReconnect(c)
                          \/ HiConnected(c)

HiSpec == HiInit /\ [][HiNextStep]_hiVars

----------------------------------------------------------------------------
(* Properties *)

HiTypeOK ==
    /\ hiUp \in {"run", "stopping", "down"} /\ hiSaved \in HiSettings /\ hiSet \in HiSettings
    /\ hiStore \in HiDbs \union {HiNull} /\ hiBatch \in {1, 2} /\ hiBuf \in Seq(HiIds)
    /\ hiCol \in [at : {"sleep", "scan", "append"}, got : Seq(HiIds)]
    /\ hiFlush \in [at : {"sleep", "take", "clone", "write", "ended"}, batch : {1, 2}, todo : Seq(HiIds),
                    failed : Seq(HiIds), to : HiDbs \union {HiNull}, final : BOOLEAN]
    /\ hiCall \in [HiCalls -> [at : {"none", "null", "set", "connect"}, on : BOOLEAN,
                               db : HiDbs \union {HiNull}]]
    /\ hiNext \in 1 .. HiPoints + 1
    /\ hiRows \in [HiIds -> Nat] /\ hiUnsure \in [HiIds -> Nat] /\ hiLost \subseteq HiIds

\* No point collected is dropped while the process lives, whatever fails, is
\* disabled or is swapped: it is in memory or in a database (flush_buffer() puts
\* the chunks that failed back).
HiNothingLost ==
    \A p \in 1 .. hiNext - 1 : hiRows[p] > 0 \/ p \in HiInMemory \union hiLost

\* The points are kept in the order of collection: what failed, then what is
\* left to write, then the buffer, then what the collector holds.
HiInOrder ==
    LET all == hiFlush.failed \o hiFlush.todo \o hiBuf \o hiCol.got
    IN  \A i, j \in 1 .. Len(all) : i < j => all[i] < all[j]

\* A point in the buffer is written in the end, unless storage is disabled,
\* has no backend, or the process ends first: a write that fails is retried
\* for ever.
HiWrittenAtLast ==
    \A p \in HiIds : []<>(\/ p \notin ToSet(hiBuf) \cup ToSet(hiFlush.todo) \cup ToSet(hiFlush.failed)
                         \/ hiRows[p] > 0 \/ ~hiSet.on \/ hiStore = HiNull \/ hiUp # "run")

-----------------------------------------------------------------------------
(*------------------------------ HistoryQuery -----------------------------*)
(***************************************************************************)
(* The three selections of history queries: the sample of a series in      *)
(* batch_query.sql, the time buckets of interval_query.sql, and the pages   *)
(* of query_range().  Times are in halves of a second, so that a window     *)
(* need not be a whole number of seconds.                                   *)
(***************************************************************************)

CONSTANTS HqMax  \* bound: rows, limits, seconds of a window

ASSUME HqAssumption == HqMax \in Nat

VARIABLES hqRows,  \* rows of a series, or halves of a second in a window
          hqArg    \* limit_per_series, interval_seconds or page_size

hqVars == <<hqRows, hqArg>>
HqInit == hqRows \in 0 .. 2 * HqMax /\ hqArg \in 1 .. HqMax

\* batch_query.sql: the ranks of the rows that are returned.
HqSample(total, limit) ==
    {rn \in 1 .. total :
        \/ total <= limit
        \/ limit = 1 /\ rn = total
        \/ limit > 1 /\ ( \/ rn = 1
                          \/ ((rn - 1) * (limit - 1)) \div (total - 1)
                             > ((rn - 2) * (limit - 1)) \div (total - 1))}

\* interval_bucket_count() of a window of span halves of a second.
HqBuckets(span, interval) ==
    LET seconds == span \div 2
        partial == seconds % interval # 0 \/ span # 2 * seconds
    IN  seconds \div interval + (IF partial THEN 1 ELSE 0)

\* interval_query.sql: the bucket of a row at distance t from the start.
HqBucketOf(t, span, interval) ==
    LET floor == t \div (2 * interval)
        last == HqBuckets(span, interval) - 1
    IN  IF floor < last THEN floor ELSE last

\* query_range(): the rows of a page, and has_more.
HqPage(total, size, page) == {rn \in 1 .. total : rn > (page - 1) * size /\ rn <= page * size}
HqHasMore(total, size, page) == page * size < total

HqNext == UNCHANGED hqVars
HqSpec == HqInit /\ [][HqNext]_hqVars

\* The sample has as many rows as the limit allows, keeps both ends of the
\* series, and its rows are evenly spread: two gaps differ by at most one.
HqSampleFair ==
    LET S == HqSample(hqRows, hqArg)
        next(i) == Min({j \in S : j > i})
        gaps == {next(i) - i : i \in S \ {hqRows}}
    IN  /\ Cardinality(S) = IF hqRows < hqArg THEN hqRows ELSE hqArg
        /\ hqRows > 0 => hqRows \in S
        /\ hqRows > 0 /\ hqArg > 1 => 1 \in S
        /\ \A g, h \in gaps : hqRows > hqArg => g - h \in {-1, 0, 1}

\* The buckets cover the window: a row at any time of it, the end included, is
\* in a bucket that starts at or before the row, less than one interval before
\* it except for a row at the very end; and every bucket starts in the window.
HqBucketsCover ==
    hqRows > 0 =>
        /\ \A t \in 0 .. hqRows :
              LET b == HqBucketOf(t, hqRows, hqArg)
              IN  /\ b \in 0 .. HqBuckets(hqRows, hqArg) - 1
                  /\ 2 * hqArg * b <= t
                  /\ t < hqRows => t < 2 * hqArg * (b + 1)
        /\ 2 * hqArg * (HqBuckets(hqRows, hqArg) - 1) < hqRows

\* Reading pages while has_more is set returns every row once.
HqPagesComplete ==
    LET last == Min({n \in 1 .. hqRows + 1 : ~HqHasMore(hqRows, hqArg, n)})
    IN  /\ UNION {HqPage(hqRows, hqArg, n) : n \in 1 .. last} = 1 .. hqRows
        /\ \A m, n \in 1 .. last :
              m # n => HqPage(hqRows, hqArg, m) \intersect HqPage(hqRows, hqArg, n) = {}
        /\ \A n \in 2 .. last : HqPage(hqRows, hqArg, n) # {}

-----------------------------------------------------------------------------
(*------------------------------- AlarmRules ------------------------------*)
(***************************************************************************)
(* The alarm rules, alerts and alarm history of alarmsrv as its API and    *)
(* its tables keep them (routes.rs, db.rs, models.rs); the periodic check  *)
(* that raises and clears alerts is AlarmMonitor.                          *)
(*                                                                         *)
(* A rule watches one cell of Redis: a point, or the online flag of a      *)
(* channel.  Creating and updating look up the name and the point first    *)
(* and write afterwards.  An alert copies the rule as it is when it is     *)
(* raised, and the history copies the alert.                               *)
(***************************************************************************)

CONSTANTS ArCalls,    \* API calls in progress at a time
          ArNames,    \* rule names, up to case
          ArIds,      \* bound: rules ever created
          ArEvents,   \* bound: rows of the history
          ArRequests, \* bound: calls
          ArSizes     \* page sizes asked for

ASSUME ArAssumption == ArIds \in Nat /\ ArEvents \in Nat /\ ArRequests \in Nat

(* A watched place: one channel, its two points, and its online flag. *)
ArPlace == [online : BOOLEAN, pt : 0..1]

(* validate_channel_online_shape *)
ArShape(w) == w.online => w.pt = 0

(* redis_key and redis_field *)
ArCell(w) == IF w.online THEN <<"comsrv:online", 1>> ELSE <<"point", w.pt>>

VARIABLES arRule,    \* alert_rule: id -> {row} or {}
          arNext,    \* the next id of AUTOINCREMENT
          arAlert,   \* alert: the active alerts
          arEvent,   \* alert_event, in the order of triggered_at
          arFk,      \* alert_event still refers to alert_rule (the old schema)
          arCall,    \* the calls under way
          arLeft     \* calls still to come

arVars == <<arRule, arNext, arAlert, arEvent, arFk, arCall, arLeft>>

ArFree == [at |-> "none"]

ArTypeOK ==
  /\ DOMAIN arRule = 1..ArIds
  /\ \A i \in 1..ArIds : Cardinality(arRule[i]) <= 1
  /\ arNext \in 1..(ArIds + 1)
  /\ \A a \in arAlert : a.rule \in 1..ArIds
  /\ Len(arEvent) <= ArEvents
  /\ arFk \in BOOLEAN
  /\ DOMAIN arCall = ArCalls
  /\ arLeft \in 0..ArRequests

ArInit ==
  /\ arRule = [i \in 1..ArIds |-> {}]
  /\ arNext = 1
  /\ arAlert = {}
  /\ arEvent = <<>>
  /\ arFk \in BOOLEAN
  /\ arCall = [c \in ArCalls |-> ArFree]
  /\ arLeft = ArRequests

ArTo(c, q) == arCall' = [arCall EXCEPT ![c] = q]

(* find_rule_by_name and find_rule_by_point, without the rule itself. *)
ArNameTaken(n, self)  == \E i \in 1..ArIds : i # self /\ \E r \in arRule[i] : r.name = n
ArPointTaken(w, self) == \E i \in 1..ArIds : i # self /\ \E r \in arRule[i] : r.watch = w

-----------------------------------------------------------------------------
(* create_rule: operator, shape, name and point are checked ... *)
ArCreate(c) ==
  /\ arCall[c] = ArFree /\ arLeft > 0
  /\ \E n \in ArNames, w \in ArPlace, l \in {1, 3} :
       /\ ArShape(w) /\ ~ArNameTaken(n, 0) /\ ~ArPointTaken(w, 0)
       /\ ArTo(c, [at |-> "insert", row |-> [name |-> n, watch |-> w, level |-> l, on |-> TRUE]])
  /\ arLeft' = arLeft - 1
  /\ UNCHANGED <<arRule, arNext, arAlert, arEvent, arFk>>

(* ... and insert_rule adds the row. *)
ArInsert(c) ==
  /\ arCall[c].at = "insert"
  /\ arNext <= ArIds
  /\ arRule' = [arRule EXCEPT ![arNext] = {arCall[c].row}]
  /\ arNext' = arNext + 1
  /\ ArTo(c, ArFree)
  /\ UNCHANGED <<arAlert, arEvent, arFk, arLeft>>

(* update_rule_configuration: a place that is changed in part is checked   *)
(* with the other part the rule has; then the name ...                     *)
ArUpdate(c) ==
  /\ arCall[c] = ArFree /\ arLeft > 0
  /\ \E i \in 1..ArIds : \E r \in arRule[i] :
       \E q \in [name : {{}} \cup {{n} : n \in ArNames}, online : {{}, {TRUE}, {FALSE}},
                 pt : {{}, {0}, {1}}, level : {{}, {2}}] :
         LET w == [online |-> IF q.online = {} THEN r.watch.online ELSE TRUE \in q.online,
                   pt |-> IF q.pt = {} THEN r.watch.pt ELSE CHOOSE v \in q.pt : TRUE]
         IN  /\ ~(q.online = {} /\ q.pt = {}) => ArShape(w) /\ ~ArPointTaken(w, i)
             /\ \A n \in q.name : ~ArNameTaken(n, i)
             /\ ~(q.name = {} /\ q.online = {} /\ q.pt = {} /\ q.level = {})
             /\ ArTo(c, [at |-> "update", id |-> i, set |-> q])
  /\ arLeft' = arLeft - 1
  /\ UNCHANGED <<arRule, arNext, arAlert, arEvent, arFk>>

(* ... and update_rule sets the columns the request names. *)
ArSetOr(s, v) == IF s = {} THEN v ELSE CHOOSE x \in s : TRUE
ArStore(c) ==
  /\ arCall[c].at = "update"
  /\ LET q == arCall[c].set
     IN  arRule' = [arRule EXCEPT ![arCall[c].id] =
           {[r EXCEPT !.name = ArSetOr(q.name, @), !.level = ArSetOr(q.level, @),
                      !.watch = [online |-> ArSetOr(q.online, @.online),
                                 pt |-> ArSetOr(q.pt, @.pt)]] : r \in @}]
  /\ ArTo(c, ArFree)
  /\ UNCHANGED <<arNext, arAlert, arEvent, arFk, arLeft>>

(* An alert of a rule becomes a row of the history: resolve_alert, and     *)
(* resolve_alerts_by_rule_id_tx.                                           *)
ArResolved(of) == arEvent \o SetToSeq({[rule |-> a.rule, snap |-> a.snap] : a \in of})

(* delete_rule: the alerts are resolved and the row deleted in one         *)
(* transaction, which the foreign key of the old history would refuse.     *)
ArDelete(c) ==
  /\ arCall[c] = ArFree /\ arLeft > 0
  /\ arLeft' = arLeft - 1
  /\ \E i \in 1..ArIds :
       LET own == {a \in arAlert : a.rule = i}
       IN  /\ arRule[i] # {}
           /\ Len(arEvent) + Cardinality(own) <= ArEvents
           /\ IF arFk /\ \E e \in ToSet(ArResolved(own)) : e.rule = i
              THEN UNCHANGED <<arRule, arAlert, arEvent>>
              ELSE /\ arRule' = [arRule EXCEPT ![i] = {}]
                   /\ arAlert' = arAlert \ own
                   /\ arEvent' = ArResolved(own)
  /\ UNCHANGED <<arNext, arFk, arCall>>

(* insert_alert by the monitor: the rule as it is now is copied. *)
ArRaise ==
  /\ \E i \in 1..ArIds : \E r \in arRule[i] :
       /\ r.on /\ \A a \in arAlert : a.rule # i
       /\ arAlert' = arAlert \cup {[rule |-> i, snap |-> r]}
  /\ UNCHANGED <<arRule, arNext, arEvent, arFk, arCall, arLeft>>

(* resolve_alert, by the monitor or by a call. *)
ArResolve ==
  /\ Len(arEvent) < ArEvents
  /\ \E a \in arAlert :
       arAlert' = arAlert \ {a} /\ arEvent' = ArResolved({a})
  /\ UNCHANGED <<arRule, arNext, arFk, arCall, arLeft>>

(* create_tables at a start: migrate_alert_event_rule_reference copies the *)
(* history into a table without the foreign key, in one transaction.       *)
ArMigrate ==
  /\ arFk
  /\ \A c \in ArCalls : arCall[c] = ArFree
  /\ arFk' = FALSE
  /\ UNCHANGED <<arRule, arNext, arAlert, arEvent, arCall, arLeft>>

ArNextStep ==
  \/ \E c \in ArCalls : ArCreate(c) \/ ArInsert(c) \/ ArUpdate(c) \/ ArStore(c) \/ ArDelete(c)
  \/ ArRaise \/ ArResolve \/ ArMigrate

ArSpec == ArInit /\ [][ArNextStep]_arVars

-----------------------------------------------------------------------------
(* resolve_pagination and list_events: page p, newest first. *)
ArClamp(size) == IF size < 1 THEN 1 ELSE IF size > 200 THEN 200 ELSE size
ArPage(list, p, size) ==
  LET ps == ArClamp(size)
      offset == ((IF p < 1 THEN 1 ELSE p) - 1) * ps
      until == IF offset + ps > Len(list) THEN Len(list) ELSE offset + ps
  IN  SubSeq(list, offset + 1, until)
ArListed(keep) == Reverse(SelectSeq(arEvent, LAMBDA e : e.snap.level \in keep))

-----------------------------------------------------------------------------
(* No two rules watch the same cell of Redis, so one reading raises one    *)
(* alarm: the duplicate check compares places, and only the shape check    *)
(* makes different places different cells.                                 *)
ArOneRulePerCell ==
  \A i, j \in 1..ArIds : \A r \in arRule[i], s \in arRule[j] :
    ArCell(r.watch) = ArCell(s.watch) => i = j

(* The pages a client asks for one after another are the filtered history, *)
(* each row once, and export_events_csv writes the same rows.              *)
ArPagesComplete ==
  \A keep \in SUBSET {1, 2, 3}, size \in ArSizes :
    LET list == ArListed(keep)
        pages == [p \in 1..(Len(list) + 1) |-> ArPage(list, p, size)]
    IN  FlattenSeq(pages) = list

(* A row of the history is never lost or rewritten, not by an update or a  *)
(* deletion of its rule nor by the migration of the table.                 *)
ArHistoryKept == [][IsPrefix(arEvent, arEvent')]_arVars

(* An alert goes into the history as it was raised, whatever became of its *)
(* rule in the meantime.                                                   *)
ArRaisedAsStored ==
  [][\A a \in arAlert \ arAlert' :
       \E e \in ToSet(SubSeq(arEvent', Len(arEvent) + 1, Len(arEvent'))) :
         e.rule = a.rule /\ e.snap = a.snap]_arVars

=============================================================================
