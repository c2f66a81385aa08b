--------------------------- MODULE RuleScheduler ---------------------------
(***************************************************************************)
(* The rule scheduler of modsrv: the 100 ms tick, the PointWatch fast path *)
(* and the hot reload of the rules, all working on one list of rules       *)
(* behind an RwLock.                                                       *)
(*                                                                         *)
(* The loop (RuleScheduler::start) runs one tick or one watch event at a   *)
(* time.  A tick collects a snapshot of the subscribed points (Snapshot),  *)
(* selects the due rules under the read lock (Filter), executes them with  *)
(* no lock (Execute) and stamps them under the write lock (TickCommit); a  *)
(* watch event does the same with the value it carries (WatchFilter,       *)
(* Execute, WatchCommit).  Between two of these steps comsrv writes points *)
(* (Sample), the bridge forwards events (Dispatch), and the HTTP handlers  *)
(* edit the rules and reload them (Edit, LoadRead, LoadWrite, Rebuild).    *)
(*                                                                         *)
(* Instants are modelled by their ages, which stop at the threshold they   *)
(* are compared with.  The log file, the Redis record of an execution and  *)
(* the rows of rule_history are outputs that nothing here reads back, and  *)
(* are left out with the two fields that only thin them.  A point stands  *)
(* for the instance point and the channel point that C2M routing connects. *)
(* RuleExecutor::execute returns Ok always, so the code for its error is   *)
(* not reached.  `seen` and `taint` are history: what the executor read of *)
(* a point when the rule was last evaluated, and whether last_value was    *)
(* then set to something else.                                             *)
(***************************************************************************)
EXTENDS Integers, Sequences

CONSTANTS Points,     \* the subscribed instance points
          Values,     \* the finite values of a point
          NaN,        \* a value that is not finite
          None,       \* no value, no instant
          Catalog,    \* the contents the rules table can have, enabled rules by priority
          Requests,   \* HTTP requests that reload the rules
          EventCap,   \* capacity of each of the two event channels
          MaxSamples, \* bound on the writes of comsrv
          MaxAge      \* the largest threshold of a rule

OnChange(rule) == rule.trigger.kind = "on_change"

ASSUME CatalogAssumption ==
    /\ 1 \in DOMAIN Catalog
    /\ \A v \in DOMAIN Catalog :
          /\ Catalog[v] = [i \in DOMAIN Catalog[v] |-> Catalog[v][i]]
          /\ \A i \in DOMAIN Catalog[v] :
                /\ Catalog[v][i].cooldown \in 0..MaxAge
                /\ OnChange(Catalog[v][i]) =>
                       Catalog[v][i].trigger.refs \subseteq Points
ASSUME ValuesAssumption == Values \subseteq Int /\ EventCap \in Nat \ {0}

VARIABLES
    shm,      \* point -> the value in shared memory
    watched,  \* the points whose bit is set in the SubscriptionBitmap
    wire,     \* PointWatchEvents on their way from comsrv to the bridge task
    watch_rx, \* WatchEvents queued for the scheduler
    index,    \* PointWatchDispatcher::sub_index: point -> rule ids
    rules,    \* the scheduled rules
    db,       \* the version of the rules table
    pc,       \* what the loop is doing
    job,      \* its snapshot or event, the age of its `now` and its executions
    req,      \* request -> its step and the version it has loaded
    samples,  \* number of writes so far
    excused   \* two requests have overlapped, or a load has failed
vars == <<shm, watched, wire, watch_rx, index, rules, db, pc, job, req,
          samples, excused>>

Ids == UNION {{Catalog[v][i].id : i \in DOMAIN Catalog[v]} : v \in DOMAIN Catalog}
Ages == 0..MaxAge
\* "acted": without an error and with at least one action.
Outcomes == {"acted", "other"}
Finite(v) == v \in Values
Refs(rule) == IF OnChange(rule) THEN rule.trigger.refs ELSE {}

TimeDeadband(rule) == IF OnChange(rule) THEN rule.trigger.time_deadband ELSE 0
IntervalOf(rule) == IF OnChange(rule) THEN 0 ELSE rule.trigger.interval

-----------------------------------------------------------------------------
(* Triggers. *)

Abs(n) == IF n < 0 THEN -n ELSE n

\* ValueDeadband::exceeds, and the comparison without a deadband.
Exceeds(vd, last, new) ==
    CASE vd.type = "none"     -> last # new
      [] vd.type = "absolute" -> Abs(new - last) > vd.threshold
      [] vd.type = "percent"  -> IF last = 0 THEN new # 0
                                 ELSE 100 * Abs(new - last) > vd.threshold * Abs(last)

Elapsed(age, threshold) == age = None \/ age >= threshold

\* should_trigger_onchange.
ShouldTrigger(s, snapshot) ==
    /\ Elapsed(s.last_trigger, TimeDeadband(s.rule))
    /\ \E p \in s.rule.trigger.refs :
          /\ Finite(snapshot[p])
          /\ \/ s.last_value[p] = None
             \/ Exceeds(s.rule.trigger.value_deadband, s.last_value[p], snapshot[p])

Due(s, snapshot) ==
    /\ IF OnChange(s.rule) THEN ShouldTrigger(s, snapshot)
       ELSE Elapsed(s.last_execution, IntervalOf(s.rule))
    /\ s.rule.cooldown > 0 => Elapsed(s.last_cooldown, s.rule.cooldown)

-----------------------------------------------------------------------------
(* The rule list, the subscription index and the initial state. *)

Fresh(rule) ==
    [rule |-> rule, last_execution |-> None, last_cooldown |-> None,
     last_trigger |-> None, last_value |-> [p \in Points |-> None],
     seen |-> [p \in Points |-> None], taint |-> FALSE]

Scheduled(v) == [i \in DOMAIN Catalog[v] |-> Fresh(Catalog[v][i])]

Loaded == [i \in DOMAIN rules |-> rules[i].rule]

\* What rebuild_from_rules computes from a list of rules.
Subscribers(list) ==
    [p \in Points |-> {list[i].id : i \in
        {k \in DOMAIN list : p \in Refs(list[k])}}]

WatchedOf(idx) == {p \in Points : idx[p] # {}}

Idle == [kind |-> "none", snapshot |-> [p \in Points |-> None],
         now |-> 0, runs |-> {}]

\* main(): the first reload_rules has finished and the loop has started.
Init ==
    /\ shm \in [Points -> Values \cup {NaN}]
    /\ db = 1
    /\ rules = Scheduled(1)
    /\ index = Subscribers(Catalog[1])
    /\ watched = WatchedOf(index)
    /\ wire = << >> /\ watch_rx = << >>
    /\ pc = "idle" /\ job = Idle
    /\ req = [q \in Requests |-> [at |-> "new", loaded |-> 0]]
    /\ samples = 0 /\ excused = FALSE

-----------------------------------------------------------------------------
(* The environment: comsrv, time, and the bridge task. *)

\* PointWatchSignaler::emit: a watched point's value is offered to a bounded
\* channel and dropped when that is full.  External to the scheduler.
Emit(p, v) ==
    wire' = IF p \in watched /\ Len(wire) < EventCap
            THEN Append(wire, [point |-> p, value |-> v]) ELSE wire

Sample(p, v) ==
    /\ samples < MaxSamples
    /\ samples' = samples + 1
    /\ shm' = [shm EXCEPT ![p] = v]
    /\ Emit(p, v)
    /\ UNCHANGED <<watched, watch_rx, index, rules, db, pc, job, req,
                   excused>>

\* The drain task drops its batch while disconnected or when a write fails.
EventLost ==
    /\ wire # << >>
    /\ wire' = Tail(wire)
    /\ UNCHANGED <<shm, watched, watch_rx, index, rules, db, pc, job,
                   req, samples, excused>>

Older(age, threshold) == IF age = None \/ age >= threshold THEN age ELSE age + 1

Aged(s) == [s EXCEPT !.last_execution = Older(@, IntervalOf(s.rule)),
                     !.last_cooldown = Older(@, s.rule.cooldown),
                     !.last_trigger = Older(@, TimeDeadband(s.rule))]

Elapse ==
    /\ rules' = [i \in DOMAIN rules |-> Aged(rules[i])]
    /\ job' = IF pc = "idle" THEN job ELSE [job EXCEPT !.now = Older(@, MaxAge)]
    /\ UNCHANGED <<shm, watched, wire, watch_rx, index, db, pc, req,
                   samples, excused>>

\* PointWatchDispatcher::dispatch, called by the bridge task.
Dispatch ==
    /\ wire # << >>
    /\ wire' = Tail(wire)
    /\ LET e == Head(wire) IN
       watch_rx' = IF index[e.point] # {} /\ Len(watch_rx) < EventCap
                   THEN Append(watch_rx, [ids |-> index[e.point], value |-> e.value])
                   ELSE watch_rx
    /\ UNCHANGED <<shm, watched, index, rules, db, pc, job, req,
                   samples, excused>>

-----------------------------------------------------------------------------
(* The loop. *)

Env == <<shm, watched, wire, index, db, req, samples, excused>>

\* tick(), phases 0 and 0.5: `now`, and the values of the subscribed points
\* (fetch_point_snapshot; a value that is not finite is filtered out).
Snapshot ==
    /\ pc = "idle"
    /\ pc' = "filter"
    /\ LET subs == UNION {Refs(rules[i].rule) : i \in DOMAIN rules}
       IN job' = [Idle EXCEPT !.kind = "tick",
                    !.snapshot = [p \in Points |->
                        IF p \in subs /\ Finite(shm[p]) THEN shm[p] ELSE None]]
    /\ UNCHANGED <<Env, watch_rx, rules>>

Run(i) == [idx |-> i, rule |-> rules[i].rule, outcome |-> None,
           used |-> {}, read |-> [p \in Points |-> None]]

Starts(due) ==
    IF due = {} THEN pc' = "idle" /\ job' = Idle
    ELSE pc' = "execute" /\ job' = [job EXCEPT !.runs = {Run(i) : i \in due}]

\* tick(), phase 1.
Filter ==
    /\ pc = "filter"
    /\ Starts({i \in DOMAIN rules : Due(rules[i], job.snapshot)})
    /\ UNCHANGED <<Env, watch_rx, rules>>

\* execute_watch_triggered: the first half, up to the executions.  Every
\* reference of the rule takes the value of the event.
WatchFilter ==
    /\ pc = "idle" /\ watch_rx # << >>
    /\ watch_rx' = Tail(watch_rx)
    /\ LET e   == Head(watch_rx)
           one == [p \in Points |-> e.value]
           due == {i \in DOMAIN rules : /\ rules[i].rule.id \in e.ids
                                        /\ OnChange(rules[i].rule)
                                        /\ ShouldTrigger(rules[i], one)}
       IN IF due = {} THEN UNCHANGED <<pc, job>>
          ELSE /\ pc' = "execute"
               /\ job' = [Idle EXCEPT !.kind = "watch", !.snapshot = one,
                                      !.runs = {Run(i) : i \in due}]
    /\ UNCHANGED <<Env, rules>>

\* RuleExecutor::execute: the flow reads all of the rule's points or, when
\* another branch is taken, none; a point that is not finite fails the run.
Execute(r) ==
    /\ pc = "execute" /\ r \in job.runs /\ r.outcome = None
    /\ \E used \in {{}, Refs(r.rule)}, outcome \in Outcomes :
          /\ (\E p \in used : ~Finite(shm[p])) => outcome # "acted"
          /\ job' = [job EXCEPT !.runs = (@ \ {r}) \cup
                {[r EXCEPT !.outcome = outcome, !.used = used,
                           !.read = [p \in Points |->
                              IF p \in used /\ Finite(shm[p]) THEN shm[p] ELSE None]]}]
    /\ UNCHANGED <<Env, watch_rx, pc, rules>>

\* History variables: the evaluation of r, and whether the memory that is
\* written for it may differ from what it read.
Seen(s, r) == [p \in Points |-> IF p \notin Refs(s.rule) THEN s.seen[p]
                                ELSE IF p \notin r.used THEN NaN
                                ELSE IF r.read[p] # None THEN r.read[p] ELSE s.seen[p]]
Taint(s, r) == \/ r.rule # s.rule
               \/ \E p \in r.used : r.read[p] = None
               \/ job.kind = "watch" /\ \E p \in r.used : r.read[p] # job.snapshot[p]

MemoryLatest(r, p) == IF Finite(shm[p]) THEN shm[p] ELSE job.snapshot[p]

\* The value TickCommit remembers: the executor's, or else the snapshot's.
Memory(r, p) == IF r.read[p] # None THEN r.read[p] ELSE job.snapshot[p]

\* The age of `now`, as far as a threshold can tell.
Now(threshold) == IF job.now > threshold THEN threshold ELSE job.now

TickStampIfActed(s, r) ==
    LET memory == OnChange(s.rule) /\ r.outcome = "acted" IN
    [s EXCEPT !.last_execution = Now(IntervalOf(s.rule)),
              !.last_cooldown = IF r.outcome = "acted" THEN Now(s.rule.cooldown) ELSE @,
              !.last_value = [p \in Points |->
                  IF memory /\ p \in Refs(s.rule) /\ Memory(r, p) # None
                  THEN Memory(r, p) ELSE @[p]],
              !.last_trigger = IF memory THEN Now(TimeDeadband(s.rule)) ELSE @,
              !.seen = Seen(s, r), !.taint = Taint(s, r)]

\* tick(), phase 3, on one rule.
TickStamp(s, r) ==
    LET memory == OnChange(r.rule) /\ OnChange(s.rule) IN
    [s EXCEPT !.last_execution = Now(IntervalOf(s.rule)),
              !.last_cooldown = IF r.outcome = "acted" THEN Now(s.rule.cooldown) ELSE @,
              !.last_value = [p \in Points |->
                  IF memory /\ p \in Refs(s.rule) /\ Memory(r, p) # None
                  THEN Memory(r, p) ELSE @[p]],
              !.last_trigger = IF memory THEN Now(TimeDeadband(s.rule)) ELSE @,
              !.seen = Seen(s, r), !.taint = Taint(s, r)]

\* The write-lock section of execute_watch_triggered, on one rule.
WatchStamp(s, r) ==
    [s EXCEPT !.last_execution = Now(IntervalOf(s.rule)),
              !.last_value = [p \in Points |->
                  IF p \in Refs(s.rule) /\ Finite(job.snapshot[p])
                  THEN job.snapshot[p] ELSE @[p]],
              !.last_trigger = IF OnChange(s.rule) THEN Now(TimeDeadband(s.rule)) ELSE @,
              !.seen = Seen(s, r), !.taint = Taint(s, r)]

MatchesIndex(i, r) == r.idx = i

\* The index of a run may name another rule, or none, after a reload.
Matches(i, r) == r.idx = i /\ r.rule.id = rules[i].rule.id

Stamp(s, r) == IF job.kind = "tick" THEN TickStamp(s, r) ELSE WatchStamp(s, r)

\* The write lock is taken once for all results.
Commit ==
    /\ pc = "execute" /\ \A r \in job.runs : r.outcome # None
    /\ rules' = [i \in DOMAIN rules |->
          IF \E r \in job.runs : Matches(i, r)
          THEN Stamp(rules[i], CHOOSE r \in job.runs : Matches(i, r))
          ELSE rules[i]]
    /\ pc' = "idle" /\ job' = Idle
    /\ UNCHANGED <<Env, watch_rx>>

TickCommit == job.kind = "tick" /\ Commit
WatchCommit == job.kind = "watch" /\ Commit

-----------------------------------------------------------------------------
(* The HTTP handlers: an edit of the rules table, then reload_rules. *)

Loop == <<shm, wire, watch_rx, pc, job, samples>>

At(q, step) == req[q].at = step

EditAfterRead(q, v) ==
    /\ At(q, "new")
    /\ db' = v
    /\ req' = [req EXCEPT ![q] = [at |-> "read", loaded |-> db]]
    /\ excused' = (excused \/ \E o \in Requests : req[o].at \in {"edited", "read", "stored"})
    /\ UNCHANGED <<Loop, watched, index, rules>>

\* create, update, delete, enable or disable a rule; POST /api/scheduler/reload
\* leaves the table alone.
Edit(q, v) ==
    /\ At(q, "new")
    /\ db' = v
    /\ req' = [req EXCEPT ![q].at = "edited"]
    /\ excused' = (excused \/ \E o \in Requests : req[o].at \in {"edited", "read", "stored"})
    /\ UNCHANGED <<Loop, watched, index, rules>>

\* load_rules: load_enabled_rules, then the write lock.
LoadRead(q) ==
    /\ At(q, "edited")
    /\ req' = [req EXCEPT ![q] = [at |-> "read", loaded |-> db]]
    /\ UNCHANGED <<Loop, watched, index, rules, db, excused>>

\* The query fails; the handler logs it and answers as if it had not.
LoadFails(q) ==
    /\ At(q, "edited")
    /\ req' = [req EXCEPT ![q].at = "done"]
    /\ excused' = TRUE
    /\ UNCHANGED <<Loop, watched, index, rules, db>>

LoadWriteOnly(q) ==
    /\ At(q, "read")
    /\ rules' = Scheduled(req[q].loaded)
    /\ req' = [req EXCEPT ![q] = [at |-> "done", loaded |-> 0]]
    /\ UNCHANGED <<Loop, watched, index, db, excused>>

LoadWrite(q) ==
    /\ At(q, "read")
    /\ rules' = Scheduled(req[q].loaded)
    /\ req' = [req EXCEPT ![q] = [at |-> "stored", loaded |-> 0]]
    /\ UNCHANGED <<Loop, watched, index, db, excused>>

\* rebuild_from_rules, under the read lock and the dispatcher's mutex.
Rebuild(q) ==
    /\ At(q, "stored")
    /\ index' = Subscribers(Loaded)
    /\ watched' = WatchedOf(index')
    /\ req' = [req EXCEPT ![q].at = "done"]
    /\ UNCHANGED <<Loop, rules, db, excused>>

-----------------------------------------------------------------------------
Reload(q) == LoadRead(q) \/ LoadFails(q) \/ LoadWrite(q) \/ Rebuild(q)

LoopStep ==
    \/ Filter
    \/ \E r \in job.runs : Execute(r)
    \/ TickCommit
    \/ WatchCommit

Next ==
    \/ \E p \in Points, v \in Values \cup {NaN} : Sample(p, v)
    \/ EventLost
    \/ Dispatch
    \/ Elapse
    \/ Snapshot
    \/ WatchFilter
    \/ LoopStep
    \/ \E q \in Requests : (\E v \in DOMAIN Catalog : Edit(q, v)) \/ Reload(q)

Spec == Init /\ [][Next]_vars

\* The tasks run: the bridge forwards, time passes, the loop finishes what it
\* starts and, when idle, ticks; an edit is followed by its reload.
FairSpec ==
    /\ Spec
    /\ WF_vars(Dispatch)
    /\ WF_vars(Elapse)
    /\ WF_vars(Snapshot)
    /\ WF_vars(LoopStep)
    /\ \A q \in Requests : WF_vars(Reload(q))

-----------------------------------------------------------------------------
(* Properties. *)

\* Every variable keeps its type: in particular the channels keep their bounds,
\* and no value that is not finite is ever remembered.
TypeOK ==
    /\ shm \in [Points -> Values \cup {NaN}]
    /\ watched \subseteq Points
    /\ Len(wire) <= EventCap /\ Len(watch_rx) <= EventCap
    /\ index \in [Points -> SUBSET Ids]
    /\ db \in DOMAIN Catalog
    /\ pc \in {"idle", "filter", "execute"}
    /\ \A i \in DOMAIN rules :
          /\ rules[i].last_value \in [Points -> Values \cup {None}]
          /\ {rules[i].last_execution, rules[i].last_cooldown, rules[i].last_trigger}
                \subseteq Ages \cup {None}

\* The subscription index and the bitmap belong to the rules in force: when no
\* reload is between its two halves, an event of a point reaches exactly the
\* rules that subscribe to it, also when reloads overlap (reload_rules reads
\* the list again, under the lock, before it rebuilds).
IndexFollowsRules ==
    (\A q \in Requests : ~At(q, "stored")) =>
        /\ index = Subscribers(Loaded)
        /\ watched = WatchedOf(index)

\* Once the handlers are done the scheduler runs what the table holds, unless
\* two requests overlapped (load_rules reads the table before it takes the lock)
\* or the query failed.
RulesFollowDb ==
    (~excused /\ \A q \in Requests : req[q].at \in {"new", "done"}) =>
        Loaded = Catalog[db]

\* A rule that has not run is not stamped: the commits check the rule's id,
\* because a reload may have moved another rule to the index of a run.
StampsOwnRule ==
    [][\A i \in DOMAIN rules \cap DOMAIN rules' :
          (rules[i].last_execution = None /\ rules'[i].last_execution # None)
             => \E r \in job.runs : r.rule.id = rules[i].rule.id]_vars

Close(s, remembered, p) ==
    Finite(shm[p]) => /\ remembered # None
                      /\ ~Exceeds(s.rule.trigger.value_deadband, remembered, shm[p])

\* When comsrv stops writing, the OnChange rules come to rest: the remembered
\* values end within the deadband of the points, so no tick finds them due.
MemorySettles ==
    <>[](\A i \in DOMAIN rules : \A p \in Refs(rules[i].rule) :
            Close(rules[i], rules[i].last_value[p], p))

Evaluated(s) ==
    \A p \in Refs(s.rule) : s.seen[p] = NaN \/ Close(s, s.seen[p], p)

\* The same, except where the commit remembers a value the run did not read:
\* a watch event's, the snapshot's for a point that was NaN when it ran, or
\* the value an older version of the rule evaluated.
ChangeEvaluatedByTick ==
    <>[](\A i \in DOMAIN rules : rules[i].taint \/ Evaluated(rules[i]))
=============================================================================
