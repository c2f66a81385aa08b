------------------------ MODULE ChannelManagerProofs ------------------------
(***************************************************************************)
(* Proofs about ChannelManager for any finite set of requests. However     *)
(* they overlap: type correctness, and that remove_channel() hands every   *)
(* entry to one shutdown only. When they do not overlap, whatever fails:   *)
(* no task runs that nothing can stop, cache, listener and active set      *)
(* agree with the slot between requests, and the runtime follows the row   *)
(* of the channel.                                                         *)
(***************************************************************************)
EXTENDS ChannelManager, FiniteSetTheorems, TLAPS

\* Entries in use have a task.
Used ==
    /\ slot # 0 => task[slot] # "none"
    /\ \A r \in Requests : held[r] # 0 => task[held[r]] # "none"

\* An entry that is not yet in the slot is known to its creator only.
Fresh ==
    \A r \in Requests : pc[r] = "store" =>
        /\ held[r] # 0 /\ held[r] # slot
        /\ \A s \in Requests \ {r} : pc[s] = "store" \/ Removing(s) => held[s] # held[r]

\* A request that shuts down an entry has one.
Real == \A r \in Requests : Removing(r) => held[r] # 0

IInv == TypeOK /\ Used /\ Fresh /\ Real /\ ShutOnce

USE RequestsAssumption, OpsAssumption

-----------------------------------------------------------------------------
\* Where a request goes after remove_channel() and create_channel().
LEMMA AfterLabels ==
    \A r \in Requests :
        /\ AfterRemove(r) \in {"check", "mark", "done"}
        /\ \A ok \in BOOLEAN : AfterCreate(r, ok) \in {"insert", "mark", "markfailed", "done"}
BY Zenon DEF AfterRemove, AfterCreate

\* The entry numbers.
LEMMA EntriesPositive == 0 \notin Entries
<1>1. Cardinality(Requests) \in Nat
  BY FS_CardinalityType, Zenon
<1> QED
  BY <1>1 DEF Entries

\* Every step keeps the type invariant.
LEMMA TypeStep == TypeOK /\ [Next]_vars => TypeOK'
<1> SUFFICES ASSUME TypeOK, [Next]_vars PROVE TypeOK'
  BY Zenon
<1> USE DEF TypeOK, manager, request
<1>1. ASSUME NEW r \in Requests, Start(r) PROVE TypeOK'
  <2>1. \E o \in AllOps : Begin(r, o)
    BY <1>1, Zenon DEF Start, BeginCreate, BeginEnable, BeginDisable, BeginDelete, BeginUpdate, BeginRespawn,
       BeginReload, AllOps
  <2>2. /\ op' \in [Requests -> AllOps \cup {"none"}] /\ read' \in [Requests -> {"absent", "disabled", "enabled"}]
        /\ faults' \subseteq Faults
    BY <2>1 DEF Begin, Faults
  <2>3. \E l \in Labels : Goto(r, l)
    BY <1>1, Zenon DEF Start, BeginCreate, BeginEnable, BeginDisable, BeginDelete, BeginUpdate, BeginRespawn,
       BeginReload, Labels
  <2>4. pc' \in [Requests -> Labels]
    BY <2>3, Zenon DEF Goto
  <2> QED
    BY <1>1, <2>2, <2>4 DEF Start, BeginCreate, BeginEnable, BeginDisable, BeginDelete, BeginUpdate,
       BeginRespawn, BeginReload
<1>2. ASSUME NEW r \in Requests, Remove(r) PROVE TypeOK'
  <2>1. \E l \in Labels : Goto(r, l)
    BY <1>2, AfterLabels, Zenon DEF Remove, UnregisterCache, UnregisterListener, LeaveActive, SwapSlot, ShutdownEntry,
       CleanupRedis, Labels
  <2>2. pc' \in [Requests -> Labels]
    BY <2>1, Zenon DEF Goto
  <2>3. CASE UnregisterCache(r) \/ UnregisterListener(r) \/ LeaveActive(r)
    BY <2>3, <2>2, Zenon DEF UnregisterCache, UnregisterListener, LeaveActive
  <2>4. CASE SwapSlot(r)
    BY <2>4, <2>2, Zenon DEF SwapSlot
  <2>5. CASE ShutdownEntry(r)
    <3>1. task' \in [Entries -> {"none", "running", "aborting", "ended"}]
      BY <2>5, Zenon DEF ShutdownEntry
    <3> QED
      BY <2>5, <2>2, <3>1, Zenon DEF ShutdownEntry
  <2>6. CASE CleanupRedis(r)
    BY <2>6, <2>2, Zenon DEF CleanupRedis
  <2> QED
    BY <1>2, <2>3, <2>4, <2>5, <2>6, Zenon DEF Remove
<1>3. ASSUME NEW r \in Requests, Create(r) PROVE TypeOK'
  <2>1. \E l \in Labels : Goto(r, l)
    BY <1>3, AfterLabels, Zenon DEF Create, CheckSlot, LoadAndSpawn, LoadError, StoreSlot, RegisterCache,
       RegisterListener, JoinActive, Labels
  <2>2. pc' \in [Requests -> Labels]
    BY <2>1, Zenon DEF Goto
  <2>3. CASE CheckSlot(r) \/ LoadError(r)
    BY <2>3, <2>2, Zenon DEF CheckSlot, LoadError, Faults
  <2>4. CASE LoadAndSpawn(r)
    <3>1. PICK e \in Entries : held' = [held EXCEPT ![r] = e] /\ task' = [task EXCEPT ![e] = "running"]
      BY <2>4, Zenon DEF LoadAndSpawn
    <3>2. held' \in [Requests -> Entries \cup {0}]
      BY <3>1, Zenon
    <3>3. task' \in [Entries -> {"none", "running", "aborting", "ended"}]
      BY <3>1, Zenon
    <3> QED
      BY <2>4, <2>2, <3>2, <3>3, Zenon DEF LoadAndSpawn
  <2>5. CASE StoreSlot(r) \/ RegisterCache(r) \/ RegisterListener(r)
    <3>1. held[r] \in Entries \cup {0}
      BY Zenon
    <3> QED
      BY <2>5, <2>2, <3>1, Zenon DEF StoreSlot, RegisterCache, RegisterListener
  <2>6. CASE JoinActive(r)
    <3>1. held' \in [Requests -> Entries \cup {0}]
      BY <2>6, Zenon DEF JoinActive
    <3> QED
      BY <2>6, <2>2, <3>1 DEF JoinActive
  <2> QED
    BY <1>3, <2>3, <2>4, <2>5, <2>6, Zenon DEF Create
<1>4. ASSUME NEW r \in Requests, Finish(r) PROVE TypeOK'
  <2>1. \E l \in Labels : Goto(r, l)
    BY <1>4, Zenon DEF Finish, InsertRow, InsertError, MarkRow, MarkError, Labels
  <2>2. pc' \in [Requests -> Labels]
    BY <2>1, Zenon DEF Goto
  <2> QED
    BY <1>4, <2>2, Zenon DEF Finish, InsertRow, InsertError, MarkRow, MarkError, Faults
<1>5. CASE \E e \in Entries : AbortTakesEffect(e)
  BY <1>5 DEF AbortTakesEffect
<1>6. CASE NameWritten
  BY <1>6 DEF NameWritten
<1>7. CASE UNCHANGED vars
  BY <1>7, Zenon DEF vars
<1> QED
  BY <1>1, <1>2, <1>3, <1>4, <1>5, <1>6, <1>7, Zenon DEF Next, Work

\* The initial state is well typed.
LEMMA InitType == Init => TypeOK
<1> SUFFICES ASSUME Init PROVE TypeOK
  BY Zenon
<1>1. 1 \in Entries
  <2>1. Cardinality(Requests) \in Nat
    BY FS_CardinalityType, Zenon
  <2> QED
    BY <2>1 DEF Entries
<1>2. slot \in Entries \cup {0}
  BY <1>1, Zenon DEF Init
<1> QED
  BY <1>2, Zenon DEF Init, TypeOK, Labels

\* Type correctness, for any finite set of requests: no more entries are ever
\* needed than one per request and the one at the start.
THEOREM TypeCorrect == Spec => []TypeOK
BY InitType, TypeStep, PTL DEF Spec

-----------------------------------------------------------------------------
\* A step that moves no entry keeps the invariant.
LEMMA Bystander ==
    ASSUME IInv, TypeOK',
           held' = held, slot' = slot \/ slot' = 0,
           \A e \in Entries : task[e] # "none" => task'[e] # "none",
           \A r \in Requests : /\ Removing(r)' => Removing(r)
                               /\ pc'[r] = "store" => pc[r] = "store"
    PROVE  IInv'
<1> USE DEF IInv
<1>1. Used'
  BY Zenon DEF Used, TypeOK
<1>2. Fresh'
  BY Zenon DEF Fresh
<1>3. Real'
  BY Zenon DEF Real
<1>4. ShutOnce'
  BY Zenon DEF ShutOnce, Real
<1> QED
  BY <1>1, <1>2, <1>3, <1>4, Zenon

\* Moving to a label outside the shutdown and the store makes no request one that
\* removes or stores.
LEMMA Harmless ==
    ASSUME TypeOK, NEW r \in Requests, NEW l \in Labels \ {"shutdown", "cleanup", "store"}, Goto(r, l)
    PROVE  \A s \in Requests : /\ Removing(s)' => Removing(s)
                               /\ pc'[s] = "store" => pc[s] = "store"
BY Zenon DEF TypeOK, Goto, Removing

\* Every step keeps the invariant.
LEMMA InvStep == IInv /\ [Next]_vars => IInv'
<1> SUFFICES ASSUME IInv, [Next]_vars PROVE IInv'
  BY Zenon
<1>t. TypeOK /\ TypeOK'
  BY TypeStep, Zenon DEF IInv
<1>1. ASSUME NEW r \in Requests, Start(r) PROVE IInv'
  <2>1. \E l \in Labels \ {"shutdown", "cleanup", "store"} : Goto(r, l)
    BY <1>1, Zenon DEF Start, BeginCreate, BeginEnable, BeginDisable, BeginDelete, BeginUpdate, BeginRespawn,
       BeginReload, Labels
  <2>2. held' = held /\ slot' = slot /\ task' = task
    BY <1>1, Zenon DEF Start, BeginCreate, BeginEnable, BeginDisable, BeginDelete, BeginUpdate, BeginRespawn,
       BeginReload, manager
  <2> QED
    BY <1>t, <2>1, <2>2, Harmless, Bystander, Zenon
<1>2. ASSUME NEW r \in Requests, UnregisterCache(r) \/ UnregisterListener(r) \/ LeaveActive(r) PROVE IInv'
  <2>1. \E l \in Labels \ {"shutdown", "cleanup", "store"} : Goto(r, l)
    BY <1>2, Zenon DEF UnregisterCache, UnregisterListener, LeaveActive, Labels
  <2>2. held' = held /\ slot' = slot /\ task' = task
    BY <1>2, Zenon DEF UnregisterCache, UnregisterListener, LeaveActive
  <2> QED
    BY <1>t, <2>1, <2>2, Harmless, Bystander, Zenon
<1>3. ASSUME NEW r \in Requests, SwapSlot(r), slot = 0 PROVE IInv'
  <2>1. pc' = [pc EXCEPT ![r] = AfterRemove(r)] /\ AfterRemove(r) \in {"check", "mark", "done"}
    BY <1>3, AfterLabels, Zenon DEF SwapSlot, Goto
  <2>2. held' = [held EXCEPT ![r] = 0] /\ slot' = 0 /\ task' = task
    BY <1>3, Zenon DEF SwapSlot
  <2>3. \A s \in Requests : s # r => pc'[s] = pc[s] /\ held'[s] = held[s]
    BY <2>1, <2>2, <1>t, Zenon DEF TypeOK
  <2>4. pc'[r] \in {"check", "mark", "done"} /\ held'[r] = 0
    BY <2>1, <2>2, <1>t, Zenon DEF TypeOK
  <2> QED
    BY <1>t, <1>3, <2>2, <2>3, <2>4 DEF IInv, Used, Fresh, Real, ShutOnce, Removing
<1>4. ASSUME NEW r \in Requests, SwapSlot(r), slot # 0 PROVE IInv'
  <2>1. pc' = [pc EXCEPT ![r] = "shutdown"] /\ pc[r] = "swap"
    BY <1>4, Zenon DEF SwapSlot, Goto
  <2>2. held' = [held EXCEPT ![r] = slot] /\ slot' = 0 /\ task' = task
    BY <1>4, Zenon DEF SwapSlot
  <2>3. \A s \in Requests : s # r => pc'[s] = pc[s] /\ held'[s] = held[s]
    BY <2>1, <2>2, <1>t, Zenon DEF TypeOK
  <2>4. pc'[r] = "shutdown" /\ held'[r] = slot
    BY <2>1, <2>2, <1>t, Zenon DEF TypeOK
  <2>5. Used' /\ Real'
    BY <1>4, <2>2, <2>3, <2>4, Zenon DEF IInv, Used, Real, Removing
  <2>6. Fresh'
    BY <1>4, <2>2, <2>3, <2>4 DEF IInv, Fresh, Removing
  <2>7. ShutOnce'
    BY <1>4, <2>2, <2>3, <2>4 DEF IInv, Real, ShutOnce, Removing
  <2> QED
    BY <1>t, <2>5, <2>6, <2>7, Zenon DEF IInv
<1>5. ASSUME NEW r \in Requests, ShutdownEntry(r) PROVE IInv'
  <2>1. pc' = [pc EXCEPT ![r] = "cleanup"] /\ pc[r] = "shutdown" /\ held' = held /\ slot' = slot
    BY <1>5, Zenon DEF ShutdownEntry, Goto, manager
  <2>2. \A e \in Entries : task[e] # "none" => task'[e] # "none"
    BY <1>5, <1>t, Zenon DEF ShutdownEntry, TypeOK
  <2>3. \A s \in Requests : /\ Removing(s)' => Removing(s)
                            /\ pc'[s] = "store" => pc[s] = "store"
    BY <2>1, <1>t, Zenon DEF Removing, TypeOK
  <2> QED
    BY <1>t, <2>1, <2>2, <2>3, Bystander, Zenon
<1>6. ASSUME NEW r \in Requests, CleanupRedis(r) \/ JoinActive(r) PROVE IInv'
  <2>1. \E l \in {"check", "mark", "done", "insert", "markfailed"} : pc' = [pc EXCEPT ![r] = l]
    BY <1>6, AfterLabels, Zenon DEF CleanupRedis, JoinActive, Goto
  <2>2. held' = [held EXCEPT ![r] = 0] /\ slot' = slot /\ task' = task
    BY <1>6, Zenon DEF CleanupRedis, JoinActive, manager
  <2>3. \A s \in Requests : s # r => pc'[s] = pc[s] /\ held'[s] = held[s]
    BY <2>1, <2>2, <1>t, Zenon DEF TypeOK
  <2>4. pc'[r] \in {"check", "mark", "done", "insert", "markfailed"} /\ held'[r] = 0
    BY <2>1, <2>2, <1>t, Zenon DEF TypeOK
  <2> QED
    BY <1>t, <2>2, <2>3, <2>4 DEF IInv, Used, Fresh, Real, ShutOnce, Removing
<1>7. ASSUME NEW r \in Requests,
             CheckSlot(r) \/ LoadError(r) \/ RegisterCache(r) \/ RegisterListener(r)
      PROVE IInv'
  <2>1. \E l \in Labels \ {"shutdown", "cleanup", "store"} : Goto(r, l)
    BY <1>7, AfterLabels, Zenon DEF CheckSlot, LoadError, RegisterCache, RegisterListener, Labels
  <2>2. held' = held /\ slot' = slot /\ task' = task
    BY <1>7, Zenon DEF CheckSlot, LoadError, RegisterCache, RegisterListener, manager
  <2> QED
    BY <1>t, <2>1, <2>2, Harmless, Bystander, Zenon
<1>8. ASSUME NEW r \in Requests, LoadAndSpawn(r) PROVE IInv'
  <2>1. PICK e \in Entries :
            task[e] = "none" /\ held' = [held EXCEPT ![r] = e] /\ task' = [task EXCEPT ![e] = "running"]
    BY <1>8, Zenon DEF LoadAndSpawn
  <2>2. pc' = [pc EXCEPT ![r] = "store"] /\ slot' = slot
    BY <1>8, Zenon DEF LoadAndSpawn, Goto, manager
  <2>3. \A s \in Requests : s # r => pc'[s] = pc[s] /\ held'[s] = held[s]
    BY <2>1, <2>2, <1>t DEF TypeOK
  <2>4. pc'[r] = "store" /\ held'[r] = e /\ e # 0
    BY <2>1, <2>2, <1>t, EntriesPositive DEF TypeOK
  <2>5. e # slot /\ \A s \in Requests : held[s] # e
    BY <2>1, <2>4, Zenon DEF IInv, Used
  <2>6. \A x \in Entries : task[x] # "none" => task'[x] # "none"
    BY <2>1, <1>t, Zenon DEF TypeOK
  <2>7. task'[e] = "running"
    BY <2>1, <1>t, Zenon DEF TypeOK
  <2>8. Used'
    BY <1>t, <2>2, <2>3, <2>4, <2>6, <2>7 DEF IInv, Used, TypeOK
  <2>9. Fresh'
    BY <2>2, <2>3, <2>4, <2>5 DEF IInv, Fresh, Removing
  <2>10. Real' /\ ShutOnce'
    BY <2>2, <2>3, <2>4 DEF IInv, Real, ShutOnce, Removing
  <2> QED
    BY <1>t, <2>8, <2>9, <2>10, Zenon DEF IInv
<1>9. ASSUME NEW r \in Requests, StoreSlot(r) PROVE IInv'
  <2>1. pc' = [pc EXCEPT ![r] = "regcache"] /\ pc[r] = "store"
    BY <1>9, Zenon DEF StoreSlot, Goto
  <2>2. held' = held /\ slot' = held[r] /\ task' = task
    BY <1>9, Zenon DEF StoreSlot
  <2>3. \A s \in Requests : s # r => pc'[s] = pc[s]
    BY <2>1, <1>t, Zenon DEF TypeOK
  <2>4. pc'[r] = "regcache"
    BY <2>1, <1>t, Zenon DEF TypeOK
  <2>5. Used' /\ Real'
    BY <2>1, <2>2, <2>3, <2>4, Zenon DEF IInv, Used, Real, Removing
  <2>6. Fresh'
    BY <2>1, <2>2, <2>3, <2>4, Zenon DEF IInv, Fresh, Removing
  <2>7. ShutOnce'
    BY <2>1, <2>2, <2>3, <2>4, Zenon DEF IInv, Fresh, ShutOnce, Removing
  <2> QED
    BY <1>t, <2>5, <2>6, <2>7, Zenon DEF IInv
<1>10. ASSUME NEW r \in Requests, Finish(r) PROVE IInv'
  <2>1. \E l \in Labels \ {"shutdown", "cleanup", "store"} : Goto(r, l)
    BY <1>10, Zenon DEF Finish, InsertRow, InsertError, MarkRow, MarkError, Labels
  <2>2. held' = held /\ slot' = slot /\ task' = task
    BY <1>10, Zenon DEF Finish, InsertRow, InsertError, MarkRow, MarkError, manager
  <2> QED
    BY <1>t, <2>1, <2>2, Harmless, Bystander, Zenon
<1>11. CASE \E e \in Entries : AbortTakesEffect(e)
  <2>1. held' = held /\ pc' = pc /\ slot' = slot
    BY <1>11, Zenon DEF AbortTakesEffect, request, manager
  <2>2. \A e \in Entries : task[e] # "none" => task'[e] # "none"
    BY <1>11, <1>t, Zenon DEF AbortTakesEffect, TypeOK
  <2> QED
    BY <1>t, <2>1, <2>2, Bystander, Zenon DEF Removing
<1>12. CASE NameWritten \/ UNCHANGED vars
  <2>1. held' = held /\ pc' = pc /\ slot' = slot /\ task' = task
    BY <1>12, Zenon DEF NameWritten, request, manager, vars
  <2> QED
    BY <1>t, <2>1, Bystander, Zenon DEF Removing
<1> QED
  BY <1>1, <1>2, <1>3, <1>4, <1>5, <1>6, <1>7, <1>8, <1>9, <1>10, <1>11, <1>12, Zenon
     DEF Next, Work, Remove, Create

\* No entry is shut down twice, and none that is being shut down is in the slot,
\* whatever the number of concurrent requests: the swap in remove_channel() is the
\* only way out of the slot and a created entry enters it once.
THEOREM ShutdownOnce == Spec => []ShutOnce
<1>1. Init => IInv
  <2> SUFFICES ASSUME Init PROVE Used /\ Fresh /\ Real /\ ShutOnce
    BY InitType, Zenon DEF IInv
  <2>1. TypeOK
    BY InitType, Zenon
  <2>2. Used
    BY <2>1, Zenon DEF Init, Used, TypeOK
  <2> QED
    BY <2>2, Zenon DEF Init, Fresh, Real, ShutOnce, Removing
<1>2. IInv => ShutOnce
  BY Zenon DEF IInv
<1> QED
  BY <1>1, <1>2, InvStep, PTL DEF Spec

-----------------------------------------------------------------------------
(* Requests that do not overlap: what holds at every label of the only one. *)

Out(r) == pc[r] \in {"idle", "done"}

\* The satellites follow the slot, but where the request is on its way between them.
Satellites(r) ==
    /\ cache = IF pc[r] \in {"listener", "active", "swap", "regcache"} THEN 0 ELSE slot
    /\ listener = IF pc[r] \in {"active", "swap", "regcache", "reglistener"} THEN 0 ELSE slot
    /\ active = (slot # 0 /\ pc[r] \notin {"swap", "regcache", "reglistener", "regactive"})
    /\ pc[r] \in {"shutdown", "cleanup", "check", "load", "store"} => slot = 0
    /\ pc[r] \in {"regcache", "reglistener", "regactive"} => slot # 0 /\ slot = held[r]

InRemove(r) == pc[r] \in {"cache", "listener", "active", "swap", "shutdown", "cleanup"}
InCreate(r) == pc[r] \in {"check", "load", "store", "regcache", "reglistener", "regactive"}

\* What each operation knows of the row, and where it may be.
Purpose(r) ==
    \/ op[r] = "create" /\ row = "absent"
       /\ (InCreate(r) \/ InRemove(r) \/ (pc[r] = "insertdisabled" /\ slot = 0)
             \/ (pc[r] = "insert" /\ (slot # 0 \/ faults # {})))
    \/ op[r] = "enable" /\ row = "disabled"
       /\ (InCreate(r) \/ InRemove(r) \/ (pc[r] = "mark" /\ slot # 0)
             \/ (pc[r] = "markfailed" /\ slot = 0 /\ faults # {}))
    \/ op[r] = "disable" /\ row = "enabled" /\ (InRemove(r) \/ (pc[r] = "mark" /\ slot = 0))
    \/ op[r] = "delete" /\ row = "absent" /\ InRemove(r)
    \/ op[r] \in {"update", "respawn", "reload"} /\ row = "enabled" /\ read[r] = "enabled" /\ (InRemove(r) \/ InCreate(r))

\* An entry is held only while it is registered or shut down, and then ends up in the
\* slot or without a task that runs.
HeldInPassing ==
    \A r \in Requests : /\ held[r] # 0 => Removing(r) \/ Registering(r)
                        /\ pc[r] = "cleanup" => task[held[r]] # "running"

\* What holds between requests.
Between ==
    /\ cache = slot /\ listener = slot /\ active = (slot # 0)
    /\ slot # 0 => row = "enabled"
    /\ row = "enabled" /\ faults = {} => slot # 0

NoOrphan == \A e \in Entries : ~Orphan(e)

Alone ==
    "overlap" \notin faults =>
        /\ \A r, s \in Requests : Out(r) \/ Out(s) \/ r = s
        /\ NoOrphan
        /\ \A r \in Requests : Out(r) \/ (Satellites(r) /\ Purpose(r))
        /\ Quiet => Between

SInv == IInv /\ HeldInPassing /\ Alone

\* The step of the only request under way keeps the invariant when it leads to a
\* label whose facts hold, or ends the request in a state like the ones before it.
LEMMA OnlyMover ==
    ASSUME NEW r \in Requests, TypeOK, TypeOK',
           \A s \in Requests : s # r => Out(s) /\ pc'[s] = pc[s],
           NoOrphan',
           Out(r)' \/ (Satellites(r)' /\ Purpose(r)'),
           Out(r)' => Between'
    PROVE  Alone'
<1>1. \A s \in Requests : s # r => Out(s)'
  BY Zenon DEF Out
<1>2. Quiet' => Out(r)'
  BY Zenon DEF Quiet, Out
<1> QED
  BY <1>1, <1>2, Zenon DEF Alone

\* A request that is not the only one under way has overlapped.
LEMMA OthersOut ==
    ASSUME Alone, "overlap" \notin faults, NEW r \in Requests, ~Out(r)
    PROVE  /\ \A s \in Requests : s # r => Out(s)
           /\ Satellites(r) /\ Purpose(r) /\ NoOrphan
BY Zenon DEF Alone

\* No entry is orphaned by a step that moves none and starts no task.
LEMMA NoneOrphaned ==
    ASSUME NoOrphan, slot' = slot, held' = held,
           \A e \in Entries : task'[e] = "running" => task[e] = "running"
    PROVE  NoOrphan'
BY Zenon DEF NoOrphan, Orphan

\* What an entry is held for.
LEMMA HeldStep == IInv /\ HeldInPassing /\ [Next]_vars => HeldInPassing'
<1> SUFFICES ASSUME IInv, HeldInPassing, [Next]_vars PROVE HeldInPassing'
  BY Zenon
<1>t. TypeOK /\ TypeOK'
  BY TypeStep, Zenon DEF IInv
<1>q. ASSUME held' = held, \A e \in Entries : task'[e] = "running" => task[e] = "running",
             \A r \in Requests : /\ held[r] # 0 /\ (Removing(r) \/ Registering(r)) => Removing(r)' \/ Registering(r)'
                                 /\ pc'[r] = "cleanup" => pc[r] = "cleanup"
      PROVE  HeldInPassing'
  <2> SUFFICES ASSUME NEW r \in Requests
               PROVE  /\ held'[r] # 0 => Removing(r)' \/ Registering(r)'
                      /\ pc'[r] = "cleanup" => task'[held'[r]] # "running"
    BY Zenon DEF HeldInPassing
  <2>1. held'[r] # 0 => Removing(r)' \/ Registering(r)'
    BY <1>q, Zenon DEF HeldInPassing
  <2>2. pc'[r] = "cleanup" => held[r] \in Entries
    BY <1>q, <1>t, Zenon DEF IInv, Real, Removing, TypeOK
  <2> QED
    BY <2>1, <2>2, <1>q, Zenon DEF HeldInPassing
<1>1. ASSUME NEW r \in Requests, Start(r) PROVE HeldInPassing'
  <2>1. PICK l \in Labels \ {"shutdown", "cleanup", "store"} : pc' = [pc EXCEPT ![r] = l]
    BY <1>1, Zenon DEF Start, BeginCreate, BeginEnable, BeginDisable, BeginDelete, BeginUpdate, BeginRespawn,
       BeginReload, Labels, Goto
  <2>2. held' = held /\ task' = task /\ pc[r] = "idle"
    BY <1>1, Zenon DEF Start, BeginCreate, BeginEnable, BeginDisable, BeginDelete, BeginUpdate, BeginRespawn,
       BeginReload, Begin
  <2>3. held[r] = 0
    BY <2>2, Zenon DEF HeldInPassing, Removing, Registering
  <2> QED
    BY <1>q, <1>t, <2>1, <2>2, <2>3 DEF TypeOK, Removing, Registering
<1>2. ASSUME NEW r \in Requests,
             UnregisterCache(r) \/ UnregisterListener(r) \/ LeaveActive(r) \/ CheckSlot(r) \/ LoadError(r)
                \/ StoreSlot(r) \/ RegisterCache(r) \/ RegisterListener(r) \/ Finish(r)
      PROVE  HeldInPassing'
  <2>1. PICK l \in Labels \ {"cleanup"} : pc' = [pc EXCEPT ![r] = l] /\ (Registering(r) => l \in {"regcache", "reglistener", "regactive"})
    BY <1>2, AfterLabels, Zenon DEF UnregisterCache, UnregisterListener, LeaveActive, CheckSlot, LoadError, StoreSlot,
       RegisterCache, RegisterListener, Finish, InsertRow, InsertError, MarkRow, MarkError, Labels, Goto, Registering
  <2>2. held' = held /\ task' = task /\ ~Removing(r)
    BY <1>2, Zenon DEF UnregisterCache, UnregisterListener, LeaveActive, CheckSlot, LoadError, StoreSlot,
       RegisterCache, RegisterListener, Finish, InsertRow, InsertError, MarkRow, MarkError, Removing
  <2> QED
    BY <1>q, <1>t, <2>1, <2>2, Zenon DEF TypeOK, Removing, Registering
<1>3. ASSUME NEW r \in Requests, SwapSlot(r) PROVE HeldInPassing'
  <2>1. PICK l \in Labels \ {"cleanup"} : pc' = [pc EXCEPT ![r] = l] /\ (slot # 0 => l = "shutdown")
    BY <1>3, AfterLabels, Zenon DEF SwapSlot, Goto, Labels
  <2>2. held' = [held EXCEPT ![r] = slot] /\ task' = task
    BY <1>3, Zenon DEF SwapSlot
  <2>3. /\ pc'[r] = l /\ held'[r] = slot
        /\ \A s \in Requests : s # r => pc'[s] = pc[s] /\ held'[s] = held[s]
    BY <2>1, <2>2, <1>t DEF TypeOK
  <2> QED
    BY <2>1, <2>2, <2>3, Zenon DEF HeldInPassing, Removing, Registering
<1>4. ASSUME NEW r \in Requests, ShutdownEntry(r) PROVE HeldInPassing'
  <2>1. PICK x \in {"ended", "aborting"} : task' = [task EXCEPT ![held[r]] = x]
    BY <1>4, Zenon DEF ShutdownEntry
  <2>2. held' = held /\ pc' = [pc EXCEPT ![r] = "cleanup"] /\ pc[r] = "shutdown"
    BY <1>4, Zenon DEF ShutdownEntry, Goto
  <2>3. held[r] \in Entries /\ task'[held[r]] = x
    BY <2>1, <2>2, <1>t, Zenon DEF IInv, Real, Removing, TypeOK
  <2>4. \A e \in Entries : task'[e] = "running" => task[e] = "running"
    BY <2>1, <1>t, Zenon DEF TypeOK
  <2>5. pc'[r] = "cleanup" /\ \A s \in Requests : s # r => pc'[s] = pc[s]
    BY <2>2, <1>t, Zenon DEF TypeOK
  <2>6. \A s \in Requests : pc[s] = "cleanup" => held[s] \in Entries
    BY <1>t, Zenon DEF IInv, Real, Removing, TypeOK
  <2>7. \A s \in Requests : held'[s] # 0 => Removing(s)' \/ Registering(s)'
    BY <2>2, <2>5, Zenon DEF HeldInPassing, Removing, Registering
  <2>8. \A s \in Requests : pc'[s] = "cleanup" => task'[held'[s]] # "running"
    BY <2>2, <2>3, <2>4, <2>5, <2>6, Zenon DEF HeldInPassing
  <2> QED
    BY <2>7, <2>8, Zenon DEF HeldInPassing
<1>5. ASSUME NEW r \in Requests, CleanupRedis(r) \/ JoinActive(r) PROVE HeldInPassing'
  <2>1. PICK l \in Labels \ {"cleanup"} : pc' = [pc EXCEPT ![r] = l]
    BY <1>5, AfterLabels, Zenon DEF CleanupRedis, JoinActive, Goto, Labels
  <2>2. held' = [held EXCEPT ![r] = 0] /\ task' = task
    BY <1>5, Zenon DEF CleanupRedis, JoinActive
  <2>3. /\ pc'[r] = l /\ held'[r] = 0
        /\ \A s \in Requests : s # r => pc'[s] = pc[s] /\ held'[s] = held[s]
    BY <2>1, <2>2, <1>t, Zenon DEF TypeOK
  <2> QED
    BY <2>1, <2>2, <2>3, Zenon DEF HeldInPassing, Removing, Registering
<1>6. ASSUME NEW r \in Requests, LoadAndSpawn(r) PROVE HeldInPassing'
  <2>1. PICK e \in Entries :
            task[e] = "none" /\ held' = [held EXCEPT ![r] = e] /\ task' = [task EXCEPT ![e] = "running"]
    BY <1>6, Zenon DEF LoadAndSpawn
  <2>2. pc' = [pc EXCEPT ![r] = "store"]
    BY <1>6, Zenon DEF LoadAndSpawn, Goto
  <2>3. /\ pc'[r] = "store"
        /\ \A s \in Requests : s # r => pc'[s] = pc[s] /\ held'[s] = held[s]
    BY <2>1, <2>2, <1>t DEF TypeOK
  <2>4. \A s \in Requests : pc[s] = "cleanup" => held[s] \in Entries /\ held[s] # e
    BY <2>1, <1>t DEF IInv, Real, Used, Removing, TypeOK
  <2>5. \A x \in Entries : x # e => task'[x] = task[x]
    BY <2>1, <1>t, Zenon DEF TypeOK
  <2>6. \A s \in Requests : held'[s] # 0 => Removing(s)' \/ Registering(s)'
    BY <2>3, Zenon DEF HeldInPassing, Removing, Registering
  <2>7. \A s \in Requests : pc'[s] = "cleanup" => task'[held'[s]] # "running"
    BY <2>3, <2>4, <2>5 DEF HeldInPassing
  <2> QED
    BY <2>6, <2>7, Zenon DEF HeldInPassing
<1>7. CASE \E e \in Entries : AbortTakesEffect(e)
  <2>1. held' = held /\ pc' = pc
    BY <1>7, Zenon DEF AbortTakesEffect, request
  <2>2. \A e \in Entries : task'[e] = "running" => task[e] = "running"
    BY <1>7, <1>t, Zenon DEF AbortTakesEffect, TypeOK
  <2> QED
    BY <1>q, <2>1, <2>2, Zenon DEF Removing, Registering
<1>8. CASE NameWritten \/ UNCHANGED vars
  <2>1. held' = held /\ pc' = pc /\ task' = task
    BY <1>8, Zenon DEF NameWritten, request, vars
  <2> QED
    BY <1>q, <2>1, Zenon DEF Removing, Registering
<1> QED
  BY <1>1, <1>2, <1>3, <1>4, <1>5, <1>6, <1>7, <1>8, Zenon DEF Next, Work, Remove, Create

\* The first step of a request that overlaps no other.
LEMMA AloneStart ==
    ASSUME SInv, TypeOK', NEW r \in Requests, Start(r), "overlap" \notin faults'
    PROVE  Alone'
<1>t. TypeOK
  BY Zenon DEF SInv, IInv
<1>1. PICK o \in AllOps : Begin(r, o)
  BY Zenon DEF Start, BeginCreate, BeginEnable, BeginDisable, BeginDelete, BeginUpdate, BeginRespawn, BeginReload, AllOps
<1>2. Quiet /\ faults' = faults
  BY <1>1, Zenon DEF Begin
<1>3. Between /\ NoOrphan /\ \A s \in Requests : Out(s)
  BY <1>2, Zenon DEF SInv, Alone, Quiet, Out
<1>4. /\ slot' = slot /\ cache' = cache /\ listener' = listener /\ active' = active
      /\ held' = held /\ task' = task
  BY Zenon DEF Start, BeginCreate, BeginEnable, BeginDisable, BeginDelete, BeginUpdate, BeginRespawn, BeginReload, manager
<1>5. \A s \in Requests : s # r => pc'[s] = pc[s]
  BY <1>t DEF Start, BeginCreate, BeginEnable, BeginDisable, BeginDelete, BeginUpdate, BeginRespawn, BeginReload,
     Goto, TypeOK
<1>6. op'[r] = o /\ read'[r] = row
  BY <1>1, <1>t, Zenon DEF Begin, TypeOK
<1>7. NoOrphan'
  BY <1>3, <1>4, NoneOrphaned, Zenon
<1>8. \/ Out(r)' /\ row' = row
      \/ Satellites(r)' /\ Purpose(r)'
  <2>1. CASE BeginCreate(r)
    <3>1. pc'[r] \in {"check", "insertdisabled"} /\ o = "create" /\ row' = row /\ row = "absent" /\ slot = 0
      BY <2>1, <1>t, <1>6 DEF BeginCreate, Begin, Goto, TypeOK
    <3> QED
      BY <3>1, <1>3, <1>4, <1>6, Zenon DEF Satellites, Purpose, InCreate, Between
  <2>2. CASE BeginEnable(r)
    <3>1. pc'[r] = "check" /\ o = "enable" /\ row' = row /\ row = "disabled"
      BY <2>2, <1>t, <1>6, Zenon DEF BeginEnable, Begin, Goto, TypeOK
    <3> QED
      BY <3>1, <1>3, <1>4, <1>6, Zenon DEF Satellites, Purpose, InCreate, Between
  <2>3. CASE BeginDisable(r)
    <3>1. pc'[r] = "cache" /\ o = "disable" /\ row' = row /\ row = "enabled"
      BY <2>3, <1>t, <1>6, Zenon DEF BeginDisable, Begin, Goto, TypeOK
    <3> QED
      BY <3>1, <1>3, <1>4, <1>6, Zenon DEF Satellites, Purpose, InRemove, Between
  <2>4. CASE BeginDelete(r)
    <3>1. pc'[r] = "cache" /\ o = "delete" /\ row' = "absent"
      BY <2>4, <1>t, <1>6, Zenon DEF BeginDelete, Begin, Goto, TypeOK
    <3> QED
      BY <3>1, <1>3, <1>4, <1>6, Zenon DEF Satellites, Purpose, InRemove, Between
  <2>5. CASE BeginUpdate(r) \/ BeginRespawn(r)
    <3>1. pc'[r] = "cache" /\ o \in {"update", "respawn"} /\ row' = row /\ slot # 0
      BY <2>5, <1>t, <1>6 DEF BeginUpdate, BeginRespawn, Begin, Goto, TypeOK
    <3> QED
      BY <3>1, <1>3, <1>4, <1>6, Zenon DEF Satellites, Purpose, InRemove, Between
  <2>6. CASE BeginReload(r)
    <3>1. o = "reload" /\ row' = row
      BY <2>6, <1>t, <1>6, Zenon DEF BeginReload, Begin, TypeOK
    <3>2. \/ active /\ pc'[r] = "cache"
          \/ ~active /\ row = "enabled" /\ pc'[r] = "check"
          \/ pc'[r] = "done"
      BY <2>6, <1>t, Zenon DEF BeginReload, Goto, TypeOK
    <3>3. CASE active /\ pc'[r] = "cache"
      <4>1. slot # 0 /\ row = "enabled"
        BY <3>3, <1>3, Zenon DEF Between
      <4> QED
        BY <3>1, <3>3, <4>1, <1>3, <1>4, <1>6, Zenon DEF Satellites, Purpose, InRemove, Between
    <3>4. CASE ~active /\ row = "enabled" /\ pc'[r] = "check"
      <4>1. slot = 0
        BY <3>4, <1>3, Zenon DEF Between
      <4> QED
        BY <3>1, <3>4, <4>1, <1>3, <1>4, <1>6, Zenon DEF Satellites, Purpose, InCreate, Between
    <3>5. CASE pc'[r] = "done"
      BY <3>1, <3>5, Zenon DEF Out
    <3> QED
      BY <3>2, <3>3, <3>4, <3>5, Zenon
  <2> QED
    BY <2>1, <2>2, <2>3, <2>4, <2>5, <2>6, Zenon DEF Start
<1>9. Out(r)' => Between'
  <2>1. Satellites(r)' /\ Purpose(r)' => ~Out(r)'
    BY Zenon DEF Purpose, InRemove, InCreate, Out
  <2> QED
    BY <1>2, <1>3, <1>4, <1>8, <2>1, Zenon DEF Between
<1> QED
  BY <1>t, <1>3, <1>5, <1>7, <1>8, <1>9, OnlyMover, Zenon

\* The steps of remove_channel() when no other request is under way.
LEMMA AloneRemove ==
    ASSUME SInv, TypeOK', NEW r \in Requests, Remove(r), "overlap" \notin faults
    PROVE  Alone'
<1>t. TypeOK
  BY Zenon DEF SInv, IInv
<1>1. InRemove(r) /\ row' = row /\ op' = op /\ read' = read /\ faults' = faults
  BY Zenon DEF Remove, UnregisterCache, UnregisterListener, LeaveActive, SwapSlot, ShutdownEntry, CleanupRedis, InRemove
<1>2. Satellites(r) /\ Purpose(r) /\ NoOrphan /\ \A s \in Requests : s # r => Out(s)
  BY <1>1, OthersOut, Zenon DEF SInv, Out, InRemove
<1>3. \A s \in Requests : s # r => pc'[s] = pc[s]
  BY <1>t DEF Remove, UnregisterCache, UnregisterListener, LeaveActive, SwapSlot, ShutdownEntry, CleanupRedis,
     Goto, TypeOK
\* The request goes on within remove_channel(), the slot keeping what Satellites says.
<1>4. ASSUME InRemove(r)', Satellites(r)', NoOrphan' PROVE Alone'
  <2>1. Purpose(r)'
    BY <1>1, <1>2, <1>4, Zenon DEF Purpose, InRemove, InCreate
  <2>2. ~Out(r)'
    BY <1>4, Zenon DEF InRemove, Out
  <2> QED
    BY <1>t, <1>2, <1>3, <1>4, <2>1, <2>2, OnlyMover, Zenon
\* remove_channel() returns with an empty slot.
<1>5. ASSUME pc'[r] = AfterRemove(r), slot' = 0, cache' = 0, listener' = 0, ~active', NoOrphan' PROVE Alone'
  <2>1. active' = FALSE
    BY <1>5, Zenon DEF TypeOK
  <2>2. Satellites(r)'
    BY <1>5, <2>1, AfterLabels, Zenon DEF Satellites
  <2>3. CASE op[r] \in {"update", "respawn", "reload"}
    <3>1. pc'[r] = "check"
      BY <1>2, <1>5, <2>3, Zenon DEF AfterRemove, Purpose
    <3>2. Purpose(r)'
      BY <1>1, <1>2, <2>3, <3>1, Zenon DEF Purpose, InCreate
    <3> QED
      BY <1>t, <1>2, <1>3, <1>5, <2>2, <3>1, <3>2, OnlyMover, Zenon DEF Out
  <2>4. CASE op[r] = "disable"
    <3>1. pc'[r] = "mark"
      BY <1>5, <2>4, Zenon DEF AfterRemove
    <3>2. Purpose(r)'
      BY <1>1, <1>2, <1>5, <2>4, <3>1, Zenon DEF Purpose
    <3> QED
      BY <1>t, <1>2, <1>3, <1>5, <2>2, <3>1, <3>2, OnlyMover, Zenon DEF Out
  <2>5. CASE op[r] \in {"create", "enable", "delete"}
    <3>1. pc'[r] = "done" /\ row # "enabled"
      BY <1>2, <1>5, <2>5, Zenon DEF AfterRemove, Purpose
    <3>2. Between' /\ Out(r)'
      BY <1>1, <1>5, <2>1, <3>1, Zenon DEF Between, Out
    <3> QED
      BY <1>t, <1>2, <1>3, <1>5, <3>2, OnlyMover, Zenon
  <2> QED
    BY <1>2, <2>3, <2>4, <2>5, Zenon DEF Purpose
<1>6. CASE UnregisterCache(r) \/ UnregisterListener(r) \/ LeaveActive(r)
  <2>1. slot' = slot /\ held' = held /\ task' = task
    BY <1>6, Zenon DEF UnregisterCache, UnregisterListener, LeaveActive
  <2>2. NoOrphan'
    BY <1>2, <2>1, NoneOrphaned, Zenon
  <2>3. CASE UnregisterCache(r)
    <3>1. /\ pc[r] = "cache" /\ pc'[r] = "listener" /\ cache' = 0 /\ listener' = listener /\ active' = active
      BY <2>3, <1>t, Zenon DEF UnregisterCache, Goto, TypeOK
    <3>2. Satellites(r)' /\ InRemove(r)'
      BY <1>2, <2>1, <3>1, Zenon DEF Satellites, InRemove
    <3> QED
      BY <1>4, <2>2, <3>2, Zenon
  <2>4. CASE UnregisterListener(r)
    <3>1. /\ pc[r] = "listener" /\ pc'[r] = "active" /\ cache' = cache /\ listener' = 0 /\ active' = active
      BY <2>4, <1>t, Zenon DEF UnregisterListener, Goto, TypeOK
    <3>2. Satellites(r)' /\ InRemove(r)'
      BY <1>2, <2>1, <3>1, Zenon DEF Satellites, InRemove
    <3> QED
      BY <1>4, <2>2, <3>2, Zenon
  <2>5. CASE LeaveActive(r)
    <3>1. /\ pc[r] = "active" /\ pc'[r] = "swap" /\ cache' = cache /\ listener' = listener /\ active' = FALSE
      BY <2>5, <1>t, Zenon DEF LeaveActive, Goto, TypeOK
    <3>2. Satellites(r)' /\ InRemove(r)'
      BY <1>2, <2>1, <3>1, Zenon DEF Satellites, InRemove
    <3> QED
      BY <1>4, <2>2, <3>2, Zenon
  <2> QED
    BY <1>6, <2>3, <2>4, <2>5, Zenon
<1>7. CASE SwapSlot(r)
  <2>1. /\ pc[r] = "swap" /\ slot' = 0 /\ cache' = cache /\ listener' = listener /\ active' = active /\ task' = task
        /\ held' = [held EXCEPT ![r] = slot]
        /\ pc'[r] = IF slot = 0 THEN AfterRemove(r) ELSE "shutdown"
    BY <1>7, <1>t, Zenon DEF SwapSlot, Goto, TypeOK
  <2>2. cache = 0 /\ listener = 0 /\ active = FALSE
    BY <1>2, <2>1, Zenon DEF Satellites
  <2>3. held[r] = 0
    BY <2>1, Zenon DEF SInv, HeldInPassing, Removing, Registering
  <2>4. held'[r] = slot /\ \A s \in Requests : s # r => held'[s] = held[s]
    BY <2>1, <1>t, Zenon DEF TypeOK
  <2>5. NoOrphan'
    <3> SUFFICES ASSUME NEW e \in Entries, task[e] = "running", \A s \in Requests : held'[s] # e PROVE FALSE
      BY <2>1, Zenon DEF NoOrphan, Orphan
    <3>1. slot # e /\ e # 0
      BY <2>4, EntriesPositive, Zenon
    <3>2. \A s \in Requests : held[s] # e
      BY <2>3, <2>4, <3>1, Zenon
    <3> QED
      BY <1>2, <3>1, <3>2, Zenon DEF NoOrphan, Orphan
  <2>6. CASE slot = 0
    BY <1>5, <2>1, <2>2, <2>5, <2>6, Zenon
  <2>7. CASE slot # 0
    <3>1. Satellites(r)' /\ InRemove(r)'
      BY <2>1, <2>2, <2>7, Zenon DEF Satellites, InRemove
    <3> QED
      BY <1>4, <2>5, <3>1, Zenon
  <2> QED
    BY <2>6, <2>7, Zenon
<1>8. CASE ShutdownEntry(r)
  <2>1. /\ pc[r] = "shutdown" /\ slot' = slot /\ cache' = cache /\ listener' = listener /\ active' = active
        /\ held' = held /\ pc'[r] = "cleanup"
    BY <1>8, <1>t, Zenon DEF ShutdownEntry, Goto, manager, TypeOK
  <2>2. \A e \in Entries : task'[e] = "running" => task[e] = "running"
    BY <1>8, <1>t, Zenon DEF ShutdownEntry, TypeOK
  <2>3. NoOrphan'
    BY <1>2, <2>1, <2>2, NoneOrphaned, Zenon
  <2>4. Satellites(r)' /\ InRemove(r)'
    BY <1>2, <2>1, Zenon DEF Satellites, InRemove
  <2> QED
    BY <1>4, <2>3, <2>4, Zenon
<1>9. CASE CleanupRedis(r)
  <2>1. /\ pc[r] = "cleanup" /\ slot' = slot /\ cache' = cache /\ listener' = listener /\ active' = active
        /\ task' = task /\ held' = [held EXCEPT ![r] = 0] /\ pc'[r] = AfterRemove(r)
    BY <1>9, <1>t, Zenon DEF CleanupRedis, Goto, manager, TypeOK
  <2>2. slot = 0 /\ cache = 0 /\ listener = 0 /\ active = FALSE
    BY <1>2, <2>1, Zenon DEF Satellites
  <2>3. task[held[r]] # "running" /\ \A s \in Requests : s # r => held'[s] = held[s]
    BY <2>1, <1>t, Zenon DEF SInv, HeldInPassing, TypeOK
  <2>4. NoOrphan'
    BY <1>2, <2>1, <2>3 DEF NoOrphan, Orphan
  <2> QED
    BY <1>5, <2>1, <2>2, <2>4, Zenon
<1> QED
  BY <1>6, <1>7, <1>8, <1>9, Zenon DEF Remove

\* The steps of create_channel() when no other request is under way.
LEMMA AloneCreate ==
    ASSUME SInv, TypeOK', NEW r \in Requests, Create(r), "overlap" \notin faults
    PROVE  Alone'
<1>t. TypeOK
  BY Zenon DEF SInv, IInv
<1>1. InCreate(r) /\ row' = row /\ op' = op /\ read' = read /\ faults \subseteq faults'
  BY Zenon DEF Create, CheckSlot, LoadAndSpawn, LoadError, StoreSlot, RegisterCache, RegisterListener, JoinActive, InCreate
<1>2. Satellites(r) /\ Purpose(r) /\ NoOrphan /\ \A s \in Requests : s # r => Out(s)
  BY <1>1, OthersOut, Zenon DEF SInv, Out, InCreate
<1>3. \A s \in Requests : s # r => pc'[s] = pc[s]
  <2>1. \E l \in Labels : Goto(r, l)
    BY AfterLabels, Zenon DEF Create, CheckSlot, LoadAndSpawn, LoadError, StoreSlot, RegisterCache, RegisterListener,
       JoinActive, Labels
  <2> QED
    BY <2>1, <1>t, Zenon DEF Goto, TypeOK
\* The request goes on within create_channel().
<1>4. ASSUME InCreate(r)', Satellites(r)', NoOrphan' PROVE Alone'
  <2>1. Purpose(r)'
    BY <1>1, <1>2, <1>4, Zenon DEF Purpose, InRemove, InCreate
  <2>2. ~Out(r)'
    BY <1>4, Zenon DEF InCreate, Out
  <2> QED
    BY <1>t, <1>2, <1>3, <1>4, <2>1, <2>2, OnlyMover, Zenon
\* create_channel() returns, with the slot taken or with a fault.
<1>5. ASSUME NEW ok \in BOOLEAN, pc'[r] = AfterCreate(r, ok),
             cache' = slot', listener' = slot', active' = (slot' # 0),
             ok <=> slot' # 0, ok \/ faults' # {}, NoOrphan'
      PROVE  Alone'
  <2>1. Satellites(r)'
    BY <1>5, AfterLabels, Zenon DEF Satellites
  <2>2. CASE op[r] \in {"create", "enable"}
    <3>1. Purpose(r)'
      BY <1>1, <1>2, <1>5, <2>2, Zenon DEF Purpose, AfterCreate
    <3>2. ~Out(r)'
      BY <1>5, <2>2, Zenon DEF AfterCreate, Out
    <3> QED
      BY <1>t, <1>2, <1>3, <1>5, <2>1, <3>1, <3>2, OnlyMover, Zenon
  <2>3. CASE op[r] \in {"update", "respawn", "reload"}
    <3>1. pc'[r] = "done" /\ row = "enabled"
      BY <1>2, <1>5, <2>3, Zenon DEF AfterCreate, Purpose
    <3>2. Between' /\ Out(r)'
      BY <1>1, <1>5, <3>1, Zenon DEF Between, Out
    <3> QED
      BY <1>t, <1>2, <1>3, <1>5, <3>2, OnlyMover, Zenon
  <2> QED
    BY <1>1, <1>2, <2>2, <2>3, Zenon DEF Purpose, InCreate, InRemove
<1>6. CASE CheckSlot(r)
  <2>1. /\ pc[r] = "check" /\ slot' = slot /\ cache' = cache /\ listener' = listener /\ active' = active
        /\ held' = held /\ task' = task /\ pc'[r] = IF slot # 0 THEN AfterCreate(r, FALSE) ELSE "load"
    BY <1>6, <1>t, Zenon DEF CheckSlot, Goto, manager, TypeOK
  <2>2. slot = 0
    BY <1>2, <2>1, Zenon DEF Satellites
  <2>3. NoOrphan'
    BY <1>2, <2>1, NoneOrphaned, Zenon
  <2>4. Satellites(r)' /\ InCreate(r)'
    BY <1>2, <2>1, <2>2, Zenon DEF Satellites, InCreate
  <2> QED
    BY <1>4, <2>3, <2>4, Zenon
<1>7. CASE LoadAndSpawn(r)
  <2>1. PICK e \in Entries :
            task[e] = "none" /\ held' = [held EXCEPT ![r] = e] /\ task' = [task EXCEPT ![e] = "running"]
    BY <1>7, Zenon DEF LoadAndSpawn
  <2>2. /\ pc[r] = "load" /\ slot' = slot /\ cache' = cache /\ listener' = listener /\ active' = active
        /\ pc'[r] = "store"
    BY <1>7, <1>t, Zenon DEF LoadAndSpawn, Goto, manager, TypeOK
  <2>3. held[r] = 0
    BY <2>2, Zenon DEF SInv, HeldInPassing, Removing, Registering
  <2>4. held'[r] = e /\ \A s \in Requests : s # r => held'[s] = held[s]
    BY <2>1, <1>t DEF TypeOK
  <2>5. \A x \in Entries : x # e => task'[x] = task[x]
    BY <2>1, <1>t, Zenon DEF TypeOK
  <2>6. NoOrphan'
    <3> SUFFICES ASSUME NEW x \in Entries, task'[x] = "running", slot # x, \A s \in Requests : held'[s] # x
                 PROVE  FALSE
      BY <2>2, Zenon DEF NoOrphan, Orphan
    <3>1. x # e /\ task[x] = "running"
      BY <2>4, <2>5, Zenon
    <3>2. \A s \in Requests : held[s] # x
      BY <2>3, <2>4, EntriesPositive, Zenon
    <3> QED
      BY <1>2, <3>1, <3>2, Zenon DEF NoOrphan, Orphan
  <2>7. Satellites(r)' /\ InCreate(r)'
    BY <1>2, <2>2, Zenon DEF Satellites, InCreate
  <2> QED
    BY <1>4, <2>6, <2>7, Zenon
<1>8. CASE LoadError(r)
  <2>1. /\ pc[r] = "load" /\ slot' = slot /\ cache' = cache /\ listener' = listener /\ active' = active
        /\ held' = held /\ task' = task /\ pc'[r] = AfterCreate(r, FALSE) /\ faults' # {}
    BY <1>8, <1>t, Zenon DEF LoadError, Goto, manager, TypeOK
  <2>2. slot = 0 /\ cache = 0 /\ listener = 0 /\ active = FALSE
    BY <1>2, <2>1, Zenon DEF Satellites
  <2>3. NoOrphan'
    BY <1>2, <2>1, NoneOrphaned, Zenon
  <2> QED
    BY <1>5, <2>1, <2>2, <2>3, Zenon
<1>9. CASE StoreSlot(r)
  <2>1. /\ pc[r] = "store" /\ slot' = held[r] /\ cache' = cache /\ listener' = listener /\ active' = active
        /\ held' = held /\ task' = task /\ pc'[r] = "regcache"
    BY <1>9, <1>t, Zenon DEF StoreSlot, Goto, TypeOK
  <2>2. slot = 0 /\ cache = 0 /\ listener = 0 /\ active = FALSE
    BY <1>2, <2>1, Zenon DEF Satellites
  <2>3. held[r] # 0
    BY <2>1, Zenon DEF SInv, IInv, Fresh
  <2>4. NoOrphan'
    BY <1>2, <2>1, <2>2, EntriesPositive, Zenon DEF NoOrphan, Orphan
  <2>5. Satellites(r)' /\ InCreate(r)'
    BY <2>1, <2>2, <2>3, Zenon DEF Satellites, InCreate
  <2> QED
    BY <1>4, <2>4, <2>5, Zenon
<1>10. CASE RegisterCache(r) \/ RegisterListener(r)
  <2>1. slot' = slot /\ held' = held /\ task' = task /\ active' = active
    BY <1>10, Zenon DEF RegisterCache, RegisterListener
  <2>2. NoOrphan'
    BY <1>2, <2>1, NoneOrphaned, Zenon
  <2>3. CASE RegisterCache(r)
    <3>1. pc[r] = "regcache" /\ pc'[r] = "reglistener" /\ cache' = held[r] /\ listener' = listener
      BY <2>3, <1>t, Zenon DEF RegisterCache, Goto, TypeOK
    <3>2. Satellites(r)' /\ InCreate(r)'
      BY <1>2, <2>1, <3>1, Zenon DEF Satellites, InCreate
    <3> QED
      BY <1>4, <2>2, <3>2, Zenon
  <2>4. CASE RegisterListener(r)
    <3>1. pc[r] = "reglistener" /\ pc'[r] = "regactive" /\ cache' = cache /\ listener' = held[r]
      BY <2>4, <1>t, Zenon DEF RegisterListener, Goto, TypeOK
    <3>2. Satellites(r)' /\ InCreate(r)'
      BY <1>2, <2>1, <3>1, Zenon DEF Satellites, InCreate
    <3> QED
      BY <1>4, <2>2, <3>2, Zenon
  <2> QED
    BY <1>10, <2>3, <2>4, Zenon
<1>11. CASE JoinActive(r)
  <2>1. /\ pc[r] = "regactive" /\ slot' = slot /\ cache' = cache /\ listener' = listener /\ active' = TRUE
        /\ task' = task /\ held' = [held EXCEPT ![r] = 0] /\ pc'[r] = AfterCreate(r, TRUE)
    BY <1>11, <1>t, Zenon DEF JoinActive, Goto, TypeOK
  <2>2. slot # 0 /\ slot = held[r] /\ cache = slot /\ listener = slot
    BY <1>2, <2>1, Zenon DEF Satellites
  <2>3. \A s \in Requests : s # r => held'[s] = held[s]
    BY <2>1, <1>t, Zenon DEF TypeOK
  <2>4. NoOrphan'
    BY <1>2, <2>1, <2>2, <2>3 DEF NoOrphan, Orphan
  <2> QED
    BY <1>5, <2>1, <2>2, <2>4, Zenon
<1> QED
  BY <1>6, <1>7, <1>8, <1>9, <1>10, <1>11, Zenon DEF Create

\* The handlers' database work when no other request is under way.
LEMMA AloneFinish ==
    ASSUME SInv, TypeOK', NEW r \in Requests, Finish(r), "overlap" \notin faults
    PROVE  Alone'
<1>t. TypeOK
  BY Zenon DEF SInv, IInv
<1>1. /\ pc[r] \in {"insert", "insertdisabled", "mark", "markfailed"}
      /\ slot' = slot /\ cache' = cache /\ listener' = listener /\ active' = active
      /\ held' = held /\ task' = task /\ op' = op /\ read' = read
  BY Zenon DEF Finish, InsertRow, InsertError, MarkRow, MarkError, manager
<1>2. Satellites(r) /\ Purpose(r) /\ NoOrphan /\ \A s \in Requests : s # r => Out(s)
  BY <1>1, OthersOut, Zenon DEF SInv, Out
<1>3. \A s \in Requests : s # r => pc'[s] = pc[s]
  BY <1>t DEF Finish, InsertRow, InsertError, MarkRow, MarkError, Goto, TypeOK
<1>4. NoOrphan'
  BY <1>1, <1>2, NoneOrphaned, Zenon
<1>5. cache = slot /\ listener = slot /\ active = (slot # 0)
  BY <1>1, <1>2, Zenon DEF Satellites
<1>6. ASSUME pc'[r] = "done", slot # 0 => row' = "enabled", row' = "enabled" /\ faults' = {} => slot # 0
      PROVE  Alone'
  <2>1. Between' /\ Out(r)'
    BY <1>1, <1>5, <1>6, Zenon DEF Between, Out
  <2> QED
    BY <1>t, <1>2, <1>3, <1>4, <2>1, OnlyMover, Zenon
<1>7. ASSUME pc'[r] = "cache", row' = row, op[r] \in {"create", "enable"} PROVE Alone'
  <2>1. Satellites(r)' /\ ~Out(r)'
    BY <1>1, <1>5, <1>7, Zenon DEF Satellites, Out
  <2>2. Purpose(r)'
    BY <1>1, <1>2, <1>7, Zenon DEF Purpose, InRemove, InCreate
  <2> QED
    BY <1>t, <1>2, <1>3, <1>4, <2>1, <2>2, OnlyMover, Zenon
<1>8. CASE InsertRow(r)
  <2>1. /\ pc[r] \in {"insert", "insertdisabled"} /\ pc'[r] = "done" /\ faults' = faults
        /\ row' = IF pc[r] = "insert" THEN "enabled" ELSE "disabled"
    BY <1>8, <1>t, Zenon DEF InsertRow, Goto, TypeOK
  <2> QED
    BY <1>2, <1>6, <2>1, Zenon DEF Purpose, InRemove, InCreate
<1>9. CASE InsertError(r)
  <2>1. pc[r] \in {"insert", "insertdisabled"} /\ pc'[r] = "cache" /\ row' = row
    BY <1>9, <1>t, Zenon DEF InsertError, Goto, TypeOK
  <2>2. op[r] = "create"
    BY <1>2, <2>1, Zenon DEF Purpose, InRemove, InCreate
  <2> QED
    BY <1>7, <2>1, <2>2, Zenon
<1>10. CASE MarkRow(r)
  <2>1. /\ pc[r] \in {"mark", "markfailed"} /\ pc'[r] = "done" /\ faults' = faults
        /\ row' = CASE row = "absent" -> row [] op[r] = "enable" -> "enabled" [] OTHER -> "disabled"
    BY <1>10, <1>t, Zenon DEF MarkRow, Goto, TypeOK
  <2>2. \/ op[r] = "enable" /\ row = "disabled" /\ (slot # 0 \/ faults # {})
        \/ op[r] = "disable" /\ row = "enabled" /\ slot = 0
    BY <1>2, <2>1, Zenon DEF Purpose, InRemove, InCreate
  <2>3. CASE op[r] = "enable"
    <3>1. row' = "enabled"
      BY <2>1, <2>2, <2>3, Zenon
    <3> QED
      BY <1>6, <2>1, <2>2, <2>3, <3>1, Zenon
  <2>4. CASE op[r] = "disable"
    <3>1. row' = "disabled" /\ slot = 0
      BY <2>1, <2>2, <2>4, Zenon
    <3> QED
      BY <1>6, <2>1, <3>1, Zenon
  <2> QED
    BY <2>2, <2>3, <2>4, Zenon
<1>11. CASE MarkError(r)
  <2>1. /\ pc[r] \in {"mark", "markfailed"} /\ row' = row /\ faults' # {}
        /\ pc'[r] = IF op[r] = "enable" /\ pc[r] = "mark" THEN "cache" ELSE "done"
    BY <1>11, <1>t, Zenon DEF MarkError, Goto, TypeOK
  <2>2. \/ op[r] = "enable" /\ pc[r] = "mark"
        \/ pc'[r] = "done" /\ slot = 0
    BY <1>2, <2>1, Zenon DEF Purpose, InRemove, InCreate
  <2> QED
    BY <1>6, <1>7, <2>1, <2>2, Zenon
<1> QED
  BY <1>8, <1>9, <1>10, <1>11, Zenon DEF Finish

\* Every step keeps the invariant of requests that do not overlap.
LEMMA SequentialStep == SInv /\ [Next]_vars => SInv'
<1> SUFFICES ASSUME SInv, [Next]_vars PROVE SInv'
  BY Zenon
<1>1. IInv' /\ HeldInPassing'
  BY InvStep, HeldStep, Zenon DEF SInv
<1>t. TypeOK /\ TypeOK'
  BY <1>1, Zenon DEF SInv, IInv
<1>2. Alone'
  <2> SUFFICES ASSUME "overlap" \notin faults' PROVE Alone'
    BY Zenon DEF Alone
  <2>1. ASSUME NEW r \in Requests, Start(r) PROVE Alone'
    BY <1>t, <2>1, AloneStart, Zenon
  <2>2. ASSUME NEW r \in Requests, Work(r) PROVE Alone'
    <3>1. "overlap" \notin faults
      BY <2>2, Zenon DEF Work, Remove, UnregisterCache, UnregisterListener, LeaveActive, SwapSlot, ShutdownEntry,
         CleanupRedis, Create, CheckSlot, LoadAndSpawn, LoadError, StoreSlot, RegisterCache, RegisterListener,
         JoinActive, Finish, InsertRow, InsertError, MarkRow, MarkError
    <3> QED
      BY <1>t, <2>2, <3>1, AloneRemove, AloneCreate, AloneFinish, Zenon DEF Work
  <2>3. ASSUME slot' = slot, cache' = cache, listener' = listener, active' = active, row' = row,
               op' = op, pc' = pc, held' = held, read' = read, faults' = faults,
               \A e \in Entries : task'[e] = "running" => task[e] = "running"
        PROVE  Alone'
    <3>1. NoOrphan => NoOrphan'
      BY <2>3, NoneOrphaned, Zenon
    <3>2. (Quiet' <=> Quiet) /\ (Between' <=> Between) /\ \A r \in Requests : Out(r)' <=> Out(r)
      BY <2>3, Zenon DEF Quiet, Between, Out
    <3>3. \A r \in Requests : Satellites(r) => Satellites(r)'
      BY <2>3, Zenon DEF Satellites
    <3>4. \A r \in Requests : Purpose(r) => Purpose(r)'
      BY <2>3, Zenon DEF Purpose, InRemove, InCreate
    <3> QED
      BY <2>3, <3>1, <3>2, <3>3, <3>4, Zenon DEF SInv, Alone
  <2>4. CASE \E e \in Entries : AbortTakesEffect(e)
    <3>1. \A e \in Entries : task'[e] = "running" => task[e] = "running"
      BY <2>4, <1>t, Zenon DEF AbortTakesEffect, TypeOK
    <3> QED
      BY <2>3, <2>4, <3>1, Zenon DEF AbortTakesEffect, manager, request
  <2>5. CASE NameWritten \/ UNCHANGED vars
    BY <2>3, <2>5, Zenon DEF NameWritten, manager, request, vars
  <2> QED
    BY <2>1, <2>2, <2>4, <2>5, Zenon DEF Next
<1> QED
  BY <1>1, <1>2, Zenon DEF SInv

\* The initial state: what runs is the channel the row enables.
LEMMA SequentialInit == Init => SInv
<1> SUFFICES ASSUME Init PROVE SInv
  BY Zenon
<1>1. TypeOK
  BY InitType, Zenon
<1>2. IInv
  <2>1. Used
    BY <1>1, Zenon DEF Init, Used, TypeOK
  <2> QED
    BY <1>1, <2>1, Zenon DEF IInv, Init, Fresh, Real, ShutOnce, Removing
<1>3. HeldInPassing
  BY Zenon DEF Init, HeldInPassing
<1>4. NoOrphan
  BY Zenon DEF Init, NoOrphan, Orphan
<1>5. Between
  BY DEF Init, Between
<1>6. \A r \in Requests : Out(r)
  BY Zenon DEF Init, Out
<1> QED
  BY <1>2, <1>3, <1>4, <1>5, <1>6, Zenon DEF SInv, Alone

\* For any finite number of requests that do not overlap, whichever of their steps
\* fail: no task of a channel runs that no request and no slot can stop, and between
\* requests command cache, listener and active set agree with the slot.
THEOREM SatellitesAgree == Spec => []InSync
<1>1. SInv => InSync
  BY Zenon DEF SInv, Alone, NoOrphan, Between, InSync
<1> QED
  BY <1>1, SequentialInit, SequentialStep, PTL DEF Spec

\* Between requests that do not overlap a channel runs only when its row is enabled,
\* also after a failed write was compensated by the handler, and an enabled row has a
\* running channel when nothing failed.
THEOREM RuntimeFollowsRow == Spec => []RowGoverns
<1>1. SInv => RowGoverns
  BY Zenon DEF SInv, Alone, Between, RowGoverns
<1> QED
  BY <1>1, SequentialInit, SequentialStep, PTL DEF Spec
=============================================================================
