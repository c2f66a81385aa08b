--------------------------- MODULE ChannelManager ---------------------------
(***************************************************************************)
(* The life of one channel identifier in comsrv: the slot of the channel   *)
(* manager with its satellites (command cache, SHM listener, active set,   *)
(* Redis name), the row in SQLite, and the requests that create, remove    *)
(* and recreate the channel: the HTTP handlers, the reload and the         *)
(* watchdog.  No lock is held across a request ("lock-free"), so every     *)
(* access of a request to a shared structure is a step of its own.         *)
(*                                                                         *)
(* An entry is a number; its task is spawned with it.  What the task does  *)
(* is in ChannelTask.  Configurations are not told apart.                  *)
(***************************************************************************)
EXTENDS Naturals, FiniteSets

CONSTANTS Requests,   \* each is one call of one of the operations
          Ops         \* the operations requests may be

AllOps == {"create", "enable", "disable", "delete", "update", "respawn", "reload"}

ASSUME RequestsAssumption == IsFiniteSet(Requests)
ASSUME OpsAssumption == Ops \subseteq AllOps

\* Entries: 0 is no entry, 1 the one that may exist at the start; a request
\* creates one at most.
Entries == 1 .. Cardinality(Requests) + 1

VARIABLES
    row,       \* SQLite: "absent", "disabled" or "enabled"
    slot,      \* channels[id]
    cache,     \* command_tx_cache: the entry whose sender is registered
    listener,  \* shm_listener: the entry whose sender is registered
    active,    \* id \in active_channel_ids
    task,      \* the tasks of the entries: "none", "running", "aborting", "ended"
    name,      \* Redis holds the channel's name
    naming,    \* spawned writes of the name that have not happened yet
    op, pc,    \* the requests
    held,      \* the entry a request is registering or shutting down
    read,      \* the row as the request has read it
    faults     \* history: what has disturbed the requests, of Faults

Faults == {"overlap", "load", "db"}

manager == <<slot, cache, listener, active>>
request == <<op, pc, held, read, faults>>
vars == <<row, manager, task, name, naming, request>>

Init ==
    /\ row \in {"absent", "disabled", "enabled"}
    /\ slot = IF row = "enabled" THEN 1 ELSE 0
    /\ cache = slot /\ listener = slot /\ active = (slot # 0) /\ name = (slot # 0)
    /\ task = [e \in Entries |-> IF e = slot THEN "running" ELSE "none"]
    /\ naming = 0
    /\ op = [r \in Requests |-> "none"] /\ pc = [r \in Requests |-> "idle"]
    /\ held = [r \in Requests |-> 0] /\ read = [r \in Requests |-> "absent"]
    /\ faults = {}

Quiet == \A r \in Requests : pc[r] \in {"idle", "done"}

\* A request is a call of remove_channel() or create_channel() or both, with the
\* handler's own database work before and after.
Goto(r, l) == pc' = [pc EXCEPT ![r] = l]

AfterRemove(r) ==
    CASE op[r] \in {"update", "respawn"} -> "check"
      [] op[r] = "reload" /\ read[r] = "enabled" -> "check"
      [] op[r] = "disable" -> "mark"
      [] OTHER -> "done"

AfterCreate(r, ok) ==
    CASE op[r] = "create" -> "insert"
      [] op[r] = "enable" -> IF ok THEN "mark" ELSE "markfailed"
      [] OTHER -> "done"

-----------------------------------------------------------------------------
(* The first step of each operation: its early returns and what it reads. *)

Begin(r, o) ==
    /\ pc[r] = "idle" /\ o \in Ops
    /\ op' = [op EXCEPT ![r] = o]
    /\ read' = [read EXCEPT ![r] = row]
    /\ faults' = faults \cup IF Quiet THEN {} ELSE {"overlap"}

\* create_channel_handler: name and identifier are free.
BeginCreate(r) ==
    /\ Begin(r, "create")
    /\ row = "absent" /\ slot = 0
    /\ \/ Goto(r, "check")
       \/ Goto(r, "insertdisabled")
    /\ UNCHANGED <<row, manager, task, name, naming, held>>

\* set_channel_enabled_handler
BeginEnable(r) ==
    /\ Begin(r, "enable")
    /\ row = "disabled"
    /\ Goto(r, "check")
    /\ UNCHANGED <<row, manager, task, name, naming, held>>

BeginDisable(r) ==
    /\ Begin(r, "disable")
    /\ row = "enabled"
    /\ Goto(r, "cache")
    /\ UNCHANGED <<row, manager, task, name, naming, held>>

\* delete_channel_handler: the transaction commits before the runtime removal.
BeginDelete(r) ==
    /\ Begin(r, "delete")
    /\ row # "absent"
    /\ row' = "absent"
    /\ Goto(r, "cache")
    /\ UNCHANGED <<manager, task, name, naming, held>>

\* update_channel_handler of a running channel: perform_hot_reload is spawned.
BeginUpdate(r) ==
    /\ Begin(r, "update")
    /\ row # "absent" /\ slot # 0
    /\ Goto(r, "cache")
    /\ UNCHANGED <<row, manager, task, name, naming, held>>

\* respawn_channel: the configuration is taken from the entry.
BeginRespawn(r) ==
    /\ Begin(r, "respawn")
    /\ slot # 0 /\ active
    /\ Goto(r, "cache")
    /\ UNCHANGED <<row, manager, task, name, naming, held>>

\* reload_configuration_handler: to_remove, to_add or to_update.
BeginReload(r) ==
    /\ Begin(r, "reload")
    /\ Goto(r, CASE active -> "cache"
                 [] ~active /\ row = "enabled" -> "check"
                 [] OTHER -> "done")
    /\ UNCHANGED <<row, manager, task, name, naming, held>>

-----------------------------------------------------------------------------
(* remove_channel *)

UnregisterCache(r) ==
    /\ pc[r] = "cache"
    /\ cache' = 0
    /\ Goto(r, "listener")
    /\ UNCHANGED <<row, slot, listener, active, task, name, naming, op, held, read, faults>>

\* Mutant: the sender stays registered with the listener.
UnregisterListenerNot(r) ==
    /\ pc[r] = "listener"
    /\ Goto(r, "active")
    /\ UNCHANGED <<row, manager, task, name, naming, op, held, read, faults>>

UnregisterListener(r) ==
    /\ pc[r] = "listener"
    /\ listener' = 0
    /\ Goto(r, "active")
    /\ UNCHANGED <<row, slot, cache, active, task, name, naming, op, held, read, faults>>

LeaveActive(r) ==
    /\ pc[r] = "active"
    /\ active' = FALSE
    /\ Goto(r, "swap")
    /\ UNCHANGED <<row, slot, cache, listener, task, name, naming, op, held, read, faults>>

\* slot.swap(None): Err(channel_not_found) when the slot was empty.
SwapSlot(r) ==
    /\ pc[r] = "swap"
    /\ slot' = 0
    /\ held' = [held EXCEPT ![r] = slot]
    /\ Goto(r, IF slot = 0 THEN AfterRemove(r) ELSE "shutdown")
    /\ UNCHANGED <<row, cache, listener, active, task, name, naming, op, read, faults>>

\* Mutant: the handle is dropped when the task does not exit in time.
ShutdownEntryNoAbort(r) ==
    /\ pc[r] = "shutdown"
    /\ \/ task' = [task EXCEPT ![held[r]] = "ended"]
       \/ UNCHANGED task
    /\ Goto(r, "cleanup")
    /\ UNCHANGED <<row, manager, name, naming, op, held, read, faults>>

\* shutdown_channel_entry: the task exits within 500 ms, or is aborted.
ShutdownEntry(r) ==
    /\ pc[r] = "shutdown"
    /\ \E s \in {"ended", "aborting"} : task' = [task EXCEPT ![held[r]] = s]
    /\ Goto(r, "cleanup")
    /\ UNCHANGED <<row, manager, name, naming, op, held, read, faults>>

\* cleanup_channel_redis
CleanupRedis(r) ==
    /\ pc[r] = "cleanup"
    /\ name' = FALSE
    /\ held' = [held EXCEPT ![r] = 0]
    /\ Goto(r, AfterRemove(r))
    /\ UNCHANGED <<row, manager, task, naming, op, read, faults>>

\* abort() takes effect when the task next yields.
AbortTakesEffect(e) ==
    /\ task[e] = "aborting"
    /\ task' = [task EXCEPT ![e] = "ended"]
    /\ UNCHANGED <<row, manager, name, naming, request>>

-----------------------------------------------------------------------------
(* create_channel *)

\* Err(channel_exists) when the slot is taken.
CheckSlot(r) ==
    /\ pc[r] = "check"
    /\ Goto(r, IF slot # 0 THEN AfterCreate(r, FALSE) ELSE "load")
    /\ UNCHANGED <<row, manager, task, name, naming, op, held, read, faults>>

\* load_channel_configuration, create_channel_by_protocol: the new entry's task
\* is spawned by ChannelEntry::new.
LoadAndSpawn(r) ==
    /\ pc[r] = "load"
    /\ \E e \in Entries :
          /\ task[e] = "none"
          /\ \A x \in 1 .. e - 1 : task[x] # "none"
          /\ held' = [held EXCEPT ![r] = e]
          /\ task' = [task EXCEPT ![e] = "running"]
    /\ Goto(r, "store")
    /\ UNCHANGED <<row, manager, name, naming, op, read, faults>>

LoadError(r) ==
    /\ pc[r] = "load"
    /\ Goto(r, AfterCreate(r, FALSE))
    /\ faults' = faults \cup {"load"}
    /\ UNCHANGED <<row, manager, task, name, naming, op, held, read>>

\* register_channel_subsystems, structure by structure
StoreSlot(r) ==
    /\ pc[r] = "store"
    /\ slot' = held[r]
    /\ Goto(r, "regcache")
    /\ UNCHANGED <<row, cache, listener, active, task, name, naming, op, held, read, faults>>

RegisterCache(r) ==
    /\ pc[r] = "regcache"
    /\ cache' = held[r]
    /\ Goto(r, "reglistener")
    /\ UNCHANGED <<row, slot, listener, active, task, name, naming, op, held, read, faults>>

RegisterListener(r) ==
    /\ pc[r] = "reglistener"
    /\ listener' = held[r]
    /\ Goto(r, "regactive")
    /\ UNCHANGED <<row, slot, cache, active, task, name, naming, op, held, read, faults>>

\* The write of the name is spawned.
JoinActive(r) ==
    /\ pc[r] = "regactive"
    /\ active' = TRUE
    /\ naming' = naming + 1
    /\ held' = [held EXCEPT ![r] = 0]
    /\ Goto(r, AfterCreate(r, TRUE))
    /\ UNCHANGED <<row, slot, cache, listener, task, name, op, read, faults>>

NameWritten ==
    /\ naming > 0
    /\ naming' = naming - 1
    /\ name' = TRUE
    /\ UNCHANGED <<row, manager, task, request>>

-----------------------------------------------------------------------------
(* The handlers' work after the runtime operation *)

\* INSERT INTO channels: a duplicate identifier or name is an error, and so the
\* handler removes the runtime channel.
InsertRow(r) ==
    /\ pc[r] \in {"insert", "insertdisabled"}
    /\ row = "absent"
    /\ row' = IF pc[r] = "insert" THEN "enabled" ELSE "disabled"
    /\ Goto(r, "done")
    /\ UNCHANGED <<manager, task, name, naming, op, held, read, faults>>

InsertError(r) ==
    /\ pc[r] \in {"insert", "insertdisabled"}
    /\ Goto(r, "cache")
    /\ faults' = faults \cup {"db"}
    /\ UNCHANGED <<row, manager, task, name, naming, op, held, read>>

\* UPDATE channels SET enabled: no row, no effect.
MarkRow(r) ==
    /\ pc[r] \in {"mark", "markfailed"}
    /\ row' = CASE row = "absent" -> row
                [] op[r] = "enable" -> "enabled"
                [] OTHER -> "disabled"
    /\ Goto(r, "done")
    /\ UNCHANGED <<manager, task, name, naming, op, held, read, faults>>

\* Mutant: the channel that was created goes on running.
MarkErrorKeep(r) ==
    /\ pc[r] \in {"mark", "markfailed"}
    /\ Goto(r, "done")
    /\ faults' = faults \cup {"db"}
    /\ UNCHANGED <<row, manager, task, name, naming, op, held, read>>

\* Enabling removes the runtime channel again, unless there is none.
MarkError(r) ==
    /\ pc[r] \in {"mark", "markfailed"}
    /\ Goto(r, IF op[r] = "enable" /\ pc[r] = "mark" THEN "cache" ELSE "done")
    /\ faults' = faults \cup {"db"}
    /\ UNCHANGED <<row, manager, task, name, naming, op, held, read>>

-----------------------------------------------------------------------------
Start(r) ==
    \/ BeginCreate(r) \/ BeginEnable(r) \/ BeginDisable(r) \/ BeginDelete(r)
    \/ BeginUpdate(r) \/ BeginRespawn(r) \/ BeginReload(r)

Remove(r) ==
    \/ UnregisterCache(r) \/ UnregisterListener(r) \/ LeaveActive(r) \/ SwapSlot(r)
    \/ ShutdownEntry(r) \/ CleanupRedis(r)

Create(r) ==
    \/ CheckSlot(r) \/ LoadAndSpawn(r) \/ LoadError(r) \/ StoreSlot(r)
    \/ RegisterCache(r) \/ RegisterListener(r) \/ JoinActive(r)

Finish(r) == InsertRow(r) \/ InsertError(r) \/ MarkRow(r) \/ MarkError(r)

Work(r) == Remove(r) \/ Create(r) \/ Finish(r)

Next ==
    \/ \E r \in Requests : Start(r) \/ Work(r)
    \/ \E e \in Entries : AbortTakesEffect(e)
    \/ NameWritten

Spec == Init /\ [][Next]_vars

\* A request that has begun goes on, and an aborted task yields.
FairSpec ==
    /\ Spec
    /\ \A r \in Requests : WF_vars(Work(r))
    /\ \A e \in Entries : WF_vars(AbortTakesEffect(e))

-----------------------------------------------------------------------------
(* Properties *)

Labels == {"idle", "done", "cache", "listener", "active", "swap", "shutdown", "cleanup",
           "check", "load", "store", "regcache", "reglistener", "regactive",
           "insert", "insertdisabled", "mark", "markfailed"}

\* Slot, cache, listener, row and requests keep their types: what they hold is an
\* entry that create_channel() can have made.
TypeOK ==
    /\ row \in {"absent", "disabled", "enabled"}
    /\ {slot, cache, listener} \subseteq Entries \cup {0}
    /\ active \in BOOLEAN /\ name \in BOOLEAN /\ naming \in Nat
    /\ task \in [Entries -> {"none", "running", "aborting", "ended"}]
    /\ op \in [Requests -> AllOps \cup {"none"}] /\ pc \in [Requests -> Labels]
    /\ held \in [Requests -> Entries \cup {0}]
    /\ read \in [Requests -> {"absent", "disabled", "enabled"}]
    /\ faults \subseteq Faults

Removing(r) == pc[r] \in {"shutdown", "cleanup"}
Registering(r) == pc[r] \in {"store", "regcache", "reglistener", "regactive"}

\* The atomic swap hands an entry to one remove_channel() only, however many run:
\* no entry is shut down twice and none that is being shut down is in the slot.
ShutOnce ==
    \A r \in Requests : Removing(r) =>
        /\ held[r] # slot
        /\ \A s \in Requests \ {r} : Removing(s) => held[s] # held[r]

Orphan(e) == task[e] = "running" /\ slot # e /\ \A r \in Requests : held[r] # e

\* For requests that do not overlap, whichever of their steps fail: no task runs
\* that nothing can stop, and between requests the satellites agree with the slot.
\* The sender in the command cache and in the listener is the entry's, and the
\* identifier is active ("Synchronized with channels: insert on create_channel,
\* remove on remove_channel").
InSync ==
    "overlap" \notin faults =>
        /\ \A e \in Entries : ~Orphan(e)
        /\ Quiet => cache = slot /\ listener = slot /\ active = (slot # 0)

\* Between requests that do not overlap the runtime follows the database: a
\* channel runs only when its row says enabled, even after a failed write was
\* compensated, and an enabled one runs when nothing failed.
RowGoverns ==
    Quiet /\ "overlap" \notin faults =>
        /\ slot # 0 => row = "enabled"
        /\ row = "enabled" /\ faults = {} => slot # 0

\* An entry that was swapped out of the slot ends, even when its task hangs.
DisplacedEnds ==
    \A e \in Entries : (\E r \in Requests : Removing(r) /\ held[r] = e) ~> task[e] = "ended"
=============================================================================
