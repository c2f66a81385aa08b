----------------------------- MODULE ActionPath -----------------------------
(***************************************************************************)
(* A value on its way out: the action of an instance, written by modsrv, and *)
(* the request that writes a point of a channel directly.                  *)
(***************************************************************************)
EXTENDS Integers, Sequences, FiniteSets, SequencesExt, TLC

-----------------------------------------------------------------------------
(*------------------------------ ActionWrite ------------------------------*)
(***************************************************************************)
(* An action on an instance of modsrv: the route is taken once from the    *)
(* cache, the channel must not be known to be offline, the command goes to *)
(* comsrv, and only then do the mirrors in Redis say so: the instance's    *)
(* value and time, then the channel's value.  The cloud's entry first      *)
(* looks at the route's row in the database.                               *)
(*                                                                         *)
(* Values are numbered by the order of the requests.  The point may be     *)
(* routed, rerouted and unrouted, and channels come and go.                *)
(***************************************************************************)

CONSTANTS AwCalls,     \* requests being served at a time
          AwChannels,  \* channels the point may be routed to
          AwMax,       \* bound: requests
          AwReroutes   \* bound: changes of the row

AwNone == "none"

VARIABLES
    awRow,     \* the enabled row of the point: a channel, or AwNone
    awCache,   \* the point in the M2C table of RoutingCache
    awOnline,  \* the channels the hash in Redis says are offline
    awSeen,    \* ChannelHealthCache: the channels read as offline
    awCall,    \* the requests: step, number, target, whether alone
    awInst,    \* inst:{id}:A and its time
    awChan,    \* the channel's hash
    awGot,     \* the last command each channel was sent
    awSent,    \* history: commands that were delivered, with their channel
    awNext,    \* the number of the next request
    awLeft     \* changes of the row that are left

awRouting == <<awRow, awCache, awLeft>>
awHealth == <<awOnline, awSeen>>
awMirrors == <<awInst, awChan>>
awVars == <<awRouting, awHealth, awCall, awMirrors, awGot, awSent, awNext>>

AwIdle == [pc |-> "idle", cmd |-> 0, to |-> AwNone, alone |-> FALSE, cloud |-> FALSE]

AwInit ==
    /\ awRow \in AwChannels \cup {AwNone} /\ awCache = awRow /\ awLeft = AwReroutes
    /\ awOnline = {} /\ awSeen = {}
    /\ awCall = [c \in AwCalls |-> AwIdle]
    /\ awInst = [val |-> 0, at |-> 0] /\ awChan = [t \in AwChannels |-> 0]
    /\ awGot = [t \in AwChannels |-> 0] /\ awSent = {} /\ awNext = 1

AwStep(c, pc) ==
    awCall' = [awCall EXCEPT ![c] = IF pc = "idle" THEN AwIdle ELSE [@ EXCEPT !.pc = pc]]

\* A request arrives: the others in flight are no longer alone, nor is it.
AwStart(c, call) ==
    LET busy == {d \in AwCalls : awCall[d].pc # "idle"}
    IN  /\ awCall[c].pc = "idle" /\ awNext <= AwMax
        /\ awNext' = awNext + 1
        /\ awCall' = [d \in AwCalls |-> IF d = c THEN [call EXCEPT !.alone = (busy = {})]
                                        ELSE [awCall[d] EXCEPT !.alone = FALSE]]

\* load_single_action_point() of write_instance_point(): not routed is an error.
AwCloud(c) ==
    /\ awRow # AwNone
    /\ AwStart(c, [AwIdle EXCEPT !.pc = "route", !.cmd = awNext, !.cloud = TRUE])
    /\ UNCHANGED <<awRouting, awHealth, awMirrors, awGot, awSent>>

AwExecute(c) ==
    /\ AwStart(c, [AwIdle EXCEPT !.pc = "route", !.cmd = awNext])
    /\ UNCHANGED <<awRouting, awHealth, awMirrors, awGot, awSent>>

\* The lookup and the gate, which have no await between them.
AwRoute(c) ==
    /\ awCall[c].pc = "route"
    /\ \/ awCache \in awSeen /\ AwStep(c, "idle")
       \/ /\ awCache \notin awSeen
          /\ awCall' = [awCall EXCEPT ![c].to = awCache,
                                      ![c].pc = IF awCache = AwNone THEN "value" ELSE "dispatch"]
    /\ UNCHANGED <<awRouting, awHealth, awMirrors, awGot, awSent, awNext>>

AwDelivered(c) ==
    /\ awCall[c].pc = "dispatch"
    /\ awGot' = [awGot EXCEPT ![awCall[c].to] = awCall[c].cmd]
    /\ awSent' = awSent \cup {<<awCall[c].to, awCall[c].cmd>>}
    /\ AwStep(c, "value")
    /\ UNCHANGED <<awRouting, awHealth, awMirrors, awNext>>

\* ShmOnly, NoWriter or MirrorMiss: an error, and no mirror is written.
AwDegraded(c) ==
    /\ awCall[c].pc = "dispatch" /\ AwStep(c, "idle")
    /\ UNCHANGED <<awRouting, awHealth, awMirrors, awGot, awSent, awNext>>

AwSetValue(c) ==
    /\ awCall[c].pc = "value"
    /\ awInst' = [awInst EXCEPT !.val = awCall[c].cmd] /\ AwStep(c, "time")
    /\ UNCHANGED <<awRouting, awHealth, awChan, awGot, awSent, awNext>>

AwSetTime(c) ==
    /\ awCall[c].pc = "time"
    /\ awInst' = [awInst EXCEPT !.at = awCall[c].cmd]
    /\ AwStep(c, IF awCall[c].to = AwNone THEN "idle" ELSE "channel")
    /\ UNCHANGED <<awRouting, awHealth, awChan, awGot, awSent, awNext>>

AwSetChannel(c) ==
    /\ awCall[c].pc = "channel"
    /\ awChan' = [awChan EXCEPT ![awCall[c].to] = awCall[c].cmd] /\ AwStep(c, "idle")
    /\ UNCHANGED <<awRouting, awHealth, awInst, awGot, awSent, awNext>>

AwRedisFails(c) ==
    /\ awCall[c].pc \in {"value", "time", "channel"} /\ AwStep(c, "idle")
    /\ UNCHANGED <<awRouting, awHealth, awMirrors, awGot, awSent, awNext>>

\* ChannelHealthCache::refresh(): a channel without an entry counts as online.
AwRefresh ==
    /\ awSeen # awOnline /\ awSeen' = awOnline
    /\ UNCHANGED <<awRouting, awOnline, awCall, awMirrors, awGot, awSent, awNext>>

\* comsrv reports a channel lost, or back.
AwFlip(t) ==
    /\ awOnline' = IF t \in awOnline THEN awOnline \ {t} ELSE awOnline \cup {t}
    /\ UNCHANGED <<awRouting, awSeen, awCall, awMirrors, awGot, awSent, awNext>>

AwReroute ==
    /\ awLeft > 0 /\ awLeft' = awLeft - 1
    /\ \E t \in AwChannels \cup {AwNone} : t # awRow /\ awRow' = t
    /\ UNCHANGED <<awCache, awHealth, awCall, awMirrors, awGot, awSent, awNext>>

AwReload ==
    /\ awCache # awRow /\ awCache' = awRow
    /\ UNCHANGED <<awRow, awLeft, awHealth, awCall, awMirrors, awGot, awSent, awNext>>

AwNextStep ==
    \/ \E c \in AwCalls :
          \/ AwCloud(c) \/ AwExecute(c) \/ AwRoute(c) \/ AwDelivered(c) \/ AwDegraded(c)
          \/ AwSetValue(c) \/ AwSetTime(c) \/ AwSetChannel(c) \/ AwRedisFails(c)
    \/ AwRefresh \/ \E t \in AwChannels : AwFlip(t)
    \/ AwReroute \/ AwReload

AwSpec == AwInit /\ [][AwNextStep]_awVars

AwTypeOK ==
    /\ awRow \in AwChannels \cup {AwNone} /\ awCache \in AwChannels \cup {AwNone}
    /\ awOnline \subseteq AwChannels /\ awSeen \subseteq AwChannels
    /\ awSent \subseteq AwChannels \X (1 .. AwMax)

-----------------------------------------------------------------------------
\* No mirror shows a command that was not delivered: the channel's value was
\* sent to that channel, and the instance's was sent to a channel or came from
\* a request that found no route.  A rejected, degraded or rerouted command is
\* never published as accepted (execute_action()).
AwNoFalseAccept ==
    /\ \A t \in AwChannels : awChan[t] # 0 => <<t, awChan[t]>> \in awSent
    /\ \A c \in AwCalls : (awCall[c].pc \in {"value", "time", "channel"} /\ awCall[c].to # AwNone)
                             => <<awCall[c].to, awCall[c].cmd>> \in awSent

\* A request that nothing overlapped leaves the three mirrors and the device
\* with its command, whatever the routing cache did in the meantime.
AwMirrorsAgree ==
    [][\A c \in AwCalls : (awCall[c].pc = "channel" /\ awCall[c].alone /\ awChan' # awChan)
          => /\ awInst' = [val |-> awCall[c].cmd, at |-> awCall[c].cmd]
             /\ awChan'[awCall[c].to] = awGot[awCall[c].to]]_awVars

-----------------------------------------------------------------------------
(*------------------------------ DirectWrite ------------------------------*)
(***************************************************************************)
(* Commands an operator gives a channel over HTTP: POST .../write (one     *)
(* point or a batch, of any type) and POST .../control (start, stop,       *)
(* restart).  A write of a control or an adjustment looks the channel's    *)
(* sender up in CommandTxCache, sends, and mirrors the values to Redis;    *)
(* the channel is served by its task, and may be removed and created again *)
(* while calls are under way.  A sender is the number of the task it       *)
(* belongs to.  External: the device and Redis.                            *)
(***************************************************************************)

CONSTANTS DwCalls,    \* requests under way
          DwIds,      \* point ids; 0 stands for an id that does not parse
          DwVals, DwTypes,
          DwCap,      \* bound: capacity of the two queues (1024 and 32)
          DwBatch,    \* bound: points of a batch
          DwRequests, \* bound
          DwTasks,    \* bound: times the channel is created
          DwFaults    \* bound: Redis writes that fail

VARIABLES dwTask,     \* the task that serves, 0 when the channel has none
          dwMade,     \* tasks so far
          dwEnding,   \* remove_channel is shutting the task down
          dwCache,    \* CommandTxCache: the sender registered, 0 for none
          dwQueue,    \* business commands waiting
          dwProto,    \* protocol commands waiting: [call, cmd]
          dwDevice,   \* <<type, id>> -> the value last written to the device
          dwMirror,   \* <<type, id>> -> the value in Redis
          dwSent,     \* <<type, id, value>> ever put in a queue
          dwCall, dwLeft, dwFaults

dwVars == <<dwTask, dwMade, dwEnding, dwCache, dwQueue, dwProto, dwDevice, dwMirror, dwSent, dwCall, dwLeft, dwFaults>>
dwChannel == <<dwTask, dwMade, dwEnding, dwCache>>

DwCommanded == {"C", "A"}
DwIdle == [at |-> "idle", type |-> "T", pts |-> <<>>, n |-> 0, batch |-> FALSE, tx |-> 0, i |-> 1, ok |-> {}, bad |-> 0,
           op |-> "none", done |-> <<>>, told |-> "nothing"]

DwInit ==
  /\ dwTask = 0 /\ dwMade = 0 /\ dwEnding = FALSE /\ dwCache = 0 /\ dwQueue = <<>> /\ dwProto = <<>>
  /\ dwDevice = <<>> /\ dwMirror = <<>> /\ dwSent = {}
  /\ dwCall = [c \in DwCalls |-> DwIdle] /\ dwLeft = DwRequests /\ dwFaults = DwFaults

DwTo(c, at) == dwCall' = [dwCall EXCEPT ![c].at = at]
DwTell(c, told) == dwCall' = [dwCall EXCEPT ![c].at = "told", ![c].told = told]

(* ---------------------------- the write request ------------------------ *)

(* write_channel_point: a single id that does not parse is refused, those  *)
(* of a batch are counted and left out.                                    *)
DwParsed(pts) == SelectSeq(pts, LAMBDA p : p[1] # 0)
DwWrite(c) ==
  /\ dwCall[c].at \in {"idle", "told"} /\ dwLeft > 0 /\ dwLeft' = dwLeft - 1
  /\ \E type \in DwTypes, batch \in BOOLEAN, pts \in UNION {[1..n -> DwIds \X DwVals] : n \in 0..DwBatch} :
       LET parsed == DwParsed(pts)
           call == [DwIdle EXCEPT !.type = type, !.batch = batch, !.pts = parsed, !.n = Len(pts), !.bad = Len(pts) - Len(parsed)]
       IN  /\ ~batch => Len(pts) = 1
           /\ dwCall' = [dwCall EXCEPT ![c] =
                IF ~batch /\ parsed = <<>> THEN [call EXCEPT !.at = "told", !.told = "bad_request"]
                ELSE [call EXCEPT !.at = IF type \in DwCommanded /\ parsed # <<>> THEN "lookup" ELSE "mirror"]]
  /\ UNCHANGED <<dwChannel, dwQueue, dwProto, dwDevice, dwMirror, dwSent, dwFaults>>

\* Mutant: without a sender the value is written to Redis only.
DwLookupMirrors(c) ==
  /\ dwCall[c].at = "lookup"
  /\ IF dwCache = 0 THEN dwCall' = [dwCall EXCEPT ![c].at = "mirror"]
     ELSE dwCall' = [dwCall EXCEPT ![c].at = "send", ![c].tx = dwCache]
  /\ UNCHANGED <<dwChannel, dwQueue, dwProto, dwDevice, dwMirror, dwSent, dwLeft, dwFaults>>

(* CommandTxCache::get_tx *)
DwLookup(c) ==
  /\ dwCall[c].at = "lookup"
  /\ IF dwCache = 0 THEN DwTell(c, "unavailable")
     ELSE dwCall' = [dwCall EXCEPT ![c].at = "send", ![c].tx = dwCache]
  /\ UNCHANGED <<dwChannel, dwQueue, dwProto, dwDevice, dwMirror, dwSent, dwLeft, dwFaults>>

(* tx.send(cmd).await: waits for room, fails once the task is gone *)
DwSend(c) ==
  /\ dwCall[c].at = "send"
  /\ IF dwCall[c].tx # dwTask THEN DwTell(c, "unavailable") /\ UNCHANGED <<dwQueue, dwSent>>
     ELSE /\ Len(dwQueue) < DwCap
          /\ dwQueue' = Append(dwQueue, [type |-> dwCall[c].type, pts |-> dwCall[c].pts])
          /\ dwSent' = dwSent \cup {<<dwCall[c].type, p[1], p[2]>> : p \in ToSet(dwCall[c].pts)}
          /\ DwTo(c, "mirror")
  /\ UNCHANGED <<dwChannel, dwProto, dwDevice, dwMirror, dwLeft, dwFaults>>

(* write_channel_hash_only, point by point *)
DwHash(c, type, p, works) ==
  /\ dwMirror' = IF works THEN (<<type, p[1]>> :> p[2]) @@ dwMirror ELSE dwMirror
  /\ dwFaults' = IF works THEN dwFaults ELSE dwFaults - 1
DwMirror(c) ==
  LET call == dwCall[c]
  IN  /\ call.at = "mirror"
      /\ IF call.i > Len(call.pts)
         THEN DwTell(c, IF call.batch THEN "counts" ELSE "written") /\ UNCHANGED <<dwMirror, dwFaults>>
         ELSE \E works \in {TRUE} \cup {b \in {FALSE} : dwFaults > 0} :
                /\ DwHash(c, call.type, call.pts[call.i], works)
                /\ IF works THEN dwCall' = [dwCall EXCEPT ![c].i = @ + 1, ![c].ok = @ \cup {call.i}]
                   ELSE IF call.batch THEN dwCall' = [dwCall EXCEPT ![c].i = @ + 1, ![c].bad = @ + 1]
                   ELSE DwTell(c, "failed")
      /\ UNCHANGED <<dwChannel, dwQueue, dwProto, dwDevice, dwSent, dwLeft>>

(* --------------------------- the control request ----------------------- *)

(* control_channel: the steps of an operation *)
DwSteps(op) == CASE op = "start" -> <<"connect">> [] op = "stop" -> <<"disconnect">> [] op = "restart" -> <<"disconnect", "connect">>
DwControl(c) ==
  /\ dwCall[c].at \in {"idle", "told"} /\ dwLeft > 0 /\ dwLeft' = dwLeft - 1
  /\ \E op \in {"start", "stop", "restart", "other"} :
       dwCall' = [dwCall EXCEPT ![c] =
         IF dwTask = 0 THEN [DwIdle EXCEPT !.at = "told", !.op = op, !.told = "not_found"]
         ELSE IF op = "other" THEN [DwIdle EXCEPT !.at = "told", !.op = op, !.told = "bad_request"]
         ELSE [DwIdle EXCEPT !.at = "ask", !.op = op, !.tx = dwTask]]
  /\ UNCHANGED <<dwChannel, dwQueue, dwProto, dwDevice, dwMirror, dwSent, dwFaults>>

(* ChannelEntry::connect, disconnect: send, then wait for the answer *)
DwAsk(c) ==
  /\ dwCall[c].at = "ask"
  /\ IF dwCall[c].tx # dwTask THEN DwTell(c, "error") /\ UNCHANGED dwProto
     ELSE /\ Len(dwProto) < DwCap
          /\ dwProto' = Append(dwProto, [call |-> c, cmd |-> DwSteps(dwCall[c].op)[dwCall[c].i]])
          /\ DwTo(c, "wait")
  /\ UNCHANGED <<dwChannel, dwQueue, dwDevice, dwMirror, dwSent, dwLeft, dwFaults>>

(* Only connect has a limit (30 s); the command stays in the queue, and    *)
(* its answer finds nobody.                                                *)
DwConnectTimeout(c) ==
  /\ dwCall[c].at = "wait" /\ DwSteps(dwCall[c].op)[dwCall[c].i] = "connect"
  /\ DwTell(c, "error")
  /\ dwProto' = [k \in DOMAIN dwProto |-> IF dwProto[k].call = c THEN [dwProto[k] EXCEPT !.cmd = "forgotten"] ELSE dwProto[k]]
  /\ UNCHANGED <<dwChannel, dwQueue, dwDevice, dwMirror, dwSent, dwLeft, dwFaults>>

(* ------------------------- the task and the manager -------------------- *)

(* The task takes a business command and writes the device. *)
DwServe ==
  /\ dwTask # 0 /\ dwQueue # <<>> /\ dwQueue' = Tail(dwQueue)
  /\ LET cmd == Head(dwQueue)
         last(id) == cmd.pts[CHOOSE k \in DOMAIN cmd.pts : cmd.pts[k][1] = id /\ \A j \in DOMAIN cmd.pts : cmd.pts[j][1] = id => j <= k]
     IN  dwDevice' = [k \in {<<cmd.type, p[1]>> : p \in ToSet(cmd.pts)} |-> last(k[2])[2]] @@ dwDevice
  /\ UNCHANGED <<dwChannel, dwProto, dwMirror, dwSent, dwCall, dwLeft, dwFaults>>

(* ... or a protocol command, and answers it; connecting may fail. *)
DwServeProto ==
  /\ dwTask # 0 /\ dwProto # <<>> /\ dwProto' = Tail(dwProto)
  /\ LET c == Head(dwProto).call
         cmd == Head(dwProto).cmd
         call == [dwCall[c] EXCEPT !.done = Append(@, cmd), !.i = @ + 1]
     IN  IF cmd = "forgotten" THEN UNCHANGED dwCall
         ELSE \/ dwCall' = [dwCall EXCEPT ![c] = IF call.i > Len(DwSteps(call.op))
                            THEN [call EXCEPT !.at = "told", !.told = "success"] ELSE [call EXCEPT !.at = "ask"]]
              \/ cmd = "connect" /\ DwTell(c, "error")
  /\ UNCHANGED <<dwChannel, dwQueue, dwDevice, dwMirror, dwSent, dwLeft, dwFaults>>

(* create_channel: the entry, then register *)
DwCreate ==
  /\ dwTask = 0 /\ dwMade < DwTasks
  /\ dwTask' = dwMade + 1 /\ dwMade' = dwMade + 1
  /\ UNCHANGED <<dwEnding, dwCache, dwQueue, dwProto, dwDevice, dwMirror, dwSent, dwCall, dwLeft, dwFaults>>
DwRegister ==
  /\ dwTask # 0 /\ dwCache = 0 /\ ~dwEnding
  /\ dwCache' = dwTask
  /\ UNCHANGED <<dwTask, dwMade, dwEnding, dwQueue, dwProto, dwDevice, dwMirror, dwSent, dwCall, dwLeft, dwFaults>>

(* remove_channel: unregister, then the task ends; what it had not taken   *)
(* is dropped and whoever waits for an answer gets an error.               *)
DwUnregister ==
  /\ dwTask # 0 /\ dwCache = dwTask /\ dwCache' = 0 /\ dwEnding' = TRUE
  /\ UNCHANGED <<dwTask, dwMade, dwQueue, dwProto, dwDevice, dwMirror, dwSent, dwCall, dwLeft, dwFaults>>
\* Mutant: the callers that wait are not told.
DwEndSilent ==
  /\ dwEnding /\ dwEnding' = FALSE /\ dwTask' = 0
  /\ dwQueue' = <<>> /\ dwProto' = <<>>
  /\ dwCall' = dwCall
  /\ UNCHANGED <<dwMade, dwCache, dwDevice, dwMirror, dwSent, dwLeft, dwFaults>>

DwEnd ==
  /\ dwEnding /\ dwEnding' = FALSE /\ dwTask' = 0
  /\ dwQueue' = <<>> /\ dwProto' = <<>>
  /\ dwCall' = [c \in DwCalls |-> IF dwCall[c].at = "wait" THEN [dwCall[c] EXCEPT !.at = "told", !.told = "error"] ELSE dwCall[c]]
  /\ UNCHANGED <<dwMade, dwCache, dwDevice, dwMirror, dwSent, dwLeft, dwFaults>>

DwStep(c) == DwLookup(c) \/ DwSend(c) \/ DwMirror(c) \/ DwAsk(c)
DwNext ==
  \/ \E c \in DwCalls : DwWrite(c) \/ DwControl(c) \/ DwStep(c) \/ DwConnectTimeout(c)
  \/ DwServe \/ DwServeProto \/ DwCreate \/ DwRegister \/ DwUnregister \/ DwEnd
DwSpec == DwInit /\ [][DwNext]_dwVars

DwTypeOK ==
  /\ dwTask \in 0..DwTasks /\ dwCache \in {0, dwTask} /\ Len(dwQueue) <= DwCap /\ Len(dwProto) <= DwCap
  /\ \A c \in DwCalls : dwCall[c].at \in {"idle", "lookup", "send", "mirror", "ask", "wait", "told"}

(* Fail-closed: a control or an adjustment shown in Redis was put in the   *)
(* queue of a task before (write_channel_point mirrors only "AFTER the     *)
(* command was successfully enqueued").                                    *)
DwMirrorDispatched ==
  \A k \in DOMAIN dwMirror : k[1] \in DwCommanded => <<k[1], k[2], dwMirror[k]>> \in dwSent

(* The counts of a batch add up, and an operation that is reported done    *)
(* was carried out by the task, every step and in order.                   *)
DwToldTrue ==
  \A c \in DwCalls :
    /\ dwCall[c].told = "counts" => Cardinality(dwCall[c].ok) + dwCall[c].bad = dwCall[c].n
    /\ dwCall[c].told = "success" => dwCall[c].done = DwSteps(dwCall[c].op)
    /\ dwCall[c].told = "unavailable" => dwCall[c].ok = {}

(* Every request is answered, also when its channel is removed meanwhile.  *)
DwAnswered == \A c \in DwCalls : []<>(dwCall[c].at \notin {"lookup", "send", "mirror", "ask", "wait"})

=============================================================================
