----------------------------- MODULE CloudLink -----------------------------
(***************************************************************************)
(* netsrv: the session with the broker, and the upload of the operation log. *)
(***************************************************************************)
EXTENDS Naturals, Sequences, FiniteSets

-----------------------------------------------------------------------------
(*------------------------------ MqttSession ------------------------------*)
(***************************************************************************)
(* The MQTT session of netsrv: the loop that connects, serves and          *)
(* reconnects, the HTTP calls that steer it, the tasks that publish, and   *)
(* the status the broker retains.                                          *)
(*                                                                         *)
(* The client of rumqttc is a bounded queue of requests, which only the    *)
(* loop's poll() drains; a publisher holds the mutex of the shared client  *)
(* while it waits for room in that queue.                                  *)
(***************************************************************************)

CONSTANTS MqTasks,      \* handlers and timers that publish
          MqSubs,       \* topics of Topics::subscriptions()
          MqCap         \* capacity of the client's queue

ASSUME MqAssumption == MqSubs \in Nat /\ MqCap \in Nat \ {0}

VARIABLES
    mqLoop,      \* where run_mqtt_loop() is
    mqHello,     \* requests on_connected() has queued
    mqInUse,     \* ssl_enabled of the configuration the session was built from
    mqConfig,    \* ssl_enabled of AppState.config
    mqDisc,      \* disconnect_requested
    mqConn,      \* mqtt_connected
    mqPermit,    \* the permit of reconnect_signal
    mqShut,      \* the shutdown token
    mqClient,    \* mqtt_client: "none", or a client whose loop is "live" or "dead"
    mqQueue,     \* the requests in the client's queue
    mqLock,      \* holder of the mutex of mqtt_client
    mqTask,      \* messages each task still has to publish
    mqApi,       \* mqtt_disconnect() waits for the mutex
    mqAlive,     \* the broker holds a session
    mqRetained   \* the retained message of the status topic

mqLoopVars == <<mqLoop, mqHello, mqInUse>>
mqFlags == <<mqDisc, mqConn, mqPermit, mqShut>>
mqClientVars == <<mqClient, mqQueue, mqLock>>
mqWork == <<mqTask, mqApi>>
mqBroker == <<mqAlive, mqRetained>>
mqVars == <<mqLoopVars, mqConfig, mqFlags, mqClientVars, mqWork, mqBroker>>

\* How many messages a handler publishes.  A read or an instance sync that finds
\* no data answers nothing; call-data answers, then uploads; an upload is a
\* message for each batch and one for the homepage (here at most one in all).
MqPublishes ==
    [read       |-> {0, 1},
     inst_sync  |-> {0, 1},
     write      |-> {1},
     func       |-> {1},
     call_alarm |-> {1},
     call_data  |-> {1, 2},
     upload     |-> {0, 1},
     metrics    |-> {1},
     alarm      |-> {1}]

MqCommands == {"read", "inst_sync", "write", "func", "call_alarm", "call_data"}

MqInit ==
    /\ mqLoop = "top" /\ mqHello = 0 /\ mqInUse = FALSE
    /\ mqConfig \in BOOLEAN
    /\ mqDisc = FALSE /\ mqConn = FALSE /\ mqPermit = FALSE /\ mqShut = FALSE
    /\ mqClient = "none" /\ mqQueue = <<>> /\ mqLock = "free"
    /\ mqTask = [p \in MqTasks |-> 0] /\ mqApi = FALSE
    /\ mqAlive = FALSE /\ mqRetained = "none"

MqRoom == Len(mqQueue) < MqCap

\* The loop's client goes: its queue is lost, and a shared handle on it is dead.
MqHangUp ==
    /\ mqQueue' = <<>>
    /\ mqClient' = IF mqClient = "live" THEN "dead" ELSE mqClient

----------------------------------------------------------------------------
(* The loop *)

\* The configuration is read; with TLS, a certificate file that is missing is an
\* error at once.
MqConfigure ==
    /\ mqLoop = "top"
    /\ mqInUse' = mqConfig
    /\ mqLoop' \in {"built"} \union (IF mqConfig THEN {"ended"} ELSE {})
    /\ UNCHANGED <<mqHello, mqConfig, mqFlags, mqClientVars, mqWork, mqBroker>>

MqOpen ==
    /\ mqLoop = "built" /\ mqLock = "free"
    /\ mqLoop' = "connecting"
    /\ mqClient' = "live" /\ mqQueue' = <<>>
    /\ UNCHANGED <<mqHello, mqInUse, mqConfig, mqFlags, mqLock, mqWork, mqBroker>>

\* The broker accepts; a session it still held under the same client id ends.
MqConnAck ==
    /\ mqLoop = "connecting"
    /\ mqLoop' = "hello" /\ mqHello' = 0 /\ mqConn' = TRUE
    /\ mqAlive' = TRUE /\ mqRetained' = IF mqAlive THEN "will" ELSE mqRetained
    /\ UNCHANGED <<mqInUse, mqConfig, mqDisc, mqPermit, mqShut, mqClientVars, mqWork>>

\* on_connected() queues the subscriptions and the status "online", and waits
\* for room; poll() is not called meanwhile.
MqGreet ==
    /\ mqLoop = "hello" /\ MqRoom
    /\ mqQueue' = Append(mqQueue, IF mqHello < MqSubs THEN "sub" ELSE "online")
    /\ mqHello' = IF mqHello < MqSubs THEN mqHello + 1 ELSE 0
    /\ mqLoop' = IF mqHello < MqSubs THEN "hello" ELSE "online"
    /\ UNCHANGED <<mqInUse, mqConfig, mqFlags, mqClient, mqLock, mqWork, mqBroker>>

MqPoll ==
    /\ mqLoop = "online" /\ mqAlive /\ mqQueue # <<>>
    /\ mqQueue' = Tail(mqQueue)
    /\ mqRetained' = IF Head(mqQueue) = "online" THEN "online" ELSE mqRetained
    /\ UNCHANGED <<mqLoopVars, mqConfig, mqFlags, mqClient, mqLock, mqWork, mqAlive>>

\* poll() returns an error or the broker's disconnect.
MqLost ==
    /\ mqLoop \in {"connecting", "online"}
    /\ mqLoop' = "ended" /\ mqConn' = FALSE
    /\ MqHangUp
    /\ UNCHANGED <<mqHello, mqInUse, mqConfig, mqDisc, mqPermit, mqShut, mqLock, mqWork, mqBroker>>

\* The signal, or the shutdown, is taken by the select of a session.
MqLeave ==
    /\ mqLoop \in {"connecting", "online"}
    /\ \/ mqPermit /\ mqPermit' = FALSE /\ mqLoop' = "bye"
       \/ mqShut /\ mqLoop' = "quit" /\ UNCHANGED mqPermit
    /\ UNCHANGED <<mqHello, mqInUse, mqConfig, mqDisc, mqConn, mqShut, mqClientVars, mqWork, mqBroker>>

\* The status "offline" (and, at shutdown, the disconnect) is queued once there
\* is room; the loop's client is dropped with the queue, before another poll().
MqBye ==
    /\ \/ mqLoop = "bye" /\ MqRoom /\ mqLoop' = "ended"
       \/ mqLoop = "quit" /\ Len(mqQueue) + 2 <= MqCap /\ mqLoop' = "stopped"
    /\ mqConn' = FALSE
    /\ MqHangUp
    /\ UNCHANGED <<mqHello, mqInUse, mqConfig, mqDisc, mqPermit, mqShut, mqLock, mqWork, mqBroker>>

MqEnded ==
    /\ mqLoop = "ended"
    /\ mqLoop' = IF mqShut THEN "stopped" ELSE IF mqDisc THEN "idle" ELSE "delay"
    /\ mqConn' = IF ~mqShut /\ mqDisc THEN FALSE ELSE mqConn
    /\ UNCHANGED <<mqHello, mqInUse, mqConfig, mqDisc, mqPermit, mqShut, mqClientVars, mqWork, mqBroker>>

\* Idle after a disconnect request, only the signal wakes the loop.
MqWake ==
    /\ mqLoop \in {"idle", "delay"} /\ mqPermit
    /\ mqLoop' = "top" /\ mqPermit' = FALSE
    /\ UNCHANGED <<mqHello, mqInUse, mqConfig, mqDisc, mqConn, mqShut, mqClientVars, mqWork, mqBroker>>

\* Otherwise the delay ends the wait too; the shutdown ends either.
MqWaited ==
    /\ \/ mqLoop = "delay" /\ mqLoop' = "top"
       \/ mqLoop \in {"idle", "delay"} /\ mqShut /\ mqLoop' = "stopped"
    /\ UNCHANGED <<mqHello, mqInUse, mqConfig, mqFlags, mqClientVars, mqWork, mqBroker>>

----------------------------------------------------------------------------
(* The broker, the HTTP calls and the tasks that publish *)

\* The broker closes a session it considers gone, and publishes its last will.
MqWill ==
    /\ mqAlive
    /\ mqAlive' = FALSE /\ mqRetained' = "will"
    /\ UNCHANGED <<mqLoopVars, mqConfig, mqFlags, mqClientVars, mqWork>>

MqDisconnect ==
    /\ ~mqShut /\ ~mqApi
    /\ mqDisc' = TRUE /\ mqApi' = TRUE
    /\ UNCHANGED <<mqLoopVars, mqConfig, mqConn, mqPermit, mqShut, mqClientVars, mqTask, mqBroker>>

MqDisconnected ==
    /\ mqApi /\ mqLock = "free"
    /\ mqClient' = "none" /\ mqConn' = FALSE /\ mqPermit' = TRUE /\ mqApi' = FALSE
    /\ UNCHANGED <<mqLoopVars, mqConfig, mqDisc, mqShut, mqQueue, mqLock, mqTask, mqBroker>>

MqReconnect ==
    /\ ~mqShut
    /\ mqDisc' = FALSE /\ mqPermit' = TRUE
    /\ UNCHANGED <<mqLoopVars, mqConfig, mqConn, mqShut, mqClientVars, mqWork, mqBroker>>

\* A configuration that cannot be saved changes nothing.
MqUpdateConfig ==
    /\ ~mqShut
    /\ mqConfig' \in BOOLEAN /\ mqPermit' = TRUE
    /\ UNCHANGED <<mqLoopVars, mqDisc, mqConn, mqShut, mqClientVars, mqWork, mqBroker>>

\* From here on the HTTP server takes no new calls and the timers stop.
MqShutdown ==
    /\ ~mqShut
    /\ mqShut' = TRUE
    /\ UNCHANGED <<mqLoopVars, mqConfig, mqDisc, mqConn, mqPermit, mqClientVars, mqWork, mqBroker>>

\* A command arrives in a session; a timer or an HTTP call may come at any time.
MqStart(p, kind) ==
    /\ ~mqShut /\ mqTask[p] = 0
    /\ kind \in MqCommands => mqLoop = "online"
    /\ mqTask' \in {[mqTask EXCEPT ![p] = n] : n \in MqPublishes[kind]}
    /\ UNCHANGED <<mqLoopVars, mqConfig, mqFlags, mqClientVars, mqApi, mqBroker>>

MqLockClient(p) ==
    /\ mqTask[p] > 0 /\ mqLock = "free"
    /\ IF mqClient = "none"
         THEN mqTask' = [mqTask EXCEPT ![p] = @ - 1] /\ UNCHANGED mqLock
         ELSE mqLock' = p /\ UNCHANGED mqTask
    /\ UNCHANGED <<mqLoopVars, mqConfig, mqFlags, mqClient, mqQueue, mqApi, mqBroker>>

\* publish() waits for room, with the mutex held; a dead client is an error.
MqPublish(p) ==
    /\ mqLock = p
    /\ \/ mqClient = "live" /\ MqRoom /\ mqQueue' = Append(mqQueue, "msg")
       \/ mqClient = "dead" /\ UNCHANGED mqQueue
    /\ mqLock' = "free" /\ mqTask' = [mqTask EXCEPT ![p] = @ - 1]
    /\ UNCHANGED <<mqLoopVars, mqConfig, mqFlags, mqClient, mqApi, mqBroker>>

MqNext ==
    \/ MqConfigure \/ MqOpen \/ MqConnAck \/ MqGreet \/ MqPoll \/ MqLost
    \/ MqLeave \/ MqBye \/ MqEnded \/ MqWake \/ MqWaited
    \/ MqWill \/ MqDisconnect \/ MqDisconnected \/ MqReconnect \/ MqUpdateConfig \/ MqShutdown
    \/ \E p \in MqTasks, kind \in DOMAIN MqPublishes : MqStart(p, kind)
    \/ \E p \in MqTasks : MqLockClient(p) \/ MqPublish(p)

MqSpec == MqInit /\ [][MqNext]_mqVars

----------------------------------------------------------------------------

\* Types of the session's state.
MqTypeOK ==
    /\ mqLoop \in {"top", "built", "connecting", "hello", "online", "bye", "quit",
                   "ended", "idle", "delay", "stopped"}
    /\ mqHello \in 0 .. MqSubs
    /\ mqInUse \in BOOLEAN /\ mqConfig \in BOOLEAN
    /\ mqDisc \in BOOLEAN /\ mqConn \in BOOLEAN /\ mqPermit \in BOOLEAN /\ mqShut \in BOOLEAN
    /\ mqClient \in {"none", "live", "dead"}
    /\ mqQueue \in Seq({"sub", "online", "msg"}) /\ Len(mqQueue) <= MqCap
    /\ mqLock \in MqTasks \union {"free"}
    /\ mqTask \in [MqTasks -> 0 .. 2] /\ mqApi \in BOOLEAN
    /\ mqAlive \in BOOLEAN /\ mqRetained \in {"none", "online", "will"}

\* mqtt_connected, which the health and status calls report, is never left set
\* once the session it stands for is over.
MqConnectedIsLive == mqConn => mqLoop \in {"hello", "online", "bye", "quit"}

\* The loop never sleeps through a reconnect call: idle, with the disconnect
\* request withdrawn, it has a permit to wake by.
MqNoLostWakeup == mqLoop = "idle" /\ ~mqDisc => mqPermit

-----------------------------------------------------------------------------
(*---------------------------- OperationUpload ----------------------------*)
(***************************************************************************)
(* The operation log of netsrv: rows that the services insert into a       *)
(* database of their own, published in batches over a connection of its    *)
(* own, one row at a time, and marked once the broker has acknowledged.    *)
(*                                                                         *)
(* Rows are numbered by the time of the operation; a service may insert    *)
(* its row after another one has inserted a later operation.  The process  *)
(* may stop and start between any two steps.                               *)
(***************************************************************************)

CONSTANTS OpRows,      \* the number of operations
          OpBatchSize  \* BATCH_SIZE

ASSUME OpAssumption == OpRows \in Nat /\ OpBatchSize \in Nat \ {0}

OpIds == 1 .. OpRows

VARIABLES
    opState,   \* the rows: "absent", "pending", "uploaded" or "pruned"
    opAt,      \* where run() is
    opBatch,   \* rows of the batch not yet acknowledged
    opWire,    \* the row published on the connection: "none", "sent" or "acked"
    opDisc,    \* disconnect_requested
    opSeen     \* rows the broker has received

opVars == <<opState, opAt, opBatch, opWire, opDisc, opSeen>>

OpInit ==
    /\ opState = [r \in OpIds |-> "absent"] /\ opAt = "poll" /\ opBatch = <<>>
    /\ opWire = "none" /\ opDisc = FALSE /\ opSeen = {}

OpPending == {r \in OpIds : opState[r] = "pending"}

\* The rows that pending(limit) selects: the oldest operations first.
OpSelect ==
    LET rows == SelectSeq([r \in OpIds |-> r], LAMBDA r : r \in OpPending)
    IN SubSeq(rows, 1, IF Len(rows) < OpBatchSize THEN Len(rows) ELSE OpBatchSize)

OpInsert(r) ==
    /\ opState[r] = "absent"
    /\ opState' = [opState EXCEPT ![r] = "pending"]
    /\ UNCHANGED <<opAt, opBatch, opWire, opDisc, opSeen>>

\* prune_uploaded() removes uploaded rows that are old enough.
OpPrune ==
    /\ opAt = "poll"
    /\ \E old \in SUBSET {r \in OpIds : opState[r] = "uploaded"} :
          /\ old # {}
          /\ opState' = [r \in OpIds |-> IF r \in old THEN "pruned" ELSE opState[r]]
    /\ UNCHANGED <<opAt, opBatch, opWire, opDisc, opSeen>>

OpFetch ==
    /\ opAt = "poll" /\ ~opDisc /\ OpPending # {}
    /\ opBatch' = OpSelect /\ opAt' = "connect"
    /\ UNCHANGED <<opState, opWire, opDisc, opSeen>>

OpConnect ==
    /\ opAt = "connect"
    /\ opAt' = "batch"
    /\ UNCHANGED <<opState, opBatch, opWire, opDisc, opSeen>>

OpPublish ==
    /\ opAt = "batch" /\ opBatch # <<>>
    /\ opWire' = "sent" /\ opAt' = "ack"
    /\ UNCHANGED <<opState, opBatch, opDisc, opSeen>>

\* The broker receives the row and acknowledges it.
OpReceive ==
    /\ opWire = "sent"
    /\ opWire' = "acked" /\ opSeen' = opSeen \union {Head(opBatch)}
    /\ UNCHANGED <<opState, opAt, opBatch, opDisc>>

\* Mutant: a row is marked as soon as it is sent.
OpMarkUnacked ==
    /\ opAt = "ack" /\ opWire # "none"
    /\ opState' = [opState EXCEPT ![Head(opBatch)] = "uploaded"]
    /\ opBatch' = Tail(opBatch) /\ opWire' = "none" /\ opAt' = "batch"
    /\ UNCHANGED <<opDisc, opSeen>>

\* The acknowledgement of this packet arrives and the row is marked.
OpMark ==
    /\ opAt = "ack" /\ opWire = "acked"
    /\ opState' = [opState EXCEPT ![Head(opBatch)] = "uploaded"]
    /\ opBatch' = Tail(opBatch) /\ opWire' = "none" /\ opAt' = "batch"
    /\ UNCHANGED <<opDisc, opSeen>>

OpDone ==
    /\ opAt = "batch" /\ opBatch = <<>>
    /\ opAt' = "poll"
    /\ UNCHANGED <<opState, opBatch, opWire, opDisc, opSeen>>

\* Any error (refusal, timeout, disconnect, a mark that fails) and any stop of
\* the process drop the connection and the rest of the batch.
OpAbort ==
    /\ opAt # "poll"
    /\ opAt' = "poll" /\ opBatch' = <<>> /\ opWire' = "none"
    /\ UNCHANGED <<opState, opDisc, opSeen>>

\* mqtt_disconnect() and mqtt_reconnect()
OpSwitch ==
    /\ opDisc' = ~opDisc
    /\ UNCHANGED <<opState, opAt, opBatch, opWire, opSeen>>

OpNext ==
    \/ \E r \in OpIds : OpInsert(r)
    \/ OpPrune \/ OpFetch \/ OpConnect \/ OpPublish \/ OpReceive \/ OpMark \/ OpDone
    \/ OpAbort \/ OpSwitch

OpSpec == OpInit /\ [][OpNext]_opVars

----------------------------------------------------------------------------

\* Types of the log and of the uploader's state.
OpTypeOK ==
    /\ opState \in [OpIds -> {"absent", "pending", "uploaded", "pruned"}]
    /\ opAt \in {"poll", "connect", "batch", "ack"}
    /\ opBatch \in Seq(OpIds) /\ Len(opBatch) <= OpBatchSize
    /\ opWire \in {"none", "sent", "acked"} /\ opDisc \in BOOLEAN /\ opSeen \subseteq OpIds

\* The audit log loses nothing: a row that is marked as uploaded, or pruned, has
\* reached the broker, whatever errors and restarts came in between.
OpNothingLost == \A r \in OpIds : opState[r] \in {"uploaded", "pruned"} => r \in opSeen

\* Every row is uploaded in the end, unless the operator has disconnected MQTT.
OpAllUploaded == \A r \in OpIds : []<>(opState[r] # "pending" \/ opDisc)

-----------------------------------------------------------------------------
\* What netsrv says of itself is so: mqtt_connected is not left set once a session is over,
\* no reconnect call is slept through, and a row of the operation log that is marked as
\* uploaded, or pruned, has reached the broker.
CloudSound == MqConnectedIsLive /\ MqNoLostWakeup /\ OpNothingLost

=============================================================================
