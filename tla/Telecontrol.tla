---------------------------- MODULE Telecontrol ----------------------------
(***************************************************************************)
(* The adapters that both receive readings and carry commands: IEC 104, OPC UA, *)
(* GPIO pins and Matter nodes.                                             *)
(***************************************************************************)
EXTENDS Naturals, Sequences, FiniteSets, TLC

-----------------------------------------------------------------------------
(*----------------------------- Iec104Channel -----------------------------*)
(***************************************************************************)
(* comsrv's IEC 60870-5-104 adapter: readings arrive by information object *)
(* address (IOA) and are stored by point, commands name a point and leave  *)
(* by IOA.  ioa_mapping is keyed by IOA, point_index by the point's id     *)
(* alone, though a channel numbers its points per type.                    *)
(*                                                                         *)
(* The client library is external: a queue of events, "closed" the last.   *)
(***************************************************************************)

CONSTANTS IeConfigs,  \* point lists: sequences of [id, type, ioa], T before S before C before A
          IeIoas,     \* addresses the outstation reports or confirms
          IeEvents    \* bound: events in the client's queue

VARIABLES
    iePoints,  \* config.points
    ieState,   \* connection_state
    ieQueue,   \* the client's events not yet polled: an IOA, or 0 for "closed"
    ieStored,  \* what reached the store: [key, ioa]
    ieSent     \* commands on the wire: [id, type, ioa]

ieVars == <<iePoints, ieState, ieQueue, ieStored, ieSent>>

IeClosed == 0

\* with_points(): the later of two points of one IOA wins.
IeMapping(ioa) ==
    LET at == {i \in DOMAIN iePoints : iePoints[i].ioa = ioa}
        last == CHOOSE i \in at : \A j \in at : j <= i
    IN  IF at = {} THEN <<ioa, "T">> ELSE <<iePoints[last].id, iePoints[last].type>>

\* point_index: the later of two points of one id wins, whatever their types.
IeFind(id) ==
    LET at == {i \in DOMAIN iePoints : iePoints[i].id = id}
    IN  {iePoints[i] : i \in {i \in at : \A j \in at : j <= i}}

IeInit ==
    /\ iePoints \in IeConfigs
    /\ ieState = "Disconnected" /\ ieQueue = <<>>
    /\ ieStored = {} /\ ieSent = {}

IeConnect ==
    /\ ieState # "Connected"
    /\ \/ ieState' = "Connected" /\ ieQueue' = <<>>
       \/ ieState' = "Error" /\ UNCHANGED ieQueue
    /\ UNCHANGED <<iePoints, ieStored, ieSent>>

\* stop_data_transfer() is tried first; a client that fails to close keeps the state.
IeDisconnect ==
    /\ ieState = "Connected"
    /\ ieState' \in {"Disconnected", "Connected"} /\ ieQueue' = <<>>
    /\ UNCHANGED <<iePoints, ieStored, ieSent>>

IeReport(ioa) ==
    /\ ieState = "Connected" /\ Len(ieQueue) < IeEvents
    /\ \A i \in DOMAIN ieQueue : ieQueue[i] # IeClosed
    /\ ieQueue' = Append(ieQueue, ioa)
    /\ UNCHANGED <<iePoints, ieState, ieStored, ieSent>>

\* poll_once() takes one event; all but data are dropped, an error is counted.
IePoll ==
    /\ ieState = "Connected" /\ ieQueue # <<>>
    /\ ieQueue' = Tail(ieQueue)
    /\ ieStored' = IF Head(ieQueue) = IeClosed THEN ieStored
                   ELSE ieStored \cup {[key |-> IeMapping(Head(ieQueue)), ioa |-> Head(ieQueue)]}
    /\ UNCHANGED <<iePoints, ieState, ieSent>>

\* write_control() and write_adjustment() of one point of type t.
IeWrite(id, t) ==
    /\ ieState = "Connected"
    /\ ieSent' = ieSent \cup {[id |-> id, type |-> t, ioa |-> p.ioa] : p \in IeFind(id)}
    /\ UNCHANGED <<iePoints, ieState, ieQueue, ieStored>>

IeNext ==
    \/ IeConnect \/ IeDisconnect \/ IePoll
    \/ \E ioa \in IeIoas \cup {IeClosed} : IeReport(ioa)
    \/ \E i \in DOMAIN iePoints : iePoints[i].type \in {"C", "A"} /\ IeWrite(iePoints[i].id, iePoints[i].type)

IeSpec == IeInit /\ [][IeNext]_ieVars

----------------------------------------------------------------------------

IePoint(id, t) == {i \in DOMAIN iePoints : iePoints[i].id = id /\ iePoints[i].type = t}

\* Types of the channel's state.
IeTypeOK ==
    /\ ieState \in {"Disconnected", "Connected", "Error"}
    /\ Len(ieQueue) <= IeEvents

\* A value stored under a configured point was reported by that point's address,
\* unless an address without a point happens to be the number of a telemetry point.
IeOwnReading ==
    (\A ioa \in IeIoas : (\A i \in DOMAIN iePoints : iePoints[i].ioa # ioa) => IePoint(ioa, "T") = {})
        => \A e \in ieStored : \A i \in IePoint(e.key[1], e.key[2]) : iePoints[i].ioa = e.ioa

\* A command for a control or adjustment point leaves with that point's address,
\* where no two points of the channel share their number.
IeOwnCommand ==
    (\A i, j \in DOMAIN iePoints : iePoints[i].id = iePoints[j].id => i = j)
        => \A c \in ieSent : \A i \in IePoint(c.id, c.type) : iePoints[i].ioa = c.ioa

-----------------------------------------------------------------------------
(*------------------------------ OpcUaChannel -----------------------------*)
(***************************************************************************)
(* comsrv's OPC UA adapter: a session, the subscription made on it, one    *)
(* spawned task per data change, and the tables from node to point id and  *)
(* from point id to point.                                                 *)
(*                                                                         *)
(* A node is a model value; a value is the number of its change.           *)
(***************************************************************************)

CONSTANTS OuConfigs,  \* point lists: sequences of [id, type, node]
          OuNodes,    \* nodes of the server
          OuChanges,  \* bound: data changes
          OuSessions  \* bound: sessions opened

VARIABLES
    ouPoints,   \* config.points
    ouState,    \* connection_state
    ouSession,  \* the session held, 0 for none
    ouOpened,   \* sessions opened
    ouSub,      \* subscription_id: the session it was made on, 0 for none
    ouItems,    \* nodes monitored by the subscription
    ouClock,    \* data changes so far
    ouTasks,    \* spawned handle_data_change(): [node, val]
    ouBus       \* DataUpdate events sent: [id, type, node, val]

ouVars == <<ouPoints, ouState, ouSession, ouOpened, ouSub, ouItems, ouClock, ouTasks, ouBus>>

OuInit ==
    /\ ouPoints \in OuConfigs
    /\ ouState = "Disconnected" /\ ouSession = 0 /\ ouOpened = 0
    /\ ouSub = 0 /\ ouItems = {} /\ ouClock = 0 /\ ouTasks = {} /\ ouBus = <<>>

\* with_points(): the last point of a node, and the last point of an id, win.
OuLast(at) == {i \in at : \A j \in at : j <= i}
OuPointOfNode(node) == {ouPoints[i].id : i \in OuLast({i \in DOMAIN ouPoints : ouPoints[i].node = node})}
OuPointIndex(id) == {ouPoints[i] : i \in OuLast({i \in DOMAIN ouPoints : ouPoints[i].id = id})}

----------------------------------------------------------------------------

OuConnect ==
    /\ ouState # "Connected" /\ ouOpened < OuSessions
    /\ ouOpened' = ouOpened + 1 /\ ouSession' = ouOpened + 1
    /\ ouState' = "Connected"
    /\ UNCHANGED <<ouPoints, ouSub, ouItems, ouClock, ouTasks, ouBus>>

\* No endpoint answers, or the caller's timeout drops connect().
OuConnectFails ==
    /\ ouState = "Disconnected"
    /\ ouState' = "Connecting"
    /\ UNCHANGED <<ouPoints, ouSession, ouOpened, ouSub, ouItems, ouClock, ouTasks, ouBus>>

OuDisconnect ==
    /\ ouSession' = 0 /\ ouSub' = 0 /\ ouItems' = {}
    /\ ouState' = "Disconnected"
    /\ UNCHANGED <<ouPoints, ouOpened, ouClock, ouTasks, ouBus>>

\* start(): create_subscription(), then add_monitored_items(), each of which may fail.
OuSubscribe ==
    /\ ouSession # 0
    /\ ouSub' = ouSession /\ ouItems' = {}
    /\ UNCHANGED <<ouPoints, ouState, ouSession, ouOpened, ouClock, ouTasks, ouBus>>

OuMonitor ==
    /\ ouSession # 0 /\ ouSub # 0 /\ ouItems = {}
    /\ ouItems' = {ouPoints[i].node : i \in DOMAIN ouPoints}
    /\ UNCHANGED <<ouPoints, ouState, ouSession, ouOpened, ouSub, ouClock, ouTasks, ouBus>>

\* stop()
OuStop ==
    /\ ouSession # 0 /\ ouSub # 0
    /\ ouSub' = 0 /\ ouItems' = {}
    /\ UNCHANGED <<ouPoints, ouState, ouSession, ouOpened, ouClock, ouTasks, ouBus>>

\* The callback of the subscription spawns a task for the change.
OuChange(node) ==
    /\ node \in ouItems /\ ouClock < OuChanges
    /\ ouClock' = ouClock + 1
    /\ ouTasks' = ouTasks \cup {[node |-> node, val |-> ouClock + 1]}
    /\ UNCHANGED <<ouPoints, ouState, ouSession, ouOpened, ouSub, ouItems, ouBus>>

\* handle_data_change(): the type and the transform are those of point_index.
OuHandle(t) ==
    /\ t \in ouTasks
    /\ ouTasks' = ouTasks \ {t}
    /\ IF OuPointOfNode(t.node) = {} THEN UNCHANGED ouBus
       ELSE \E id \in OuPointOfNode(t.node) : \E p \in OuPointIndex(id) :
              ouBus' = Append(ouBus, [id |-> id, type |-> p.type, node |-> t.node, val |-> t.val])
    /\ UNCHANGED <<ouPoints, ouState, ouSession, ouOpened, ouSub, ouItems, ouClock>>

OuNext ==
    \/ OuConnect \/ OuConnectFails \/ OuDisconnect \/ OuSubscribe \/ OuMonitor \/ OuStop
    \/ \E node \in OuNodes : OuChange(node)
    \/ \E t \in ouTasks : OuHandle(t)

OuSpec == OuInit /\ [][OuNext]_ouVars

----------------------------------------------------------------------------

\* Types of the adapter's state.
OuTypeOK ==
    /\ ouState \in {"Disconnected", "Connecting", "Connected"}
    /\ ouSession \in 0..OuSessions /\ ouSub \in 0..OuSessions
    /\ ouItems \subseteq OuNodes /\ ouClock \in 0..OuChanges

\* The subscription the adapter holds was made on the session it holds, through
\* every sequence of connects that fail, disconnects and stops: items are never
\* added to a subscription id of a session that is gone.
OuSubOfSession == ouSub # 0 => ouSub = ouSession

\* A published reading carries the id and the type of the point that monitors its
\* node, where no two points of the channel share a node or a number.
OuOwnReading ==
    (\A i, j \in DOMAIN ouPoints :
        (ouPoints[i].id = ouPoints[j].id \/ ouPoints[i].node = ouPoints[j].node) => i = j)
    => \A k \in DOMAIN ouBus : \E i \in DOMAIN ouPoints :
           /\ ouPoints[i].node = ouBus[k].node
           /\ ouPoints[i].id = ouBus[k].id /\ ouPoints[i].type = ouBus[k].type

-----------------------------------------------------------------------------
(*------------------------------ GpioChannel ------------------------------*)
(***************************************************************************)
(* comsrv's GPIO adapter: inputs are read at every poll, outputs are       *)
(* driven by commands and reported from a cache of the levels written.     *)
(* A pin may be active-low.  The pins keep their level when the service    *)
(* is restarted; the cache does not.                                       *)
(***************************************************************************)

CONSTANTS GpIns, GpOuts, \* point ids of the input and of the output pins
          GpLow,         \* the active-low ones among them
          GpSteps        \* bound: commands, changes of inputs and restarts

VARIABLES
    gpState,  \* connection_state; a new channel starts Connected
    gpReady,  \* sysfs: the outputs exported, with direction "out"
    gpLevel,  \* level of every pin
    gpCache,  \* output_states
    gpAsked,  \* the last command acknowledged per output: {} or {value}
    gpPolled, \* the last poll: the value per point, {} for a failure
    gpLeft    \* steps left

gpVars == <<gpState, gpReady, gpLevel, gpCache, gpAsked, gpPolled, gpLeft>>

GpPins == GpIns \cup GpOuts

\* read_pin() and write_pin(): the value of a level, the level of a value.
GpAdjusted(p, v) == IF p \in GpLow THEN ~v ELSE v

GpInit ==
    /\ gpState = "Connected" /\ gpReady = {}
    /\ gpLevel = [p \in GpPins |-> FALSE]
    /\ gpCache = [p \in GpOuts |-> FALSE]
    /\ gpAsked = [p \in GpOuts |-> {}]
    /\ gpPolled = [p \in GpPins |-> {}] /\ gpLeft = GpSteps

GpSpend == gpLeft > 0 /\ gpLeft' = gpLeft - 1

\* ensure_output() of the sysfs driver: exported if it is not, then made an output.
GpExported(ps) == gpReady \cup ps

\* connect(): init_output_pin() of each output; one that fails is only logged.
GpConnect ==
    /\ gpState # "Connected"
    /\ gpState' = "Connected" /\ \E ok \in SUBSET GpOuts : gpReady' = GpExported(ok)
    /\ UNCHANGED <<gpLevel, gpCache, gpAsked, gpPolled, gpLeft>>

GpDisconnect ==
    /\ gpState = "Connected" /\ gpState' = "Disconnected"
    /\ UNCHANGED <<gpReady, gpLevel, gpCache, gpAsked, gpPolled, gpLeft>>

\* write_control(): ensure_output(), the driver, then the cache.
GpWrite(p, v) ==
    /\ gpState = "Connected" /\ GpSpend
    /\ gpReady' = GpExported({p})
    /\ gpLevel' = [gpLevel EXCEPT ![p] = GpAdjusted(p, v)]
    /\ gpCache' = [gpCache EXCEPT ![p] = GpAdjusted(p, v)]
    /\ gpAsked' = [gpAsked EXCEPT ![p] = {v}]
    /\ UNCHANGED <<gpState, gpPolled>>

\* The driver fails, before or after the pin became an output.
GpWriteFails(p) ==
    /\ gpState = "Connected" /\ GpSpend
    /\ \E r \in SUBSET {p} : gpReady' = GpExported(r)
    /\ UNCHANGED <<gpState, gpLevel, gpCache, gpAsked, gpPolled>>

\* poll_once(), read_all(): inputs from the driver, outputs from the cache as it is.
GpPoll ==
    /\ gpState = "Connected"
    /\ \E failed \in SUBSET GpIns :
           gpPolled' = [p \in GpPins |->
               IF p \in GpOuts THEN {gpCache[p]}
               ELSE IF p \in failed THEN {} ELSE {GpAdjusted(p, gpLevel[p])}]
    /\ UNCHANGED <<gpState, gpReady, gpLevel, gpCache, gpAsked, gpLeft>>

\* The field changes an input.
GpChange(p) ==
    /\ GpSpend
    /\ gpLevel' = [gpLevel EXCEPT ![p] = ~@]
    /\ UNCHANGED <<gpState, gpReady, gpCache, gpAsked, gpPolled>>

\* The channel is created again, with the pins as they were.
GpRecreate ==
    /\ GpSpend
    /\ gpState' = "Connected" /\ gpCache' = [p \in GpOuts |-> FALSE]
    /\ gpAsked' = [p \in GpOuts |-> {}] /\ gpPolled' = [p \in GpPins |-> {}]
    /\ UNCHANGED <<gpReady, gpLevel>>

GpNext ==
    \/ GpConnect \/ GpDisconnect \/ GpPoll \/ GpRecreate
    \/ \E p \in GpOuts : GpWriteFails(p) \/ \E v \in BOOLEAN : GpWrite(p, v)
    \/ \E p \in GpIns : GpChange(p)

GpSpec == GpInit /\ [][GpNext]_gpVars

----------------------------------------------------------------------------

\* Types of the channel's state.
GpTypeOK ==
    /\ gpState \in {"Connected", "Disconnected"} /\ gpReady \subseteq GpOuts
    /\ gpLevel \in [GpPins -> BOOLEAN] /\ gpCache \in [GpOuts -> BOOLEAN]

\* An output that was commanded drives the level that stands for the command, and
\* goes on to do so through failed commands, reconnects and polls.
GpDrivesCommand ==
    \A p \in GpOuts : \A v \in gpAsked[p] : p \in gpReady /\ GpAdjusted(p, gpLevel[p]) = v

\* A poll that follows a command reports, for an active-high output, the command.
GpFeedback ==
    [][GpPoll => \A p \in GpOuts \ GpLow : gpAsked[p] # {} => gpPolled'[p] = gpAsked[p]]_gpVars

-----------------------------------------------------------------------------
(*----------------------------- MatterChannel -----------------------------*)
(***************************************************************************)
(* The Matter adapter: one UDP socket to a device, writes that send a      *)
(* frame and wait for a datagram, and a background loop that receives from *)
(* the same socket.  The network may delay or lose datagrams; the device   *)
(* answers requests and, if it is one that reports, sends frames of its    *)
(* own.                                                                    *)
(***************************************************************************)

CONSTANTS MtBatch,     \* commands of one write_control or write_adjustment
          MtReports,   \* the device reports and answers probes
          MtLate,      \* answers may arrive after the timeout
          MtWrites,    \* bound: batches
          MtWrap       \* exchange ids wrap here (2^16 in the code)

VARIABLES mtSocket,    \* the channel holds a socket
          mtLoop,      \* the event loop runs
          mtNextId,    \* next_exchange_id
          mtOut,       \* requests on their way to the device
          mtIn,        \* datagrams in the socket's buffer: [id, kind]
          mtOwed,      \* answers of the device still on their way
          mtApplied,   \* requests the device carried out: {<<batch, n>>}
          mtCmd,       \* the running write: [st, n, id, ok]
          mtTold,      \* batch -> what the caller was told: the count
          mtBatchNo    \* batches so far

mtVars == <<mtSocket, mtLoop, mtNextId, mtOut, mtIn, mtOwed, mtApplied, mtCmd,
            mtTold, mtBatchNo>>

MtProbe == <<0, 0>>
MtIdle == [st |-> "idle", n |-> 0, id |-> 0, ok |-> {}]

\* encode: type, exchange id and length in two bytes each, payload.
MtEncode(f) ==
    <<f.type, f.id % 256, f.id \div 256, Len(f.payload) % 256, Len(f.payload) \div 256>>
        \o f.payload

\* decode: the type is not kept; what follows the payload is ignored.
MtDecode(b) ==
    IF Len(b) < 5 THEN [ok |-> FALSE, id |-> 0, payload |-> <<>>]
    ELSE LET n == b[4] + 256 * b[5]
         IN IF Len(b) < 5 + n THEN [ok |-> FALSE, id |-> 0, payload |-> <<>>]
            ELSE [ok |-> TRUE, id |-> b[2] + 256 * b[3], payload |-> SubSeq(b, 6, 5 + n)]

MtInit ==
    /\ mtSocket = FALSE /\ mtLoop = FALSE /\ mtNextId = 0
    /\ mtOut = <<>> /\ mtIn = <<>> /\ mtOwed = {} /\ mtApplied = {}
    /\ mtCmd = MtIdle /\ mtTold = <<>> /\ mtBatchNo = 0

MtFreshId == (mtNextId + 1) % MtWrap

\* connect: the probe is sent and nobody waits for its answer.
MtConnect ==
    /\ ~ mtSocket /\ mtCmd.st = "idle"
    /\ mtSocket' = TRUE /\ mtNextId' = MtFreshId
    /\ mtIn' = <<>>
    /\ mtOwed' = IF MtReports THEN {MtProbe} ELSE {}
    /\ UNCHANGED <<mtLoop, mtOut, mtApplied, mtCmd, mtTold, mtBatchNo>>

\* disconnect, also as stop_events: the loop is aborted, the socket dropped.
MtDisconnect ==
    /\ mtSocket /\ mtCmd.st = "idle"
    /\ mtSocket' = FALSE /\ mtLoop' = FALSE
    /\ mtIn' = <<>> /\ mtOwed' = {} /\ mtOut' = <<>>
    /\ UNCHANGED <<mtNextId, mtApplied, mtCmd, mtTold, mtBatchNo>>

MtStartEvents ==
    /\ mtSocket /\ ~ mtLoop
    /\ mtLoop' = TRUE
    /\ UNCHANGED <<mtSocket, mtNextId, mtOut, mtIn, mtOwed, mtApplied, mtCmd, mtTold,
                   mtBatchNo>>

\* write_control and write_adjustment begin.
MtWrite ==
    /\ mtSocket /\ mtCmd.st = "idle" /\ mtBatchNo < MtWrites
    /\ mtBatchNo' = mtBatchNo + 1
    /\ mtCmd' = [MtIdle EXCEPT !.st = "send", !.n = 1]
    /\ UNCHANGED <<mtSocket, mtLoop, mtNextId, mtOut, mtIn, mtOwed, mtApplied, mtTold>>

\* send_and_recv: the frame goes out under the next exchange id.
MtSendTo ==
    /\ mtCmd.st = "send"
    /\ mtOut' = Append(mtOut, <<mtBatchNo, mtCmd.n>>)
    /\ mtCmd' = [mtCmd EXCEPT !.st = "wait", !.id = mtNextId]
    /\ mtNextId' = MtFreshId
    /\ UNCHANGED <<mtSocket, mtLoop, mtIn, mtOwed, mtApplied, mtTold, mtBatchNo>>

\* The next command of the batch, or the count for the caller.
MtGoOn(ok) ==
    IF mtCmd.n < MtBatch
    THEN /\ mtCmd' = [mtCmd EXCEPT !.st = "send", !.n = @ + 1, !.ok = ok]
         /\ UNCHANGED mtTold
    ELSE /\ mtCmd' = MtIdle /\ mtTold' = Append(mtTold, ok)

\* The first datagram that decodes is the response.
MtRecv ==
    /\ mtCmd.st = "wait" /\ mtIn # <<>>
    /\ mtIn' = Tail(mtIn)
    /\ MtGoOn(mtCmd.ok \cup {mtCmd.n})
    /\ UNCHANGED <<mtSocket, mtLoop, mtNextId, mtOut, mtOwed, mtApplied, mtBatchNo>>

MtTimeout ==
    /\ mtCmd.st = "wait" /\ mtIn = <<>>
    /\ MtLate \/ \A a \in mtOwed : a = MtProbe
    /\ MtGoOn(mtCmd.ok)
    /\ mtOut' = IF MtLate THEN mtOut ELSE <<>>
    /\ UNCHANGED <<mtSocket, mtLoop, mtNextId, mtIn, mtOwed, mtApplied, mtBatchNo>>

\* run_event_loop takes whatever arrives, answers included.
MtLoopRecv ==
    /\ mtLoop /\ mtIn # <<>>
    /\ mtIn' = Tail(mtIn)
    /\ UNCHANGED <<mtSocket, mtLoop, mtNextId, mtOut, mtOwed, mtApplied, mtCmd, mtTold,
                   mtBatchNo>>

\* The device and the network.
MtDeviceApplies ==
    /\ mtOut # <<>>
    /\ mtOut' = Tail(mtOut)
    /\ mtApplied' = mtApplied \cup {Head(mtOut)}
    /\ mtOwed' = mtOwed \cup {Head(mtOut)}
    /\ UNCHANGED <<mtSocket, mtLoop, mtNextId, mtIn, mtCmd, mtTold, mtBatchNo>>

MtArrives(a) ==
    /\ a \in mtOwed /\ mtSocket
    /\ mtOwed' = mtOwed \ {a}
    /\ mtIn' = Append(mtIn, a)
    /\ UNCHANGED <<mtSocket, mtLoop, mtNextId, mtOut, mtApplied, mtCmd, mtTold, mtBatchNo>>

MtNext ==
    \/ MtConnect \/ MtDisconnect \/ MtStartEvents \/ MtWrite \/ MtSendTo \/ MtRecv
    \/ MtTimeout \/ MtLoopRecv \/ MtDeviceApplies \/ \E a \in mtOwed : MtArrives(a)

MtSpec == MtInit /\ [][MtNext]_mtVars

\* ------------------------------------------------------------------
\* Properties
\* ------------------------------------------------------------------
MtTypeOK ==
    /\ mtSocket \in BOOLEAN /\ mtLoop \in BOOLEAN
    /\ mtNextId \in 0..(MtWrap - 1)
    /\ mtCmd.st \in {"idle", "send", "wait"} /\ mtCmd.ok \subseteq 1..MtBatch
    /\ Len(mtTold) <= MtWrites

\* A command counted as written was carried out by the device, whatever was
\* lost before it (the count write_control returns).
MtCountTrue ==
    \A b \in DOMAIN mtTold : \A n \in mtTold[b] : <<b, n>> \in mtApplied

\* A frame reads back from its bytes, under every exchange id; a datagram
\* cut short is refused (encode, decode).
MtReadsBack ==
    mtSocket =>
      \A id \in {mtNextId, 255, 256, 65535}, p \in {<<>>, <<7>>, <<5, 0, 255>>} :
        LET b == MtEncode([type |-> 6, id |-> id, payload |-> p])
        IN /\ MtDecode(b) = [ok |-> TRUE, id |-> id, payload |-> p]
           /\ \A k \in 0..(Len(b) - 1) : ~ MtDecode(SubSeq(b, 1, k)).ok

=============================================================================
