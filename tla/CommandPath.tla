----------------------------- MODULE CommandPath -----------------------------
(***************************************************************************)
(* A command to one action point, from the slot in shared memory to the    *)
(* device: dispatchers of modsrv write the slot and notify comsrv over a   *)
(* socket, the listener of comsrv drops what is stale, and hands the rest  *)
(* to the queue of the channel, whose task executes it.                    *)
(*                                                                         *)
(* Commands are numbered in the order in which they are written to the     *)
(* slot.  Both processes may stop and start at any time, a send may fail,  *)
(* and the channel may be removed, created again or lose its task.         *)
(***************************************************************************)
EXTENDS Naturals, Sequences, FiniteSets

CONSTANTS Dispatchers,  \* tasks of modsrv that dispatch
          NotFinite,    \* commands whose value is NaN or infinite
          QueueCap,     \* capacity of the channel's command queue
          Workers,      \* worker threads of comsrv's runtime
          MaxCommands,  \* bound: commands
          MaxConns,     \* bound: connections
          MaxStarts     \* bound: starts of each process

ASSUME CapAssumption == QueueCap \in Nat \ {0} /\ Workers \in Nat \ {0}
ASSUME BoundAssumption == MaxCommands \in Nat /\ MaxConns \in Nat /\ MaxStarts \in Nat \ {0}
ASSUME NotFiniteAssumption == NotFinite \subseteq 1 .. MaxCommands

Commands == 1 .. MaxCommands
Conns == 1 .. MaxConns

VARIABLES
    slot,      \* the command in the slot and the modsrv process that wrote it
    task,      \* the dispatchers: step and command
    life,      \* ShmNotifier.producer_id: one for each start of modsrv
    nextSeq,   \* ShmNotifier.next_seq
    stream,    \* ShmNotifier.stream: a connection, 0 when None
    backoff,   \* the backoff period has not elapsed
    made,      \* connections made so far
    conn,      \* the connections: client end open, messages, handler and its message
    comsrv,    \* comsrv is listening
    starts,    \* starts of comsrv
    last,      \* last_sequences of the point
    channel,   \* the registered channel: "none", "up", or "closed" when its task is gone
    queue,     \* the channel's command queue
    blocked,   \* a worker thread waits in unregister_channel()
    device,    \* the last message executed
    fate,      \* history: what became of a command
    top,       \* history: the highest sequence number accepted of each producer
    crossed    \* history: commands that overlapped another one in modsrv or the listener,
               \* or came late and were accepted all the same

modVars == <<slot, task, life, nextSeq, stream, backoff>>
channelVars == <<channel, queue, device>>
comsrvVars == <<comsrv, starts, last, blocked>>
vars == <<modVars, made, conn, comsrvVars, channelVars, fate, top, crossed>>

NoMessage == [cmd |-> 0, producer |-> 0, seq |-> 0]
Unused == [client |-> FALSE, buf |-> <<>>, at |-> "none", msg |-> NoMessage]
Idle == [at |-> "idle", cmd |-> 0]

Init ==
    /\ slot = NoMessage /\ task = [d \in Dispatchers |-> Idle]
    /\ life = 1 /\ nextSeq = 1 /\ stream = 0 /\ backoff = TRUE
    /\ made = 0 /\ conn = [c \in Conns |-> Unused]
    /\ comsrv = FALSE /\ starts = 0 /\ last = NoMessage /\ blocked = FALSE
    /\ channel = "none" /\ queue = <<>> /\ device = NoMessage
    /\ fate = [n \in Commands |-> "none"] /\ crossed = {}
    /\ top = [p \in 1 .. MaxStarts |-> 0]

\* The commands of a sequence of messages
CmdsOf(s) == {s[i].cmd : i \in DOMAIN s}

Becomes(cmds, f) == fate' = [n \in Commands |-> IF n \in cmds THEN f ELSE fate[n]]

-----------------------------------------------------------------------------
(* modsrv: ShmDispatch::dispatch and ShmNotifier *)

Busy == {d \in Dispatchers : task[d].at # "idle"}

\* set_action(): the slot now holds the command.
WriteSlot(d) ==
    /\ task[d].at = "idle" /\ slot.cmd < MaxCommands
    /\ LET n == slot.cmd + 1 IN
          /\ slot' = [cmd |-> n, producer |-> life, seq |-> 0]
          /\ task' = [task EXCEPT ![d] = [at |-> "lock", cmd |-> n]]
          /\ Becomes({n}, "written")
          /\ crossed' = IF Busy = {} THEN crossed ELSE crossed \cup {n} \cup {task[e].cmd : e \in Busy}
    /\ UNCHANGED <<life, nextSeq, stream, backoff, made, conn, comsrvVars, channelVars, top>>

Return(d) == task' = [task EXCEPT ![d] = Idle]

\* The lock of the notifier is not had within 100 ms: ShmOnly.
LockTimeout(d) ==
    /\ task[d].at = "lock" /\ Busy # {d}
    /\ Return(d) /\ Becomes({task[d].cmd}, "degraded")
    /\ UNCHANGED <<slot, life, nextSeq, stream, backoff, made, conn, comsrvVars, channelVars, crossed, top>>

TakeLock(d) ==
    /\ task[d].at = "lock" /\ \A e \in Dispatchers : task[e].at \in {"idle", "lock"}
    /\ task' = [task EXCEPT ![d].at = "reconnect"]
    /\ UNCHANGED <<slot, life, nextSeq, stream, backoff, made, conn, comsrvVars, channelVars, fate, crossed, top>>

\* UnixStream::connect to the listener: it spawns a handler for the new stream.
Connect ==
    /\ comsrv /\ made < MaxConns
    /\ made' = made + 1 /\ stream' = made + 1
    /\ conn' = [conn EXCEPT ![made + 1] = [Unused EXCEPT !.client = TRUE, !.at = "read"]]

\* try_reconnect()
KeepStream(d) ==
    /\ task[d].at = "reconnect" /\ (stream # 0 \/ backoff)
    /\ task' = [task EXCEPT ![d].at = "send"]
    /\ UNCHANGED <<slot, life, nextSeq, stream, backoff, made, conn, comsrvVars, channelVars, fate, crossed, top>>

Reconnect(d) ==
    /\ task[d].at = "reconnect" /\ stream = 0 /\ ~backoff
    /\ Connect
    /\ task' = [task EXCEPT ![d].at = "send"]
    /\ UNCHANGED <<slot, life, nextSeq, backoff, comsrvVars, channelVars, fate, crossed, top>>

ReconnectFails(d) ==
    /\ task[d].at = "reconnect" /\ stream = 0 /\ ~backoff
    /\ backoff' = TRUE
    /\ task' = [task EXCEPT ![d].at = "send"]
    /\ UNCHANGED <<slot, life, nextSeq, stream, made, conn, comsrvVars, channelVars, fate, crossed, top>>

BackoffElapses ==
    /\ backoff /\ backoff' = FALSE
    /\ UNCHANGED <<slot, task, life, nextSeq, stream, made, conn, comsrvVars, channelVars, fate, crossed, top>>

\* write_all() succeeds: Delivered.
Send(d) ==
    /\ task[d].at = "send" /\ stream # 0 /\ conn[stream].at # "none"
    /\ LET m == [cmd |-> task[d].cmd, producer |-> life, seq |-> nextSeq] IN
          conn' = [conn EXCEPT ![stream].buf = Append(@, m)]
    /\ nextSeq' = nextSeq + 1
    /\ Return(d) /\ Becomes({task[d].cmd}, "sent")
    /\ UNCHANGED <<slot, life, stream, backoff, made, comsrvVars, channelVars, crossed, top>>

\* It fails three times: the stream is given up, what it holds can still be read.
SendFails(d) ==
    /\ task[d].at = "send" /\ stream # 0
    /\ conn' = [conn EXCEPT ![stream].client = FALSE]
    /\ stream' = 0 /\ backoff' = TRUE /\ nextSeq' = nextSeq + 1
    /\ Return(d) /\ Becomes({task[d].cmd}, "degraded")
    /\ UNCHANGED <<slot, life, made, comsrvVars, channelVars, crossed, top>>

NoStream(d) ==
    /\ task[d].at = "send" /\ stream = 0
    /\ Return(d) /\ Becomes({task[d].cmd}, "degraded")
    /\ UNCHANGED <<slot, life, nextSeq, stream, backoff, made, conn, comsrvVars, channelVars, crossed, top>>

\* modsrv stops and starts again, as a new producer with a stream of its own.
ModsrvRestarts ==
    /\ life < MaxStarts
    /\ life' = life + 1 /\ nextSeq' = 1 /\ stream' = 0 /\ backoff' = TRUE
    /\ task' = [d \in Dispatchers |-> Idle]
    /\ conn' = [c \in Conns |-> [conn[c] EXCEPT !.client = FALSE]]
    /\ Becomes({task[d].cmd : d \in Busy}, "degraded")
    /\ UNCHANGED <<slot, made, comsrvVars, channelVars, crossed, top>>

-----------------------------------------------------------------------------
(* comsrv: ShmCommandListener and the channel *)

\* A worker thread is left to run tasks and timers.
CanRun == comsrv /\ (blocked => Workers > 1)

\* Mutant: the handler ends with its client and leaves the rest unread.
ConnectionEndsEarly(c) ==
    /\ CanRun /\ conn[c].at = "read" /\ ~conn[c].client
    /\ conn' = [conn EXCEPT ![c] = Unused]
    /\ UNCHANGED <<modVars, made, comsrvVars, channelVars, fate, crossed, top>>

\* A connection ends when its client end is closed and everything was read.
ConnectionEnds(c) ==
    /\ CanRun /\ conn[c].at = "read" /\ ~conn[c].client /\ conn[c].buf = <<>>
    /\ conn' = [conn EXCEPT ![c] = Unused]
    /\ UNCHANGED <<modVars, made, comsrvVars, channelVars, fate, crossed, top>>

\* Stale or duplicate for the listener, which compares with the last message of
\* the same producer only.
Stale(m) == last.producer = m.producer /\ m.seq <= last.seq

\* handle_notification() up to the first await: the sequence map, the value.
Discard(c) ==
    /\ CanRun /\ conn[c].at = "read" /\ conn[c].buf # <<>> /\ Stale(Head(conn[c].buf))
    /\ conn' = [conn EXCEPT ![c].buf = Tail(@)]
    /\ Becomes({Head(conn[c].buf).cmd}, "lost")
    /\ UNCHANGED <<modVars, made, comsrvVars, channelVars, crossed, top>>

\* Handlers between the sequence map and the end of send()
Holding == {c \in Conns : conn[c].at \in {"send", "wait"}}

\* A message that came late and is not stale for the listener, because one of another
\* producer has been accepted since and the map remembers one producer only.
Forgotten(m) == ~Stale(m) /\ m.seq <= top[m.producer]

\* The history of an accepted message
Record(m, others) ==
    /\ top' = [top EXCEPT ![m.producer] = IF m.seq > @ THEN m.seq ELSE @]
    /\ crossed' = crossed \cup (IF others = {} THEN {} ELSE {m.cmd} \cup {conn[e].msg.cmd : e \in others})
                          \cup (IF Forgotten(m) THEN {m.cmd} ELSE {})

\* Mutant: the sequence map is written but not read.
AcceptStale(c) ==
    /\ CanRun /\ conn[c].at = "read" /\ conn[c].buf # <<>>
    /\ LET m == Head(conn[c].buf)
           others == Holding \ {c}
       IN /\ last' = m
          /\ conn' = [conn EXCEPT ![c].buf = Tail(@),
                                  ![c].at = IF m.cmd \in NotFinite \/ channel = "none" THEN "read" ELSE "send",
                                  ![c].msg = IF m.cmd \in NotFinite \/ channel = "none" THEN NoMessage ELSE m]
          /\ Becomes(IF m.cmd \in NotFinite \/ channel = "none" THEN {m.cmd} ELSE {}, "lost")
          /\ Record(m, others)
    /\ UNCHANGED <<modVars, made, comsrv, starts, blocked, channelVars>>

\* The message is new: it is recorded, and discarded after all when its value is not
\* finite or no channel is registered; otherwise the handler is in send(), with
\* its reference into the sender map.
Accept(c) ==
    /\ CanRun /\ conn[c].at = "read" /\ conn[c].buf # <<>> /\ ~Stale(Head(conn[c].buf))
    /\ LET m == Head(conn[c].buf)
           refused == m.cmd \in NotFinite \/ channel = "none"
           others == Holding \ {c}
       IN /\ last' = m
          /\ conn' = [conn EXCEPT ![c].buf = Tail(@),
                                  ![c].at = IF refused THEN "read" ELSE "send",
                                  ![c].msg = IF refused THEN NoMessage ELSE m]
          /\ Becomes(IF refused THEN {m.cmd} ELSE {}, "lost")
          /\ Record(m, others)
    /\ UNCHANGED <<modVars, made, comsrv, starts, blocked, channelVars>>

Enqueue(c) ==
    /\ CanRun /\ c \in Holding /\ channel = "up" /\ Len(queue) < QueueCap
    /\ queue' = Append(queue, conn[c].msg)
    /\ conn' = [conn EXCEPT ![c].at = "read", ![c].msg = NoMessage]
    /\ UNCHANGED <<modVars, made, comsrvVars, channel, device, fate, crossed, top>>

\* The queue is full: the handler is suspended.
SendWaits(c) ==
    /\ CanRun /\ conn[c].at = "send" /\ channel = "up" /\ Len(queue) = QueueCap
    /\ conn' = [conn EXCEPT ![c].at = "wait"]
    /\ UNCHANGED <<modVars, made, comsrvVars, channelVars, fate, crossed, top>>

\* Mutant: only a full queue ends the wait.
SendDroppedFull(c) ==
    /\ CanRun /\ conn[c].at = "wait" /\ channel = "up" /\ Len(queue) = QueueCap
    /\ conn' = [conn EXCEPT ![c].at = "read", ![c].msg = NoMessage]
    /\ Becomes({conn[c].msg.cmd}, "lost")
    /\ UNCHANGED <<modVars, made, comsrvVars, channelVars, crossed, top>>

\* The queue has been full for 50 ms, or its receiver is gone.
SendDropped(c) ==
    /\ CanRun /\ c \in Holding /\ (channel = "closed" \/ (conn[c].at = "wait" /\ Len(queue) = QueueCap))
    /\ conn' = [conn EXCEPT ![c].at = "read", ![c].msg = NoMessage]
    /\ Becomes({conn[c].msg.cmd}, "lost")
    /\ UNCHANGED <<modVars, made, comsrvVars, channelVars, crossed, top>>

\* The channel task executes the next command.
Execute ==
    /\ CanRun /\ channel = "up" /\ queue # <<>>
    /\ device' = Head(queue) /\ queue' = Tail(queue)
    /\ Becomes({Head(queue).cmd}, "done")
    /\ UNCHANGED <<modVars, made, conn, comsrvVars, channel, crossed, top>>

\* create_channel: register_channel()
Register ==
    /\ CanRun /\ channel = "none"
    /\ channel' = "up"
    /\ UNCHANGED <<modVars, made, conn, comsrvVars, queue, device, fate, crossed, top>>

\* The task of the channel ends by itself; the commands in its queue go with it.
TaskEnds ==
    /\ CanRun /\ channel = "up"
    /\ channel' = "closed" /\ queue' = <<>>
    /\ Becomes(CmdsOf(queue), "lost")
    /\ UNCHANGED <<modVars, made, conn, comsrvVars, device, crossed, top>>

\* remove_channel: unregister_channel() and the end of the task.  The removal from
\* the map waits, and a worker thread with it, while a handler holds a reference;
\* with one worker that handler is suspended.
Unregister ==
    /\ channel # "none" /\ Holding = {} /\ (CanRun \/ blocked)
    /\ channel' = "none" /\ queue' = <<>> /\ blocked' = FALSE
    /\ Becomes(CmdsOf(queue), "lost")
    /\ UNCHANGED <<modVars, made, conn, comsrv, starts, last, device, crossed, top>>

UnregisterWaits ==
    /\ CanRun /\ ~blocked /\ channel # "none" /\ Holding # {}
    /\ Workers = 1 => \A c \in Holding : conn[c].at = "wait"
    /\ blocked' = TRUE
    /\ UNCHANGED <<modVars, made, conn, comsrv, starts, last, channelVars, fate, crossed, top>>

ComsrvStarts ==
    /\ ~comsrv /\ starts < MaxStarts
    /\ comsrv' = TRUE /\ starts' = starts + 1
    /\ UNCHANGED <<modVars, made, conn, last, blocked, channelVars, fate, crossed, top>>

\* Everything in comsrv's memory and in the sockets is gone.
ComsrvStops ==
    /\ comsrv
    /\ comsrv' = FALSE /\ last' = NoMessage /\ blocked' = FALSE
    /\ conn' = [c \in Conns |-> [Unused EXCEPT !.client = conn[c].client]]
    /\ channel' = "none" /\ queue' = <<>>
    /\ Becomes(CmdsOf(queue) \cup UNION {CmdsOf(conn[c].buf) \cup {conn[c].msg.cmd} : c \in Conns}, "lost")
    /\ UNCHANGED <<modVars, made, starts, device, crossed, top>>

-----------------------------------------------------------------------------
Dispatch(d) ==
    \/ LockTimeout(d) \/ TakeLock(d) \/ KeepStream(d) \/ Reconnect(d) \/ ReconnectFails(d)
    \/ Send(d) \/ SendFails(d) \/ NoStream(d)

Handle(c) == ConnectionEnds(c) \/ Discard(c) \/ Accept(c) \/ Enqueue(c) \/ SendWaits(c) \/ SendDropped(c)

Next ==
    \/ \E d \in Dispatchers : WriteSlot(d) \/ Dispatch(d)
    \/ \E c \in Conns : Handle(c)
    \/ BackoffElapses \/ ModsrvRestarts \/ Execute \/ Register \/ TaskEnds
    \/ Unregister \/ UnregisterWaits \/ ComsrvStarts \/ ComsrvStops

Spec == Init /\ [][Next]_vars

\* Started dispatches, the handlers and the channel task go on.
FairSpec ==
    /\ Spec
    /\ \A d \in Dispatchers : WF_vars(Dispatch(d))
    /\ \A c \in Conns : WF_vars(Handle(c))
    /\ WF_vars(Execute) /\ WF_vars(blocked /\ Unregister)

-----------------------------------------------------------------------------
(* Properties *)

Messages == [cmd : 0 .. MaxCommands, producer : 0 .. MaxStarts, seq : Nat]
Tasks == [at : {"idle", "lock", "reconnect", "send"}, cmd : 0 .. MaxCommands]
Connections == [client : BOOLEAN, buf : Seq(Messages), at : {"none", "read", "send", "wait"}, msg : Messages]
Fates == {"none", "written", "degraded", "sent", "lost", "done"}

\* Messages, connections and the channel's queue keep their types: the queue stays
\* within its capacity although several handlers of connections send into it.
TypeOK ==
    /\ slot \in Messages /\ task \in [Dispatchers -> Tasks]
    /\ life \in 1 .. MaxStarts /\ nextSeq \in Nat \ {0} /\ stream \in 0 .. made /\ backoff \in BOOLEAN
    /\ made \in 0 .. MaxConns
    /\ conn \in [Conns -> Connections]
    /\ comsrv \in BOOLEAN /\ starts \in 0 .. MaxStarts /\ last \in Messages /\ blocked \in BOOLEAN
    /\ channel \in {"none", "up", "closed"} /\ queue \in Seq(Messages) /\ Len(queue) <= QueueCap
    /\ device \in Messages
    /\ fate \in [Commands -> Fates]
    /\ top \in [1 .. MaxStarts -> Nat] /\ crossed \subseteq 0 .. MaxCommands

\* For one producer the device executes commands in the order of the slot, unless
\* two of them overlapped in modsrv (between the slot and the lock of the notifier)
\* or in the listener (between the sequence map and the queue), or one came late and
\* the sequence map had forgotten its producer for another one.
InOrder ==
    [][device' # device /\ device'.producer = device.producer /\ device'.cmd < device.cmd
        => {device.cmd, device'.cmd} \cap crossed # {}]_vars

\* Once nothing is on its way, the device has done what the slot shows, if that
\* command was executed at all and neither overlapped another one nor was followed
\* by one of an earlier modsrv.
DeviceMatchesSlot ==
    /\ Busy = {} /\ queue = <<>> /\ Holding = {} /\ \A c \in Conns : conn[c].buf = <<>>
    /\ slot.cmd # 0 /\ fate[slot.cmd] = "done" /\ device.producer = slot.producer /\ crossed = {}
    => device.cmd = slot.cmd

\* A command that was reported as delivered is executed or lost in comsrv in the end:
\* no handler and no queue keeps it.
DeliveredSettles == \A n \in Commands : fate[n] = "sent" ~> fate[n] \in {"done", "lost"}

\* A handler that waits for a full queue goes on: "50ms timeout allows brief buffer
\* congestion without blocking event loop".
SendReturns == \A c \in Conns : c \in Holding ~> c \notin Holding
=============================================================================
