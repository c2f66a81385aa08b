-------------------------- MODULE CommandPathProofs --------------------------
(***************************************************************************)
(* Proofs about CommandPath, for any number of dispatchers, connections,   *)
(* commands and restarts, and any capacity of the queue.  The messages are *)
(* seen as two sets: those that wait in a connection, and those that the   *)
(* listener has taken, which it holds, has queued or has executed.         *)
(***************************************************************************)
EXTENDS CommandPath, TLAPS

Waiting == UNION {{conn[c].buf[i] : i \in DOMAIN conn[c].buf} : c \in Conns}
Held == {conn[c].msg : c \in Holding}
Queued == {queue[i] : i \in DOMAIN queue}
Taken == {device} \cup Queued \cup Held

\* Where a message comes from: the sequence numbers of this modsrv are below the next one.
Known(m) ==
    /\ m.cmd \in 1 .. slot.cmd /\ m.producer \in 1 .. life
    /\ m.producer = life => m.seq < nextSeq
    /\ m.cmd = slot.cmd => m.producer = slot.producer

\* Of two messages of one producer that did not overlap, x was sent before y.
Before(x, y) == x.producer = y.producer /\ x.cmd \notin crossed /\ y.cmd \notin crossed => x.seq < y.seq

Origin ==
    /\ slot.cmd = 0 \/ slot.producer \in 1 .. life
    /\ \A m \in Waiting \cup Queued \cup Held : Known(m)
    /\ device = NoMessage \/ Known(device)

\* What a dispatcher has in hand is the slot's command, or commands overlapped it.
InHand ==
    \A d \in Busy :
        /\ task[d].cmd \in 1 .. slot.cmd
        /\ task[d].cmd = slot.cmd => slot.producer = life
        /\ \A n \in Commands : task[d].cmd < n /\ n <= slot.cmd => n \in crossed

SentInOrder == \A x, y \in Waiting \cup Taken : x.cmd < y.cmd => Before(x, y)

\* The history of what was taken, and the order in which it is executed.
TakenBelowTop == \A m \in Taken : m.producer # 0 => m.seq <= top[m.producer]
QueueInOrder == \A i, j \in DOMAIN queue : i < j => Before(queue[i], queue[j])
DeviceFirst == \A m \in Queued \cup Held : Before(device, m)
HeldLast == \A x \in Queued, y \in Held : Before(x, y)
HeldAlone == \A c, e \in Holding : c # e => conn[c].msg.cmd \in crossed

\* Once the slot's command is done, nothing else of its modsrv can still be executed.
NothingElse ==
    slot.cmd # 0 /\ fate[slot.cmd] = "done" /\ crossed = {} =>
        /\ \A m \in Taken : m.producer = slot.producer => m.cmd = slot.cmd
        /\ \A m \in Waiting : m.producer = slot.producer => m.cmd = slot.cmd \/ m.seq <= top[m.producer]

IInv ==
    /\ TypeOK /\ Origin /\ InHand /\ SentInOrder /\ TakenBelowTop
    /\ QueueInOrder /\ DeviceFirst /\ HeldLast /\ HeldAlone /\ NothingElse

-----------------------------------------------------------------------------
USE DEF Commands, Conns

LEMMA MessageTypes == NoMessage \in Messages /\ Unused \in Connections /\ Idle \in Tasks
<1>1. NoMessage \in Messages
  BY BoundAssumption DEF NoMessage, Messages
<1> QED BY <1>1, BoundAssumption DEF Unused, Idle, Connections, Tasks

LEMMA MessageFields ==
    \A m \in Messages : m.cmd \in 0 .. MaxCommands /\ m.producer \in 0 .. MaxStarts /\ m.seq \in Nat
BY Zenon DEF Messages

LEMMA StateTyped ==
    ASSUME TypeOK
    PROVE  /\ slot.cmd \in 0 .. MaxCommands /\ life \in 1 .. MaxStarts /\ nextSeq \in Nat \ {0}
           /\ made \in 0 .. MaxConns /\ stream \in 0 .. made /\ crossed \subseteq 0 .. MaxCommands
           /\ queue \in Seq(Messages) /\ device \in Messages /\ top \in [1 .. MaxStarts -> Nat]
<1>1. slot \in Messages
  BY Zenon DEF TypeOK
<1> QED BY <1>1, MessageFields, Zenon DEF TypeOK

LEMMA TaskTyped ==
    ASSUME TypeOK, NEW d \in Dispatchers
    PROVE  /\ task[d] \in Tasks /\ task[d].cmd \in 0 .. MaxCommands
           /\ Return(d) => task' \in [Dispatchers -> Tasks]
           /\ \A a \in {"idle", "lock", "reconnect", "send"} :
                  task' = [task EXCEPT ![d].at = a] => task' \in [Dispatchers -> Tasks]
<1>1. task[d] \in Tasks /\ task \in [Dispatchers -> Tasks]
  BY Zenon DEF TypeOK
<1>2. task[d].cmd \in 0 .. MaxCommands
  BY <1>1, Zenon DEF Tasks
<1>3. Return(d) => task' \in [Dispatchers -> Tasks]
  BY <1>1, MessageTypes, Zenon DEF Return
<1>4. ASSUME NEW a \in {"idle", "lock", "reconnect", "send"}, task' = [task EXCEPT ![d].at = a]
      PROVE  task' \in [Dispatchers -> Tasks]
  BY <1>1, <1>4, Zenon DEF Tasks
<1> QED BY <1>1, <1>2, <1>3, <1>4, Zenon

LEMMA ConnTyped ==
    ASSUME TypeOK, NEW c \in Conns
    PROVE  conn[c] \in Connections /\ conn[c].buf \in Seq(Messages) /\ conn[c].msg \in Messages /\ conn[c].msg.cmd \in 0 .. MaxCommands
BY Zenon DEF TypeOK, Connections, Messages

\* The types of messages, connections and the channel's queue are kept.
LEMMA TypeStep == TypeOK /\ [Next]_vars => TypeOK'
<1> SUFFICES ASSUME TypeOK, [Next]_vars PROVE TypeOK' BY Zenon
<1> USE CapAssumption, BoundAssumption, MessageTypes
<1> USE DEF modVars, channelVars, comsrvVars
<1>0. \A f \in {"none", "written", "degraded", "sent", "lost", "done"} : f \in Fates
  BY Zenon DEF Fates
<1>1. ASSUME NEW d \in Dispatchers, WriteSlot(d) PROVE TypeOK'
  <2> DEFINE n == slot.cmd + 1
  <2>a. slot.cmd < MaxCommands
    BY <1>1, Zenon DEF WriteSlot
  <2>b. slot.cmd \in 0 .. MaxCommands /\ life \in 0 .. MaxStarts
    BY StateTyped
  <2>0. n \in Commands /\ life \in 0 .. MaxStarts
    BY <2>a, <2>b DEF Commands
  <2>1. slot' = [cmd |-> n, producer |-> life, seq |-> 0] /\ task' = [task EXCEPT ![d] = [at |-> "lock", cmd |-> n]]
        /\ Becomes({n}, "written")
        /\ crossed' \subseteq crossed \cup {n} \cup {task[e].cmd : e \in Busy}
    BY <1>1, Zenon DEF WriteSlot
  <2> HIDE DEF n
  <2>5. slot' \in Messages
    BY <2>0, <2>1 DEF Messages
  <2>2. fate' \in [Commands -> Fates]
    BY <1>0, <2>1, Zenon DEF TypeOK, Becomes
  <2>3. crossed' \subseteq 0 .. MaxCommands
    <3>1. \A e \in Busy : task[e].cmd \in 0 .. MaxCommands
      BY TaskTyped, Zenon DEF Busy
    <3>2. crossed \subseteq 0 .. MaxCommands
      BY StateTyped, Zenon
    <3> QED BY <2>0, <2>1, <3>1, <3>2
  <2>4. task' \in [Dispatchers -> Tasks]
    BY <2>0, <2>1 DEF TypeOK, Tasks
  <2> QED BY <1>1, <2>5, <2>2, <2>3, <2>4, Zenon DEF WriteSlot, TypeOK
<1>2. ASSUME NEW d \in Dispatchers, LockTimeout(d) \/ NoStream(d) PROVE TypeOK'
  <2>1. task' \in [Dispatchers -> Tasks] /\ fate' \in [Commands -> Fates]
    BY <1>0, <1>2, TaskTyped, Zenon DEF LockTimeout, NoStream, Becomes, TypeOK
  <2> QED BY <1>2, <2>1, Zenon DEF LockTimeout, NoStream, TypeOK
<1>3. ASSUME NEW d \in Dispatchers, TakeLock(d) \/ KeepStream(d) \/ ReconnectFails(d) PROVE TypeOK'
  <2>1. task' \in [Dispatchers -> Tasks]
    BY <1>3, TaskTyped, Zenon DEF TakeLock, KeepStream, ReconnectFails
  <2> QED BY <1>3, <2>1, Zenon DEF TakeLock, KeepStream, ReconnectFails, TypeOK
<1>4. ASSUME NEW d \in Dispatchers, Reconnect(d) PROVE TypeOK'
  <2>1. made' \in 0 .. MaxConns /\ stream' \in 0 .. made'
    BY <1>4 DEF Reconnect, Connect, TypeOK
  <2>2. conn' \in [Conns -> Connections]
    BY <1>4, Zenon DEF Reconnect, Connect, TypeOK, Connections
  <2>3. task' \in [Dispatchers -> Tasks]
    BY <1>4, TaskTyped, Zenon DEF Reconnect
  <2> QED BY <1>4, <2>1, <2>2, <2>3, Zenon DEF Reconnect, Connect, TypeOK
<1>5. ASSUME NEW d \in Dispatchers, Send(d) PROVE TypeOK'
  <2> DEFINE m == [cmd |-> task[d].cmd, producer |-> life, seq |-> nextSeq]
  <2>a. stream # 0
    BY <1>5, Zenon DEF Send
  <2>1. m \in Messages /\ stream \in Conns
    <3>1. task[d].cmd \in 0 .. MaxCommands /\ life \in 0 .. MaxStarts /\ nextSeq \in Nat
      BY TaskTyped, StateTyped
    <3>2. stream \in Conns
      BY <2>a, StateTyped
    <3> QED BY <3>1, <3>2, Zenon DEF Messages
  <2>2. Append(conn[stream].buf, m) \in Seq(Messages)
    BY <2>1, ConnTyped
  <2>3. conn' = [conn EXCEPT ![stream].buf = Append(@, m)]
    BY <1>5, Zenon DEF Send
  <2> HIDE DEF m
  <2>4. conn' \in [Conns -> Connections]
    BY <2>1, <2>2, <2>3, Zenon DEF TypeOK, Connections
  <2>5. task' \in [Dispatchers -> Tasks] /\ fate' \in [Commands -> Fates]
    BY <1>0, <1>5, TaskTyped, Zenon DEF Send, Becomes, TypeOK
  <2> QED BY <1>5, <2>4, <2>5 DEF Send, TypeOK
<1>6. ASSUME NEW d \in Dispatchers, SendFails(d) PROVE TypeOK'
  <2>1. task' \in [Dispatchers -> Tasks] /\ fate' \in [Commands -> Fates]
    BY <1>0, <1>6, TaskTyped, Zenon DEF SendFails, Becomes, TypeOK
  <2>2. conn' \in [Conns -> Connections]
    BY <1>6, Zenon DEF SendFails, TypeOK, Connections
  <2>3. stream' \in 0 .. made' /\ backoff' \in BOOLEAN /\ nextSeq' \in Nat \ {0} /\ made' \in 0 .. MaxConns
    BY <1>6, StateTyped DEF SendFails
  <2> QED BY <1>6, <2>1, <2>2, <2>3, Zenon DEF SendFails, TypeOK
<1>7. ASSUME NEW c \in Conns, ConnectionEnds(c) PROVE TypeOK'
  BY <1>7, Zenon DEF ConnectionEnds, TypeOK
<1>8. ASSUME NEW c \in Conns, Discard(c) PROVE TypeOK'
  <2>1. Tail(conn[c].buf) \in Seq(Messages)
    BY <1>8, ConnTyped DEF Discard
  <2>2. conn' \in [Conns -> Connections]
    BY <1>8, <2>1, Zenon DEF Discard, TypeOK, Connections
  <2>3. fate' \in [Commands -> Fates]
    BY <1>0, <1>8, Zenon DEF Discard, Becomes, TypeOK
  <2> QED BY <1>8, <2>2, <2>3, Zenon DEF Discard, TypeOK
<1>9. ASSUME NEW c \in Conns, Accept(c) PROVE TypeOK'
  <2> DEFINE m == Head(conn[c].buf)
  <2>1. m \in Messages /\ Tail(conn[c].buf) \in Seq(Messages)
    BY <1>9, ConnTyped DEF Accept
  <2>2. conn' \in [Conns -> Connections]
    <3>1. PICK a \in {"read", "send"}, x \in Messages :
            conn' = [conn EXCEPT ![c].buf = Tail(@), ![c].at = a, ![c].msg = x]
      BY <1>9, <2>1, Zenon DEF Accept
    <3>2. conn \in [Conns -> Connections]
      BY Zenon DEF TypeOK
    <3> HIDE DEF m
    <3>3. [conn[c] EXCEPT !.buf = Tail(@), !.at = a, !.msg = x] \in Connections
      BY <2>1, <3>2, Zenon DEF Connections
    <3>4. conn' = [conn EXCEPT ![c] = [conn[c] EXCEPT !.buf = Tail(@), !.at = a, !.msg = x]]
      BY <3>1, <3>2, Zenon
    <3> QED BY <3>2, <3>3, <3>4, Zenon
  <2>3. fate' \in [Commands -> Fates]
    BY <1>0, <1>9, Zenon DEF Accept, Becomes, TypeOK
  <2>4. top' \in [1 .. MaxStarts -> Nat]
    BY <1>9, <2>1, Zenon DEF Accept, Record, TypeOK, Messages
  <2>5. crossed' \subseteq 0 .. MaxCommands
    <3>1. crossed' \subseteq crossed \cup {m.cmd} \cup {conn[e].msg.cmd : e \in Holding \ {c}}
      BY <1>9, Zenon DEF Accept, Record
    <3>2. \A e \in Holding \ {c} : conn[e].msg.cmd \in 0 .. MaxCommands
      BY ConnTyped, Zenon DEF Holding
    <3> QED BY <2>1, <3>1, <3>2, MessageFields, StateTyped, Zenon
  <2> QED BY <1>9, <2>1, <2>2, <2>3, <2>4, <2>5, Zenon DEF Accept, TypeOK
<1>10. ASSUME NEW c \in Conns, Enqueue(c) PROVE TypeOK'
  <2>1. queue' \in Seq(Messages) /\ Len(queue') <= QueueCap
    BY <1>10, ConnTyped DEF Enqueue, TypeOK
  <2>2. conn' \in [Conns -> Connections]
    BY <1>10, Zenon DEF Enqueue, TypeOK, Connections
  <2> QED BY <1>10, <2>1, <2>2, Zenon DEF Enqueue, TypeOK
<1>11. ASSUME NEW c \in Conns, SendWaits(c) PROVE TypeOK'
  <2>1. conn' \in [Conns -> Connections]
    BY <1>11, Zenon DEF SendWaits, TypeOK, Connections
  <2> QED BY <1>11, <2>1, Zenon DEF SendWaits, TypeOK
<1>12. ASSUME NEW c \in Conns, SendDropped(c) PROVE TypeOK'
  <2>1. conn' \in [Conns -> Connections]
    BY <1>12, Zenon DEF SendDropped, TypeOK, Connections
  <2>2. fate' \in [Commands -> Fates]
    BY <1>0, <1>12, Zenon DEF SendDropped, Becomes, TypeOK
  <2> QED BY <1>12, <2>1, <2>2, Zenon DEF SendDropped, TypeOK
<1>13. CASE BackoffElapses \/ Register \/ UnregisterWaits \/ ComsrvStarts
  <2>1. CASE BackoffElapses
    BY <2>1, Zenon DEF BackoffElapses, TypeOK
  <2>2. CASE Register
    BY <2>2, Zenon DEF Register, TypeOK
  <2>3. CASE UnregisterWaits
    BY <2>3, Zenon DEF UnregisterWaits, TypeOK
  <2>4. CASE ComsrvStarts
    BY <2>4 DEF ComsrvStarts, TypeOK
  <2> QED BY <1>13, <2>1, <2>2, <2>3, <2>4, Zenon
<1>14. CASE ModsrvRestarts
  <2>1. conn' \in [Conns -> Connections]
    BY <1>14, Zenon DEF ModsrvRestarts, TypeOK, Connections
  <2>2. fate' \in [Commands -> Fates]
    BY <1>0, <1>14, Zenon DEF ModsrvRestarts, Becomes, TypeOK
  <2> QED BY <1>14, <2>1, <2>2 DEF ModsrvRestarts, TypeOK
<1>15. CASE Execute
  <2>1. device' \in Messages /\ queue' \in Seq(Messages) /\ Len(queue') <= QueueCap
    BY <1>15 DEF Execute, TypeOK
  <2>2. fate' \in [Commands -> Fates]
    BY <1>0, <1>15, Zenon DEF Execute, Becomes, TypeOK
  <2> QED BY <1>15, <2>1, <2>2, Zenon DEF Execute, TypeOK
<1>16. CASE TaskEnds \/ Unregister
  <2>1. queue' \in Seq(Messages) /\ Len(queue') <= QueueCap
    <3>1. queue' = <<>>
      BY <1>16, Zenon DEF TaskEnds, Unregister
    <3> QED BY <3>1
  <2>2. fate' \in [Commands -> Fates]
    BY <1>0, <1>16, Zenon DEF TaskEnds, Unregister, Becomes, TypeOK
  <2> QED BY <1>16, <2>1, <2>2, Zenon DEF TaskEnds, Unregister, TypeOK
<1>18. CASE ComsrvStops
  <2>1. queue' \in Seq(Messages) /\ Len(queue') <= QueueCap
    BY <1>18 DEF ComsrvStops
  <2>2. conn' \in [Conns -> Connections]
    BY <1>18, Zenon DEF ComsrvStops, TypeOK, Connections
  <2>3. fate' \in [Commands -> Fates]
    BY <1>0, <1>18, Zenon DEF ComsrvStops, Becomes, TypeOK
  <2> QED BY <1>18, <2>1, <2>2, <2>3, Zenon DEF ComsrvStops, TypeOK
<1>19. CASE UNCHANGED vars
  BY <1>19, Zenon DEF vars, TypeOK
<1> QED
  BY <1>1, <1>2, <1>3, <1>4, <1>5, <1>6, <1>7, <1>8, <1>9, <1>10, <1>11, <1>12, <1>13, <1>14, <1>15, <1>16,
     <1>18, <1>19, Zenon DEF Next, Dispatch, Handle

-----------------------------------------------------------------------------
\* A step that sends, takes and executes nothing: messages disappear, dispatchers
\* return or go on with the command they have, sequence numbers go up.
Fades ==
    /\ slot' = slot /\ crossed' = crossed /\ top' = top /\ device' = device
    /\ \A c \in Conns : \A i \in DOMAIN conn'[c].buf : \E j \in DOMAIN conn[c].buf : conn'[c].buf[i] = conn[c].buf[j]
    /\ Holding' \subseteq Holding /\ \A c \in Holding' : conn'[c].msg = conn[c].msg
    /\ queue' = queue \/ queue' = <<>>
    /\ (life' = life /\ nextSeq' >= nextSeq) \/ (life' = life + 1 /\ Busy' = {})
    /\ \A d \in Busy' : d \in Busy /\ task'[d].cmd = task[d].cmd
    /\ \A n \in Commands : fate'[n] = "done" => fate[n] = "done"

LEMMA TailElements ==
    ASSUME NEW s \in Seq(Messages), s # <<>>, NEW i \in DOMAIN Tail(s)
    PROVE  i + 1 \in DOMAIN s /\ Tail(s)[i] = s[i + 1]
OBVIOUS

LEMMA MessageSets == TypeOK => Waiting \cup Queued \cup Held \subseteq Messages /\ device \in Messages
<1> SUFFICES ASSUME TypeOK PROVE Waiting \cup Queued \cup Held \subseteq Messages /\ device \in Messages BY Zenon
<1>1. \A c \in Conns : \A i \in DOMAIN conn[c].buf : conn[c].buf[i] \in Messages
  BY ConnTyped
<1>2. \A i \in DOMAIN queue : queue[i] \in Messages
  BY StateTyped
<1>3. \A c \in Holding : conn[c].msg \in Messages
  BY ConnTyped, Zenon DEF Holding
<1> QED BY <1>1, <1>2, <1>3, StateTyped DEF Waiting, Queued, Held

LEMMA FadesSets ==
    ASSUME Fades
    PROVE  Waiting' \subseteq Waiting /\ Held' \subseteq Held /\ Queued' \subseteq Queued /\ Taken' \subseteq Taken
<1>1. Waiting' \subseteq Waiting
  BY DEF Fades, Waiting
<1>2. Held' \subseteq Held
  BY Zenon DEF Fades, Held
<1>3. Queued' \subseteq Queued
  BY DEF Fades, Queued
<1> QED BY <1>1, <1>2, <1>3, Zenon DEF Taken, Fades

LEMMA FadesStep == ASSUME IInv, TypeOK', Fades PROVE IInv'
<1> USE FadesSets
<1> USE DEF IInv
<1>1. slot.cmd \in Nat /\ life \in Nat /\ nextSeq \in Nat /\ life' \in Nat /\ nextSeq' \in Nat
  <2>1. life' \in 1 .. MaxStarts /\ nextSeq' \in Nat
    BY Zenon DEF TypeOK
  <2> QED BY <2>1, StateTyped, BoundAssumption
<1>2. \A m \in Messages : Known(m) => Known(m)'
  BY <1>1, MessageFields, BoundAssumption DEF Known, Fades
<1>3. \A x, y : Before(x, y)' <=> Before(x, y)
  BY Zenon DEF Before, Fades
<1>4. Origin'
  <2>1. Waiting \cup Queued \cup Held \subseteq Messages /\ device \in Messages
    BY MessageSets, Zenon
  <2>2. slot'.cmd = 0 \/ slot'.producer \in 1 .. life'
    BY <1>1 DEF Origin, Fades
  <2> QED BY <1>2, <2>1, <2>2, Zenon DEF Origin, Fades
<1>5. InHand'
  <2>1. Busy' # {} => life' = life
    BY Zenon DEF Fades
  <2> QED BY <2>1, Zenon DEF InHand, Fades
<1>6. SentInOrder'
  BY <1>3, Zenon DEF SentInOrder
<1>7. TakenBelowTop'
  BY Zenon DEF TakenBelowTop, Fades
<1>8. QueueInOrder'
  BY <1>3 DEF QueueInOrder, Fades
<1>9. DeviceFirst' /\ HeldLast'
  BY <1>3, Zenon DEF DeviceFirst, HeldLast, Fades
<1>10. HeldAlone'
  BY Zenon DEF HeldAlone, Fades
<1>11. NothingElse'
  <2> SUFFICES ASSUME slot.cmd # 0, fate'[slot.cmd] = "done", crossed = {}
               PROVE  /\ \A m \in Taken' : m.producer = slot.producer => m.cmd = slot.cmd
                      /\ \A m \in Waiting' : m.producer = slot.producer => m.cmd = slot.cmd \/ m.seq <= top[m.producer]
    BY Zenon DEF NothingElse, Fades
  <2>1. fate[slot.cmd] = "done"
    BY StateTyped DEF Fades
  <2> QED BY <2>1, Zenon DEF NothingElse
<1> QED BY <1>4, <1>5, <1>6, <1>7, <1>8, <1>9, <1>10, <1>11, Zenon

-----------------------------------------------------------------------------
LEMMA KnownMessages ==
    ASSUME IInv
    PROVE  /\ slot.cmd \in 0 .. MaxCommands /\ slot.cmd \in Nat /\ life \in Nat \ {0} /\ nextSeq \in Nat
           /\ \A m \in Waiting \cup Taken : m.cmd \in Nat /\ m.producer \in Nat /\ m.seq \in Nat
           /\ \A m \in Waiting \cup Taken : m.producer # 0 => Known(m)
           /\ \A m \in Waiting \cup Queued \cup Held : m.producer # 0
<1>1. slot.cmd \in 0 .. MaxCommands /\ slot.cmd \in Nat /\ life \in Nat \ {0} /\ nextSeq \in Nat
  BY StateTyped, BoundAssumption DEF IInv
<1>2. \A m \in Waiting \cup Taken : m.cmd \in Nat /\ m.producer \in Nat /\ m.seq \in Nat
  BY MessageSets, MessageFields, BoundAssumption DEF IInv, Taken
<1>3. \A m \in Waiting \cup Queued \cup Held : Known(m) /\ m.producer # 0
  BY DEF IInv, Origin, Known
<1>4. device.producer # 0 => Known(device)
  BY DEF IInv, Origin, NoMessage
<1> QED BY <1>1, <1>2, <1>3, <1>4, Zenon DEF Taken

LEMMA SameMessages ==
    ASSUME UNCHANGED <<conn, queue, device>>
    PROVE  Waiting' = Waiting /\ Queued' = Queued /\ Held' = Held /\ Holding' = Holding /\ Taken' = Taken
BY DEF Waiting, Queued, Held, Holding, Taken

\* The slot's new command is later than every message, and overlaps what is in hand.
LEMMA WriteStep == ASSUME IInv, TypeOK', NEW d \in Dispatchers, WriteSlot(d) PROVE IInv'
<1> DEFINE n == slot.cmd + 1
<1>1. /\ UNCHANGED <<conn, queue, device>> /\ life' = life /\ nextSeq' = nextSeq /\ top' = top
      /\ slot' = [cmd |-> n, producer |-> life, seq |-> 0]
      /\ task' = [task EXCEPT ![d] = [at |-> "lock", cmd |-> n]]
      /\ crossed \subseteq crossed' /\ (Busy # {} => n \in crossed')
      /\ Becomes({n}, "written") /\ task[d].at = "idle"
  BY Zenon DEF WriteSlot, channelVars
<1>2. Waiting' = Waiting /\ Queued' = Queued /\ Held' = Held /\ Holding' = Holding /\ Taken' = Taken
  BY <1>1, SameMessages, Zenon
<1>3. n \in Nat \ {0} /\ n \in Commands /\ slot'.cmd = n /\ slot'.producer = life /\ life \in 1 .. life
  <2>1. slot'.cmd \in 0 .. MaxCommands
    BY MessageFields, Zenon DEF TypeOK
  <2> QED BY <1>1, <2>1, KnownMessages, StateTyped, BoundAssumption DEF IInv
<1> HIDE DEF n
<1>4. \A m \in Waiting \cup Taken : Known(m) => Known(m)'
  BY <1>1, <1>3, KnownMessages DEF Known, n
<1>5. \A x, y : Before(x, y) => Before(x, y)'
  BY <1>1, Zenon DEF Before
<1>6. Origin'
  BY <1>1, <1>2, <1>3, <1>4, Zenon DEF IInv, Origin, Taken
<1>7. InHand'
  <2> SUFFICES ASSUME NEW e \in Busy'
               PROVE  /\ task'[e].cmd \in 1 .. n
                      /\ task'[e].cmd = n => slot'.producer = life
                      /\ \A k \in Commands : task'[e].cmd < k /\ k <= n => k \in crossed'
    BY <1>1, <1>3, Zenon DEF InHand
  <2>1. CASE e = d
    <3>1. task'[e].cmd = n
      BY <1>1, <2>1, Zenon DEF IInv, TypeOK
    <3> QED BY <1>3, <3>1, BoundAssumption
  <2>2. CASE e # d
    <3>1. e \in Busy /\ task'[e] = task[e]
      BY <1>1, <2>2, Zenon DEF Busy, IInv, TypeOK
    <3>2. task[e].cmd \in 1 .. slot.cmd /\ \A k \in Commands : task[e].cmd < k /\ k <= slot.cmd => k \in crossed
      BY <3>1, Zenon DEF IInv, InHand
    <3>3. task'[e].cmd < n /\ task'[e].cmd \in 1 .. n
      BY <3>1, <3>2, KnownMessages DEF n
    <3>4. ASSUME NEW k \in Commands, task'[e].cmd < k, k <= n PROVE k \in crossed'
      <4>1. k <= slot.cmd \/ k = n
        BY <3>4, KnownMessages, BoundAssumption DEF n
      <4> QED BY <1>1, <3>1, <3>2, <3>4, <4>1, Zenon
    <3> QED BY <1>3, <3>3, <3>4, Zenon
  <2> QED BY <2>1, <2>2, Zenon
<1>8. SentInOrder' /\ TakenBelowTop' /\ QueueInOrder' /\ DeviceFirst' /\ HeldLast' /\ HeldAlone'
  BY <1>1, <1>2, <1>5, Zenon DEF IInv, SentInOrder, TakenBelowTop, QueueInOrder, DeviceFirst, HeldLast, HeldAlone
<1>9. NothingElse'
  BY <1>1, <1>3, Zenon DEF NothingElse, Becomes
<1> QED BY <1>6, <1>7, <1>8, <1>9, Zenon DEF IInv

\* The new message has the highest sequence number; what has a later command crossed it.
LEMMA SendStep == ASSUME IInv, TypeOK', NEW d \in Dispatchers, Send(d) PROVE IInv'
<1> DEFINE m == [cmd |-> task[d].cmd, producer |-> life, seq |-> nextSeq]
<1>1. /\ UNCHANGED <<queue, device, slot, life, top, crossed>> /\ nextSeq' = nextSeq + 1
      /\ stream # 0 /\ d \in Busy
      /\ conn' = [conn EXCEPT ![stream].buf = Append(@, m)]
      /\ task' = [task EXCEPT ![d] = Idle] /\ Becomes({task[d].cmd}, "sent")
  BY Zenon DEF Send, channelVars, Busy, Return
<1>2. stream \in Conns /\ conn \in [Conns -> Connections] /\ conn[stream].buf \in Seq(Messages) /\ m \in Messages
  <2>1. stream \in Conns
    BY <1>1, StateTyped, BoundAssumption DEF IInv
  <2>2. task[d].cmd \in 0 .. MaxCommands /\ life \in 0 .. MaxStarts /\ nextSeq \in Nat
    BY TaskTyped, StateTyped, BoundAssumption DEF IInv
  <2> QED BY <2>1, <2>2, ConnTyped, Zenon DEF IInv, TypeOK, Messages
<1>3. m.cmd = task[d].cmd /\ m.producer = life /\ m.seq = nextSeq
  BY Zenon
<1> HIDE DEF m
<1>4. /\ m.cmd \in 1 .. slot.cmd /\ (m.cmd = slot.cmd => slot.producer = life)
      /\ \A n \in Commands : m.cmd < n /\ n <= slot.cmd => n \in crossed
  BY <1>1, <1>3, Zenon DEF IInv, InHand
<1>5. Waiting' \subseteq Waiting \cup {m}
  <2> SUFFICES ASSUME NEW c \in Conns, NEW i \in DOMAIN conn'[c].buf
               PROVE  conn'[c].buf[i] = m \/ \E j \in DOMAIN conn[c].buf : conn'[c].buf[i] = conn[c].buf[j]
    BY DEF Waiting
  <2>1. CASE c = stream
    <3>1. conn'[c].buf = Append(conn[c].buf, m)
      BY <1>1, <1>2, <2>1, Zenon DEF Connections
    <3> QED BY <1>2, <2>1, <3>1
  <2>2. CASE c # stream
    BY <1>1, <1>2, <2>2, Zenon
  <2> QED BY <2>1, <2>2, Zenon
<1>6. Queued' = Queued /\ Held' = Held /\ Holding' = Holding /\ Taken' = Taken
  <2>1. \A c \in Conns : conn'[c].at = conn[c].at /\ conn'[c].msg = conn[c].msg
    BY <1>1, <1>2, Zenon DEF Connections
  <2>2. Holding' = Holding
    BY <2>1, Zenon DEF Holding
  <2>3. Held' = Held
    BY <2>1, <2>2, Zenon DEF Held, Holding
  <2> QED BY <1>1, <2>2, <2>3, Zenon DEF Queued, Taken
<1>7. \A x \in Waiting \cup Taken : Known(x) => Known(x)'
  BY <1>1, KnownMessages DEF Known
<1>8. ASSUME NEW x, x = m PROVE Known(x)'
  BY <1>1, <1>3, <1>4, <1>8, KnownMessages DEF Known
<1>9. Origin'
  BY <1>1, <1>5, <1>6, <1>7, <1>8, Zenon DEF IInv, Origin, Taken
<1>10. InHand'
  BY <1>1 DEF IInv, InHand, Busy, Idle
<1>11. SentInOrder'
  <2> SUFFICES ASSUME NEW x \in Waiting \cup Taken \cup {m}, NEW y \in Waiting \cup Taken \cup {m}, x.cmd < y.cmd
               PROVE  Before(x, y)
    BY <1>1, <1>5, <1>6, Zenon DEF SentInOrder, Before
  <2>1. CASE x # m /\ y # m
    BY <2>1, Zenon DEF IInv, SentInOrder
  <2>2. CASE x # m /\ y = m
    <3>1. x.producer = life => x.seq < nextSeq
      BY <2>2, KnownMessages, Zenon DEF Known
    <3> QED BY <1>3, <2>2, <3>1, Zenon DEF Before
  <2>3. CASE x = m /\ y # m
    <3>1. y.producer = life => y.cmd \in crossed
      <4>1. y.producer = life => y.cmd \in 1 .. slot.cmd
        BY <2>3, KnownMessages, Zenon DEF Known
      <4>2. y.cmd \in 1 .. slot.cmd => y.cmd \in Commands /\ y.cmd <= slot.cmd
        BY KnownMessages, BoundAssumption
      <4> QED BY <1>4, <2>3, <4>1, <4>2, Zenon
    <3> QED BY <1>3, <2>3, <3>1, Zenon DEF Before
  <2>4. x.cmd \in Nat /\ y.cmd \in Nat
    BY <1>4, KnownMessages
  <2> QED BY <2>1, <2>2, <2>3, <2>4
<1>12. TakenBelowTop' /\ QueueInOrder' /\ DeviceFirst' /\ HeldLast'
  BY <1>1, <1>6, Zenon DEF IInv, TakenBelowTop, QueueInOrder, DeviceFirst, HeldLast, Before
<1>13. HeldAlone'
  <2>1. \A c \in Conns : conn'[c].msg = conn[c].msg
    BY <1>1, <1>2, Zenon DEF Connections
  <2> QED BY <1>1, <1>6, <2>1 DEF IInv, HeldAlone, Holding
<1>14. NothingElse'
  <2> SUFFICES ASSUME slot.cmd # 0, fate'[slot.cmd] = "done", crossed = {} PROVE FALSE
    BY <1>1, Zenon DEF NothingElse
  <2>1. slot.cmd \in Commands /\ slot.cmd # m.cmd
    BY <1>1, <1>3, KnownMessages, BoundAssumption DEF Becomes
  <2> QED BY <1>4, <2>1, KnownMessages
<1> QED BY <1>9, <1>10, <1>11, <1>12, <1>13, <1>14, Zenon DEF IInv

\* A message that the listener accepts is later than all it has taken, or late and marked.
LEMMA AcceptStep == ASSUME IInv, TypeOK', NEW c \in Conns, Accept(c) PROVE IInv'
<1> DEFINE Msg == Head(conn[c].buf)
<1>1. PICK m \in Messages : m = Msg
  BY ConnTyped DEF Accept, IInv
<1>2. /\ UNCHANGED <<slot, task, life, nextSeq, queue, device>>
      /\ conn[c].at = "read" /\ conn[c].buf # <<>> /\ ~Stale(m) /\ Record(m, Holding \ {c})
      /\ \E cmds : Becomes(cmds, "lost")
  BY <1>1, Zenon DEF Accept, modVars, channelVars
<1>3. PICK a \in {"read", "send"}, x \in {NoMessage, m} :
        /\ conn' = [conn EXCEPT ![c].buf = Tail(@), ![c].at = a, ![c].msg = x]
        /\ a = "send" => x = m
  BY <1>1, Zenon DEF Accept
<1> HIDE DEF Msg
<1>4. conn \in [Conns -> Connections] /\ conn[c].buf \in Seq(Messages) /\ NoMessage \in Messages
  BY ConnTyped, MessageTypes, Zenon DEF IInv, TypeOK
<1>5. m \in Waiting
  <2>1. 1 \in DOMAIN conn[c].buf /\ m = conn[c].buf[1]
    BY <1>1, <1>2, <1>4 DEF Msg
  <2> QED BY <2>1 DEF Waiting
<1>6. conn'[c].buf = Tail(conn[c].buf) /\ conn'[c].at = a /\ conn'[c].msg = x
      /\ \A e \in Conns \ {c} : conn'[e] = conn[e]
  BY <1>3, <1>4, Zenon DEF Connections
<1>7. Waiting' \subseteq Waiting
  <2> SUFFICES ASSUME NEW e \in Conns, NEW i \in DOMAIN conn'[e].buf
               PROVE  \E j \in DOMAIN conn[e].buf : conn'[e].buf[i] = conn[e].buf[j]
    BY DEF Waiting
  <2>1. CASE e = c
    <3>1. i + 1 \in DOMAIN conn[c].buf /\ conn'[c].buf[i] = conn[c].buf[i + 1]
      BY <1>2, <1>4, <1>6, <2>1, TailElements, Zenon
    <3> QED BY <2>1, <3>1, Zenon
  <2>2. CASE e # c
    BY <1>6, <2>2, Zenon
  <2> QED BY <2>1, <2>2, Zenon
<1>8. Holding' \subseteq Holding \cup {c} /\ c \notin Holding /\ (c \in Holding' => conn'[c].msg = m)
      /\ \A e \in Holding : conn'[e].msg = conn[e].msg
  BY <1>2, <1>3, <1>6, Zenon DEF Holding
<1>9. Held' \subseteq Held \cup {m} /\ Queued' = Queued /\ Taken' \subseteq Taken \cup {m}
  <2>1. Held' \subseteq Held \cup {m}
    BY <1>8, Zenon DEF Held
  <2>2. Queued' = Queued
    BY <1>2, Zenon DEF Queued
  <2> QED BY <1>2, <2>1, <2>2, Zenon DEF Taken
<1>10. /\ crossed \subseteq crossed'
       /\ m.seq <= top[m.producer] => m.cmd \in crossed'
       /\ Holding # {} => m.cmd \in crossed' /\ \A e \in Holding : conn[e].msg.cmd \in crossed'
  BY <1>2, <1>8, Zenon DEF Record, Forgotten
<1>11. /\ m.producer \in 1 .. MaxStarts /\ m.seq \in Nat
       /\ top \in [1 .. MaxStarts -> Nat] /\ top' \in [1 .. MaxStarts -> Nat]
       /\ \A p \in 1 .. MaxStarts : top[p] <= top'[p]
       /\ m.seq <= top'[m.producer]
  <2>1. m.producer \in 1 .. MaxStarts /\ m.seq \in Nat
    BY <1>5, KnownMessages, MessageFields, BoundAssumption
  <2>2. top \in [1 .. MaxStarts -> Nat]
    BY StateTyped, Zenon DEF IInv
  <2>3. top' = [top EXCEPT ![m.producer] = IF m.seq > @ THEN m.seq ELSE @]
    BY <1>2, Zenon DEF Record
  <2> QED BY <2>1, <2>2, <2>3
<1>12. \A y, z : Before(y, z) => Before(y, z)'
  BY <1>10, Zenon DEF Before
<1>13. \A y \in Taken : Before(y, m)'
  <2> SUFFICES ASSUME NEW y \in Taken, y.producer = m.producer, m.cmd \notin crossed' PROVE y.seq < m.seq
    BY Zenon DEF Before
  <2>1. top[m.producer] < m.seq
    BY <1>10, <1>11
  <2>2. y.seq <= top[m.producer] /\ y.seq \in Nat
    BY <1>11, KnownMessages DEF IInv, TakenBelowTop
  <2> QED BY <1>11, <2>1, <2>2
<1>14. Origin'
  BY <1>2, <1>5, <1>7, <1>9, Zenon DEF IInv, Origin, Known
<1>15. InHand'
  BY <1>2, <1>10, Zenon DEF IInv, InHand, Busy
<1>16. SentInOrder'
  BY <1>5, <1>7, <1>9, <1>12, Zenon DEF IInv, SentInOrder
<1>17. TakenBelowTop'
  <2> SUFFICES ASSUME NEW y \in Taken \cup {m}, y.producer # 0 PROVE y.seq <= top'[y.producer]
    BY <1>9, Zenon DEF TakenBelowTop
  <2>1. CASE y \in Taken
    <3>1. y.producer \in 1 .. MaxStarts /\ y.seq \in Nat /\ y.seq <= top[y.producer]
      BY <2>1, KnownMessages, MessageSets, MessageFields, MessageTypes, BoundAssumption DEF IInv, TakenBelowTop, Taken
    <3> QED BY <1>11, <3>1
  <2> QED BY <1>11, <2>1, Zenon
<1>18. QueueInOrder'
  BY <1>2, <1>12, Zenon DEF IInv, QueueInOrder
<1>19. DeviceFirst' /\ HeldLast'
  <2>1. device \in Taken /\ Queued \subseteq Taken
    BY Zenon DEF Taken
  <2> QED BY <1>2, <1>9, <1>12, <1>13, <2>1, Zenon DEF IInv, DeviceFirst, HeldLast
<1>20. HeldAlone'
  <2> SUFFICES ASSUME NEW e \in Holding', NEW f \in Holding', e # f PROVE conn'[e].msg.cmd \in crossed'
    BY Zenon DEF HeldAlone
  <2>1. Holding # {}
    BY <1>8, Zenon
  <2> QED BY <1>8, <1>10, <2>1, Zenon
<1>21. NothingElse'
  <2> SUFFICES ASSUME slot.cmd # 0, fate'[slot.cmd] = "done", crossed' = {}
               PROVE  /\ \A y \in Taken' : y.producer = slot.producer => y.cmd = slot.cmd
                      /\ \A y \in Waiting' : y.producer = slot.producer => y.cmd = slot.cmd \/ y.seq <= top'[y.producer]
    BY <1>2, Zenon DEF NothingElse
  <2>1. fate[slot.cmd] = "done" /\ crossed = {}
    BY <1>2, <1>10, KnownMessages, BoundAssumption DEF Becomes
  <2>2. /\ \A y \in Taken : y.producer = slot.producer => y.cmd = slot.cmd
        /\ \A y \in Waiting : y.producer = slot.producer => y.cmd = slot.cmd \/ y.seq <= top[y.producer]
    BY <2>1, Zenon DEF IInv, NothingElse
  <2>3. \A y \in Taken' : y.producer = slot.producer => y.cmd = slot.cmd
    BY <1>5, <1>9, <1>10, <2>2, Zenon
  <2>4. ASSUME NEW y \in Waiting', y.producer = slot.producer, y.cmd # slot.cmd PROVE y.seq <= top'[y.producer]
    <3>1. y.seq <= top[y.producer] /\ y.seq \in Nat
      BY <1>7, <2>2, <2>4, KnownMessages, Zenon
    <3>2. y.producer \in 1 .. MaxStarts
      BY <1>7, KnownMessages, MessageSets, MessageFields, BoundAssumption DEF IInv
    <3> QED BY <1>11, <3>1, <3>2
  <2> QED BY <2>3, <2>4, Zenon
<1> QED BY <1>14, <1>15, <1>16, <1>17, <1>18, <1>19, <1>20, <1>21, Zenon DEF IInv

\* A held message joins the queue behind all others; who is held beside it overlapped it.
LEMMA EnqueueStep == ASSUME IInv, TypeOK', NEW c \in Conns, Enqueue(c) PROVE IInv'
<1>1. PICK m \in Messages : m = conn[c].msg
  BY ConnTyped, Zenon DEF IInv
<1>2. /\ UNCHANGED <<slot, task, life, nextSeq, device, fate, top, crossed>>
      /\ c \in Holding /\ queue' = Append(queue, m)
      /\ conn' = [conn EXCEPT ![c].at = "read", ![c].msg = NoMessage]
  BY <1>1, Zenon DEF Enqueue, modVars
<1>3. conn \in [Conns -> Connections] /\ queue \in Seq(Messages)
  BY StateTyped, Zenon DEF IInv, TypeOK
<1>4. conn'[c].buf = conn[c].buf /\ conn'[c].at = "read" /\ \A e \in Conns \ {c} : conn'[e] = conn[e]
  BY <1>2, <1>3, Zenon DEF Connections
<1>5. Waiting' = Waiting
  BY <1>4 DEF Waiting
<1>6. Holding' = Holding \ {c} /\ \A e \in Holding' : conn'[e].msg = conn[e].msg
  BY <1>4, Zenon DEF Holding
<1>7. Held' \subseteq Held /\ Queued' = Queued \cup {m} /\ m \in Held /\ Taken' \subseteq Taken
  <2>1. Held' \subseteq Held /\ m \in Held
    BY <1>1, <1>2, <1>6, Zenon DEF Held
  <2>2. Queued' = Queued \cup {m}
    <3>1. /\ \A i \in DOMAIN queue' : queue'[i] = m \/ (i \in DOMAIN queue /\ queue'[i] = queue[i])
          /\ \A i \in DOMAIN queue : i \in DOMAIN queue' /\ queue'[i] = queue[i]
          /\ Len(queue) + 1 \in DOMAIN queue' /\ queue'[Len(queue) + 1] = m
      BY <1>2, <1>3
    <3> QED BY <3>1, Zenon DEF Queued
  <2> QED BY <1>2, <2>1, <2>2, Zenon DEF Taken
<1>8. \A x, y : Before(x, y)' <=> Before(x, y)
  BY <1>2, Zenon DEF Before
<1>9. Origin' /\ InHand' /\ SentInOrder' /\ TakenBelowTop' /\ NothingElse'
  <2>1. Origin'
    BY <1>2, <1>5, <1>7, Zenon DEF IInv, Origin, Known
  <2>2. InHand'
    BY <1>2, Zenon DEF IInv, InHand, Busy
  <2>3. SentInOrder' /\ TakenBelowTop'
    BY <1>2, <1>5, <1>7, <1>8, Zenon DEF IInv, SentInOrder, TakenBelowTop
  <2>4. NothingElse'
    BY <1>2, <1>5, <1>7, Zenon DEF IInv, NothingElse
  <2> QED BY <2>1, <2>2, <2>3, <2>4, Zenon
<1>10. QueueInOrder'
  <2> SUFFICES ASSUME NEW i \in DOMAIN queue', NEW j \in DOMAIN queue', i < j PROVE Before(queue'[i], queue'[j])
    BY <1>8, Zenon DEF QueueInOrder
  <2>1. CASE j \in DOMAIN queue
    BY <1>2, <1>3, <2>1 DEF IInv, QueueInOrder
  <2>2. CASE j \notin DOMAIN queue
    <3>1. i \in DOMAIN queue /\ queue'[i] = queue[i] /\ queue'[j] = m
      BY <1>2, <1>3, <2>2
    <3> QED BY <1>7, <3>1, Zenon DEF IInv, HeldLast, Queued
  <2> QED BY <2>1, <2>2, Zenon
<1>11. DeviceFirst'
  BY <1>2, <1>7, <1>8, Zenon DEF IInv, DeviceFirst
<1>12. HeldLast'
  <2> SUFFICES ASSUME NEW x \in Queued \cup {m}, NEW e \in Holding, e # c PROVE Before(x, conn[e].msg)
    BY <1>6, <1>7, <1>8, Zenon DEF HeldLast, Held
  <2>1. conn[e].msg.cmd \in crossed
    BY <1>2, Zenon DEF IInv, HeldAlone
  <2> QED BY <2>1, Zenon DEF Before
<1>13. HeldAlone'
  <2> SUFFICES ASSUME NEW e \in Holding', NEW f \in Holding', e # f PROVE conn'[e].msg.cmd \in crossed'
    BY Zenon DEF HeldAlone
  <2>1. e \in Holding /\ f \in Holding /\ conn'[e].msg = conn[e].msg
    BY <1>6, Zenon
  <2> QED BY <1>2, <2>1 DEF IInv, HeldAlone
<1> QED BY <1>9, <1>10, <1>11, <1>12, <1>13, Zenon DEF IInv

\* The device executes the head of the queue; when that is the slot's command, whatever
\* else its modsrv sent and did not cross it has a lower sequence number.
LEMMA ExecuteStep == ASSUME IInv, TypeOK', Execute PROVE IInv'
<1>1. queue \in Seq(Messages) /\ queue # <<>>
  BY StateTyped, Zenon DEF IInv, Execute
<1>2. PICK x \in Messages : x = Head(queue)
  BY <1>1
<1>3. /\ UNCHANGED <<slot, task, life, nextSeq, conn, top, crossed>>
      /\ device' = x /\ queue' = Tail(queue) /\ Becomes({x.cmd}, "done")
  BY <1>2, Zenon DEF Execute, modVars
<1>4. Waiting' = Waiting /\ Held' = Held /\ Holding' = Holding
  BY <1>3 DEF Waiting, Held, Holding
<1>5. 1 \in DOMAIN queue /\ x = queue[1] /\ x \in Queued /\ Queued' \subseteq Queued
      /\ \A i \in DOMAIN queue' : i + 1 \in DOMAIN queue /\ queue'[i] = queue[i + 1]
  <2>1. 1 \in DOMAIN queue /\ x = queue[1]
    BY <1>1, <1>2
  <2>2. \A i \in DOMAIN queue' : i + 1 \in DOMAIN queue /\ queue'[i] = queue[i + 1]
    BY <1>1, <1>3, TailElements, Zenon
  <2> QED BY <2>1, <2>2, Zenon DEF Queued
<1>6. Taken' \subseteq Taken
  BY <1>3, <1>4, <1>5, Zenon DEF Taken
<1>7. \A y, z : Before(y, z)' <=> Before(y, z)
  BY <1>3, Zenon DEF Before
<1>8. \A y \in Queued' \cup Held : Before(x, y)
  <2>1. \A i \in DOMAIN queue' : Before(x, queue'[i])
    <3> SUFFICES ASSUME NEW i \in DOMAIN queue' PROVE Before(queue[1], queue[i + 1])
      BY <1>5, Zenon
    <3>1. i \in Nat \ {0}
      BY <1>1, <1>3
    <3> QED BY <1>5, <3>1 DEF IInv, QueueInOrder
  <2> QED BY <1>5, <2>1, Zenon DEF IInv, HeldLast, Queued
<1>9. Origin'
  BY <1>3, <1>4, <1>5, Zenon DEF IInv, Origin, Known
<1>10. InHand'
  BY <1>3, Zenon DEF IInv, InHand, Busy
<1>11. SentInOrder' /\ TakenBelowTop'
  BY <1>3, <1>4, <1>6, <1>7, Zenon DEF IInv, SentInOrder, TakenBelowTop
<1>12. QueueInOrder'
  <2> SUFFICES ASSUME NEW i \in DOMAIN queue', NEW j \in DOMAIN queue', i < j PROVE Before(queue[i + 1], queue[j + 1])
    BY <1>5, <1>7, Zenon DEF QueueInOrder
  <2>1. i + 1 < j + 1
    BY <1>1, <1>3
  <2> QED BY <1>5, <2>1, Zenon DEF IInv, QueueInOrder
<1>13. DeviceFirst' /\ HeldLast' /\ HeldAlone'
  BY <1>3, <1>4, <1>5, <1>7, <1>8, Zenon DEF IInv, DeviceFirst, HeldLast, HeldAlone
<1>14. NothingElse'
  <2> SUFFICES ASSUME slot.cmd # 0, fate'[slot.cmd] = "done", crossed = {}
               PROVE  /\ \A y \in Taken' : y.producer = slot.producer => y.cmd = slot.cmd
                      /\ \A y \in Waiting : y.producer = slot.producer => y.cmd = slot.cmd \/ y.seq <= top[y.producer]
    BY <1>3, <1>4, Zenon DEF NothingElse
  <2>1. CASE x.cmd # slot.cmd
    <3>1. fate[slot.cmd] = "done"
      BY <1>3, <2>1, KnownMessages, BoundAssumption DEF Becomes
    <3> QED BY <1>6, <3>1, Zenon DEF IInv, NothingElse
  <2>2. CASE x.cmd = slot.cmd
    <3>1. x.producer = slot.producer /\ x \in Taken /\ x.seq \in Nat
      BY <1>5, <2>2, KnownMessages, Zenon DEF Known, Taken
    <3>2. ASSUME NEW y \in Waiting \cup Taken, y.producer = slot.producer, y.cmd # slot.cmd PROVE y.seq < x.seq
      <4>1. y.cmd < slot.cmd
        BY <1>5, <3>1, <3>2, KnownMessages DEF Known, Taken
      <4> QED BY <2>2, <3>1, <3>2, <4>1, Zenon DEF IInv, SentInOrder, Before
    <3>3. ASSUME NEW y \in Taken', y.producer = slot.producer PROVE y.cmd = slot.cmd
      <4>1. CASE y = x
        BY <2>2, <4>1, Zenon
      <4>2. CASE y \in Queued' \cup Held
        <5>1. x.seq < y.seq /\ y \in Taken /\ y.seq \in Nat
          BY <1>6, <1>8, <3>1, <3>3, <4>2, KnownMessages, Zenon DEF Before
        <5> QED BY <3>1, <3>2, <3>3, <5>1
      <4> QED BY <1>3, <1>4, <4>1, <4>2, Zenon DEF Taken
    <3>4. ASSUME NEW y \in Waiting, y.producer = slot.producer, y.cmd # slot.cmd PROVE y.seq <= top[y.producer]
      <4>1. y.seq < x.seq /\ y.seq \in Nat
        BY <3>2, <3>4, KnownMessages, Zenon
      <4>2. y.producer \in 1 .. MaxStarts /\ x.producer = y.producer
        BY <3>1, <3>4, KnownMessages, MessageSets, MessageFields, BoundAssumption DEF IInv
      <4>3. x.seq <= top[x.producer] /\ top[y.producer] \in Nat
        BY <3>1, <4>2, StateTyped DEF IInv, TakenBelowTop
      <4> QED BY <3>1, <4>1, <4>2, <4>3
    <3> QED BY <3>3, <3>4, Zenon
  <2> QED BY <2>1, <2>2, Zenon
<1> QED BY <1>9, <1>10, <1>11, <1>12, <1>13, <1>14, Zenon DEF IInv

-----------------------------------------------------------------------------
LEMMA FateFades ==
    ASSUME NEW cmds, NEW f, f # "done", Becomes(cmds, f)
    PROVE  \A n \in Commands : fate'[n] = "done" => fate[n] = "done"
BY Zenon DEF Becomes

\* The steps of modsrv that send nothing
LEMMA DispatchFades ==
    ASSUME IInv, NEW d \in Dispatchers,
           LockTimeout(d) \/ TakeLock(d) \/ KeepStream(d) \/ Reconnect(d) \/ ReconnectFails(d) \/ SendFails(d) \/ NoStream(d)
    PROVE  Fades
<1>1. UNCHANGED <<slot, life, crossed, top, device, queue>>
  BY Zenon DEF LockTimeout, TakeLock, KeepStream, Reconnect, ReconnectFails, SendFails, NoStream, channelVars
<1>2. nextSeq \in Nat /\ (nextSeq' = nextSeq \/ nextSeq' = nextSeq + 1)
  BY StateTyped, Zenon DEF LockTimeout, TakeLock, KeepStream, Reconnect, ReconnectFails, SendFails, NoStream, IInv
<1>3. \A n \in Commands : fate'[n] = "done" => fate[n] = "done"
  BY FateFades, Zenon DEF LockTimeout, TakeLock, KeepStream, Reconnect, ReconnectFails, SendFails, NoStream
<1>4. \A e \in Busy' : e \in Busy /\ task'[e].cmd = task[e].cmd
  <2>1. task \in [Dispatchers -> Tasks]
    BY Zenon DEF IInv, TypeOK
  <2>2. d \in Busy
    BY Zenon DEF LockTimeout, TakeLock, KeepStream, Reconnect, ReconnectFails, SendFails, NoStream, Busy
  <2>3. CASE Return(d)
    BY <2>1, <2>3, Zenon DEF Return, Busy, Idle
  <2>4. CASE \E a \in {"reconnect", "send"} : task' = [task EXCEPT ![d].at = a]
    BY <2>1, <2>2, <2>4 DEF Busy, Tasks
  <2> QED
    BY <2>3, <2>4, Zenon DEF LockTimeout, TakeLock, KeepStream, Reconnect, ReconnectFails, SendFails, NoStream
<1>5. conn \in [Conns -> Connections] /\ made \in 0 .. MaxConns /\ stream \in 0 .. made
  BY StateTyped, Zenon DEF IInv, TypeOK
<1>6. \A c \in Conns : \/ conn'[c].buf = conn[c].buf /\ conn'[c].at = conn[c].at /\ conn'[c].msg = conn[c].msg
                       \/ conn'[c].buf = <<>> /\ conn'[c].at = "read"
  <2>1. CASE UNCHANGED conn
    BY <2>1, Zenon
  <2>2. CASE Reconnect(d)
    BY <1>5, <2>2, Zenon DEF Reconnect, Connect, Unused
  <2>3. CASE SendFails(d)
    BY <1>5, <2>3, Zenon DEF SendFails, Connections
  <2> QED BY <2>1, <2>2, <2>3, Zenon DEF LockTimeout, TakeLock, KeepStream, ReconnectFails, NoStream
<1>7. \A c \in Conns : \A i \in DOMAIN conn'[c].buf : \E j \in DOMAIN conn[c].buf : conn'[c].buf[i] = conn[c].buf[j]
  BY <1>6
<1>8. Holding' \subseteq Holding /\ \A c \in Holding' : conn'[c].msg = conn[c].msg
  BY <1>6, Zenon DEF Holding
<1> QED BY <1>1, <1>2, <1>3, <1>4, <1>7, <1>8 DEF Fades

\* The steps of comsrv that take nothing into the queue or out of a connection's buffer
LEMMA ListenerFades ==
    ASSUME IInv, NEW c \in Conns, ConnectionEnds(c) \/ Discard(c) \/ SendWaits(c) \/ SendDropped(c)
    PROVE  Fades
<1>1. UNCHANGED <<slot, life, nextSeq, task, crossed, top, device, queue>>
  BY Zenon DEF ConnectionEnds, Discard, SendWaits, SendDropped, modVars, channelVars
<1>2. nextSeq \in Nat
  BY StateTyped, Zenon DEF IInv
<1>3. \A n \in Commands : fate'[n] = "done" => fate[n] = "done"
  BY FateFades, Zenon DEF ConnectionEnds, Discard, SendWaits, SendDropped
<1>4. conn \in [Conns -> Connections] /\ conn[c].buf \in Seq(Messages)
  BY ConnTyped, Zenon DEF IInv, TypeOK
<1>5. \A e \in Conns \ {c} : conn'[e] = conn[e]
  BY <1>4, Zenon DEF ConnectionEnds, Discard, SendWaits, SendDropped
<1>6. \/ conn'[c].buf = <<>> /\ conn'[c].at = "none"
      \/ conn'[c].buf = conn[c].buf /\ (conn'[c].at = "read" \/ (conn[c].at = "send" /\ conn'[c].msg = conn[c].msg))
      \/ conn[c].buf # <<>> /\ conn'[c].buf = Tail(conn[c].buf) /\ conn[c].at = "read" /\ conn'[c].at = "read"
  <2>1. CASE ConnectionEnds(c)
    BY <1>4, <2>1, Zenon DEF ConnectionEnds, Unused
  <2>2. CASE Discard(c)
    BY <1>4, <2>2, Zenon DEF Discard, Connections
  <2>3. CASE SendWaits(c)
    BY <1>4, <2>3, Zenon DEF SendWaits, Connections
  <2>4. CASE SendDropped(c)
    BY <1>4, <2>4 DEF SendDropped, Connections
  <2> QED BY <2>1, <2>2, <2>3, <2>4, Zenon
<1>7. \A e \in Conns : \A i \in DOMAIN conn'[e].buf : \E j \in DOMAIN conn[e].buf : conn'[e].buf[i] = conn[e].buf[j]
  <2> SUFFICES ASSUME NEW i \in DOMAIN conn'[c].buf PROVE \E j \in DOMAIN conn[c].buf : conn'[c].buf[i] = conn[c].buf[j]
    BY <1>5, Zenon
  <2>1. CASE conn[c].buf # <<>> /\ conn'[c].buf = Tail(conn[c].buf)
    BY <1>4, <2>1, TailElements, Zenon
  <2>2. CASE conn'[c].buf = <<>>
    BY <2>2
  <2>3. CASE conn'[c].buf = conn[c].buf
    BY <2>3, Zenon
  <2> QED BY <1>6, <2>1, <2>2, <2>3, Zenon
<1>8. Holding' \subseteq Holding /\ \A e \in Holding' : conn'[e].msg = conn[e].msg
  BY <1>5, <1>6, Zenon DEF Holding
<1> QED BY <1>1, <1>2, <1>3, <1>7, <1>8 DEF Fades, Busy

\* Restarts, and the coming and going of the channel
LEMMA LifecycleFades ==
    ASSUME IInv,
           \/ BackoffElapses \/ ModsrvRestarts \/ Register \/ TaskEnds \/ Unregister \/ UnregisterWaits
           \/ ComsrvStarts \/ ComsrvStops \/ UNCHANGED vars
    PROVE  Fades
<1> USE DEF modVars, channelVars, comsrvVars
<1>1. UNCHANGED <<slot, crossed, top, device>> /\ (queue' = queue \/ queue' = <<>>)
  BY Zenon DEF BackoffElapses, ModsrvRestarts, Register, TaskEnds, Unregister, UnregisterWaits, ComsrvStarts, ComsrvStops, vars
<1>2. nextSeq \in Nat /\ conn \in [Conns -> Connections] /\ task \in [Dispatchers -> Tasks]
  BY StateTyped, Zenon DEF IInv, TypeOK
<1>3. \A n \in Commands : fate'[n] = "done" => fate[n] = "done"
  BY FateFades, Zenon
  DEF BackoffElapses, ModsrvRestarts, Register, TaskEnds, Unregister, UnregisterWaits, ComsrvStarts, ComsrvStops, vars
<1>4. UNCHANGED <<life, nextSeq, task>> \/ (life' = life + 1 /\ Busy' = {})
  BY DEF BackoffElapses, ModsrvRestarts, Register, TaskEnds, Unregister, UnregisterWaits, ComsrvStarts, ComsrvStops, vars,
         Busy, Idle
<1>5. \A c \in Conns : \/ conn'[c].buf = conn[c].buf /\ conn'[c].at = conn[c].at /\ conn'[c].msg = conn[c].msg
                       \/ conn'[c].buf = <<>> /\ conn'[c].at = "none"
  <2>1. CASE UNCHANGED conn
    BY <2>1, Zenon
  <2>2. CASE ModsrvRestarts
    BY <1>2, <2>2, Zenon DEF ModsrvRestarts, Connections
  <2>3. CASE ComsrvStops
    BY <1>2, <2>3, Zenon DEF ComsrvStops, Unused
  <2> QED BY <2>1, <2>2, <2>3, Zenon
          DEF BackoffElapses, Register, TaskEnds, Unregister, UnregisterWaits, ComsrvStarts, vars
<1>6. Holding' \subseteq Holding /\ \A c \in Holding' : conn'[c].msg = conn[c].msg
  BY <1>5, Zenon DEF Holding
<1>7. \A c \in Conns : \A i \in DOMAIN conn'[c].buf : \E j \in DOMAIN conn[c].buf : conn'[c].buf[i] = conn[c].buf[j]
  BY <1>5
<1>8. \A d \in Busy' : d \in Busy /\ task'[d].cmd = task[d].cmd
  BY <1>4, Zenon DEF Busy
<1> QED BY <1>1, <1>2, <1>3, <1>4, <1>6, <1>7, <1>8 DEF Fades

LEMMA InitIInv == Init => IInv
<1> SUFFICES ASSUME Init PROVE IInv BY Zenon
<1> USE BoundAssumption, CapAssumption
<1>1. TypeOK
  <2>1. slot \in Messages /\ last \in Messages /\ device \in Messages /\ queue \in Seq(Messages) /\ Len(queue) <= QueueCap
    BY MessageTypes DEF Init
  <2>2. task \in [Dispatchers -> Tasks] /\ conn \in [Conns -> Connections]
    BY MessageTypes, Zenon DEF Init
  <2>3. fate \in [Commands -> Fates] /\ top \in [1 .. MaxStarts -> Nat]
    BY Zenon DEF Init, Fates
  <2>4. /\ life \in 1 .. MaxStarts /\ nextSeq \in Nat \ {0} /\ stream \in 0 .. made /\ made \in 0 .. MaxConns
        /\ starts \in 0 .. MaxStarts /\ crossed \subseteq 0 .. MaxCommands
    BY DEF Init
  <2> QED BY <2>1, <2>2, <2>3, <2>4, Zenon DEF Init, TypeOK
<1>2. Waiting = {} /\ Queued = {} /\ Held = {} /\ Holding = {} /\ Taken = {NoMessage} /\ Busy = {}
  BY DEF Init, Waiting, Queued, Held, Holding, Taken, Unused, Busy, Idle
<1>3. slot.cmd = 0 /\ NoMessage.producer = 0
  BY Zenon DEF Init, NoMessage
<1>4. Origin /\ InHand /\ SentInOrder
  BY <1>2, <1>3 DEF Init, Origin, InHand, SentInOrder
<1>5. TakenBelowTop /\ QueueInOrder
  BY <1>2, <1>3 DEF Init, TakenBelowTop, QueueInOrder
<1>6. DeviceFirst /\ HeldLast /\ HeldAlone
  BY <1>2, <1>3, Zenon DEF Init, DeviceFirst, HeldLast, HeldAlone
<1>7. NothingElse
  BY <1>2, <1>3, Zenon DEF Init, NothingElse
<1> QED BY <1>1, <1>4, <1>5, <1>6, <1>7, Zenon DEF IInv

LEMMA IInvStep == IInv /\ [Next]_vars => IInv'
<1> SUFFICES ASSUME IInv, [Next]_vars PROVE IInv' BY Zenon
<1>1. TypeOK'
  BY TypeStep, Zenon DEF IInv
<1>2. ASSUME NEW d \in Dispatchers, WriteSlot(d) PROVE IInv'
  BY <1>1, <1>2, WriteStep, Zenon
<1>3. ASSUME NEW d \in Dispatchers, Send(d) PROVE IInv'
  BY <1>1, <1>3, SendStep, Zenon
<1>4. ASSUME NEW d \in Dispatchers, Dispatch(d), ~Send(d) PROVE IInv'
  BY <1>1, <1>4, DispatchFades, FadesStep, Zenon DEF Dispatch
<1>5. ASSUME NEW c \in Conns, Accept(c) PROVE IInv'
  BY <1>1, <1>5, AcceptStep, Zenon
<1>6. ASSUME NEW c \in Conns, Enqueue(c) PROVE IInv'
  BY <1>1, <1>6, EnqueueStep, Zenon
<1>7. ASSUME NEW c \in Conns, Handle(c), ~Accept(c), ~Enqueue(c) PROVE IInv'
  BY <1>1, <1>7, ListenerFades, FadesStep, Zenon DEF Handle
<1>8. CASE Execute
  BY <1>1, <1>8, ExecuteStep, Zenon
<1>9. CASE \/ BackoffElapses \/ ModsrvRestarts \/ Register \/ TaskEnds \/ Unregister \/ UnregisterWaits
           \/ ComsrvStarts \/ ComsrvStops \/ UNCHANGED vars
  BY <1>1, <1>9, LifecycleFades, FadesStep, Zenon
<1> QED BY <1>2, <1>3, <1>4, <1>5, <1>6, <1>7, <1>8, <1>9, Zenon DEF Next

LEMMA Invariant == Spec => []IInv
BY InitIInv, IInvStep, PTL DEF Spec

\* Messages, connections and the queue keep their types; the queue stays within its
\* capacity although the handlers of all connections send into it.
THEOREM TypeCorrect == Spec => []TypeOK
<1>1. IInv => TypeOK
  BY Zenon DEF IInv
<1> QED BY <1>1, Invariant, PTL

\* For one producer the device executes commands in the order of the slot, unless two
\* of them overlapped or one came late and the sequence map had forgotten its producer:
\* for any number of dispatchers, connections, commands and restarts of both processes.
THEOREM OrderKept == Spec => InOrder
<1>1. ASSUME IInv, [Next]_vars
      PROVE  [device' # device /\ device'.producer = device.producer /\ device'.cmd < device.cmd
                => {device.cmd, device'.cmd} \cap crossed # {}]_vars
  <2> SUFFICES ASSUME Next, device' # device, device'.producer = device.producer, device'.cmd < device.cmd,
                      device.cmd \notin crossed, device'.cmd \notin crossed
               PROVE  FALSE
    BY <1>1, Zenon DEF vars, channelVars
  <2>1. Execute
    BY Zenon DEF Next, WriteSlot, Dispatch, LockTimeout, TakeLock, KeepStream, Reconnect, ReconnectFails, Send, SendFails,
           NoStream, Handle, ConnectionEnds, Discard, Accept, Enqueue, SendWaits, SendDropped, BackoffElapses,
           ModsrvRestarts, Register, TaskEnds, Unregister, UnregisterWaits, ComsrvStarts, ComsrvStops, channelVars
  <2>2. device' = queue[1] /\ queue[1] \in Queued
    BY <1>1, <2>1, StateTyped DEF IInv, Execute, Queued
  <2>3. Before(device, queue[1]) /\ Before(queue[1], device)
    BY <1>1, <2>2, Zenon DEF IInv, DeviceFirst, SentInOrder, Taken
  <2>4. device.seq \in Nat /\ queue[1].seq \in Nat
    BY <1>1, <2>2, KnownMessages, Zenon DEF Taken
  <2> QED BY <2>2, <2>3, <2>4 DEF Before
<1> QED BY <1>1, Invariant, PTL DEF Spec, InOrder

\* Once nothing is on its way the device has done what the slot shows, if that command
\* was executed and nothing overlapped or came late.
THEOREM DeviceFollowsSlot == Spec => []DeviceMatchesSlot
<1>1. IInv => DeviceMatchesSlot
  BY Zenon DEF IInv, NothingElse, DeviceMatchesSlot, Taken
<1> QED BY <1>1, Invariant, PTL
=============================================================================
