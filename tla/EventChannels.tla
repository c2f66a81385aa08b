--------------------------- MODULE EventChannels ---------------------------
(***************************************************************************)
(* The adapters with a task of their own that takes in what the device sends: *)
(* CAN frames, MQTT, Zigbee, BLE, HTTP and Matter events, and the script that *)
(* turns a JSON message into points.                                       *)
(***************************************************************************)
EXTENDS Integers, Sequences, FiniteSets, TLC

-----------------------------------------------------------------------------
(*------------------------------- CanChannel ------------------------------*)
(***************************************************************************)
(* comsrv's CAN adapter: a receive task that keeps the last frame of each  *)
(* identifier, a read task that decodes the frames into the slots of the   *)
(* points, and the poll that exports the slots.  disconnect() aborts the   *)
(* tasks, but a task that is running goes on to its next await, next to    *)
(* the tasks of the following connect().                                   *)
(*                                                                         *)
(* A frame is the number of its arrival, which also is the clock.  A slot  *)
(* is written without a lock over its fields: timestamp, then value.       *)
(***************************************************************************)

CONSTANTS CnPoints,   \* configured points, one per frame identifier
          CnFrames,   \* bound: frames received
          CnConnects  \* bound: connections made

VARIABLES
    cnState,   \* connection_state
    cnFlag,    \* is_connected
    cnRx,      \* the receive task: "none", "opening", "running"
    cnCache,   \* frame_cache: the last frame per point, 0 for none
    cnClock,   \* frames received
    cnStores,  \* the slots of each slot_store made, the last one in use: [ts, val] per point
    cnTasks,   \* the read task of each store: where it is, what it has decoded
    cnPoll,    \* the export under way: points still to read and what was read
    cnSeen     \* the newest value exported per point

cnVars == <<cnState, cnFlag, cnRx, cnCache, cnClock, cnStores, cnTasks, cnPoll, cnSeen>>

CnEmpty == [p \in CnPoints |-> [ts |-> 0, val |-> 0]]
CnTask == [at |-> "tick", got |-> {}, cur |-> <<>>, aborted |-> FALSE]
CnIdle == [at |-> "idle", left |-> CnPoints, out |-> {}]

CnInit ==
    /\ cnState = "Disconnected" /\ cnFlag = FALSE /\ cnRx = "none"
    /\ cnCache = [p \in CnPoints |-> 0] /\ cnClock = 0
    /\ cnStores = <<CnEmpty>> /\ cnTasks = <<[CnTask EXCEPT !.at = "ended"]>>
    /\ cnPoll = CnIdle /\ cnSeen = [p \in CnPoints |-> 0]

----------------------------------------------------------------------------
(* connect(), disconnect(): the channel's task calls them and poll_once() in turn *)

\* start_read_task() makes a store of its own for the task it spawns.
CnFreshStore == Append(cnStores, CnEmpty)

CnConnect ==
    /\ cnState # "Connected" /\ cnPoll.at = "idle"
    /\ Len(cnStores) <= CnConnects
    /\ cnState' = "Connected" /\ cnFlag' = TRUE /\ cnRx' = "opening"
    /\ cnStores' = CnFreshStore
    /\ cnTasks' = Append(cnTasks, CnTask)
    /\ UNCHANGED <<cnCache, cnClock, cnPoll, cnSeen>>

\* The interface does not open.
CnConnectFails ==
    /\ cnState = "Disconnected" /\ cnPoll.at = "idle"
    /\ cnState' = "Connecting"
    /\ UNCHANGED <<cnFlag, cnRx, cnCache, cnClock, cnStores, cnTasks, cnPoll, cnSeen>>

CnDisconnect ==
    /\ cnState # "Disconnected" /\ cnPoll.at = "idle"
    /\ cnFlag' = FALSE /\ cnState' = "Disconnected" /\ cnRx' = "none"
    /\ cnTasks' = [s \in DOMAIN cnTasks |-> [cnTasks[s] EXCEPT !.aborted = TRUE]]
    /\ UNCHANGED <<cnCache, cnClock, cnStores, cnPoll, cnSeen>>

----------------------------------------------------------------------------
(* start_receive_task() *)

CnOpen ==
    /\ cnRx = "opening" /\ cnRx' \in {"running", "none"}
    /\ UNCHANGED <<cnState, cnFlag, cnCache, cnClock, cnStores, cnTasks, cnPoll, cnSeen>>

\* read_frame(): the cache keeps the last frame of an identifier.
CnFrame(p) ==
    /\ cnRx = "running" /\ cnFlag
    /\ cnClock < CnFrames /\ cnClock' = cnClock + 1
    /\ cnCache' = [cnCache EXCEPT ![p] = cnClock']
    /\ UNCHANGED <<cnState, cnFlag, cnRx, cnStores, cnTasks, cnPoll, cnSeen>>

----------------------------------------------------------------------------
(* start_read_task() *)

\* The tick: a task that was aborted, or finds is_connected off, ends; else it decodes the cache.
CnDecode(s) ==
    /\ cnTasks[s].at = "tick"
    /\ cnTasks' =
        IF cnTasks[s].aborted \/ ~cnFlag THEN [cnTasks EXCEPT ![s].at = "ended"]
        ELSE LET got == {<<p, cnCache[p]>> : p \in {q \in CnPoints : cnCache[q] # 0}}
             IN  [cnTasks EXCEPT ![s].got = got, ![s].at = IF got = {} THEN "tick" ELSE "stamp"]
    /\ UNCHANGED <<cnState, cnFlag, cnRx, cnCache, cnClock, cnStores, cnPoll, cnSeen>>

\* DataSlot::update(): quality and timestamp first, then the value under its lock
CnStamp(s) ==
    /\ cnTasks[s].at = "stamp"
    /\ \E g \in cnTasks[s].got :
          /\ cnStores' = [cnStores EXCEPT ![s][g[1]].ts = cnClock]
          /\ cnTasks' = [cnTasks EXCEPT ![s].at = "value", ![s].cur = g, ![s].got = @ \ {g}]
    /\ UNCHANGED <<cnState, cnFlag, cnRx, cnCache, cnClock, cnPoll, cnSeen>>

CnValue(s) ==
    /\ cnTasks[s].at = "value"
    /\ LET g == cnTasks[s].cur IN cnStores' = [cnStores EXCEPT ![s][g[1]].val = g[2]]
    /\ cnTasks' = [cnTasks EXCEPT ![s].cur = <<>>,
                       ![s].at = IF cnTasks[s].got = {} THEN "tick" ELSE "stamp"]
    /\ UNCHANGED <<cnState, cnFlag, cnRx, cnCache, cnClock, cnPoll, cnSeen>>

----------------------------------------------------------------------------
(* poll_once(): SlotStore::export_all() of the store in use *)

CnPollStart ==
    /\ cnPoll.at = "idle" /\ cnState = "Connected"
    /\ cnPoll' = [CnIdle EXCEPT !.at = "read"]
    /\ UNCHANGED <<cnState, cnFlag, cnRx, cnCache, cnClock, cnStores, cnTasks, cnSeen>>

\* slot_to_point(): a slot without a value is left out.
CnExport(p) ==
    /\ cnPoll.at = "read" /\ p \in cnPoll.left
    /\ LET slot == cnStores[Len(cnStores)][p]
       IN  cnPoll' = [cnPoll EXCEPT !.left = @ \ {p},
                          !.out = IF slot.val = 0 THEN @ ELSE @ \cup {<<p, slot.val, slot.ts>>}]
    /\ UNCHANGED <<cnState, cnFlag, cnRx, cnCache, cnClock, cnStores, cnTasks, cnSeen>>

CnPolled ==
    /\ cnPoll.at = "read" /\ cnPoll.left = {}
    /\ cnPoll' = CnIdle
    /\ cnSeen' = [p \in CnPoints |-> IF \E x \in cnPoll.out : x[1] = p
                                     THEN (CHOOSE x \in cnPoll.out : x[1] = p)[2] ELSE cnSeen[p]]
    /\ UNCHANGED <<cnState, cnFlag, cnRx, cnCache, cnClock, cnStores, cnTasks>>

CnNext ==
    \/ CnConnect \/ CnConnectFails \/ CnDisconnect \/ CnOpen \/ CnPollStart \/ CnPolled
    \/ \E p \in CnPoints : CnFrame(p) \/ CnExport(p)
    \/ \E s \in DOMAIN cnTasks : CnDecode(s) \/ CnStamp(s) \/ CnValue(s)

CnSpec == CnInit /\ [][CnNext]_cnVars

----------------------------------------------------------------------------
(* Properties *)

\* Types of the channel's state.
CnTypeOK ==
    /\ cnState \in {"Disconnected", "Connecting", "Connected"} /\ cnFlag \in BOOLEAN
    /\ cnRx \in {"none", "opening", "running"}
    /\ cnCache \in [CnPoints -> 0..CnFrames] /\ cnSeen \in [CnPoints -> 0..CnFrames]
    /\ Len(cnTasks) = Len(cnStores)
    /\ \A s \in DOMAIN cnTasks : cnTasks[s].at \in {"tick", "stamp", "value", "ended"}

\* A value is never exported with a timestamp from before it arrived, although the fields of a
\* slot are read while the task writes them.
CnStamped == \A x \in cnPoll.out : x[2] <= x[3]

\* No poll takes a point back to an older value, also over a reconnect during which the read
\* task of the old connection is still writing.
CnNoRollback ==
    [][\A p \in CnPoints : cnSeen'[p] >= cnSeen[p]]_cnVars

\* What a frame brought is exported, unless the channel is disconnected.
CnExported == \A p \in CnPoints : []<>(cnSeen[p] >= cnCache[p] \/ cnState # "Connected")

-----------------------------------------------------------------------------
(*----------------------------- EventAdapters -----------------------------*)
(***************************************************************************)
(* comsrv's event-driven adapters (MQTT, Zigbee gateway, BLE) and the ones *)
(* without a link of their own (HTTP, Matter): connect() opens the link    *)
(* and spawns an event loop, disconnect() aborts it, and the channel's     *)
(* task calls connect() again whenever connection_state() is not           *)
(* Connected.  They differ in who writes the state the task reads          *)
(* (the MQTT loop is given an AtomicU8 of its own), in what the loop does  *)
(* when the link is lost, and in what connect() takes for "already done".  *)
(*                                                                         *)
(* A loop is aborted at its next await: one that has already read the end  *)
(* of its stream goes on to publish it.                                    *)
(***************************************************************************)

CONSTANTS EvKinds,    \* subset of {"mqtt", "zigbee", "ble", "http", "matter"}
          EvConnects, \* bound: event loops spawned
          EvLosses,   \* bound: links lost
          EvCommands  \* bound: disconnects asked for or caused by empty polls

VARIABLES
    evKind,   \* the protocol of the channel
    evState,  \* the adapter's state, as connection_state() reads it
    evHeld,   \* client / event_loop_handle / peripheral is Some
    evCall,   \* connect() under way: "idle", "opening", "subscribing", "settling"
    evLoops,  \* the event loops spawned: where each is, whether its link is up, aborted or not
    evLeft    \* losses and disconnects still to come

evVars == <<evKind, evState, evHeld, evCall, evLoops, evLeft>>

EvInit ==
    /\ evKind \in EvKinds
    /\ evState = "Disconnected" /\ evHeld = FALSE /\ evCall = "idle"
    /\ evLoops = <<>>
    /\ evLeft = [lose |-> EvLosses, drop |-> EvCommands]

EvSpawned(up) == Append(evLoops, [at |-> "running", up |-> up, aborted |-> FALSE])

EvAlive(l) == evLoops[l].at # "ended"

----------------------------------------------------------------------------
(* The channel's task *)

\* connect(), up to the first await; it returns at once while the link is held.
EvConnect ==
    /\ evState # "Connected" /\ evCall = "idle"
    /\ ~evHeld /\ Len(evLoops) < EvConnects
    /\ evState' = "Connecting" /\ evCall' = "opening"
    /\ UNCHANGED <<evKind, evHeld, evLoops, evLeft>>

\* The MQTT client is made without waiting for the broker; its topics are queued.
EvOpenMqtt ==
    /\ evCall = "opening" /\ evKind = "mqtt"
    /\ evHeld' = TRUE /\ evLoops' = EvSpawned(FALSE) /\ evCall' = "idle"
    /\ UNCHANGED <<evKind, evState, evLeft>>

EvOpenZigbee ==
    /\ evCall = "opening" /\ evKind = "zigbee"
    /\ evHeld' = TRUE /\ evLoops' = EvSpawned(TRUE) /\ evCall' = "settling"
    /\ UNCHANGED <<evKind, evState, evLeft>>

EvSettle ==
    /\ evCall = "settling"
    /\ evState' = "Connected" /\ evCall' = "idle"
    /\ UNCHANGED <<evKind, evHeld, evLoops, evLeft>>

\* The peripheral is found, connected and kept, before the points are resolved.
EvOpenBle ==
    /\ evCall = "opening" /\ evKind = "ble"
    /\ evHeld' = TRUE /\ evCall' = "subscribing"
    /\ UNCHANGED <<evKind, evState, evLoops, evLeft>>

EvSubscribe ==
    /\ evCall = "subscribing"
    /\ evLoops' = EvSpawned(TRUE) /\ evState' = "Connected" /\ evCall' = "idle"
    /\ UNCHANGED <<evKind, evHeld, evLeft>>

\* The HTTP client is built, or the UDP socket bound, last: the state follows at once.
EvOpenAtOnce ==
    /\ evCall = "opening" /\ evKind \in {"http", "matter"}
    /\ evHeld' = TRUE /\ evState' = "Connected" /\ evCall' = "idle"
    /\ UNCHANGED <<evKind, evLoops, evLeft>>

\* A `?` of connect(), or the task's 30 s timeout drops its future: what was
\* assigned so far stays assigned.
EvConnectFails ==
    /\ evCall \in {"opening", "subscribing"} /\ evLeft.lose > 0
    /\ \/ evCall = "opening" /\ evKind = "ble" /\ evState' = "Error"
       \/ evState' = evState
    /\ evCall' = "idle" /\ evLeft' = [evLeft EXCEPT !.lose = @ - 1]
    /\ UNCHANGED <<evKind, evHeld, evLoops>>

\* The loop stops at its await; past the end of its stream it is beyond it.
EvAborted ==
    [l \in 1..Len(evLoops) |->
        IF evHeld /\ l = Len(evLoops) /\ EvAlive(l)
        THEN [evLoops[l] EXCEPT !.aborted = TRUE, !.up = FALSE,
                                !.at = IF @ = "running" THEN "ended" ELSE @]
        ELSE evLoops[l]]

\* disconnect(): a command, or the empty polls reached their threshold.
EvDisconnect ==
    /\ evCall = "idle" /\ evLeft.drop > 0
    /\ evLoops' = EvAborted
    /\ evHeld' = FALSE /\ evState' = "Disconnected"
    /\ evLeft' = [evLeft EXCEPT !.drop = @ - 1]
    /\ UNCHANGED <<evKind, evCall>>

----------------------------------------------------------------------------
(* The event loops *)

\* event_loop.poll() of rumqttc connects, again and again, until the broker answers.
EvLinkUp(l) ==
    /\ evKind = "mqtt" /\ evLoops[l].at = "running" /\ ~evLoops[l].up
    /\ evLoops' = [evLoops EXCEPT ![l].up = TRUE]
    /\ UNCHANGED <<evKind, evState, evHeld, evCall, evLeft>>

\* What the loop makes of a lost link: MQTT retries, Zigbee and BLE loops end.
EvAfterLoss == IF evKind = "mqtt" THEN "running" ELSE "lost"

EvLinkLost(l) ==
    /\ evLoops[l].at = "running" /\ evLoops[l].up /\ evLeft.lose > 0
    /\ evLoops' = [evLoops EXCEPT ![l].up = FALSE, ![l].at = EvAfterLoss]
    /\ evLeft' = [evLeft EXCEPT !.lose = @ - 1]
    /\ UNCHANGED <<evKind, evState, evHeld, evCall>>

\* The Zigbee loop publishes the end of its stream in the adapter's state.
EvLoopEnds(l) ==
    /\ evLoops[l].at = "lost"
    /\ evLoops' = [evLoops EXCEPT ![l].at = "ended"]
    /\ evState' = IF evKind = "zigbee" THEN "Disconnected" ELSE evState
    /\ UNCHANGED <<evKind, evHeld, evCall, evLeft>>

EvNext ==
    \/ EvConnect \/ EvOpenMqtt \/ EvOpenZigbee \/ EvSettle \/ EvOpenBle \/ EvSubscribe
    \/ EvOpenAtOnce \/ EvConnectFails \/ EvDisconnect
    \/ \E l \in 1..Len(evLoops) : EvLinkUp(l) \/ EvLinkLost(l) \/ EvLoopEnds(l)

EvSpec == EvInit /\ [][EvNext]_evVars

\* The task's ticker keeps calling connect(), the runtime polls every loop, and
\* the peer answers in the end.
EvTaskSteps ==
    \/ EvConnect \/ EvOpenAtOnce \/ EvOpenMqtt \/ EvOpenZigbee \/ EvSettle \/ EvOpenBle \/ EvSubscribe
EvLoopSteps == \E l \in 1..Len(evLoops) : EvLinkUp(l) \/ EvLoopEnds(l)

----------------------------------------------------------------------------

\* Types of the channel's state.
EvTypeOK ==
    /\ evState \in {"Disconnected", "Connecting", "Connected", "Error"}
    /\ evHeld \in BOOLEAN /\ evCall \in {"idle", "opening", "subscribing", "settling"}
    /\ \A l \in 1..Len(evLoops) :
           evLoops[l] \in [at : {"running", "lost", "ended"}, up : BOOLEAN, aborted : BOOLEAN]

\* Whatever connect() and disconnect() do, and wherever a connect() is cut off, a
\* channel owns every event loop that still runs: there never are two loops that
\* publish into one channel, and none outlives the disconnect().
EvNoOrphanLoop ==
    \A l \in 1..Len(evLoops) :
        evLoops[l].at = "running" => evHeld /\ l = Len(evLoops) /\ ~evLoops[l].aborted

\* The MQTT loop gets its link back by itself: as long as it is not aborted, a
\* lost broker is found again without the channel's task.
EvMqttHeals ==
    \A l \in 1..EvConnects :
        []<>(evKind = "mqtt" /\ l \in DOMAIN evLoops => evLoops[l].up \/ evLoops[l].aborted)

-----------------------------------------------------------------------------
(*----------------------------- JsonTransform -----------------------------*)
(***************************************************************************)
(* Channels whose devices speak JSON (HTTP polling, webhooks, MQTT): a     *)
(* payload becomes points through the JSONPath mappings of the database or *)
(* through a persistent Python subprocess (ScriptRunner) shared by every   *)
(* caller of the channel's mapper.                                         *)
(***************************************************************************)

CONSTANTS JtCallers,   \* users of one mapper: the polling loop, webhooks
          JtDocs,      \* payloads: [json, does, fields], does is what the
                       \* script does with it: "points", "raises", "prints"
          JtRows,      \* rows of json_point_mappings: [point, field, type, sound]
          JtReadyId,   \* the id of the host's ready line
          JtCalls,     \* bound: payloads received
          JtCrashes,   \* bound: crashes of the subprocess
          JtRetries    \* max_retries of the HTTP loop

VARIABLES jtScripted,  \* transform_script is configured
          jtChild,     \* inner.child: "none", "live" or "dead" (not noticed)
          jtPipe,      \* lines the subprocess wrote and nobody read
          jtCall,      \* caller -> [st, doc, try]
          jtGot,       \* caller -> what parse returned last: [status, of, points]
          jtCount,     \* [calls, crashes, spawned, killed]
          jtHttp       \* [client, loop, fails, state]

jtVars == <<jtScripted, jtChild, jtPipe, jtCall, jtGot, jtCount, jtHttp>>

JtIdle == [st |-> "idle", doc |-> 0, try |-> 0]
JtNothing == [status |-> "none", of |-> 0, points |-> <<>>]
JtError == [status |-> "error", of |-> 0, points |-> <<>>]

\* ------------------------------------------------------------------
\* JsonMapper
\* ------------------------------------------------------------------
\* from_database and compile_row: an unsound row is skipped.
JtMappings == {r \in JtRows : r.sound}

\* json_to_f64: numbers, booleans and strings that read as numbers.
JtToF64(v) ==
    CASE v = "number" -> "number" [] v = "true" -> "one" [] v = "false" -> "zero"
      [] v = "digits" -> "number" [] OTHER -> "none"

\* convert_value, scale and offset left out.
JtConvert(v, type) ==
    CASE type \in {"float", "int"} -> JtToF64(v)
      [] type = "bool" -> IF v \in {"true", "number", "digits", "text"} THEN "one" ELSE "zero"
      [] OTHER -> v

\* extract_point: the first match, if it converts.
JtExtracts(d, r) ==
    r.field \in DOMAIN d.fields /\ JtConvert(d.fields[r.field], r.type) # "none"

\* parse_value: a row that does not extract leaves its point out.
JtParseValue(d) ==
    [p \in {r.point : r \in {s \in JtMappings : JtExtracts(d, s)}} |->
        LET r == CHOOSE s \in JtMappings : s.point = p /\ JtExtracts(d, s)
        IN JtConvert(d.fields[r.field], r.type)]

\* parse without a script.
JtParse(i) ==
    IF JtMappings = {} THEN [status |-> "ok", of |-> i, points |-> <<>>]
    ELSE IF ~ JtDocs[i].json THEN JtError
    ELSE [status |-> "ok", of |-> i, points |-> JtParseValue(JtDocs[i])]

\* ------------------------------------------------------------------
\* ScriptRunner
\* ------------------------------------------------------------------
\* What the host writes for a request: the script's own prints come first.
JtHostLines(i) ==
    CASE JtDocs[i].does = "points" -> <<[kind |-> "answer", doc |-> i]>>
      [] JtDocs[i].does = "raises" -> <<[kind |-> "error", doc |-> i]>>
      [] OTHER -> <<[kind |-> "noise", doc |-> i], [kind |-> "answer", doc |-> i]>>

JtInit ==
    /\ jtScripted \in BOOLEAN
    /\ jtChild = "none" /\ jtPipe = <<>>
    /\ jtCall = [c \in JtCallers |-> JtIdle]
    /\ jtGot = [c \in JtCallers |-> JtNothing]
    /\ jtCount = [calls |-> 0, crashes |-> 0, spawned |-> 0, killed |-> 0]
    /\ jtHttp = [client |-> FALSE, loop |-> FALSE, fails |-> 0, state |-> "disconnected"]

\* parse of a payload: mapped at once, or handed to the runner.
JtReceive(c, i) ==
    /\ jtCall[c].st = "idle" /\ jtCount.calls < JtCalls
    /\ jtCount' = [jtCount EXCEPT !.calls = @ + 1]
    /\ IF ~ jtScripted \/ ~ JtDocs[i].json
       THEN /\ jtGot' = [jtGot EXCEPT ![c] = IF jtScripted THEN JtError ELSE JtParse(i)]
            /\ UNCHANGED jtCall
       ELSE /\ jtCall' = [jtCall EXCEPT ![c] = [st |-> "check", doc |-> i, try |-> 1]]
            /\ UNCHANGED jtGot
    /\ UNCHANGED <<jtScripted, jtChild, jtPipe>>

\* The webhook handler.
JtProcess(i) == JtReceive("hook", i) /\ UNCHANGED jtHttp

\* transform: is_running looks at the option, not at the process.
JtCheck(c) ==
    /\ jtCall[c].st = "check"
    /\ jtCall' = [jtCall EXCEPT ![c].st = IF jtChild = "none" THEN "start" ELSE "send"]
    /\ UNCHANGED <<jtScripted, jtChild, jtPipe, jtGot, jtCount, jtHttp>>

JtFail(c) ==
    /\ jtCall' = [jtCall EXCEPT ![c] = JtIdle]
    /\ jtGot' = [jtGot EXCEPT ![c] = JtError]

\* start: the ready line must read as a ScriptResponse, whose id is a u64.
JtStart(c) ==
    /\ jtCall[c].st = "start"
    /\ IF jtChild # "none"
       THEN /\ jtCall' = [jtCall EXCEPT ![c].st = "send"]
            /\ UNCHANGED <<jtChild, jtPipe, jtGot, jtCount>>
       ELSE /\ jtCount' = [jtCount EXCEPT !.spawned = @ + 1]
            /\ IF JtReadyId < 0
               THEN JtFail(c) /\ UNCHANGED <<jtChild, jtPipe>>
               ELSE /\ jtChild' = "live" /\ jtPipe' = <<>>
                    /\ jtCall' = [jtCall EXCEPT ![c].st = "send"]
                    /\ UNCHANGED jtGot
    /\ UNCHANGED <<jtScripted, jtHttp>>

\* send_and_receive, under the lock: one request written, one line read; a
\* first failure leads to kill and restart, a second one is returned.
JtSend(c) ==
    /\ jtCall[c].st = "send"
    /\ LET lines == IF jtChild = "live" THEN jtPipe \o JtHostLines(jtCall[c].doc) ELSE <<>>
       IN /\ jtPipe' = IF lines = <<>> THEN jtPipe ELSE Tail(lines)
          /\ IF lines # <<>> /\ Head(lines).kind = "answer"
             THEN /\ jtCall' = [jtCall EXCEPT ![c] = JtIdle]
                  /\ jtGot' = [jtGot EXCEPT ![c] = [status |-> "ok", of |-> Head(lines).doc,
                                                    points |-> <<>>]]
             ELSE IF jtCall[c].try = 1
             THEN jtCall' = [jtCall EXCEPT ![c].st = "kill", ![c].try = 2] /\ UNCHANGED jtGot
             ELSE JtFail(c)
    /\ UNCHANGED <<jtScripted, jtChild, jtCount, jtHttp>>

JtKill(c) ==
    /\ jtCall[c].st = "kill"
    /\ jtCall' = [jtCall EXCEPT ![c].st = "start"]
    /\ jtChild' = "none" /\ jtPipe' = <<>>
    /\ jtCount' = [jtCount EXCEPT !.killed = @ + (IF jtChild = "none" THEN 0 ELSE 1)]
    /\ UNCHANGED <<jtScripted, jtGot, jtHttp>>

JtCrash ==
    /\ jtChild = "live" /\ jtCount.crashes < JtCrashes
    /\ jtChild' = "dead"
    /\ jtCount' = [jtCount EXCEPT !.crashes = @ + 1]
    /\ UNCHANGED <<jtScripted, jtPipe, jtCall, jtGot, jtHttp>>

\* ------------------------------------------------------------------
\* HttpChannel
\* ------------------------------------------------------------------
\* connect, then start_events: one polling loop, with a state of its own.
JtConnect ==
    /\ ~ jtHttp.client
    /\ jtHttp' = [client |-> TRUE, loop |-> FALSE, fails |-> 0, state |-> "connected"]
    /\ UNCHANGED <<jtScripted, jtChild, jtPipe, jtCall, jtGot, jtCount>>

JtStartEvents ==
    /\ jtHttp.client /\ ~ jtHttp.loop
    /\ jtHttp' = [jtHttp EXCEPT !.loop = TRUE, !.fails = 0]
    /\ UNCHANGED <<jtScripted, jtChild, jtPipe, jtCall, jtGot, jtCount>>

\* stop_events and disconnect abort the loop at its next await.
JtStopEvents ==
    /\ jtHttp.loop /\ jtCall["poll"].st = "idle"
    /\ jtHttp' = [jtHttp EXCEPT !.loop = FALSE]
    /\ UNCHANGED <<jtScripted, jtChild, jtPipe, jtCall, jtGot, jtCount>>

JtDisconnect ==
    /\ jtHttp.client /\ jtCall["poll"].st = "idle"
    /\ jtHttp' = [client |-> FALSE, loop |-> FALSE, fails |-> 0, state |-> "disconnected"]
    /\ UNCHANGED <<jtScripted, jtChild, jtPipe, jtCall, jtGot, jtCount>>

\* run_poll_loop: a refused request, a bad status or a body too large.
JtPollFails ==
    /\ jtHttp.loop /\ jtCall["poll"].st = "idle" /\ jtHttp.fails < JtRetries
    /\ jtHttp' = [jtHttp EXCEPT !.fails = @ + 1]
    /\ UNCHANGED <<jtScripted, jtChild, jtPipe, jtCall, jtGot, jtCount>>

\* run_poll_loop: a body is parsed; success resets the failures.
JtPollBody(i) ==
    /\ jtHttp.loop
    /\ JtReceive("poll", i)
    /\ jtHttp' = [jtHttp EXCEPT !.fails = 0]

\* poll_once of the channel task: the same, without the loop; an error is an
\* empty batch to the task.
JtPollOnce(i) ==
    /\ jtHttp.client /\ ~ jtHttp.loop
    /\ JtReceive("poll", i) /\ UNCHANGED jtHttp

JtNext ==
    \/ \E i \in DOMAIN JtDocs : JtProcess(i) \/ JtPollBody(i) \/ JtPollOnce(i)
    \/ \E c \in JtCallers : JtCheck(c) \/ JtStart(c) \/ JtSend(c) \/ JtKill(c)
    \/ JtCrash
    \/ JtConnect \/ JtStartEvents \/ JtStopEvents \/ JtDisconnect \/ JtPollFails

JtSpec == JtInit /\ [][JtNext]_jtVars

\* ------------------------------------------------------------------
\* Properties
\* ------------------------------------------------------------------
JtTypeOK ==
    /\ jtChild \in {"none", "live", "dead"}
    /\ \A c \in JtCallers : jtCall[c].st \in {"idle", "check", "start", "send", "kill"}
    /\ \A c \in JtCallers : jtGot[c].status \in {"none", "ok", "error"}
    /\ jtCount.calls \in 0..JtCalls

\* The points a caller gets are made from the payload it sent, also when
\* two callers share the subprocess and it dies between their requests
\* (send_and_receive holds the lock over write and read).
JtOwnAnswer ==
    [][\A c \in JtCallers :
          (jtCall[c].st = "send" /\ jtGot'[c].status = "ok" /\ jtCall'[c].st = "idle")
              => jtGot'[c].of = jtCall[c].doc]_jtVars

\* Every payload is answered.
JtAnswered == \A c \in JtCallers : []<>(jtCall[c].st = "idle")

\* The subprocess is started once and reused: another one is spawned only
\* after one was killed.
JtStartedOnce == jtCount.spawned <= 1 + jtCount.killed

=============================================================================
