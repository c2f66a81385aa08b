----------------------------- MODULE ChannelTask -----------------------------
(***************************************************************************)
(* The task of one channel of comsrv (core/channels/channel_task.rs), its  *)
(* ReconnectHelper (runtime/reconnect.rs), the command queue of its entry  *)
(* (core/channels/channel_entry.rs) and its removal by the channel manager.*)
(*                                                                         *)
(* The task owns the protocol client.  It serves protocol commands first,  *)
(* then business commands, then poll ticks; a tick that finds the link     *)
(* down makes a reconnection attempt, after a backoff during which only    *)
(* protocol commands are served.  Data is abstracted to "a poll returned   *)
(* points or it did not"; time to the events "the backoff delay is over"   *)
(* and "the recovery cooldown is over".                                    *)
(***************************************************************************)
EXTENDS Naturals, Sequences

CONSTANTS Commands,       \* protocol commands the environment sends
          QueueCap,       \* capacity of protocol_tx (32)
          MaxAttempts,    \* reconnect_max_attempts; 0 is unlimited
          MaxRounds,      \* watchdog_max_recovery_rounds; 0 disables recovery
          ZeroThreshold,  \* zero_data_threshold; 0 disables the check
          SelfHealing,    \* the client reconnects by itself too (MQTT, HTTP)
          AttemptCap,     \* bound: where the attempt counter stops counting
          MaxSends        \* bound: commands sent in a behaviour

\* "query" stands for GetDiagnostics, GetConnectionState, SetLogLevel,
\* WriteControl and WriteAdjustment: none of them changes what is modelled here.
ASSUME CommandsAssumption == Commands \subseteq {"connect", "disconnect", "query"}
ASSUME QueueCapAssumption == QueueCap \in Nat \ {0}
ASSUME PolicyAssumption == MaxAttempts \in Nat /\ MaxRounds \in Nat /\ ZeroThreshold \in Nat
ASSUME EnvAssumption == SelfHealing \in BOOLEAN
ASSUME AttemptCapAssumption == AttemptCap \in Nat \ {0} /\ MaxAttempts <= AttemptCap
ASSUME MaxSendsAssumption == MaxSends \in Nat

VARIABLES
    pc,       \* "start", "run", "backoff", "connecting", "stopped" or "aborted"
    link,     \* protocol.connection_state().is_connected()
    queue,    \* protocol_rx
    business, \* whether business_rx holds a command
    state,    \* ReconnectHelper: connection_state
    attempt,  \* ReconnectHelper: current_attempt
    total,    \* ReconnectHelper: stats.total_attempts, counted up to 2
    rounds,   \* ReconnectHelper: recovery_rounds
    cooldown, \* ReconnectHelper: failed_at, as "unset", "running" or "elapsed"
    zero,     \* consecutive_zero_data
    failed,   \* the reconnect_failed flag of the entry
    cached,   \* the cached_state of the entry, as connected or not
    prev,     \* prev_online: what the task published last
    online,   \* Redis: the channel's online entry, "none" when absent
    lost,     \* history: a write of the online entry has failed
    remove,   \* remove_channel(): "no", "asked" or "done"
    sent,     \* commands sent so far
    tries     \* history: attempts recorded since mark_connected()

helperVars == <<state, attempt, total, rounds, cooldown, tries>>
statusVars == <<cached, prev, online, lost>>
vars == <<pc, link, queue, business, helperVars, zero, failed, statusVars, remove, sent>>

Cap(n, bound) == IF n > bound THEN bound ELSE n

\* The attempts an outage may take before the channel gives up for good.
Budget == MaxAttempts * (MaxRounds + 1)

Alive == pc \in {"start", "run", "backoff", "connecting"}

\* ReconnectHelper::new(), ChannelEntry::new()
Init ==
    /\ pc = "start" /\ link = FALSE /\ queue = <<>> /\ business = FALSE
    /\ state = "disconnected" /\ attempt = 0 /\ total = 0 /\ rounds = 0
    /\ cooldown = "unset" /\ tries = 0
    /\ zero = 0 /\ failed = FALSE
    /\ cached = FALSE /\ prev = "none" /\ online = "none" /\ lost = FALSE
    /\ remove = "no" /\ sent = 0

-----------------------------------------------------------------------------
(* ReconnectHelper *)

MarkConnected ==
    /\ state' = "connected"
    /\ attempt' = 0 /\ rounds' = 0 /\ cooldown' = "unset"
    /\ tries' = 0
    /\ UNCHANGED total

\* Mutant: failed_at stays unset.
StartCooldownNot == UNCHANGED cooldown

\* failed_at.get_or_insert_with(now)
StartCooldown == cooldown' = IF cooldown = "unset" THEN "running" ELSE cooldown

Exhausted == MaxAttempts > 0 /\ attempt >= MaxAttempts

\* record_attempt().  It is never refused: record_failure() has moved to Failed
\* when the limit was reached, and every other reset puts attempt back to 0.
AllowAttempt ==
    /\ ~Exhausted
    /\ attempt' = Cap(attempt + 1, AttemptCap)
    /\ total' = Cap(total + 1, 2)
    /\ tries' = Cap(tries + 1, Budget + 1)
    /\ state' = "reconnecting"
    /\ UNCHANGED <<rounds, cooldown>>

RecordFailure ==
    /\ IF Exhausted
         THEN state' = "failed" /\ StartCooldown
         ELSE state' = "disconnected" /\ UNCHANGED cooldown
    /\ UNCHANGED <<attempt, total, rounds, tries>>

\* check_auto_recovery() returns true
RecoveryDue == MaxRounds > 0 /\ rounds < MaxRounds /\ cooldown = "elapsed"

\* Mutant: the recovery round is not counted.
AutoRecoverUncounted ==
    /\ cooldown' = "unset"
    /\ attempt' = 0
    /\ state' = "disconnected"
    /\ UNCHANGED <<rounds, total, tries>>

AutoRecover ==
    /\ rounds' = rounds + 1
    /\ cooldown' = "unset"
    /\ attempt' = 0
    /\ state' = "disconnected"
    /\ UNCHANGED <<total, tries>>

-----------------------------------------------------------------------------
(* What the task publishes *)

Status(up) == IF up THEN "on" ELSE "off"

\* publish_channel_online(): a failed write is logged and forgotten.
WriteOnline(v) ==
    \/ online' = v /\ UNCHANGED lost
    \/ lost' = TRUE /\ UNCHANGED online

\* Mutant: only the change to online is published.
PublishUpOnly(up) ==
    /\ cached' = up
    /\ prev' = Status(up)
    /\ IF up /\ prev # Status(up) THEN WriteOnline(Status(up)) ELSE UNCHANGED <<online, lost>>

\* update_cached_state() and check_online_change()
Publish(up) ==
    /\ cached' = up
    /\ IF prev # Status(up)
         THEN prev' = Status(up) /\ WriteOnline(Status(up))
         ELSE UNCHANGED <<prev, online, lost>>

\* After the loop: disconnect(), cached_state Disconnected, publish offline.
Exit ==
    /\ pc' = "stopped"
    /\ link' = FALSE
    /\ cached' = FALSE
    /\ WriteOnline("off")

-----------------------------------------------------------------------------
(* Poll ticks: the select! is biased, so a tick runs when both queues are    *)
(* empty.                                                                    *)

\* The first 500 ms of the task.
Start ==
    /\ pc = "start"
    /\ pc' = "run"
    /\ Publish(link)
    /\ UNCHANGED <<link, queue, business, helperVars, zero, failed, remove, sent>>

Ticking == pc = "run" /\ queue = <<>> /\ ~business

\* Step 2 of handle_poll_tick: the helper learns that the link is up.
NoteConnected ==
    IF state # "connected"
      THEN MarkConnected /\ failed' = FALSE
      ELSE UNCHANGED <<helperVars, failed>>

\* The poll returns points.
PollData ==
    /\ Ticking /\ link
    /\ NoteConnected
    /\ zero' = 0
    /\ Publish(link)
    /\ UNCHANGED <<pc, link, queue, business, remove, sent>>

\* The poll returns nothing, fewer than zero_data_threshold times in a row.
PollEmpty ==
    /\ Ticking /\ link
    /\ ZeroThreshold > 0 => zero + 1 < ZeroThreshold
    /\ NoteConnected
    /\ zero' = IF ZeroThreshold > 0 THEN zero + 1 ELSE zero
    /\ Publish(link)
    /\ UNCHANGED <<pc, link, queue, business, remove, sent>>

\* The poll returns nothing once too often: the task drops the link itself.
PollZombie ==
    /\ Ticking /\ link
    /\ ZeroThreshold > 0 /\ zero + 1 >= ZeroThreshold
    /\ NoteConnected
    /\ zero' = 0
    /\ link' = FALSE
    /\ Publish(FALSE)
    /\ UNCHANGED <<pc, queue, business, remove, sent>>

\* handle_disconnected, Failed: the cooldown is over.
TickRecover ==
    /\ Ticking /\ ~link /\ state = "failed"
    /\ RecoveryDue
    /\ AutoRecover
    /\ failed' = FALSE
    /\ Publish(link)
    /\ UNCHANGED <<pc, link, queue, business, zero, remove, sent>>

\* handle_disconnected, Failed: still cooling down, or out of rounds.
TickFailed ==
    /\ Ticking /\ ~link /\ state = "failed"
    /\ ~RecoveryDue
    /\ failed' = TRUE
    /\ Publish(link)
    /\ UNCHANGED <<pc, link, queue, business, helperVars, zero, remove, sent>>

\* handle_disconnected, Connected or Disconnected: an attempt, after a backoff
\* unless it is the first of the task's life.  (In state Reconnecting a tick
\* changes nothing: TickAction::Continue.)
TickAttempt ==
    /\ Ticking /\ ~link /\ state \in {"connected", "disconnected"}
    /\ AllowAttempt
    /\ pc' = IF total' > 1 THEN "backoff" ELSE "connecting"
    /\ UNCHANGED <<link, queue, business, zero, failed, statusVars, remove, sent>>

\* sleep(delay) ends first.
BackoffOver ==
    /\ pc = "backoff"
    /\ pc' = "connecting"
    /\ UNCHANGED <<link, queue, business, helperVars, zero, failed, statusVars, remove, sent>>

\* connect() returns Ok within 30 s.
ConnectOk ==
    /\ pc = "connecting"
    /\ pc' = "run"
    /\ link' = TRUE
    /\ MarkConnected
    /\ failed' = FALSE
    /\ Publish(TRUE)
    /\ UNCHANGED <<queue, business, zero, remove, sent>>

\* connect() returns an error, or 30 s pass.
ConnectFail ==
    /\ pc = "connecting"
    /\ pc' = "run"
    /\ link' = FALSE
    /\ RecordFailure
    /\ Publish(FALSE)
    /\ UNCHANGED <<queue, business, zero, failed, remove, sent>>

-----------------------------------------------------------------------------
(* Commands *)

\* Shutdown breaks the loop, from the select! or from the backoff.
RunShutdown ==
    /\ pc = "run" /\ queue # <<>> /\ Head(queue) = "shutdown"
    /\ queue' = Tail(queue)
    /\ Exit
    /\ UNCHANGED <<business, helperVars, zero, failed, prev, remove, sent>>

BackoffShutdown ==
    /\ pc = "backoff" /\ queue # <<>> /\ Head(queue) = "shutdown"
    /\ queue' = Tail(queue)
    /\ Exit
    /\ prev' = IF prev # Status(link) THEN Status(link) ELSE prev
    /\ UNCHANGED <<business, helperVars, zero, failed, remove, sent>>

\* The effect of a command on the link: connect() may fail.
LinkAfter(c) ==
    CASE c = "connect" -> BOOLEAN
      [] c = "disconnect" -> {FALSE}
      [] OTHER -> {link}

\* handle_protocol_command
RunCommand ==
    /\ pc = "run" /\ queue # <<>> /\ Head(queue) # "shutdown"
    /\ queue' = Tail(queue)
    /\ link' \in LinkAfter(Head(queue))
    /\ UNCHANGED <<pc, business, helperVars, zero, failed, statusVars, remove, sent>>

\* handle_backoff_command: the tick ends without the attempt it recorded.
BackoffCommand ==
    /\ pc = "backoff" /\ queue # <<>> /\ Head(queue) # "shutdown"
    /\ queue' = Tail(queue)
    /\ link' \in LinkAfter(Head(queue))
    /\ IF Head(queue) = "connect" /\ link'
         THEN MarkConnected
         ELSE UNCHANGED helperVars
    /\ pc' = "run"
    /\ Publish(link')
    /\ UNCHANGED <<business, zero, failed, remove, sent>>

\* handle_business_command
RunBusiness ==
    /\ pc = "run" /\ queue = <<>> /\ business
    /\ business' = FALSE
    /\ UNCHANGED <<pc, link, queue, helperVars, zero, failed, statusVars, remove, sent>>

-----------------------------------------------------------------------------
(* The environment *)

\* The protocol client finds the connection lost.
LinkLost ==
    /\ Alive /\ link
    /\ link' = FALSE
    /\ UNCHANGED <<pc, queue, business, helperVars, zero, failed, statusVars, remove, sent>>

\* The client's own event loop reconnects (MQTT ConnAck).
LinkRestored ==
    /\ SelfHealing
    /\ Alive /\ ~link
    /\ link' = TRUE
    /\ UNCHANGED <<pc, queue, business, helperVars, zero, failed, statusVars, remove, sent>>

\* ChannelEntry::connect(), disconnect(), set_log_level(): send() waits for room.
Send(c) ==
    /\ Alive /\ Len(queue) < QueueCap
    /\ queue' = Append(queue, c)
    /\ sent < MaxSends /\ sent' = sent + 1
    /\ UNCHANGED <<pc, link, business, helperVars, zero, failed, statusVars, remove>>

SendBusiness ==
    /\ Alive /\ ~business
    /\ business' = TRUE
    /\ sent < MaxSends /\ sent' = sent + 1
    /\ UNCHANGED <<pc, link, queue, helperVars, zero, failed, statusVars, remove>>

CooldownElapses ==
    /\ cooldown = "running"
    /\ cooldown' = "elapsed"
    /\ UNCHANGED <<pc, link, queue, business, state, attempt, total, rounds, tries, zero,
                   failed, statusVars, remove, sent>>

\* remove_channel(): shutdown() is a try_send, dropped when the queue is full.
RemoveRequest ==
    /\ remove = "no"
    /\ remove' = "asked"
    /\ queue' = IF Len(queue) < QueueCap THEN Append(queue, "shutdown") ELSE queue
    /\ UNCHANGED <<pc, link, business, helperVars, zero, failed, statusVars, sent>>

\* Mutant: the JoinHandle is dropped, which does not stop the task.
AbortByDrop ==
    /\ remove = "asked" /\ Alive
    /\ UNCHANGED vars

\* The task did not exit within 500 ms: abort().
Abort ==
    /\ remove = "asked" /\ Alive
    /\ pc' = "aborted"
    /\ link' = FALSE
    /\ UNCHANGED <<queue, business, helperVars, zero, failed, statusVars, remove, sent>>

\* Mutant: Redis is cleaned up without waiting for the task.
CleanupEarly ==
    /\ remove = "asked"
    /\ remove' = "done"
    /\ WriteOnline("none")
    /\ UNCHANGED <<pc, link, queue, business, helperVars, zero, failed, cached, prev, sent>>

\* cleanup_channel_redis(), once the task has ended
Cleanup ==
    /\ remove = "asked" /\ ~Alive
    /\ remove' = "done"
    /\ WriteOnline("none")
    /\ UNCHANGED <<pc, link, queue, business, helperVars, zero, failed, cached, prev, sent>>

-----------------------------------------------------------------------------
Tick ==
    \/ PollData \/ PollEmpty \/ PollZombie
    \/ TickRecover \/ TickFailed \/ TickAttempt

\* The steps of the task that do not wait for a tick.
Serve ==
    \/ Start \/ BackoffOver \/ ConnectOk \/ ConnectFail
    \/ RunShutdown \/ BackoffShutdown \/ RunCommand \/ BackoffCommand \/ RunBusiness

Environment ==
    \/ LinkLost \/ LinkRestored \/ SendBusiness \/ CooldownElapses
    \/ \E c \in Commands : Send(c)

Removal == RemoveRequest \/ Abort \/ Cleanup

Next == Tick \/ Serve \/ Environment \/ Removal

Spec == Init /\ [][Next]_vars

\* The task keeps running and time passes; a removal that has begun goes on.
FairSpec ==
    /\ Spec
    /\ WF_vars(Serve \/ Tick)
    /\ WF_vars(CooldownElapses)
    /\ WF_vars(Abort \/ Cleanup)

\* Besides, the device answers: a connect() tried again and again succeeds.
ReachableSpec == FairSpec /\ SF_vars(ConnectOk)

-----------------------------------------------------------------------------
(* Properties *)

\* The state of the task, its helper and its entry keeps its type: in particular the
\* command queue stays within protocol_tx's capacity and the helper's attempts and
\* rounds within the policy, whichever path resets them.
TypeOK ==
    /\ pc \in {"start", "run", "backoff", "connecting", "stopped", "aborted"}
    /\ link \in BOOLEAN /\ business \in BOOLEAN
    /\ queue \in Seq(Commands \cup {"shutdown"}) /\ Len(queue) <= QueueCap
    /\ state \in {"connected", "disconnected", "reconnecting", "failed"}
    /\ attempt \in 0 .. AttemptCap /\ total \in 0 .. 2
    /\ rounds \in 0 .. MaxRounds
    /\ cooldown \in {"unset", "running", "elapsed"}
    /\ zero \in 0 .. ZeroThreshold
    /\ failed \in BOOLEAN /\ cached \in BOOLEAN /\ lost \in BOOLEAN
    /\ prev \in {"none", "on", "off"} /\ online \in {"none", "on", "off"}
    /\ remove \in {"no", "asked", "done"}
    /\ sent \in 0 .. MaxSends
    /\ tries \in 0 .. Budget + 1

\* The reconnect_failed flag that the API and the watchdog log read is raised
\* only while the helper is in state Failed: recovery and reconnection, whatever
\* path they take, lower it.
FailedFlagTrue == failed => state = "failed"

\* With a limit on attempts an outage takes at most max_attempts attempts in each
\* of 1 + max_recovery_rounds rounds, however failures, cooldowns, commands and
\* spurious recoveries interleave.
AttemptsBounded == MaxAttempts > 0 => tries <= Budget

\* After remove_channel() Redis has no online entry of the channel, unless a write
\* failed: the cleanup comes after the last publication of the task.
NoGhostOnline == remove = "done" /\ ~lost => online = "none"

\* A tick that finds the helper in state Reconnecting does nothing at all; only a
\* command or the client itself can bring the link up again.
Frozen == pc = "run" /\ state = "reconnecting" /\ ~link

\* The online entry in Redis catches up with the link, again and again, until the
\* channel is removed, its task frozen or a write fails (which is never repeated).
OnlineCatchesUp == []<>(online = Status(link) \/ remove = "done" \/ Frozen \/ lost)

\* remove_channel() ends, even when the queue is full and Shutdown is dropped.
RemovalEnds == remove = "asked" ~> remove = "done"

GaveUp == state = "failed" /\ rounds = MaxRounds

\* A link that is down comes up again, or the task ends, or every attempt of every
\* round has been used, or the task is frozen: there is no other way to stay down.
ReconnectsUnlessFrozen == ~link ~> (link \/ ~Alive \/ GaveUp \/ Frozen)

\* A link that is down comes up again, or the task ends, or every attempt of every
\* round has been used: commands served during a backoff do not stop reconnection.
AutoReconnect == ~link ~> (link \/ ~Alive \/ GaveUp)
=============================================================================
