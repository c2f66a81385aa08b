---------------------------- MODULE WriteBuffer ----------------------------
(***************************************************************************)
(* voltage-rtdb: the buffer that gathers hash writes and flushes them to   *)
(* Redis in a pipeline, and the start and shutdown of its flush task in    *)
(* comsrv's RedisDataStore.                                                *)
(*                                                                         *)
(* `pending` is a concurrent map: a key is written, drained or put back    *)
(* under the lock of its shard, so the flush passes the keys one by one    *)
(* while writers go on.                                                    *)
(***************************************************************************)
EXTENDS Naturals, FiniteSets

CONSTANTS WbKeys,     \* hash keys (one field each)
          WbMaxKeys,  \* max_pending_keys
          WbWrites    \* bound: writes of a key

ASSUME WbAssumption == WbMaxKeys \in Nat /\ WbWrites \in Nat

VARIABLES
    wbPending,  \* value of a key that waits; 0: none
    wbMade,     \* last value that a writer gave for a key
    wbTaken,    \* last value that buffer_hash_set() accepted
    wbRedis,    \* value of a key in Redis
    wbLoop,     \* the flush of the task: its phase, the keys to pass, what it has drained
    wbExtra,    \* flush_now() of shutdown()
    wbState     \* "on", "stop" (signalled), "final" (last flush), "late" (not stopped in time) or "off"

wbVars == <<wbPending, wbMade, wbTaken, wbRedis, wbLoop, wbExtra, wbState>>

WbNothing == [k \in WbKeys |-> 0]
WbRest == [at |-> "idle", todo |-> {}, got |-> WbNothing]

WbInit ==
    /\ wbPending = WbNothing /\ wbMade = WbNothing /\ wbTaken = WbNothing /\ wbRedis = WbNothing
    /\ wbLoop = WbRest /\ wbExtra = WbRest /\ wbState = "on"

WbKeysPending == {k \in WbKeys : wbPending[k] # 0}

----------------------------------------------------------------------------
(* buffer_hash_set(), buffer_hash_mset() *)

\* A key that waits already takes the new value; a new key needs room.
WbPut(k) ==
    /\ wbState # "off" /\ wbMade[k] < WbWrites
    /\ wbMade' = [wbMade EXCEPT ![k] = @ + 1]
    /\ IF Cardinality(WbKeysPending) >= WbMaxKeys /\ k \notin WbKeysPending
       THEN UNCHANGED <<wbPending, wbTaken>>                        \* BufferOverflow
       ELSE wbPending' = [wbPending EXCEPT ![k] = wbMade[k] + 1]
            /\ wbTaken' = [wbTaken EXCEPT ![k] = wbMade[k] + 1]
    /\ UNCHANGED <<wbRedis, wbLoop, wbExtra, wbState>>

----------------------------------------------------------------------------
(* flush(): f is the state of one flush *)

WbStart(f) == [f EXCEPT !.at = "drain", !.todo = WbKeys]

WbDrained(f, k) ==
    LET todo == f.todo \ {k}
        got == [f.got EXCEPT ![k] = wbPending[k]]
    IN  [at |-> IF todo # {} THEN "drain" ELSE IF got = WbNothing THEN "idle" ELSE "push",
         todo |-> todo, got |-> got]

WbStored(f) == [k \in WbKeys |-> IF f.got[k] # 0 THEN f.got[k] ELSE wbRedis[k]]

\* Mutant: a failed flush is put back over newer values.
WbRequeuedOver(f, k) == f.got[k]

\* requeue_failed(): a value that arrived meanwhile is newer and stays.
WbRequeued(f, k) == IF wbPending[k] = 0 THEN f.got[k] ELSE wbPending[k]
WbPutBack(f, k) ==
    LET got == [f.got EXCEPT ![k] = 0]
    IN  [f EXCEPT !.got = got, !.at = IF got = WbNothing THEN "idle" ELSE "back"]

----------------------------------------------------------------------------
(* The flush task: flush_loop_with_shutdown() *)

WbWake ==
    /\ wbLoop.at = "idle" /\ wbState \in {"on", "stop"}
    /\ wbLoop' = WbStart(wbLoop)
    /\ wbState' = IF wbState = "stop" THEN "final" ELSE wbState
    /\ UNCHANGED <<wbPending, wbMade, wbTaken, wbRedis, wbExtra>>

WbDrain(k) ==
    /\ wbLoop.at = "drain" /\ k \in wbLoop.todo
    /\ wbLoop' = WbDrained(wbLoop, k)
    /\ wbPending' = [wbPending EXCEPT ![k] = 0]
    /\ UNCHANGED <<wbMade, wbTaken, wbRedis, wbExtra, wbState>>

WbPush ==
    /\ wbLoop.at = "push"
    /\ wbRedis' = WbStored(wbLoop) /\ wbLoop' = WbRest
    /\ UNCHANGED <<wbPending, wbMade, wbTaken, wbExtra, wbState>>

\* The pipeline reports an error; Redis may have executed it all the same.
WbPushFails ==
    /\ wbLoop.at = "push"
    /\ wbRedis' \in {wbRedis, WbStored(wbLoop)} /\ wbLoop' = [wbLoop EXCEPT !.at = "back"]
    /\ UNCHANGED <<wbPending, wbMade, wbTaken, wbExtra, wbState>>

WbRequeue(k) ==
    /\ wbLoop.at = "back" /\ wbLoop.got[k] # 0
    /\ wbPending' = [wbPending EXCEPT ![k] = WbRequeued(wbLoop, k)]
    /\ wbLoop' = WbPutBack(wbLoop, k)
    /\ UNCHANGED <<wbMade, wbTaken, wbRedis, wbExtra, wbState>>

----------------------------------------------------------------------------
(* RedisDataStore::shutdown() *)

WbShutdown ==
    /\ wbState = "on"
    /\ wbState' = "stop"
    /\ UNCHANGED <<wbPending, wbMade, wbTaken, wbRedis, wbLoop, wbExtra>>

\* The task has seen the signal and made its final flush, which may have failed.
WbStopped ==
    /\ wbState = "final" /\ wbLoop.at = "idle"
    /\ wbState' = "off"
    /\ UNCHANGED <<wbPending, wbMade, wbTaken, wbRedis, wbLoop, wbExtra>>

\* Five seconds are over: the caller flushes what is pending, and then aborts
\* the task, with what that has drained.
WbTimeout ==
    /\ wbState \in {"stop", "final"}
    /\ wbState' = "late" /\ wbExtra' = WbStart(wbExtra)
    /\ UNCHANGED <<wbPending, wbMade, wbTaken, wbRedis, wbLoop>>

WbExtraDrain(k) ==
    /\ wbExtra.at = "drain" /\ k \in wbExtra.todo
    /\ wbExtra' = WbDrained(wbExtra, k)
    /\ wbPending' = [wbPending EXCEPT ![k] = 0]
    /\ UNCHANGED <<wbMade, wbTaken, wbRedis, wbLoop, wbState>>

WbExtraPush ==
    /\ wbExtra.at = "push"
    /\ wbRedis' \in {WbStored(wbExtra), wbRedis} /\ wbExtra' = WbRest
    /\ UNCHANGED <<wbPending, wbMade, wbTaken, wbLoop, wbState>>

WbAbort ==
    /\ wbState = "late" /\ wbExtra.at = "idle"
    /\ wbState' = "off" /\ wbLoop' = WbRest
    /\ UNCHANGED <<wbPending, wbMade, wbTaken, wbRedis, wbExtra>>

WbNext ==
    \/ \E k \in WbKeys : WbPut(k) \/ WbDrain(k) \/ WbRequeue(k) \/ WbExtraDrain(k)
    \/ WbWake \/ WbPush \/ WbPushFails
    \/ WbShutdown \/ WbStopped \/ WbTimeout \/ WbExtraPush \/ WbAbort

WbSpec == WbInit /\ [][WbNext]_wbVars

----------------------------------------------------------------------------
(* Properties *)

WbFlushes == [at : {"idle", "drain", "push", "back"}, todo : SUBSET WbKeys, got : [WbKeys -> 0 .. WbWrites]]

WbTypeOK ==
    /\ {wbPending, wbMade, wbTaken, wbRedis} \subseteq [WbKeys -> 0 .. WbWrites]
    /\ wbLoop \in WbFlushes /\ wbExtra \in WbFlushes /\ wbState \in {"on", "stop", "final", "late", "off"}

\* The newest value that the buffer accepted for a key is in Redis, in the flush under
\* way or still pending.
WbHeld(k) == wbTaken[k] \in {wbPending[k], wbRedis[k], wbLoop.got[k]}

\* Redis never goes back to an older value of a key as long as one flush is under way at
\* a time.
WbNoRollback ==
    [][(wbState \in {"on", "stop", "final"}) => (\A k \in WbKeys : wbRedis'[k] >= wbRedis[k])]_wbVars

\* The buffer is faithful, though flushes fail and are put back while new values arrive:
\* until a shutdown runs into its timeout it loses the newest value of no key, and it
\* never brings an older one back.
WbFaithful ==
    /\ []((wbState \in {"on", "stop", "final"}) => (\A k \in WbKeys : WbHeld(k)))
    /\ WbNoRollback

\* A value that was accepted before the shutdown reaches Redis, unless a newer one does.
WbFlushed ==
    \A k \in WbKeys : []<>(wbState # "on" \/ wbTaken[k] = 0 \/ wbRedis[k] >= 1)

=============================================================================
