----------------------------- MODULE RedisSync -----------------------------
(***************************************************************************)
(* comsrv ShmRedisSync: a background task mirrors the slots of the shared  *)
(* memory into Redis, under the key of the channel and, through the C2M    *)
(* route, under the key of the instance.                                   *)
(*                                                                         *)
(* A slot is a seqlock: its sequence number is odd while it is written.    *)
(* rebuild_via_swap() replaces the whole file by a blank one; a writer or  *)
(* a flush that holds the old layout goes on with the old file.            *)
(***************************************************************************)
EXTENDS Naturals, FiniteSets

CONSTANTS SySlots,    \* number of slots
          SyInsts,    \* instance points
          SyMax,      \* bound: writes of all slots
          SyFiles,    \* bound: layouts (1 + rebuilds)
          SyReroutes, \* bound: reloads of the routes
          SyPipe,     \* MAX_PIPELINE_SLOTS
          SyCap,      \* MAX_RETRY_SLOTS
          SyFull      \* FULL_SCAN_INTERVAL

ASSUME SyAssumption ==
    /\ SySlots \in Nat \ {0} /\ SyMax \in Nat /\ SyFiles \in Nat \ {0} /\ SyReroutes \in Nat
    /\ SyPipe \in Nat \ {0} /\ SyCap \in Nat /\ SyFull \in Nat \ {0}

SySlotSet == 1 .. SySlots
SyRoutes == {r \in [SySlotSet -> SyInsts] : \A s, t \in SySlotSet : r[s] = r[t] => s = t}

VARIABLES
    sySlot,    \* of each file and slot: sequence number and value; value 0 is the NaN sentinel
    syDirty,   \* dirty bits of each file
    syFile,    \* the current layout
    syPen,     \* the writer of a slot: "idle", "mid" or "mark"
    syWrites,  \* writes of a slot so far: the next value
    syRoute, syReloads,   \* C2M routes, and how often they were reloaded
    syTask,    \* the pass of flush_once()
    syLast,    \* last_seq
    syRetry,   \* retry_slots
    syTick,    \* tick_count modulo FULL_SCAN_INTERVAL
    syChan, syInst        \* Redis

syShm == <<sySlot, syDirty, syFile, syPen, syWrites>>
syKept == <<syLast, syRetry, syTick>>
syRedis == <<syChan, syInst>>
syVars == <<syShm, syRoute, syReloads, syTask, syKept, syRedis>>

SyIdle == [at |-> "idle", file |-> 0, route |-> 0, todo |-> {}, seq |-> 0, got |-> {}]

SyInit ==
    /\ sySlot = [f \in 1 .. SyFiles |-> [s \in SySlotSet |-> [seq |-> 0, val |-> 0]]]
    /\ syDirty = [f \in 1 .. SyFiles |-> {}]
    /\ syFile = 1 /\ syPen = [s \in SySlotSet |-> "idle"] /\ syWrites = [s \in SySlotSet |-> 0]
    /\ syRoute \in SyRoutes /\ syReloads = 0
    /\ syTask = SyIdle /\ syLast = [s \in SySlotSet |-> 0] /\ syRetry = {} /\ syTick = 0
    /\ syChan = [s \in SySlotSet |-> 0] /\ syInst = [i \in SyInsts |-> 0]

----------------------------------------------------------------------------
(* The writers of the slots, the layout and the routes *)

\* The writes made so far.
SyMade == {w \in SySlotSet \X (1 .. SyMax) : w[2] <= syWrites[w[1]]}

SyWriteBegin(s) ==
    /\ syPen[s] = "idle" /\ Cardinality(SyMade) < SyMax
    /\ syPen' = [syPen EXCEPT ![s] = "mid"]
    /\ syWrites' = [syWrites EXCEPT ![s] = @ + 1]
    /\ sySlot' = [sySlot EXCEPT ![syFile][s].seq = @ + 1]
    /\ UNCHANGED <<syDirty, syFile, syRoute, syReloads, syTask, syKept, syRedis>>

SyWriteEnd(s) ==
    /\ syPen[s] = "mid"
    /\ syPen' = [syPen EXCEPT ![s] = "mark"]
    /\ sySlot' = [sySlot EXCEPT ![syFile][s] = [seq |-> @.seq + 1, val |-> syWrites[s]]]
    /\ UNCHANGED <<syDirty, syFile, syWrites, syRoute, syReloads, syTask, syKept, syRedis>>

SyMarkDirty(s) ==
    /\ syPen[s] = "mark"
    /\ syPen' = [syPen EXCEPT ![s] = "idle"]
    /\ syDirty' = [syDirty EXCEPT ![syFile] = @ \union {s}]
    /\ UNCHANGED <<sySlot, syFile, syWrites, syRoute, syReloads, syTask, syKept, syRedis>>

\* What a writer still has to do goes to the file it holds.
SyRebuild ==
    /\ syFile < SyFiles
    /\ syFile' = syFile + 1
    /\ syPen' = [s \in SySlotSet |-> "idle"]
    /\ UNCHANGED <<sySlot, syDirty, syWrites, syRoute, syReloads, syTask, syKept, syRedis>>

SyReload ==
    /\ syReloads < SyReroutes
    /\ syReloads' = syReloads + 1
    /\ syRoute' \in SyRoutes \ {syRoute}
    /\ UNCHANGED <<syShm, syTask, syKept, syRedis>>

----------------------------------------------------------------------------
(* flush_once() *)

SyNextTick == (syTick + 1) % SyFull
SyLowest(S, n) == {s \in S : Cardinality({t \in S : t < s}) < n}
SyHighest(S, n) == {s \in S : Cardinality({t \in S : t > s}) < n}

\* Mutant: a new layout does not void the noted numbers.
SyScanKeepsNotes ==
    /\ syTask.at = "idle"
    /\ LET swapped == syTask.file # 0 /\ syTask.file # syFile
           moved == syTask.route # 0 /\ syTask.route # syReloads + 1
           full == swapped \/ syTick = 0
           kept == IF swapped \/ moved THEN {} ELSE syRetry
           found == (IF full THEN SySlotSet ELSE syDirty[syFile]) \union kept
           now == SyLowest(found, SyPipe)
       IN  /\ syLast' = IF moved THEN [s \in SySlotSet |-> 0] ELSE syLast
           /\ syDirty' = IF full THEN syDirty ELSE [syDirty EXCEPT ![syFile] = {}]
           /\ syRetry' = SyHighest(found \ now, SyCap)
           /\ syTask' = [at |-> IF now = {} THEN "idle" ELSE "peek", file |-> syFile,
                         route |-> syReloads + 1, todo |-> now, seq |-> 0, got |-> {}]
           /\ syTick' = IF now = {} THEN SyNextTick ELSE syTick
    /\ UNCHANGED <<sySlot, syFile, syPen, syWrites, syRoute, syReloads, syRedis>>

\* The layout and the routes are compared with those of the last pass (0: no
\* pass yet), the candidates are chosen, and what exceeds the pipeline is kept
\* for the next pass.
SyScan ==
    /\ syTask.at = "idle"
    /\ LET swapped == syTask.file # 0 /\ syTask.file # syFile
           moved == syTask.route # 0 /\ syTask.route # syReloads + 1
           full == swapped \/ syTick = 0
           kept == IF swapped \/ moved THEN {} ELSE syRetry
           found == (IF full THEN SySlotSet ELSE syDirty[syFile]) \union kept
           now == SyLowest(found, SyPipe)
       IN  /\ syLast' = IF swapped \/ moved THEN [s \in SySlotSet |-> 0] ELSE syLast
           /\ syDirty' = IF full THEN syDirty ELSE [syDirty EXCEPT ![syFile] = {}]
           /\ syRetry' = SyHighest(found \ now, SyCap)
           /\ syTask' = [at |-> IF now = {} THEN "idle" ELSE "peek", file |-> syFile,
                         route |-> syReloads + 1, todo |-> now, seq |-> 0, got |-> {}]
           /\ syTick' = IF now = {} THEN SyNextTick ELSE syTick
    /\ UNCHANGED <<sySlot, syFile, syPen, syWrites, syRoute, syReloads, syRedis>>

\* The slot the task is at: it goes through them in the order of their numbers.
SyNow(s) == s \in syTask.todo /\ \A t \in syTask.todo : s <= t
SyCell(s) == sySlot[syTask.file][s]

\* The slots are read; with nothing to write the pass is over.
SyTurn(todo, got) ==
    syTask' = [syTask EXCEPT !.at = IF todo # {} THEN "peek" ELSE IF got # {} THEN "push" ELSE "idle",
                             !.todo = todo, !.got = got, !.seq = 0]
SyTickAfter(todo, got) == syTick' = IF todo = {} /\ got = {} THEN SyNextTick ELSE syTick

\* seq_raw(), before the value.
SyPeek(s) ==
    /\ syTask.at = "peek" /\ SyNow(s)
    /\ IF SyCell(s).seq = syLast[s]
       THEN SyTurn(syTask.todo \ {s}, syTask.got) /\ SyTickAfter(syTask.todo \ {s}, syTask.got)
       ELSE syTask' = [syTask EXCEPT !.at = "load", !.seq = SyCell(s).seq] /\ UNCHANGED syTick
    /\ UNCHANGED <<syShm, syRoute, syReloads, syLast, syRetry, syRedis>>

\* try_load_consistent(): a slot that is being written is tried again in the
\* next pass; one that was never written is skipped.
SyLoad(s) ==
    /\ syTask.at = "load" /\ SyNow(s)
    /\ LET torn == SyCell(s).seq % 2 = 1
           todo == syTask.todo \ {s}
           got == IF torn \/ SyCell(s).val = 0 THEN syTask.got
                  ELSE syTask.got \union {[slot |-> s, seq |-> syTask.seq, val |-> SyCell(s).val,
                                           inst |-> syRoute[s]]}
       IN  /\ SyTurn(todo, got) /\ SyTickAfter(todo, got)
           /\ syRetry' = IF torn THEN syRetry \union {s} ELSE syRetry
           /\ syLast' = IF ~torn /\ SyCell(s).val = 0 THEN [syLast EXCEPT ![s] = syTask.seq] ELSE syLast
    /\ UNCHANGED <<syShm, syRoute, syReloads, syRedis>>

SyWritten ==
    /\ syChan' = [s \in SySlotSet |-> IF \E g \in syTask.got : g.slot = s
                                      THEN (CHOOSE g \in syTask.got : g.slot = s).val ELSE syChan[s]]
    /\ syInst' = [i \in SyInsts |-> IF \E g \in syTask.got : g.inst = i
                                    THEN (CHOOSE g \in syTask.got : g.inst = i).val ELSE syInst[i]]

SyPushed ==
    /\ syTask.at = "push"
    /\ SyWritten
    /\ syLast' = [s \in SySlotSet |-> IF \E g \in syTask.got : g.slot = s
                                      THEN (CHOOSE g \in syTask.got : g.slot = s).seq ELSE syLast[s]]
    /\ syTask' = [syTask EXCEPT !.at = "idle", !.got = {}] /\ syTick' = SyNextTick
    /\ UNCHANGED <<syShm, syRoute, syReloads, syRetry>>

\* The pipeline reports an error; Redis may have executed it all the same.
SyPushFails ==
    /\ syTask.at = "push"
    /\ SyWritten \/ UNCHANGED syRedis
    /\ syRetry' = syRetry \union {g.slot : g \in syTask.got}
    /\ syTask' = [syTask EXCEPT !.at = "idle", !.got = {}] /\ syTick' = SyNextTick
    /\ UNCHANGED <<syShm, syRoute, syReloads, syLast>>

SyNext ==
    \/ \E s \in SySlotSet : SyWriteBegin(s) \/ SyWriteEnd(s) \/ SyMarkDirty(s) \/ SyPeek(s) \/ SyLoad(s)
    \/ SyRebuild \/ SyReload
    \/ SyScan \/ SyPushed \/ SyPushFails

SySpec == SyInit /\ [][SyNext]_syVars

----------------------------------------------------------------------------
(* Properties *)

SyTypeOK ==
    /\ sySlot \in [1 .. SyFiles -> [SySlotSet -> [seq : 0 .. 2 * SyMax, val : 0 .. SyMax]]]
    /\ syDirty \in [1 .. SyFiles -> SUBSET SySlotSet] /\ syFile \in 1 .. SyFiles
    /\ syRoute \in SyRoutes /\ syRetry \subseteq SySlotSet /\ syTick \in 0 .. SyFull - 1
    /\ syTask.at \in {"idle", "peek", "load", "push"} /\ (syTask.at \in {"peek", "load"} => syTask.todo # {})
    /\ syChan \in [SySlotSet -> 0 .. SyMax] /\ syInst \in [SyInsts -> 0 .. SyMax]

\* Redis never goes back to an older value of a point, not after a failed flush
\* that is tried again and not with a layout that has been replaced.
SyNoRollback == [][\A s \in SySlotSet : syChan'[s] >= syChan[s]]_syVars

\* What the task takes for published is published: a slot whose sequence number is
\* the one noted has its value in Redis.
SyPublished(s) ==
    syTask.file = syFile /\ sySlot[syFile][s].val # 0 /\ sySlot[syFile][s].seq = syLast[s]
    => syChan[s] = sySlot[syFile][s].val

\* The mirror is faithful: what it takes for published is, and no older value of a point
\* ever replaces a newer one in Redis.
SyFaithful == [](\A s \in SySlotSet : SyPublished(s)) /\ SyNoRollback

SyCurrent ==
    \A s \in SySlotSet :
        sySlot[syFile][s].val # 0 =>
            syChan[s] = sySlot[syFile][s].val /\ syInst[syRoute[s]] = sySlot[syFile][s].val

\* When the points stop changing, Redis shows every value of the current layout, at the
\* channel and at the instance that the route names now: a torn read, a failed flush, an
\* overflow of the pipeline, a new layout or a new route delays a value and never loses it.
SyConverges == <>[]SyCurrent
=============================================================================
