--------------------------- MODULE DispatchProofs ---------------------------
(***************************************************************************)
(* What is handed on to shared memory and to Redis. For any number of      *)
(* dispatchers, layouts, retries and files, the dispatch of actions: a     *)
(* reported action was written by the layout of the file unless guard and  *)
(* generation were mixed, a dropped writer is being reopened, and a writer *)
(* of a renamed file is noticed. For any number of keys and any limits,    *)
(* the write buffer keeps the newest value of a key through failed         *)
(* flushes.                                                                *)
(***************************************************************************)
EXTENDS WriteBuffer, ShmDispatch, TLAPS

-----------------------------------------------------------------------------
(* The write buffer of the store *)

WbNormal == wbState \in {"on", "stop", "final"}

\* Until the timeout of a shutdown only one flush is under way.  What waits for a key
\* is the newest value accepted; when nothing waits it is what the flush holds, and
\* when that holds nothing it is what Redis has.  Redis is never ahead of the flush.
WbKept(k) ==
    /\ wbPending[k] # 0 => wbPending[k] = wbTaken[k]
    /\ wbPending[k] = 0 /\ wbLoop.got[k] # 0 => wbLoop.got[k] = wbTaken[k]
    /\ wbPending[k] = 0 /\ wbLoop.got[k] = 0 => wbRedis[k] = wbTaken[k]
    /\ wbLoop.got[k] # 0 => wbRedis[k] <= wbLoop.got[k]
    /\ wbRedis[k] <= wbTaken[k] /\ wbLoop.got[k] <= wbTaken[k]
    /\ wbLoop.at = "drain" /\ k \in wbLoop.todo => wbLoop.got[k] = 0
    /\ wbLoop.at = "idle" => wbLoop.got[k] = 0

WbInv ==
    /\ WbTypeOK
    /\ \A k \in WbKeys : wbTaken[k] <= wbMade[k]
    /\ WbNormal => wbExtra.at = "idle" /\ \A k \in WbKeys : WbKept(k)

\* The types of the buffer.
LEMMA WbTyped ==
    ASSUME WbTypeOK, [WbNext]_wbVars
    PROVE  WbTypeOK'
<1> USE WbAssumption
<1> DEFINE Val == 0 .. WbWrites
<1>0. /\ wbPending \in [WbKeys -> Val] /\ wbMade \in [WbKeys -> Val] /\ wbTaken \in [WbKeys -> Val]
      /\ wbRedis \in [WbKeys -> Val] /\ wbLoop \in WbFlushes /\ wbExtra \in WbFlushes
      /\ wbState \in {"on", "stop", "final", "late", "off"}
  BY Zenon DEF WbTypeOK
<1>1. WbRest \in WbFlushes
  BY DEF WbRest, WbFlushes, WbNothing
<1>2. \A f \in WbFlushes : WbStart(f) \in WbFlushes
  BY Zenon DEF WbStart, WbFlushes
<1>3. \A f \in WbFlushes, k \in WbKeys : WbDrained(f, k) \in WbFlushes
  <2> SUFFICES ASSUME NEW f \in WbFlushes, NEW k \in WbKeys PROVE WbDrained(f, k) \in WbFlushes
    BY Zenon
  <2>1. f.todo \ {k} \in SUBSET WbKeys /\ [f.got EXCEPT ![k] = wbPending[k]] \in [WbKeys -> Val]
    BY <1>0, Zenon DEF WbFlushes
  <2> QED
    BY <2>1, Zenon DEF WbDrained, WbFlushes
<1>4. \A f \in WbFlushes : WbStored(f) \in [WbKeys -> Val]
  BY <1>0, Zenon DEF WbStored, WbFlushes
<1>5. \A f \in WbFlushes, k \in WbKeys : WbPutBack(f, k) \in WbFlushes /\ WbRequeued(f, k) \in Val
  <2> SUFFICES ASSUME NEW f \in WbFlushes, NEW k \in WbKeys
               PROVE  WbPutBack(f, k) \in WbFlushes /\ WbRequeued(f, k) \in Val
    BY Zenon
  <2>1. [f.got EXCEPT ![k] = 0] \in [WbKeys -> Val] /\ WbRequeued(f, k) \in Val
    BY <1>0 DEF WbFlushes, WbRequeued
  <2> DEFINE g == [f.got EXCEPT ![k] = 0]
  <2> HIDE DEF g
  <2>2. [f EXCEPT !.got = g, !.at = IF g = WbNothing THEN "idle" ELSE "back"] \in WbFlushes
    BY <2>1, Zenon DEF WbFlushes, g
  <2> QED
    BY <2>1, <2>2, Zenon DEF WbPutBack, g
<1>6. ASSUME wbPending' \in [WbKeys -> Val], wbMade' \in [WbKeys -> Val], wbTaken' \in [WbKeys -> Val],
             wbRedis' \in [WbKeys -> Val], wbLoop' \in WbFlushes, wbExtra' \in WbFlushes,
             wbState' \in {"on", "stop", "final", "late", "off"}
      PROVE  WbTypeOK'
  BY <1>6, Zenon DEF WbTypeOK
<1>7. ASSUME NEW k \in WbKeys, WbPut(k) PROVE WbTypeOK'
  <2>1. wbMade[k] + 1 \in Val
    BY <1>0, <1>7 DEF WbPut
  <2>2. wbMade' \in [WbKeys -> Val]
    BY <1>0, <1>7, <2>1, Zenon DEF WbPut
  <2>3. wbPending' \in [WbKeys -> Val] /\ wbTaken' \in [WbKeys -> Val]
    BY <1>0, <1>7, <2>1, Zenon DEF WbPut
  <2> QED
    BY <1>0, <1>6, <1>7, <2>2, <2>3, Zenon DEF WbPut
<1>8. ASSUME NEW k \in WbKeys, WbDrain(k) \/ WbExtraDrain(k) PROVE WbTypeOK'
  <2>1. wbPending' \in [WbKeys -> Val]
    BY <1>0, <1>8, SMTT(30) DEF WbDrain, WbExtraDrain
  <2>2. /\ wbLoop' \in WbFlushes /\ wbExtra' \in WbFlushes
        /\ wbMade' = wbMade /\ wbTaken' = wbTaken /\ wbRedis' = wbRedis /\ wbState' = wbState
    <3> HIDE DEF Val
    <3> QED
      BY <1>0, <1>3, <1>8, Zenon DEF WbDrain, WbExtraDrain
  <2> HIDE DEF Val
  <2> QED
    BY <1>0, <1>6, <2>1, <2>2, Zenon
<1>9. ASSUME NEW k \in WbKeys, WbRequeue(k) PROVE WbTypeOK'
  BY <1>0, <1>5, <1>6, <1>9, Zenon DEF WbRequeue
<1>10. CASE WbWake \/ WbTimeout \/ WbShutdown \/ WbStopped \/ WbAbort
  BY <1>0, <1>1, <1>2, <1>6, <1>10, Zenon DEF WbWake, WbTimeout, WbShutdown, WbStopped, WbAbort
<1>11. CASE WbPush \/ WbExtraPush
  BY <1>0, <1>1, <1>4, <1>6, <1>11, Zenon DEF WbPush, WbExtraPush
<1>12. CASE WbPushFails
  <2>1. [wbLoop EXCEPT !.at = "back"] \in WbFlushes
    BY <1>0, Zenon DEF WbFlushes
  <2> QED
    BY <1>0, <1>4, <1>6, <1>12, <2>1, Zenon DEF WbPushFails
<1>13. CASE UNCHANGED wbVars
  BY <1>0, <1>6, <1>13, Zenon DEF wbVars
<1> QED
  BY <1>7, <1>8, <1>9, <1>10, <1>11, <1>12, <1>13, Zenon DEF WbNext

\* The values of a step that the arguments below compare.
LEMMA WbFacts ==
    ASSUME WbTypeOK
    PROVE  /\ wbPending \in [WbKeys -> Nat] /\ wbMade \in [WbKeys -> Nat] /\ wbTaken \in [WbKeys -> Nat]
           /\ wbRedis \in [WbKeys -> Nat] /\ wbLoop.got \in [WbKeys -> Nat] /\ wbLoop \in WbFlushes
BY WbAssumption DEF WbTypeOK, WbFlushes

\* Every step keeps the newest value accepted, and never takes Redis back.
LEMMA WbStep ==
    ASSUME WbInv, [WbNext]_wbVars
    PROVE  WbInv' /\ (WbNormal => \A k \in WbKeys : wbRedis'[k] >= wbRedis[k])
<1>0. WbTypeOK /\ WbTypeOK'
  BY WbTyped, Zenon DEF WbInv
<1>f. /\ wbPending \in [WbKeys -> Nat] /\ wbMade \in [WbKeys -> Nat] /\ wbTaken \in [WbKeys -> Nat]
      /\ wbRedis \in [WbKeys -> Nat] /\ wbLoop.got \in [WbKeys -> Nat] /\ wbLoop \in WbFlushes
  BY <1>0, WbFacts, Zenon
<1>a. /\ \A k \in WbKeys : wbTaken[k] <= wbMade[k]
      /\ WbNormal => wbExtra.at = "idle" /\ \A k \in WbKeys : WbKept(k)
  BY Zenon DEF WbInv
<1>k. ASSUME \A k \in WbKeys : wbTaken'[k] <= wbMade'[k],
             WbNormal' => WbNormal /\ wbExtra'.at = "idle",
             WbNormal => \A k \in WbKeys : WbKept(k)' /\ wbRedis'[k] >= wbRedis[k]
      PROVE  WbInv' /\ (WbNormal => \A k \in WbKeys : wbRedis'[k] >= wbRedis[k])
  BY <1>0, <1>k, Zenon DEF WbInv
<1>1. ASSUME NEW x \in WbKeys, WbPut(x)
      PROVE  WbInv' /\ (WbNormal => \A k \in WbKeys : wbRedis'[k] >= wbRedis[k])
  <2>1. \A k \in WbKeys : wbTaken'[k] <= wbMade'[k]
    BY <1>1, <1>f, <1>a, SMTT(30) DEF WbPut
  <2>2. WbNormal' => WbNormal /\ wbExtra'.at = "idle"
    BY <1>1, <1>a, Zenon DEF WbPut, WbNormal
  <2>3. ASSUME WbNormal, NEW k \in WbKeys PROVE WbKept(k)' /\ wbRedis'[k] >= wbRedis[k]
    <3>1. WbKept(k)
      BY <1>a, <2>3, Zenon
    <3> QED
      BY <1>1, <1>f, <1>a, <3>1 DEF WbPut, WbKept
  <2> QED
    BY <1>k, <2>1, <2>2, <2>3, Zenon
<1>2. ASSUME NEW x \in WbKeys, WbDrain(x)
      PROVE  WbInv' /\ (WbNormal => \A k \in WbKeys : wbRedis'[k] >= wbRedis[k])
  <2>1. /\ wbLoop.at = "drain" /\ x \in wbLoop.todo /\ wbPending' = [wbPending EXCEPT ![x] = 0]
        /\ wbMade' = wbMade /\ wbTaken' = wbTaken /\ wbRedis' = wbRedis /\ wbExtra' = wbExtra /\ wbState' = wbState
    BY <1>2, Zenon DEF WbDrain
  <2>2. /\ wbLoop'.got = [wbLoop.got EXCEPT ![x] = wbPending[x]] /\ wbLoop'.todo = wbLoop.todo \ {x}
        /\ wbLoop'.at = "idle" => wbLoop'.got = WbNothing
    BY <1>2, Zenon DEF WbDrain, WbDrained
  <2>3. ASSUME WbNormal, NEW k \in WbKeys PROVE WbKept(k)' /\ wbRedis'[k] >= wbRedis[k]
    <3>1. WbKept(k)
      BY <1>a, <2>3, Zenon
    <3>2. wbLoop'.at = "idle" => wbLoop'.got[k] = 0
      BY <2>2, Zenon DEF WbNothing
    <3>3. wbLoop'.got[k] = IF k = x THEN wbPending[x] ELSE wbLoop.got[k]
      BY <1>f, <2>2, Zenon
    <3>4. wbPending'[k] = IF k = x THEN 0 ELSE wbPending[k]
      BY <1>f, <2>1, Zenon
    <3>5. k \in wbLoop'.todo => k # x /\ k \in wbLoop.todo
      BY <2>2, Zenon
    <3> QED
      BY <1>f, <2>1, <3>1, <3>2, <3>3, <3>4, <3>5 DEF WbKept
  <2> QED
    BY <1>k, <1>a, <2>1, <2>3, Zenon DEF WbNormal
<1>3. ASSUME NEW x \in WbKeys, WbRequeue(x)
      PROVE  WbInv' /\ (WbNormal => \A k \in WbKeys : wbRedis'[k] >= wbRedis[k])
  <2>1. /\ wbLoop.at = "back" /\ wbLoop.got[x] # 0 /\ wbPending' = [wbPending EXCEPT ![x] = WbRequeued(wbLoop, x)]
        /\ wbMade' = wbMade /\ wbTaken' = wbTaken /\ wbRedis' = wbRedis /\ wbExtra' = wbExtra /\ wbState' = wbState
    BY <1>3, Zenon DEF WbRequeue
  <2>2. /\ wbLoop'.got = [wbLoop.got EXCEPT ![x] = 0] /\ wbLoop'.at \in {"idle", "back"}
        /\ wbLoop'.at = "idle" => wbLoop'.got = WbNothing
    BY <1>3, <1>f, Zenon DEF WbRequeue, WbPutBack, WbFlushes
  <2>3. ASSUME WbNormal, NEW k \in WbKeys PROVE WbKept(k)' /\ wbRedis'[k] >= wbRedis[k]
    <3>1. WbKept(k)
      BY <1>a, <2>3, Zenon
    <3>2. wbLoop'.at = "idle" => wbLoop'.got[k] = 0
      BY <2>2, Zenon DEF WbNothing
    <3>3. wbLoop'.got[k] = IF k = x THEN 0 ELSE wbLoop.got[k]
      BY <1>f, <2>2, Zenon
    <3>4. wbPending'[k] = IF k = x THEN (IF wbPending[k] = 0 THEN wbLoop.got[k] ELSE wbPending[k]) ELSE wbPending[k]
      BY <1>f, <2>1, Zenon DEF WbRequeued
    <3> QED
      BY <1>f, <2>1, <2>2, <3>1, <3>2, <3>3, <3>4 DEF WbKept
  <2> QED
    BY <1>k, <1>a, <2>1, <2>3, Zenon DEF WbNormal
<1>4. CASE WbWake
  <2>1. /\ wbLoop.at = "idle" /\ wbLoop'.at = "drain" /\ wbLoop'.got = wbLoop.got
        /\ wbPending' = wbPending /\ wbMade' = wbMade /\ wbTaken' = wbTaken /\ wbRedis' = wbRedis
        /\ wbExtra' = wbExtra /\ WbNormal
    BY <1>4, <1>f, Zenon DEF WbWake, WbStart, WbFlushes, WbNormal
  <2>2. ASSUME NEW k \in WbKeys PROVE WbKept(k)' /\ wbRedis'[k] >= wbRedis[k]
    <3>1. WbKept(k)
      BY <1>a, <2>1, Zenon
    <3> QED
      BY <1>f, <2>1, <3>1, SMTT(30) DEF WbKept
  <2> QED
    BY <1>k, <1>a, <2>1, <2>2, Zenon
<1>5. CASE WbPush \/ WbPushFails
  <2>1. /\ wbLoop.at = "push" /\ wbPending' = wbPending /\ wbMade' = wbMade /\ wbTaken' = wbTaken
        /\ wbExtra' = wbExtra /\ wbState' = wbState
    BY <1>5, Zenon DEF WbPush, WbPushFails
  <2>2. \/ wbRedis' = WbStored(wbLoop) /\ wbLoop'.at = "idle" /\ wbLoop'.got = WbNothing
        \/ wbRedis' \in {wbRedis, WbStored(wbLoop)} /\ wbLoop'.at = "back" /\ wbLoop'.got = wbLoop.got
    BY <1>5, <1>f, SMTT(30) DEF WbPush, WbPushFails, WbRest, WbFlushes
  <2>3. ASSUME WbNormal, NEW k \in WbKeys PROVE WbKept(k)' /\ wbRedis'[k] >= wbRedis[k]
    <3>1. WbKept(k)
      BY <1>a, <2>3, Zenon
    <3>2. WbStored(wbLoop)[k] = IF wbLoop.got[k] # 0 THEN wbLoop.got[k] ELSE wbRedis[k]
      BY Zenon DEF WbStored
    <3>3. WbNothing[k] = 0
      BY Zenon DEF WbNothing
    <3> QED
      BY <1>f, <2>1, <2>2, <3>1, <3>2, <3>3, SMTT(30) DEF WbKept
  <2> QED
    BY <1>k, <1>a, <2>1, <2>3, Zenon DEF WbNormal
<1>6. CASE WbShutdown \/ UNCHANGED wbVars
  <2>1. /\ wbLoop' = wbLoop /\ wbPending' = wbPending /\ wbMade' = wbMade /\ wbTaken' = wbTaken
        /\ wbRedis' = wbRedis /\ wbExtra' = wbExtra /\ (WbNormal' => WbNormal)
    BY <1>6, Zenon DEF WbShutdown, wbVars, WbNormal
  <2>2. ASSUME WbNormal, NEW k \in WbKeys PROVE WbKept(k)' /\ wbRedis'[k] >= wbRedis[k]
    <3>1. WbKept(k)
      BY <1>a, <2>2, Zenon
    <3> QED
      BY <1>f, <2>1, <3>1, SMTT(30) DEF WbKept
  <2> QED
    BY <1>k, <1>a, <2>1, <2>2, Zenon
<1>7. CASE WbStopped \/ WbTimeout
  <2>1. /\ wbMade' = wbMade /\ wbTaken' = wbTaken /\ wbRedis' = wbRedis /\ ~WbNormal'
    BY <1>7, Zenon DEF WbStopped, WbTimeout, WbNormal
  <2> QED
    BY <1>0, <1>f, <1>a, <2>1 DEF WbInv
<1>8. CASE WbExtraPush \/ WbAbort \/ \E k \in WbKeys : WbExtraDrain(k)
  <2>1. wbMade' = wbMade /\ wbTaken' = wbTaken /\ ~WbNormal /\ ~WbNormal'
    BY <1>8, <1>a, Zenon DEF WbExtraPush, WbAbort, WbExtraDrain, WbNormal
  <2> QED
    BY <1>0, <1>a, <2>1, Zenon DEF WbInv
<1> QED
  BY <1>1, <1>2, <1>3, <1>4, <1>5, <1>6, <1>7, <1>8, Zenon DEF WbNext

\* The buffer is empty at first.
LEMMA WbStart0 == WbInit => WbInv
<1> SUFFICES ASSUME WbInit PROVE WbInv
  BY Zenon
<1> USE WbAssumption
<1>1. WbNothing \in [WbKeys -> 0 .. WbWrites] /\ \A k \in WbKeys : WbNothing[k] = 0
  BY SMTT(30) DEF WbNothing
<1>2. WbRest \in WbFlushes /\ WbRest.at = "idle" /\ WbRest.got = WbNothing
  BY <1>1, Zenon DEF WbRest, WbFlushes
<1>3. WbTypeOK
  BY <1>1, <1>2, Zenon DEF WbInit, WbTypeOK
<1>4. \A k \in WbKeys : WbKept(k)
  BY <1>1, <1>2 DEF WbInit, WbKept
<1> QED
  BY <1>1, <1>2, <1>3, <1>4 DEF WbInit, WbInv

\* Until a shutdown runs into its timeout, the newest value accepted for a key is
\* pending, in the flush or in Redis, for any number of keys, any limit of the
\* buffer and any number of failed flushes.
THEOREM BufferKeepsNewest ==
    WbSpec => []((wbState \in {"on", "stop", "final"}) => (\A k \in WbKeys : WbHeld(k)))
<1>1. WbInv => ((wbState \in {"on", "stop", "final"}) => (\A k \in WbKeys : WbHeld(k)))
  BY Zenon DEF WbInv, WbHeld, WbKept, WbNormal
<1>2. WbInv /\ [WbNext]_wbVars => WbInv'
  BY WbStep, Zenon
<1> QED
  BY <1>1, <1>2, WbStart0, PTL DEF WbSpec

\* Redis never goes back to an older value of a key while one flush at a time is
\* under way: a failed flush that is put back hides no newer value.
THEOREM BufferNeverRollsBack == WbSpec => WbNoRollback
<1>1. WbInv /\ [WbNext]_wbVars =>
        WbInv' /\ [(wbState \in {"on", "stop", "final"}) => (\A k \in WbKeys : wbRedis'[k] >= wbRedis[k])]_wbVars
  BY WbStep, Zenon DEF WbNormal
<1> QED
  BY <1>1, WbStart0, PTL DEF WbSpec, WbNoRollback

\* The write buffer is faithful to what was put in it, for any number of keys and any
\* limit.
THEOREM BufferFaithful == WbSpec => WbFaithful
BY BufferKeepsNewest, BufferNeverRollsBack, PTL DEF WbFaithful

-----------------------------------------------------------------------------
(* comsrv: the shared file and the dispatch of commands *)

Live == {"watch", "up"}

\* Inodes in use have been made.
InodesMade ==
    /\ canon <= made /\ own <= made /\ baseline <= made
    /\ comsrv \in {"header", "seed", "up"} => own # 0
    /\ comsrv = "up" => made # 0

\* A generation is at most the number of files made, and less while the next one
\* is not yet seeded: the file being made has none.
GensFresh ==
    LET below(g) == g <= made /\ (comsrv \in {"header", "seed"} => g < made) IN
    /\ \A i \in Inodes : below(file[i].gen)
    /\ below(expected)
    /\ \A d \in Dispatchers : below(task[d].expected)
    /\ comsrv \in {"header", "seed"} => file[own].gen = 0

\* Only a task that has opened a file holds a handle, and the rebuild task runs
\* after main() has set the writer.
HandleHeld ==
    /\ rebuild # "wait" => mod \in Live
    /\ mod = "set" \/ rebuild = "set" => opened.inode # 0
    /\ mod # "set" /\ rebuild # "set" => opened = NoWriter
    /\ writer # NoWriter => writer.inode # 0
    /\ \A d \in Dispatchers : task[d].at # "idle" => task[d].guard.inode # 0

\* As long as the expected generation is in a file, its layout is the handle's.
Fits(w, exp) == exp # 0 /\ (file[w.inode].gen = exp => file[w.inode].layout = w.layout)

WriterFits == writer # NoWriter /\ "raced" \notin hole => Fits(writer, expected)

TasksFit ==
    \A d \in Dispatchers : ~task[d].mixed =>
        /\ task[d].at \in {"write", "recheck"} => Fits(task[d].guard, task[d].expected)
        /\ task[d].at = "recheck" /\ ~task[d].aligned =>
               file[task[d].guard.inode].gen # task[d].expected
        /\ task[d].at = "notify" => task[d].aligned

\* Without a file, or with a watcher that has not seen one, nothing was opened.
NothingOpened ==
    canon = 0 \/ (mod = "up" /\ baseline = 0) =>
        /\ writer = NoWriter /\ ~permit /\ rebuild = "wait" /\ opened = NoWriter
        /\ \A d \in Dispatchers : task[d].at = "idle"

\* A handle that is about to be set on a renamed file is noticed as well.
OpenedIsNoticed ==
    mod = "up" /\ opened.inode \notin {0, canon} => baseline # canon \/ permit \/ "missed" \in hole

IInv ==
    /\ TypeOK /\ InodesMade /\ GensFresh /\ HandleHeld /\ WriterFits /\ TasksFit
    /\ NothingOpened /\ OpenedIsNoticed /\ DroppedIsReopened /\ StaleIsNoticed

USE LayoutsAssumption, RetriesAssumption, BoundsAssumption
USE DEF shmVars, modVars, writerVars, rebuildVars

\* The parts of the invariant hold before and after a step that changes nothing.
LEMMA Stutter == IInv /\ UNCHANGED vars => IInv'
  BY SMTT(30) DEF IInv, TypeOK, InodesMade, GensFresh, HandleHeld, WriterFits, Fits, TasksFit, NothingOpened, OpenedIsNoticed,
         DroppedIsReopened, StaleIsNoticed, vars

\* The values a handle, a file and a task start with.
LEMMA IdleTyped ==
    /\ NoWriter \in Handles /\ NoWriter.inode = 0
    /\ Blank \in Files /\ Blank.gen = 0
    /\ Idle \in Tasks /\ Idle.at = "idle" /\ Idle.expected = 0
<1>1. NoWriter \in Handles /\ NoWriter.inode = 0
  BY DEF NoWriter, Handles
<1>2. Blank \in Files /\ Blank.gen = 0
  BY DEF Blank, Files
<1>3. Idle \in Tasks /\ Idle.at = "idle" /\ Idle.expected = 0
  <2>. HIDE DEF NoWriter
  <2>. QED
    BY <1>1 DEF Idle, Tasks
<1>. QED
  BY <1>1, <1>2, <1>3, Zenon

\* Nothing is opened, written or expected at first.
LEMMA InitInv == Init => IInv
<1>. SUFFICES ASSUME Init PROVE IInv
  BY Zenon
<1>3. TypeOK
  <2>1. file \in [Inodes -> Files] /\ task \in [Dispatchers -> Tasks]
    BY IdleTyped, Zenon DEF Init
  <2>2. notifier \in BOOLEAN /\ permit \in BOOLEAN /\ hole \subseteq Holes
    BY Zenon DEF Init
  <2>. QED
    BY <2>1, <2>2, IdleTyped DEF Init, TypeOK
<1>4. InodesMade /\ GensFresh /\ HandleHeld
  BY IdleTyped DEF Init, InodesMade, GensFresh, HandleHeld, Live
<1>5. WriterFits /\ TasksFit /\ NothingOpened
  BY IdleTyped, Zenon DEF Init, WriterFits, TasksFit, NothingOpened
<1>6. OpenedIsNoticed /\ DroppedIsReopened /\ StaleIsNoticed
  BY IdleTyped, Zenon DEF Init, OpenedIsNoticed, DroppedIsReopened, StaleIsNoticed
<1>. QED
  BY <1>3, <1>4, <1>5, <1>6, Zenon DEF IInv

\* An edit of the point tables touches no file and no writer.
LEMMA EditPointsKeeps == ASSUME IInv, EditPoints PROVE IInv'
  BY DEF IInv, EditPoints, TypeOK, Handles, Files, Tasks, Holes, NoWriter, Idle, Inodes, InodesMade,
         GensFresh, HandleHeld, Live, WriterFits, NothingOpened, Fits, TasksFit, OpenedIsNoticed,
         DroppedIsReopened, StaleIsNoticed

\* A file truncated in place has no generation, which no handle expects.
LEMMA BeginCreateKeeps == ASSUME IInv, BeginCreate PROVE IInv'
<1>1. TypeOK'
  BY DEF IInv, BeginCreate, TypeOK, Files, Inodes
<1>3. (InodesMade /\ GensFresh /\ HandleHeld)'
  BY DEF IInv, BeginCreate, TypeOK, InodesMade, Inodes, GensFresh, HandleHeld, Files, Tasks
<1>4. WriterFits'
  BY DEF IInv, BeginCreate, TypeOK, Inodes, HandleHeld, Handles, WriterFits, Fits
<1>5. (NothingOpened /\ OpenedIsNoticed /\ DroppedIsReopened /\ StaleIsNoticed)'
  BY DEF IInv, BeginCreate, TypeOK, NothingOpened, NoWriter, OpenedIsNoticed, DroppedIsReopened,
         StaleIsNoticed
<1>2. TasksFit'
  <2>. SUFFICES ASSUME NEW d \in Dispatchers, ~task[d].mixed
                PROVE  /\ task[d].at \in {"write", "recheck"} => Fits(task[d].guard, task[d].expected)'
                       /\ task[d].at = "recheck" /\ ~task[d].aligned =>
                              file'[task[d].guard.inode].gen # task[d].expected
                       /\ task[d].at = "notify" => task[d].aligned
    BY Zenon DEF TasksFit, BeginCreate
  <2>1. task[d].at = "notify" => task[d].aligned
    BY Zenon DEF IInv, TasksFit
  <2>2. CASE task[d].at \in {"write", "recheck"}
    <3>. DEFINE i == task[d].guard.inode
                e == task[d].expected
    <3>1. i \in Inodes /\ e # 0 /\ (file[i].gen = e => file[i].layout = task[d].guard.layout)
      BY <2>2 DEF IInv, TypeOK, HandleHeld, TasksFit, Fits, Tasks, Handles, Inodes
    <3>2. task[d].at = "recheck" /\ ~task[d].aligned => file[i].gen # e
      BY Zenon DEF IInv, TasksFit
    <3>3. file'[i] = file[i] \/ file'[i].gen # e
      BY <3>1, Zenon DEF IInv, TypeOK, GensFresh, InodesMade, Inodes, Files, Tasks, BeginCreate
    <3>4. task' = task
      BY Zenon DEF BeginCreate
    <3>. HIDE DEF i, e
    <3>5. e # 0 /\ (file'[i].gen = e => file'[i].layout = task[d].guard.layout)
      BY <3>1, <3>3, Zenon
    <3>6. task[d].at = "recheck" /\ ~task[d].aligned => file'[i].gen # e
      BY <3>2, <3>3, Zenon
    <3>. QED
      BY <2>1, <3>4, <3>5, <3>6, Zenon DEF Fits, i, e
  <2>. QED
    BY <2>1, <2>2, Zenon
<1>. QED
  BY <1>1, <1>2, <1>3, <1>4, <1>5, Zenon DEF IInv

\* The header is written before the generation.
LEMMA WriteHeaderKeeps == ASSUME IInv, WriteHeader PROVE IInv'
<1>1. (InodesMade /\ GensFresh /\ HandleHeld /\ WriterFits /\ NothingOpened /\ OpenedIsNoticed /\
       DroppedIsReopened /\ StaleIsNoticed)'
  BY DEF IInv, WriteHeader, TypeOK, InodesMade, Inodes, GensFresh, Idle, NoWriter, HandleHeld, Handles, Files,
         Tasks, Live, WriterFits, NothingOpened, Fits, OpenedIsNoticed, Holes, DroppedIsReopened,
         StaleIsNoticed
<1>2. TypeOK'
  <2>1. own \in Inodes
    BY DEF IInv, TypeOK, InodesMade, Inodes, WriteHeader
  <2>2. file' \in [Inodes -> Files]
    BY <2>1, Zenon DEF IInv, TypeOK, WriteHeader, Files
  <2>. QED
    BY <2>2, Zenon DEF IInv, TypeOK, WriteHeader
<1>3. TasksFit'
  <2>. SUFFICES ASSUME NEW d \in Dispatchers, ~task[d].mixed
                PROVE  /\ task[d].at \in {"write", "recheck"} => Fits(task[d].guard, task[d].expected)'
                       /\ task[d].at = "recheck" /\ ~task[d].aligned =>
                              file'[task[d].guard.inode].gen # task[d].expected
                       /\ task[d].at = "notify" => task[d].aligned
    BY Zenon DEF TasksFit, WriteHeader
  <2>1. task[d].at = "notify" => task[d].aligned
    BY Zenon DEF IInv, TasksFit
  <2>2. CASE task[d].at \in {"write", "recheck"}
    <3>. DEFINE i == task[d].guard.inode
                e == task[d].expected
    <3>1. i \in Inodes /\ e # 0 /\ (file[i].gen = e => file[i].layout = task[d].guard.layout)
      BY <2>2 DEF IInv, TypeOK, HandleHeld, TasksFit, Fits, Tasks, Handles, Inodes
    <3>2. task[d].at = "recheck" /\ ~task[d].aligned => file[i].gen # e
      BY Zenon DEF IInv, TasksFit
    <3>3. file'[i] = file[i] \/ file'[i].gen # e
      BY <3>1 DEF IInv, TypeOK, GensFresh, InodesMade, Inodes, Files, Tasks, WriteHeader
    <3>4. task' = task
      BY Zenon DEF WriteHeader
    <3>. HIDE DEF i, e
    <3>5. e # 0 /\ (file'[i].gen = e => file'[i].layout = task[d].guard.layout)
      BY <3>1, <3>3, Zenon
    <3>6. task[d].at = "recheck" /\ ~task[d].aligned => file'[i].gen # e
      BY <3>2, <3>3, Zenon
    <3>. QED
      BY <2>1, <3>4, <3>5, <3>6, Zenon DEF Fits, i, e
  <2>. QED
    BY <2>1, <2>2, Zenon
<1>. QED
  BY <1>1, <1>2, <1>3, Zenon DEF IInv

\* The generation seeded is greater than every one expected so far.
LEMMA SeedGenerationKeeps == ASSUME IInv, SeedGeneration PROVE IInv'
<1>1. (InodesMade /\ GensFresh /\ HandleHeld)'
  BY DEF IInv, SeedGeneration, TypeOK, InodesMade, Inodes, GensFresh, HandleHeld, Handles, Files, Tasks, Live
<1>4. WriterFits'
  BY DEF IInv, SeedGeneration, TypeOK, InodesMade, Inodes, GensFresh, HandleHeld, Handles, Files, WriterFits,
         Fits
<1>5. (NothingOpened /\ OpenedIsNoticed /\ DroppedIsReopened /\ StaleIsNoticed)'
  BY Zenon DEF IInv, SeedGeneration, NothingOpened, OpenedIsNoticed, DroppedIsReopened, StaleIsNoticed
<1>2. TypeOK'
  <2>1. own \in Inodes
    BY DEF IInv, TypeOK, InodesMade, Inodes, SeedGeneration
  <2>2. file' \in [Inodes -> Files]
    BY <2>1, Zenon DEF IInv, TypeOK, SeedGeneration, Files
  <2>. QED
    BY <2>2, Zenon DEF IInv, TypeOK, SeedGeneration
<1>3. TasksFit'
  <2>. SUFFICES ASSUME NEW d \in Dispatchers, ~task[d].mixed
                PROVE  /\ task[d].at \in {"write", "recheck"} => Fits(task[d].guard, task[d].expected)'
                       /\ task[d].at = "recheck" /\ ~task[d].aligned =>
                              file'[task[d].guard.inode].gen # task[d].expected
                       /\ task[d].at = "notify" => task[d].aligned
    BY Zenon DEF TasksFit, SeedGeneration
  <2>1. task[d].at = "notify" => task[d].aligned
    BY Zenon DEF IInv, TasksFit
  <2>2. CASE task[d].at \in {"write", "recheck"}
    <3>. DEFINE i == task[d].guard.inode
                e == task[d].expected
    <3>1. i \in Inodes /\ e # 0 /\ (file[i].gen = e => file[i].layout = task[d].guard.layout)
      BY <2>2 DEF IInv, TypeOK, HandleHeld, TasksFit, Fits, Tasks, Handles, Inodes
    <3>2. task[d].at = "recheck" /\ ~task[d].aligned => file[i].gen # e
      BY Zenon DEF IInv, TasksFit
    <3>3. file'[i] = file[i] \/ file'[i].gen # e
      BY <3>1, SMTT(30) DEF IInv, TypeOK, GensFresh, InodesMade, Inodes, Files, Tasks, SeedGeneration
    <3>4. task' = task
      BY Zenon DEF SeedGeneration
    <3>. HIDE DEF i, e
    <3>5. e # 0 /\ (file'[i].gen = e => file'[i].layout = task[d].guard.layout)
      BY <3>1, <3>3, Zenon
    <3>6. task[d].at = "recheck" /\ ~task[d].aligned => file'[i].gen # e
      BY <3>2, <3>3, Zenon
    <3>. QED
      BY <2>1, <3>4, <3>5, <3>6, Zenon DEF Fits, i, e
  <2>. QED
    BY <2>1, <2>2, Zenon
<1>. QED
  BY <1>1, <1>2, <1>3, <1>4, <1>5, Zenon DEF IInv

\* A refused create() touches no file.
LEMMA CreateRefusedKeeps == ASSUME IInv, CreateRefused PROVE IInv'
  BY SMTT(30) DEF IInv, CreateRefused, TypeOK, Handles, Files, Tasks, Holes, NoWriter, Idle, Inodes, InodesMade,
         GensFresh, HandleHeld, Live, WriterFits, NothingOpened, Fits, TasksFit, OpenedIsNoticed,
         DroppedIsReopened, StaleIsNoticed

\* A failed create() leaves the file without a generation.
LEMMA CreateFailsKeeps == ASSUME IInv, CreateFails PROVE IInv'
  BY DEF IInv, CreateFails, TypeOK, Handles, Files, Tasks, Holes, NoWriter, Idle, Inodes, InodesMade,
         GensFresh, HandleHeld, Live, WriterFits, NothingOpened, Fits, TasksFit, OpenedIsNoticed,
         DroppedIsReopened, StaleIsNoticed

\* The new inode is known to nobody yet, the watcher included.
LEMMA SwapKeeps == ASSUME IInv, Swap PROVE IInv'
<1>1. (TypeOK /\ InodesMade /\ GensFresh /\ HandleHeld /\ WriterFits /\ NothingOpened /\ OpenedIsNoticed /\
       DroppedIsReopened /\ StaleIsNoticed)'
  BY SMTT(30) DEF IInv, Swap, TypeOK, Handles, Files, Tasks, Holes, NoWriter, Idle, Inodes, InodesMade, GensFresh,
         HandleHeld, Live, WriterFits, NothingOpened, Fits, OpenedIsNoticed, DroppedIsReopened, StaleIsNoticed
<1>2. TasksFit'
  <2>. SUFFICES ASSUME NEW d \in Dispatchers, ~task[d].mixed
                PROVE  /\ task[d].at \in {"write", "recheck"} => Fits(task[d].guard, task[d].expected)'
                       /\ task[d].at = "recheck" /\ ~task[d].aligned =>
                              file'[task[d].guard.inode].gen # task[d].expected
                       /\ task[d].at = "notify" => task[d].aligned
    BY Zenon DEF TasksFit, Swap
  <2>1. task[d].at = "notify" => task[d].aligned
    BY Zenon DEF IInv, TasksFit
  <2>2. CASE task[d].at \in {"write", "recheck"}
    <3>. DEFINE i == task[d].guard.inode
                e == task[d].expected
    <3>1. i \in Inodes /\ e # 0 /\ (file[i].gen = e => file[i].layout = task[d].guard.layout)
      BY <2>2 DEF IInv, TypeOK, HandleHeld, TasksFit, Fits, Tasks, Handles, Inodes
    <3>2. task[d].at = "recheck" /\ ~task[d].aligned => file[i].gen # e
      BY Zenon DEF IInv, TasksFit
    <3>3. file'[i] = file[i] \/ file'[i].gen # e
      BY <3>1 DEF IInv, TypeOK, GensFresh, InodesMade, Inodes, Files, Tasks, Swap
    <3>4. task' = task
      BY Zenon DEF Swap
    <3>. HIDE DEF i, e
    <3>5. e # 0 /\ (file'[i].gen = e => file'[i].layout = task[d].guard.layout)
      BY <3>1, <3>3, Zenon
    <3>6. task[d].at = "recheck" /\ ~task[d].aligned => file'[i].gen # e
      BY <3>2, <3>3, Zenon
    <3>. QED
      BY <2>1, <3>4, <3>5, <3>6, Zenon DEF Fits, i, e
  <2>. QED
    BY <2>1, <2>2, Zenon
<1>. QED
  BY <1>1, <1>2, Zenon DEF IInv

\* Files and handles survive comsrv.
LEMMA ComsrvStopsKeeps == ASSUME IInv, ComsrvStops PROVE IInv'
<1>1. TypeOK'
  BY Zenon DEF IInv, ComsrvStops, TypeOK
<1>2. (InodesMade /\ GensFresh /\ HandleHeld)'
  BY Zenon DEF IInv, ComsrvStops, TypeOK, InodesMade, GensFresh, HandleHeld
<1>3. (WriterFits /\ TasksFit)'
  BY Zenon DEF IInv, ComsrvStops, WriterFits, Fits, TasksFit
<1>4. (NothingOpened /\ OpenedIsNoticed /\ DroppedIsReopened /\ StaleIsNoticed)'
  BY Zenon DEF IInv, ComsrvStops, NothingOpened, OpenedIsNoticed, DroppedIsReopened, StaleIsNoticed
<1>. QED
  BY <1>1, <1>2, <1>3, <1>4, Zenon DEF IInv

\* Reading the point counts touches no handle.
LEMMA BootKeeps == ASSUME IInv, Boot PROVE IInv'
<1>1. TypeOK'
  BY Zenon DEF IInv, Boot, LoadCounts, TypeOK, Handles, Files, Tasks, Holes, NoWriter, Idle, Inodes
<1>2. (InodesMade /\ GensFresh /\ HandleHeld)'
  BY Zenon DEF IInv, Boot, LoadCounts, TypeOK, InodesMade, Inodes, GensFresh, NoWriter, HandleHeld, Handles, Live
<1>3. (WriterFits /\ TasksFit)'
  BY Zenon DEF IInv, Boot, LoadCounts, WriterFits, Fits, TasksFit
<1>4. (NothingOpened /\ OpenedIsNoticed /\ DroppedIsReopened /\ StaleIsNoticed)'
  BY Zenon DEF IInv, Boot, LoadCounts, TypeOK, InodesMade, HandleHeld, NothingOpened, NoWriter, Handles, Live,
         OpenedIsNoticed, Holes, DroppedIsReopened, StaleIsNoticed
<1>. QED
  BY <1>1, <1>2, <1>3, <1>4, Zenon DEF IInv

\* main() opens the file at the canonical path.
LEMMA BootOpenKeeps == ASSUME IInv, BootOpen PROVE IInv'
<1>1. TypeOK'
  BY DEF IInv, BootOpen, CanOpen, TypeOK, Handles, Files, Tasks, Holes, NoWriter, Idle, Inodes
<1>2. (InodesMade /\ GensFresh /\ HandleHeld)'
  BY Zenon DEF IInv, BootOpen, CanOpen, TypeOK, InodesMade, Inodes, GensFresh, NoWriter, HandleHeld, Handles, Live
<1>3. (WriterFits /\ TasksFit)'
  BY Zenon DEF IInv, BootOpen, CanOpen, WriterFits, Fits, TasksFit
<1>4. (NothingOpened /\ OpenedIsNoticed /\ DroppedIsReopened /\ StaleIsNoticed)'
  BY Zenon DEF IInv, BootOpen, CanOpen, TypeOK, InodesMade, HandleHeld, NothingOpened, NoWriter, Handles, Live,
         OpenedIsNoticed, Holes, DroppedIsReopened, StaleIsNoticed
<1>. QED
  BY <1>1, <1>2, <1>3, <1>4, Zenon DEF IInv

\* Without a writer at boot the hole is on record.
LEMMA BootGivesUpKeeps == ASSUME IInv, BootGivesUp PROVE IInv'
<1>1. TypeOK'
  BY Zenon DEF IInv, BootGivesUp, TypeOK, Handles, Files, Tasks, Holes, NoWriter, Idle, Inodes
<1>2. (InodesMade /\ GensFresh /\ HandleHeld)'
  BY Zenon DEF IInv, BootGivesUp, TypeOK, InodesMade, Inodes, GensFresh, NoWriter, HandleHeld, Handles, Live
<1>3. (WriterFits /\ TasksFit)'
  BY Zenon DEF IInv, BootGivesUp, WriterFits, Fits, TasksFit
<1>4. (NothingOpened /\ OpenedIsNoticed /\ DroppedIsReopened /\ StaleIsNoticed)'
  BY Zenon DEF IInv, BootGivesUp, TypeOK, InodesMade, HandleHeld, NothingOpened, NoWriter, Handles, Live,
         OpenedIsNoticed, Holes, DroppedIsReopened, StaleIsNoticed
<1>. QED
  BY <1>1, <1>2, <1>3, <1>4, Zenon DEF IInv

\* The first writer fits its file, or the race is on record.
LEMMA BootSetKeeps == ASSUME IInv, BootSet PROVE IInv'
<1>1. (InodesMade /\ GensFresh /\ HandleHeld)'
  BY SMTT(30) DEF IInv, BootSet, SetWriter, Gen, TypeOK, InodesMade, Inodes, GensFresh, NoWriter, HandleHeld, Handles,
         Files, Tasks, Live
<1>3. (WriterFits /\ TasksFit)'
  BY Zenon DEF IInv, BootSet, SetWriter, Gen, HandleHeld, WriterFits, Fits, NoWriter, TasksFit
<1>4. (NothingOpened /\ OpenedIsNoticed /\ DroppedIsReopened /\ StaleIsNoticed)'
  BY DEF IInv, BootSet, SetWriter, TypeOK, HandleHeld, NothingOpened, NoWriter, Live, OpenedIsNoticed,
         DroppedIsReopened, StaleIsNoticed
<1>2. TypeOK'
  <2>1. opened.inode \in Inodes
    BY DEF IInv, TypeOK, HandleHeld, Handles, Inodes, BootSet
  <2>2. expected' \in 0 .. MaxFiles /\ writer' \in Handles /\ opened' \in Handles
    BY <2>1 DEF IInv, TypeOK, BootSet, SetWriter, Gen, Files, NoWriter, Handles
  <2>3. hole' \subseteq Holes
    BY Zenon DEF IInv, TypeOK, BootSet, SetWriter, Holes
  <2>. QED
    BY <2>2, <2>3, Zenon DEF IInv, TypeOK, BootSet, SetWriter
<1>. QED
  BY <1>1, <1>2, <1>3, <1>4, Zenon DEF IInv

\* A handle of another inode than the baseline is on record as missed.
LEMMA TakeBaselineKeeps == ASSUME IInv, TakeBaseline PROVE IInv'
<1>1. TypeOK'
  BY DEF IInv, TakeBaseline, TypeOK, Handles, Files, Tasks, Holes, NoWriter, Idle, Inodes
<1>2. (InodesMade /\ GensFresh /\ HandleHeld)'
  BY Zenon DEF IInv, TakeBaseline, TypeOK, InodesMade, Inodes, GensFresh, Idle, NoWriter, HandleHeld, Handles,
         Files, Tasks, Live
<1>3. (WriterFits /\ TasksFit)'
  BY Zenon DEF IInv, TakeBaseline, TypeOK, InodesMade, GensFresh, HandleHeld, WriterFits, NothingOpened, Fits,
         NoWriter, Handles, Inodes, Files, TasksFit, Idle, Tasks
<1>4. (NothingOpened /\ OpenedIsNoticed /\ DroppedIsReopened /\ StaleIsNoticed)'
  BY Zenon DEF IInv, TakeBaseline, TypeOK, InodesMade, HandleHeld, NothingOpened, Idle, NoWriter, Handles, Live,
         Tasks, OpenedIsNoticed, Holes, DroppedIsReopened, StaleIsNoticed
<1>. QED
  BY <1>1, <1>2, <1>3, <1>4, Zenon DEF IInv

\* A change of the inode arms the trigger; the first sight of a file meets no handle.
LEMMA WatchTickKeeps == ASSUME IInv, WatchTick PROVE IInv'
<1>1. TypeOK'
  <2>1. permit' \in BOOLEAN
    BY Zenon DEF WatchTick
  <2>. QED
    BY <2>1 DEF IInv, WatchTick, TypeOK
<1>4. (InodesMade /\ GensFresh /\ HandleHeld)'
  BY Zenon DEF IInv, WatchTick, TypeOK, InodesMade, GensFresh, HandleHeld
<1>5. (WriterFits /\ TasksFit)'
  BY Zenon DEF IInv, WatchTick, WriterFits, Fits, TasksFit
<1>6. (NothingOpened /\ DroppedIsReopened)'
  BY Zenon DEF IInv, WatchTick, TypeOK, NothingOpened, DroppedIsReopened
<1>2. OpenedIsNoticed'
  <2>1. CASE baseline = 0
    BY <2>1 DEF IInv, WatchTick, NothingOpened, OpenedIsNoticed, NoWriter, writerVars
  <2>2. CASE baseline # 0
    <3>1. permit'
      BY <2>2, Zenon DEF WatchTick
    <3>. QED
      BY <3>1, Zenon DEF OpenedIsNoticed
  <2>. QED
    BY <2>1, <2>2, Zenon
<1>3. StaleIsNoticed'
  <2>1. CASE baseline = 0
    BY <2>1 DEF IInv, WatchTick, NothingOpened, StaleIsNoticed, NoWriter, writerVars
  <2>2. CASE baseline # 0
    <3>1. permit'
      BY <2>2, Zenon DEF WatchTick
    <3>. QED
      BY <3>1, Zenon DEF StaleIsNoticed
  <2>. QED
    BY <2>1, <2>2, Zenon
<1>. QED
  BY <1>1, <1>2, <1>3, <1>4, <1>5, <1>6, Zenon DEF IInv

\* The permit is taken by a task that is now at work.
LEMMA RebuildWakesKeeps == ASSUME IInv, RebuildWakes PROVE IInv'
<1>1. TypeOK'
  BY Zenon DEF IInv, RebuildWakes, LoadCounts, TypeOK, Handles, Files, Tasks, Holes, NoWriter, Idle, Inodes
<1>2. (InodesMade /\ GensFresh /\ HandleHeld)'
  BY Zenon DEF IInv, RebuildWakes, LoadCounts, TypeOK, InodesMade, Inodes, GensFresh, Idle, NoWriter, HandleHeld,
         Handles, Files, Tasks, Live
<1>3. (WriterFits /\ TasksFit)'
  BY Zenon DEF IInv, RebuildWakes, LoadCounts, TypeOK, InodesMade, GensFresh, HandleHeld, WriterFits, NothingOpened,
         Fits, NoWriter, Handles, Inodes, Files, TasksFit, Idle, Tasks
<1>4. (NothingOpened /\ OpenedIsNoticed /\ DroppedIsReopened /\ StaleIsNoticed)'
  BY DEF IInv, RebuildWakes, LoadCounts, TypeOK, InodesMade, HandleHeld, NothingOpened, Idle, NoWriter,
         Handles, Live, Tasks, OpenedIsNoticed, Holes, DroppedIsReopened, StaleIsNoticed
<1>. QED
  BY <1>1, <1>2, <1>3, <1>4, Zenon DEF IInv

\* The rebuild task opens the file at the canonical path.
LEMMA RebuildOpensKeeps == ASSUME IInv, RebuildOpens PROVE IInv'
<1>1. TypeOK'
  BY SMTT(30) DEF IInv, RebuildOpens, CanOpen, TypeOK, Handles, Files, Tasks, Holes, NoWriter, Idle, Inodes
<1>2. (InodesMade /\ GensFresh /\ HandleHeld)'
  BY Zenon DEF IInv, RebuildOpens, CanOpen, TypeOK, InodesMade, Inodes, GensFresh, NoWriter, HandleHeld, Handles, Live
<1>3. (WriterFits /\ TasksFit)'
  BY Zenon DEF IInv, RebuildOpens, CanOpen, WriterFits, Fits, TasksFit
<1>4. (NothingOpened /\ OpenedIsNoticed /\ DroppedIsReopened /\ StaleIsNoticed)'
  BY Zenon DEF IInv, RebuildOpens, CanOpen, TypeOK, InodesMade, HandleHeld, NothingOpened, NoWriter, Handles, Live,
         OpenedIsNoticed, Holes, DroppedIsReopened, StaleIsNoticed
<1>. QED
  BY <1>1, <1>2, <1>3, <1>4, Zenon DEF IInv

\* A retry is counted.
LEMMA RebuildRetriesKeeps == ASSUME IInv, RebuildRetries PROVE IInv'
<1>1. TypeOK'
  BY SMTT(30) DEF IInv, RebuildRetries, LoadCounts, TypeOK, Handles, Files, Tasks, Holes, NoWriter, Idle, Inodes
<1>2. (InodesMade /\ GensFresh /\ HandleHeld)'
  BY Zenon DEF IInv, RebuildRetries, LoadCounts, TypeOK, InodesMade, Inodes, GensFresh, NoWriter, HandleHeld, Handles, Live
<1>3. (WriterFits /\ TasksFit)'
  BY Zenon DEF IInv, RebuildRetries, LoadCounts, WriterFits, Fits, TasksFit
<1>4. (NothingOpened /\ OpenedIsNoticed /\ DroppedIsReopened /\ StaleIsNoticed)'
  BY Zenon DEF IInv, RebuildRetries, LoadCounts, TypeOK, InodesMade, HandleHeld, NothingOpened, NoWriter, Handles, Live,
         OpenedIsNoticed, Holes, DroppedIsReopened, StaleIsNoticed
<1>. QED
  BY <1>1, <1>2, <1>3, <1>4, Zenon DEF IInv

\* Giving up is on record.
LEMMA RebuildGivesUpKeeps == ASSUME IInv, RebuildGivesUp PROVE IInv'
<1>1. TypeOK'
  BY SMTT(30) DEF IInv, RebuildGivesUp, TypeOK, Handles, Files, Tasks, Holes, NoWriter, Idle, Inodes
<1>2. (InodesMade /\ GensFresh /\ HandleHeld)'
  BY Zenon DEF IInv, RebuildGivesUp, TypeOK, InodesMade, Inodes, GensFresh, Idle, NoWriter, HandleHeld, Handles,
         Files, Tasks, Live
<1>3. (WriterFits /\ TasksFit)'
  BY Zenon DEF IInv, RebuildGivesUp, TypeOK, InodesMade, GensFresh, HandleHeld, WriterFits, NothingOpened, Fits,
         NoWriter, Handles, Inodes, Files, TasksFit, Idle, Tasks
<1>4. (NothingOpened /\ OpenedIsNoticed /\ DroppedIsReopened /\ StaleIsNoticed)'
  BY Zenon DEF IInv, RebuildGivesUp, TypeOK, InodesMade, HandleHeld, NothingOpened, Idle, NoWriter, Handles, Live,
         Tasks, OpenedIsNoticed, Holes, DroppedIsReopened, StaleIsNoticed
<1>. QED
  BY <1>1, <1>2, <1>3, <1>4, Zenon DEF IInv

\* The writer set is the one opened: a rename since then is noticed.
LEMMA RebuildSetsKeeps == ASSUME IInv, RebuildSets PROVE IInv'
<1>1. (InodesMade /\ GensFresh /\ HandleHeld)'
  <2>1. opened.inode \in Inodes /\ mod # "set"
    BY DEF IInv, TypeOK, HandleHeld, Handles, Inodes, RebuildSets, Live
  <2>2. InodesMade'
    BY Zenon DEF IInv, RebuildSets, InodesMade
  <2>3. GensFresh'
    BY <2>1, Zenon DEF IInv, RebuildSets, SetWriter, Gen, GensFresh
  <2>4. HandleHeld'
    BY <2>1, Zenon DEF IInv, RebuildSets, SetWriter, HandleHeld, Inodes
  <2>. QED
    BY <2>2, <2>3, <2>4, Zenon
<1>2. (WriterFits /\ TasksFit)'
  BY Zenon DEF IInv, RebuildSets, SetWriter, Gen, HandleHeld, WriterFits, Fits, NoWriter, TasksFit
<1>3. (NothingOpened /\ OpenedIsNoticed /\ DroppedIsReopened /\ StaleIsNoticed)'
  <2>1. opened.inode # 0 /\ canon # 0 /\ ~(mod = "up" /\ baseline = 0)
    BY Zenon DEF IInv, RebuildSets, HandleHeld, NothingOpened
  <2>2. writer' = opened /\ opened' = NoWriter /\ ("missed" \in hole => "missed" \in hole')
    BY Zenon DEF RebuildSets, SetWriter
  <2>3. (NothingOpened /\ OpenedIsNoticed /\ DroppedIsReopened)'
    BY <2>1, <2>2, IdleTyped, Zenon DEF RebuildSets, NothingOpened, OpenedIsNoticed, DroppedIsReopened
  <2>4. StaleIsNoticed'
    BY <2>2, Zenon DEF IInv, RebuildSets, OpenedIsNoticed, StaleIsNoticed
  <2>. QED
    BY <2>3, <2>4, Zenon
<1>4. TypeOK'
  <2>1. opened.inode \in Inodes
    BY SMTT(30) DEF IInv, TypeOK, HandleHeld, Handles, Inodes, RebuildSets
  <2>2. expected' \in 0 .. MaxFiles /\ writer' \in Handles /\ opened' \in Handles
    BY <2>1, SMTT(30) DEF IInv, TypeOK, RebuildSets, SetWriter, Gen, Files, NoWriter, Handles
  <2>3. hole' \subseteq Holes
    BY Zenon DEF IInv, TypeOK, RebuildSets, SetWriter, Holes
  <2>. QED
    BY <2>2, <2>3, SMTT(30) DEF IInv, TypeOK, RebuildSets, SetWriter
<1>. QED
  BY <1>1, <1>2, <1>3, <1>4, Zenon DEF IInv

\* What the invariant says of the task of one dispatcher.
TaskOK(t) ==
    /\ t \in Tasks
    /\ t.expected <= made /\ (comsrv \in {"header", "seed"} => t.expected < made)
    /\ t.at # "idle" => t.guard.inode # 0
    /\ canon = 0 \/ (mod = "up" /\ baseline = 0) => t.at = "idle"
    /\ ~t.mixed =>
           /\ t.at \in {"write", "recheck"} => Fits(t.guard, t.expected)
           /\ t.at = "recheck" /\ ~t.aligned => file[t.guard.inode].gen # t.expected
           /\ t.at = "notify" => t.aligned

\* The tasks are as the invariant says.
LEMMA TasksOK == ASSUME IInv, NEW d \in Dispatchers PROVE TaskOK(task[d])
<1>1. task[d] \in Tasks
  BY Zenon DEF IInv, TypeOK
<1>2. task[d].expected <= made /\ (comsrv \in {"header", "seed"} => task[d].expected < made)
  BY Zenon DEF IInv, GensFresh
<1>3. task[d].at # "idle" => task[d].guard.inode # 0
  BY Zenon DEF IInv, HandleHeld
<1>4. canon = 0 \/ (mod = "up" /\ baseline = 0) => task[d].at = "idle"
  BY Zenon DEF IInv, NothingOpened
<1>5. ~task[d].mixed =>
          /\ task[d].at \in {"write", "recheck"} => Fits(task[d].guard, task[d].expected)
          /\ task[d].at = "recheck" /\ ~task[d].aligned => file[task[d].guard.inode].gen # task[d].expected
          /\ task[d].at = "notify" => task[d].aligned
  BY Zenon DEF IInv, TasksFit
<1>. QED
  BY <1>1, <1>2, <1>3, <1>4, <1>5, Zenon DEF TaskOK

\* A dispatcher that has returned is as the invariant says.
LEMMA IdleOK == IInv => TaskOK(Idle)
<1>. SUFFICES ASSUME IInv PROVE TaskOK(Idle)
  BY Zenon
<1>1. Idle.at = "idle" /\ Idle.expected = 0 /\ Idle \in Tasks
  BY IdleTyped, Zenon
<1>2. made \in Nat /\ (comsrv \in {"header", "seed"} => 0 < made)
  BY DEF IInv, TypeOK, InodesMade
<1>. QED
  BY <1>1, <1>2 DEF TaskOK

\* A step of a dispatcher changes its task and at most drops the writer and arms
\* the trigger: it keeps the invariant if the new task is as the invariant says.
LEMMA TaskMoves ==
    ASSUME IInv, NEW d \in Dispatchers, NEW t, TaskOK(t), mod \in Live,
           task' = [task EXCEPT ![d] = t],
           (writer' = writer /\ permit' = permit) \/ (task[d].at # "idle" /\ DropWriter),
           UNCHANGED <<shmVars, modVars, expected, rebuild, retries, known, opened, hole>>
    PROVE  IInv'
<1>1. \A e \in Dispatchers : TaskOK(task'[e])
  <2>. TAKE e \in Dispatchers
  <2>1. task'[e] = IF e = d THEN t ELSE task[e]
    BY Zenon DEF IInv, TypeOK
  <2>. QED
    BY <2>1, TasksOK, Zenon
<1>2. writer' \in Handles /\ permit' \in BOOLEAN /\ (writer' = writer \/ writer' = NoWriter)
  <2>1. CASE writer' = writer /\ permit' = permit
    BY <2>1, Zenon DEF IInv, TypeOK
  <2>2. CASE DropWriter
    BY <2>2, IdleTyped, Zenon DEF DropWriter
  <2>. QED
    BY <2>1, <2>2, Zenon
<1>3. TypeOK'
  <2>1. task' \in [Dispatchers -> Tasks]
    BY Zenon DEF IInv, TypeOK, TaskOK
  <2>. QED
    BY <1>2, <2>1, Zenon DEF IInv, TypeOK
<1>4. InodesMade'
  BY Zenon DEF IInv, InodesMade
<1>5. GensFresh'
  BY <1>1, Zenon DEF IInv, GensFresh, TaskOK
<1>6. HandleHeld'
  BY <1>1, <1>2, Zenon DEF IInv, HandleHeld, TaskOK
<1>7. WriterFits'
  BY <1>2, Zenon DEF IInv, WriterFits, Fits
<1>8. TasksFit'
  BY <1>1, Zenon DEF TasksFit, TaskOK, Fits
<1>9. NothingOpened'
  <2>. SUFFICES ASSUME canon = 0 \/ (mod = "up" /\ baseline = 0)
                PROVE  /\ writer' = NoWriter /\ ~permit' /\ rebuild = "wait" /\ opened = NoWriter
                       /\ \A e \in Dispatchers : task'[e].at = "idle"
    BY Zenon DEF NothingOpened
  <2>1. writer = NoWriter /\ ~permit /\ rebuild = "wait" /\ opened = NoWriter
    BY Zenon DEF IInv, NothingOpened
  <2>2. writer' = writer /\ permit' = permit
    BY Zenon DEF IInv, NothingOpened
  <2>3. \A e \in Dispatchers : task'[e].at = "idle"
    BY <1>1, Zenon DEF TaskOK
  <2>. QED
    BY <2>1, <2>2, <2>3, Zenon
<1>10. (OpenedIsNoticed /\ DroppedIsReopened /\ StaleIsNoticed)'
  BY IdleTyped, Zenon DEF IInv, OpenedIsNoticed, DroppedIsReopened, StaleIsNoticed, DropWriter
<1>. QED
  BY <1>3, <1>4, <1>5, <1>6, <1>7, <1>8, <1>9, <1>10, Zenon DEF IInv

\* A dispatch begins with the writer of the moment.
LEMMA LoadWriterKeeps == ASSUME IInv, NEW d \in Dispatchers, LoadWriter(d) PROVE IInv'
<1>. DEFINE t == [Idle EXCEPT !.at = "check", !.guard = writer]
<1>1. t \in Tasks /\ t.at = "check" /\ t.guard = writer /\ t.expected = 0
  BY IdleTyped, Zenon DEF IInv, TypeOK, Tasks
<1>2. writer.inode # 0 /\ canon # 0 /\ ~(mod = "up" /\ baseline = 0)
  BY Zenon DEF IInv, LoadWriter, HandleHeld, NothingOpened
<1>3. made \in Nat /\ (comsrv \in {"header", "seed"} => 0 < made)
  BY DEF IInv, TypeOK, InodesMade
<1>4. task' = [task EXCEPT ![d] = t] /\ mod \in Live
  BY Zenon DEF LoadWriter, At, Live
<1>. HIDE DEF t
<1>5. TaskOK(t)
  BY <1>1, <1>2, <1>3 DEF TaskOK
<1>. QED
  BY <1>4, <1>5, TaskMoves, Zenon DEF LoadWriter

\* With the writer unchanged the generation found is the one that fits it.
LEMMA CheckPassesKeeps == ASSUME IInv, NEW d \in Dispatchers, CheckPasses(d) PROVE IInv'
<1>. DEFINE mixed == "raced" \in hole \/ writer # task[d].guard
            t == [task[d] EXCEPT !.at = "write", !.expected = expected, !.mixed = mixed]
<1>1. mixed \in BOOLEAN
  BY Zenon
<1>2. ~mixed => Fits(task[d].guard, expected)
  <2>. SUFFICES ASSUME ~mixed PROVE Fits(task[d].guard, expected)
    BY Zenon
  <2>1. writer # NoWriter
    BY DEF IInv, HandleHeld, CheckPasses, At, NoWriter
  <2>. QED
    BY <2>1, Zenon DEF IInv, WriterFits
<1>3. task' = [task EXCEPT ![d] = t] /\ mod \in Live
  BY Zenon DEF IInv, TypeOK, CheckPasses, At, Live
<1>4. expected <= made /\ (comsrv \in {"header", "seed"} => expected < made) /\ expected \in 0 .. MaxFiles
  BY Zenon DEF IInv, TypeOK, GensFresh
<1>5. task[d].at = "check"
  BY Zenon DEF CheckPasses, At
<1>. HIDE DEF mixed
<1>6. /\ t \in Tasks /\ t.at = "write" /\ t.guard = task[d].guard
      /\ t.expected = expected /\ t.mixed = mixed
  BY <1>1, <1>4, Zenon DEF IInv, TypeOK, Tasks
<1>. HIDE DEF t
<1>7. TaskOK(t)
  BY <1>2, <1>4, <1>5, <1>6, TasksOK, Zenon DEF TaskOK
<1>. QED
  BY <1>3, <1>7, TaskMoves, Zenon DEF CheckPasses

\* The writer is dropped and the trigger armed.
LEMMA CheckFailsKeeps == ASSUME IInv, NEW d \in Dispatchers, CheckFails(d) PROVE IInv'
<1>1. mod \in Live /\ task[d].at # "idle"
  BY Zenon DEF CheckFails, At, Live
<1>. QED
  BY <1>1, IdleOK, TaskMoves, Zenon DEF CheckFails, Return

\* A write that is not aligned meets a file whose generation has changed.
LEMMA WriteKeeps == ASSUME IInv, NEW d \in Dispatchers, Write(d) PROVE IInv'
<1>. DEFINE aligned == file[task[d].guard.inode].layout = task[d].guard.layout
            t == [task[d] EXCEPT !.at = "recheck", !.aligned = aligned]
<1>1. aligned \in BOOLEAN
  BY Zenon
<1>2. Fits(task[d].guard, task[d].expected) /\ ~aligned =>
          file[task[d].guard.inode].gen # task[d].expected
  BY Zenon DEF Fits
<1>3. task' = [task EXCEPT ![d] = t] /\ mod \in Live
  BY Zenon DEF IInv, TypeOK, Write, At, Live
<1>4. task[d].at = "write"
  BY Zenon DEF Write, At
<1>. HIDE DEF aligned
<1>5. /\ t \in Tasks /\ t.at = "recheck" /\ t.guard = task[d].guard
      /\ t.expected = task[d].expected /\ t.mixed = task[d].mixed /\ t.aligned = aligned
  BY <1>1, Zenon DEF IInv, TypeOK, Tasks
<1>. HIDE DEF t
<1>6. TaskOK(t)
  BY <1>2, <1>4, <1>5, TasksOK, Zenon DEF TaskOK
<1>. QED
  BY <1>3, <1>6, TaskMoves, Zenon DEF Write

\* A point without a slot ends the dispatch.
LEMMA WriteMissesKeeps == ASSUME IInv, NEW d \in Dispatchers, WriteMisses(d) PROVE IInv'
<1>1. mod \in Live
  BY Zenon DEF WriteMisses, At, Live
<1>. QED
  BY <1>1, IdleOK, TaskMoves, Zenon DEF WriteMisses, Return

\* The generation is still the expected one, so the write was aligned.
LEMMA RecheckPassesKeeps == ASSUME IInv, NEW d \in Dispatchers, RecheckPasses(d) PROVE IInv'
<1>. DEFINE t == [task[d] EXCEPT !.at = "notify"]
<1>1. task[d].at = "recheck" /\ ~(task[d].expected # 0 /\ file[task[d].guard.inode].gen # task[d].expected)
  BY Zenon DEF RecheckPasses, At, Mismatch, Gen
<1>2. ~task[d].mixed => task[d].aligned
  BY <1>1, TasksOK, Zenon DEF TaskOK, Fits
<1>3. task' = [task EXCEPT ![d] = t] /\ mod \in Live
  BY Zenon DEF IInv, TypeOK, RecheckPasses, At, Live
<1>4. /\ t \in Tasks /\ t.at = "notify" /\ t.guard = task[d].guard
      /\ t.expected = task[d].expected /\ t.mixed = task[d].mixed /\ t.aligned = task[d].aligned
  BY Zenon DEF IInv, TypeOK, Tasks
<1>. HIDE DEF t
<1>5. TaskOK(t)
  BY <1>1, <1>2, <1>4, TasksOK, Zenon DEF TaskOK
<1>. QED
  BY <1>3, <1>5, TaskMoves, Zenon DEF RecheckPasses

\* The writer is dropped and the trigger armed.
LEMMA RecheckFailsKeeps == ASSUME IInv, NEW d \in Dispatchers, RecheckFails(d) PROVE IInv'
<1>1. mod \in Live /\ task[d].at # "idle"
  BY Zenon DEF RecheckFails, At, Live
<1>. QED
  BY <1>1, IdleOK, TaskMoves, Zenon DEF RecheckFails, Return

\* The dispatch ends.
LEMMA NotifyKeeps == ASSUME IInv, NEW d \in Dispatchers, Notify(d) PROVE IInv'
<1>1. mod \in Live
  BY Zenon DEF Notify, At, Live
<1>. QED
  BY <1>1, IdleOK, TaskMoves, Zenon DEF Notify, Return

\* Every step keeps the invariant.
LEMMA Inductive == IInv /\ [Next]_vars => IInv'
<1>. SUFFICES ASSUME IInv, [Next]_vars PROVE IInv'
  BY Zenon
<1>1. CASE UNCHANGED vars
  BY <1>1, Stutter, Zenon
<1>2. CASE EditPoints \/ Swap \/ ComsrvStops \/ Comsrv
  BY <1>2, EditPointsKeeps, SwapKeeps, ComsrvStopsKeeps, BeginCreateKeeps, WriteHeaderKeeps,
     SeedGenerationKeeps, CreateRefusedKeeps, CreateFailsKeeps, Zenon DEF Comsrv
<1>3. CASE Boot \/ Modsrv \/ WatchTick
  BY <1>3, BootKeeps, BootOpenKeeps, BootGivesUpKeeps, BootSetKeeps, TakeBaselineKeeps, WatchTickKeeps, Zenon DEF Modsrv
<1>4. CASE Rebuild
  BY <1>4, RebuildWakesKeeps, RebuildOpensKeeps, RebuildRetriesKeeps, RebuildGivesUpKeeps, RebuildSetsKeeps, Zenon DEF Rebuild
<1>5. ASSUME NEW d \in Dispatchers, Dispatch(d) PROVE IInv'
  BY <1>5, LoadWriterKeeps, CheckPassesKeeps, CheckFailsKeeps, WriteKeeps, WriteMissesKeeps,
     RecheckPassesKeeps, RecheckFailsKeeps, NotifyKeeps, Zenon DEF Dispatch
<1>. QED
  BY <1>1, <1>2, <1>3, <1>4, <1>5, Zenon DEF Next

\* The dispatch, the rebuild task and the files stay well typed: in particular the
\* rebuild task keeps to its retries.
THEOREM TypeCorrect == Spec => []TypeOK
<1>1. IInv => TypeOK
  BY Zenon DEF IInv
<1>. QED
  BY <1>1, InitInv, Inductive, PTL DEF Spec

\* dispatch() reports an action as written only if it was written by the layout the
\* file had, or if writer and expected generation did not belong together.
THEOREM Aligned == Spec => []AlignedUnlessMixed
<1>1. IInv => AlignedUnlessMixed
  BY Zenon DEF IInv, TasksFit, AlignedUnlessMixed
<1>. QED
  BY <1>1, InitInv, Inductive, PTL DEF Spec

\* After dispatch() has dropped the writer the trigger is armed or the rebuild task
\* is at work, until that gives up.
THEOREM Reopened == Spec => []DroppedIsReopened
<1>1. IInv => DroppedIsReopened
  BY Zenon DEF IInv
<1>. QED
  BY <1>1, InitInv, Inductive, PTL DEF Spec

\* A writer of a file that rebuild_via_swap renamed away is replaced: the inode
\* watcher has the change before it, or the rebuild task has been told.
THEOREM Noticed == Spec => []StaleIsNoticed
<1>1. IInv => StaleIsNoticed
  BY Zenon DEF IInv
<1>. QED
  BY <1>1, InitInv, Inductive, PTL DEF Spec

=============================================================================
