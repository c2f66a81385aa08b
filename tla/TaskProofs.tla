----------------------------- MODULE TaskProofs -----------------------------
(***************************************************************************)
(* The tasks of comsrv. For every queue capacity, reconnect policy and     *)
(* recovery policy, the task of a channel: the truth of its failed flag,   *)
(* the attempt budget of an outage, and no online entry of a removed       *)
(* channel. For any number of slots, writes, layouts and routes, the       *)
(* mirror of the shared memory in Redis: what it notes as published is,    *)
(* and Redis never goes back.                                              *)
(***************************************************************************)
EXTENDS RedisSync, ChannelTask, TLAPS

-----------------------------------------------------------------------------
(* comsrv: the mirror of the shared memory in Redis *)

SyReads == [slot : SySlotSet, seq : Nat, val : Nat, inst : SyInsts]
SyPasses == [at : {"idle", "peek", "load", "push"}, file : 0 .. SyFiles, route : Nat, todo : SUBSET SySlotSet,
             seq : Nat, got : SUBSET SyReads]
SyPlaces == 1 .. SyFiles

\* The types of the mirror, without the bound of the writes.
SyKinds ==
    /\ sySlot \in [SyPlaces -> [SySlotSet -> [seq : Nat, val : Nat]]]
    /\ syDirty \in [SyPlaces -> SUBSET SySlotSet]
    /\ syFile \in SyPlaces /\ syWrites \in [SySlotSet -> Nat]
    /\ syRoute \in [SySlotSet -> SyInsts] /\ syReloads \in Nat
    /\ syTask \in SyPasses /\ syLast \in [SySlotSet -> Nat] /\ syRetry \subseteq SySlotSet
    /\ syChan \in [SySlotSet -> Nat]
    /\ syTask.at \in {"peek", "load"} => syTask.todo # {}
    /\ syTask.at # "idle" => syTask.file # 0
    /\ syTask.file <= syFile

\* A slot holds the values of its writes, each file newer ones than the files before
\* it, and nothing as long as its sequence number is zero.
SyCells(s) ==
    /\ \A f \in SyPlaces : /\ sySlot[f][s].val <= syWrites[s]
                           /\ sySlot[f][s].seq = 0 => sySlot[f][s].val = 0
                           /\ f > syFile => sySlot[f][s].seq = 0
    /\ \A f, g \in SyPlaces : f <= g /\ sySlot[g][s].val # 0 => sySlot[f][s].val <= sySlot[g][s].val

\* Redis is never ahead of a file that the task reads now or later, and holds the
\* value of a slot whose sequence number is the one noted.
SyBehind(s) ==
    /\ syChan[s] <= syWrites[s]
    /\ \A f \in SyPlaces : f >= syTask.file /\ sySlot[f][s].val # 0 => syChan[s] <= sySlot[f][s].val
    /\ syTask.file = 0 => syLast[s] = 0
    /\ syTask.file # 0 =>
          /\ syLast[s] <= sySlot[syTask.file][s].seq
          /\ syLast[s] = sySlot[syTask.file][s].seq /\ sySlot[syTask.file][s].val # 0
                => syChan[s] = sySlot[syTask.file][s].val

\* What was read of a slot, under the sequence number seen before it.
SyReadOf(g) ==
    LET c == sySlot[syTask.file][g.slot]
    IN  /\ syTask.file # 0 /\ g.val # 0
        /\ syChan[g.slot] <= g.val /\ g.val <= c.val
        /\ g.seq <= c.seq /\ (g.seq = c.seq => g.val = c.val)

SyInv ==
    /\ SyKinds
    /\ \A s \in SySlotSet : SyCells(s) /\ SyBehind(s)
    /\ \A g \in syTask.got : SyReadOf(g)
    /\ syTask.at = "load" => \A s \in SySlotSet : SyNow(s) => syTask.seq <= SyCell(s).seq

USE SyAssumption

\* The slot the task is at.
LEMMA CurrentSlot ==
    ASSUME SyKinds, syTask.at \in {"peek", "load"}
    PROVE  syTask.todo \subseteq SySlotSet /\ syTask.todo # {} /\ syTask.file \in SyPlaces
<1>1. syTask.todo \in SUBSET SySlotSet /\ syTask.todo # {} /\ syTask.file \in 0 .. SyFiles /\ syTask.file # 0
  BY Zenon DEF SyKinds, SyPasses
<1> QED
  BY <1>1 DEF SyPlaces

\* A writer changes the slot of the current file: its number grows, and the value is
\* the newest when it changes.
LEMMA SyWrote ==
    ASSUME SyInv, NEW s \in SySlotSet, NEW c \in [seq : Nat, val : Nat],
           c.seq = sySlot[syFile][s].seq + 1, c.val \in {sySlot[syFile][s].val, syWrites'[s]},
           sySlot' = [sySlot EXCEPT ![syFile][s] = c],
           syWrites' \in [SySlotSet -> Nat], \A t \in SySlotSet : syWrites[t] <= syWrites'[t],
           UNCHANGED <<syDirty, syFile, syRoute, syReloads, syTask, syKept, syRedis>>
    PROVE  SyInv'
<1>0. /\ sySlot \in [SyPlaces -> [SySlotSet -> [seq : Nat, val : Nat]]] /\ syFile \in SyPlaces
      /\ syChan \in [SySlotSet -> Nat] /\ syLast \in [SySlotSet -> Nat] /\ syTask \in SyPasses
      /\ syWrites \in [SySlotSet -> Nat] /\ SyPlaces \subseteq Nat /\ syTask.file \in Nat
      /\ syTask.file # 0 => syTask.file \in SyPlaces
  <2>1. SyKinds /\ SyPlaces \subseteq Nat
    BY DEF SyInv, SyPlaces
  <2>2. syTask.file \in 0 .. SyFiles
    BY <2>1, Zenon DEF SyKinds, SyPasses
  <2>3. syTask.file \in Nat /\ (syTask.file # 0 => syTask.file \in SyPlaces)
    BY <2>2 DEF SyPlaces
  <2> QED
    BY <2>1, <2>3, Zenon DEF SyKinds
<1>u. syFile' = syFile /\ syTask' = syTask /\ syLast' = syLast /\ syChan' = syChan
  BY Zenon DEF syKept, syRedis
<1>1. \A f \in SyPlaces, t \in SySlotSet : sySlot'[f][t] = IF f = syFile /\ t = s THEN c ELSE sySlot[f][t]
  BY <1>0, Zenon
<1>2. SyKinds'
  <2>1. sySlot' \in [SyPlaces -> [SySlotSet -> [seq : Nat, val : Nat]]]
    BY <1>0, Zenon
  <2> QED
    BY <1>u, <2>1, Zenon DEF SyInv, SyKinds, syKept, syRedis
<1>t. \A f \in SyPlaces, t \in SySlotSet : sySlot[f][t].seq \in Nat /\ sySlot[f][t].val \in Nat
  BY <1>0, SMTT(30)
<1>c. c.seq \in Nat /\ c.val \in Nat /\ c.seq > sySlot[syFile][s].seq /\ c.val >= sySlot[syFile][s].val
  BY <1>0, <1>t, SMTT(30) DEF SyInv, SyCells
<1>3. ASSUME NEW t \in SySlotSet PROVE SyCells(t)'
  <2>1. SyCells(t)
    BY Zenon DEF SyInv
  <2>2. c.val <= syWrites'[s]
    BY <1>0, <1>t, <1>c, SMTT(30) DEF SyInv, SyCells
  <2>3. ASSUME NEW f \in SyPlaces
        PROVE  /\ sySlot'[f][t].val <= syWrites'[t]
               /\ sySlot'[f][t].seq = 0 => sySlot'[f][t].val = 0
               /\ f > syFile' => sySlot'[f][t].seq = 0
    BY <1>0, <1>u, <1>1, <1>t, <1>c, <2>1, <2>2, <2>3, SMTT(30) DEF SyCells
  <2>4. ASSUME NEW f \in SyPlaces, NEW g \in SyPlaces, f <= g, sySlot'[g][t].val # 0
        PROVE  sySlot'[f][t].val <= sySlot'[g][t].val
    <3>1. CASE t # s
      BY <1>1, <2>1, <2>4, <3>1, SMTT(30) DEF SyCells
    <3>2. CASE t = s /\ f # syFile /\ g # syFile
      BY <1>1, <2>1, <2>4, <3>2 DEF SyCells
    <3>3. CASE t = s /\ f = syFile /\ g = syFile
      BY <1>1, <1>c, <3>3, SMTT(30)
    <3>4. CASE t = s /\ f = syFile /\ g # syFile
      BY <1>0, <1>1, <2>1, <2>4, <3>4 DEF SyCells
    <3>5. CASE t = s /\ f # syFile /\ g = syFile
      <4>1. sySlot[f][s].val <= syWrites[s] /\ syWrites[s] <= syWrites'[s]
        BY <2>1, <3>5, Zenon DEF SyCells
      <4>2. sySlot[f][s].val <= c.val
        BY <1>0, <1>t, <1>1, <1>c, <2>1, <2>4, <3>5, <4>1, SMTT(30) DEF SyCells
      <4> QED
        BY <1>1, <3>5, <4>2
    <3> QED
      BY <3>1, <3>2, <3>3, <3>4, <3>5, Zenon
  <2> QED
    BY <2>3, <2>4, Zenon DEF SyCells
<1>4. ASSUME NEW t \in SySlotSet PROVE SyBehind(t)'
  <2>1. SyBehind(t) /\ SyCells(t)
    BY Zenon DEF SyInv
  <2>2. syChan[t] <= syWrites'[t]
    BY <1>0, <2>1, SMTT(30) DEF SyBehind
  <2>3. ASSUME NEW f \in SyPlaces, f >= syTask.file, sySlot'[f][t].val # 0 PROVE syChan[t] <= sySlot'[f][t].val
    BY <1>0, <1>t, <1>1, <1>c, <2>1, <2>2, <2>3, Zenon DEF SyBehind
  <2>4. ASSUME syTask.file # 0
        PROVE  /\ syLast[t] <= sySlot'[syTask.file][t].seq
               /\ syLast[t] = sySlot'[syTask.file][t].seq /\ sySlot'[syTask.file][t].val # 0
                     => syChan[t] = sySlot'[syTask.file][t].val
    BY <1>0, <1>t, <1>1, <1>c, <2>1, <2>4, SMTT(30) DEF SyBehind
  <2> QED
    BY <1>u, <2>1, <2>2, <2>3, <2>4, Zenon DEF SyBehind
<1>5. ASSUME NEW g \in syTask.got PROVE SyReadOf(g)'
  <2>1. SyReadOf(g) /\ g \in SyReads
    BY <1>0, Zenon DEF SyInv, SyPasses
  <2>2. g.slot \in SySlotSet /\ g.seq \in Nat /\ g.val \in Nat
    BY <2>1, Zenon DEF SyReads
  <2> QED
    BY <1>0, <1>u, <1>t, <1>1, <1>c, <2>1, <2>2 DEF SyReadOf
<1>6. ASSUME syTask.at = "load", NEW q \in SySlotSet, SyNow(q)' PROVE syTask.seq <= SyCell(q)'.seq
  <2>1. SyNow(q)
    BY <1>u, <1>6, Zenon DEF SyNow
  <2>2. syTask.file \in SyPlaces /\ syTask.seq \in Nat /\ syTask.seq <= SyCell(q).seq
    BY <1>0, <1>6, <2>1, CurrentSlot, Zenon DEF SyInv, SyPasses
  <2>3. SyCell(q)' = sySlot'[syTask.file][q]
    BY <1>u, Zenon DEF SyCell
  <2> QED
    BY <1>0, <1>t, <1>1, <1>c, <2>2, <2>3 DEF SyCell
<1> QED
  BY <1>u, <1>2, <1>3, <1>4, <1>5, <1>6, Zenon DEF SyInv

\* The task moves on within its pass; a number it notes without a push is that of a
\* slot that holds nothing.
LEMMA SyMoved ==
    ASSUME SyInv, UNCHANGED <<syShm, syRoute, syReloads, syRedis>>,
           syTask' \in SyPasses, syTask'.file = syTask.file, syTask.file # 0, syRetry' \subseteq SySlotSet,
           syTask'.at \in {"peek", "load"} => syTask'.todo # {},
           syLast' \in [SySlotSet -> Nat],
           \A s \in SySlotSet : \/ syLast'[s] = syLast[s]
                                \/ /\ syLast'[s] <= sySlot[syTask.file][s].seq
                                   /\ sySlot[syTask.file][s].val = 0,
           \A g \in syTask'.got : SyReadOf(g),
           syTask'.at = "load" => \A s \in SySlotSet : SyNow(s)' => syTask'.seq <= SyCell(s)'.seq
    PROVE  SyInv'
<1>u. /\ sySlot' = sySlot /\ syFile' = syFile /\ syWrites' = syWrites /\ syDirty' = syDirty
      /\ syRoute' = syRoute /\ syReloads' = syReloads /\ syChan' = syChan
  BY Zenon DEF syShm, syRedis
<1>1. SyKinds'
  BY <1>u, Zenon DEF SyInv, SyKinds
<1>2. ASSUME NEW s \in SySlotSet PROVE SyCells(s)' /\ SyBehind(s)'
  <2>1. SyCells(s) /\ SyBehind(s)
    BY Zenon DEF SyInv
  <2>2. SyCells(s)'
    BY <1>u, <2>1, Zenon DEF SyCells
  <2>3. SyBehind(s)'
    BY <1>u, <2>1, Zenon DEF SyBehind
  <2> QED
    BY <2>2, <2>3, Zenon
<1>3. ASSUME NEW g \in syTask'.got PROVE SyReadOf(g)'
  BY <1>u, Zenon DEF SyReadOf
<1> QED
  BY <1>1, <1>2, <1>3, Zenon DEF SyInv

\* A new pass starts with the layout that is current, and forgets what it noted of
\* another one.
LEMMA SyScanned == ASSUME SyInv, SyScan PROVE SyInv'
<1>k. SyKinds
  BY Zenon DEF SyInv
<1> DEFINE swapped == syTask.file # 0 /\ syTask.file # syFile
           moved == syTask.route # 0 /\ syTask.route # syReloads + 1
           full == swapped \/ syTick = 0
           kept == IF swapped \/ moved THEN {} ELSE syRetry
           found == (IF full THEN SySlotSet ELSE syDirty[syFile]) \union kept
           now == SyLowest(found, SyPipe)
<1>1. found \subseteq SySlotSet /\ now \subseteq found /\ SyHighest(found \ now, SyCap) \subseteq found
  <2>1. found \subseteq SySlotSet
    BY <1>k, Zenon DEF SyKinds
  <2> HIDE DEF found
  <2>2. now \subseteq found
    BY Zenon DEF SyLowest
  <2> HIDE DEF now
  <2> QED
    BY <2>1, <2>2, Zenon DEF SyHighest
<1>2. /\ syLast' = IF swapped \/ moved THEN [s \in SySlotSet |-> 0] ELSE syLast
      /\ syDirty' = IF full THEN syDirty ELSE [syDirty EXCEPT ![syFile] = {}]
      /\ syRetry' = SyHighest(found \ now, SyCap)
      /\ syTask' = [at |-> IF now = {} THEN "idle" ELSE "peek", file |-> syFile,
                    route |-> syReloads + 1, todo |-> now, seq |-> 0, got |-> {}]
      /\ UNCHANGED <<sySlot, syFile, syPen, syWrites, syRoute, syReloads, syRedis>>
  BY Zenon DEF SyScan
<1>u. sySlot' = sySlot /\ syFile' = syFile /\ syWrites' = syWrites /\ syRoute' = syRoute
      /\ syReloads' = syReloads /\ syChan' = syChan
  BY <1>2, Zenon DEF syRedis
<1>3. /\ syTask'.file = syFile /\ syTask'.got = {} /\ syTask'.at \in {"idle", "peek"}
      /\ syTask'.todo = now /\ (syTask'.at = "peek" => now # {})
  <2> HIDE DEF now
  <2> QED
    BY <1>2, Zenon
<1>4. syTask' \in SyPasses
  <2>1. syReloads + 1 \in Nat /\ syFile \in 0 .. SyFiles
    BY <1>k, SMTT(30) DEF SyKinds, SyPlaces
  <2>2. now \in SUBSET SySlotSet
    BY <1>1, Zenon
  <2> HIDE DEF now
  <2> QED
    BY <1>2, <2>1, <2>2, Zenon DEF SyPasses
<1>5. syLast' \in [SySlotSet -> Nat] /\ syDirty' \in [SyPlaces -> SUBSET SySlotSet] /\ syRetry' \subseteq SySlotSet
  <2>1. syLast' \in [SySlotSet -> Nat]
    BY <1>k, <1>2, Zenon DEF SyKinds
  <2>2. syDirty' \in [SyPlaces -> SUBSET SySlotSet]
    BY <1>k, <1>2, Zenon DEF SyKinds
  <2> HIDE DEF found, now
  <2> QED
    BY <1>1, <1>2, <2>1, <2>2, Zenon
<1>6. SyKinds'
  <2>1. syFile \in SyPlaces /\ syFile # 0 /\ syFile <= syFile
    BY <1>k DEF SyKinds, SyPlaces
  <2> HIDE DEF now
  <2> QED
    BY <1>k, <1>u, <1>3, <1>4, <1>5, <2>1, Zenon DEF SyKinds
<1>7. ASSUME NEW s \in SySlotSet PROVE SyCells(s)' /\ SyBehind(s)'
  <2>0. SyCells(s) /\ SyBehind(s)
    BY Zenon DEF SyInv
  <2>1. SyCells(s)'
    BY <1>u, <2>0, Zenon DEF SyCells
  <2>2. syFile \in SyPlaces /\ syFile \in Nat /\ syFile # 0 /\ syTask.file \in Nat /\ syTask.file <= syFile
    <3>1. syTask.file \in 0 .. SyFiles
      BY <1>k, Zenon DEF SyKinds, SyPasses
    <3> QED
      BY <1>k, <3>1 DEF SyKinds, SyPlaces
  <2>3. /\ syLast'[s] \in {0, syLast[s]}
        /\ syTask.file # syFile => syLast'[s] = 0
    <3>1. syTask.file = 0 => syLast[s] = 0
      BY <2>0, Zenon DEF SyBehind
    <3> QED
      BY <1>2, <3>1, Zenon
  <2>4. sySlot[syFile][s].seq \in Nat /\ sySlot[syFile][s].val \in Nat
    BY <1>k, <2>2, Zenon DEF SyKinds
  <2>5. \A f \in SyPlaces : f >= syFile => f >= syTask.file
    BY <2>2, SMTT(30) DEF SyPlaces
  <2>6. /\ syLast'[s] <= sySlot[syFile][s].seq
        /\ syLast'[s] = sySlot[syFile][s].seq /\ sySlot[syFile][s].val # 0 => syChan[s] = sySlot[syFile][s].val
    <3>1. CASE syLast'[s] = 0
      BY <2>0, <2>2, <2>4, <3>1, SMTT(30) DEF SyCells
    <3>2. CASE syLast'[s] = syLast[s] /\ syTask.file = syFile
      BY <2>0, <2>2, <3>2, Zenon DEF SyBehind
    <3> QED
      BY <2>3, <3>1, <3>2, Zenon
  <2>7. SyBehind(s)'
    <3> HIDE DEF now, found, swapped, moved, full, kept
    <3> QED
      BY <1>u, <1>3, <2>0, <2>2, <2>5, <2>6, Zenon DEF SyBehind
  <2> QED
    BY <2>1, <2>7, Zenon
<1> QED
  BY <1>3, <1>6, <1>7, Zenon DEF SyInv

\* The number of a slot is read, and a slot that is as noted is passed over.
LEMMA SyPeeked == ASSUME SyInv, NEW s \in SySlotSet, SyPeek(s) PROVE SyInv'
<1>k. SyKinds /\ syTask.at = "peek" /\ syTask \in SyPasses /\ syTask.file # 0
  BY Zenon DEF SyInv, SyPeek, SyKinds
<1>1. syTask.file \in SyPlaces /\ syTask.todo # {}
  BY <1>k, CurrentSlot, Zenon DEF SyKinds
<1>u. syLast' = syLast /\ syRetry' = syRetry /\ UNCHANGED <<syShm, syRoute, syReloads, syRedis>>
  BY Zenon DEF SyPeek
<1>2. SyCell(s).seq \in Nat
  BY <1>k, <1>1 DEF SyKinds, SyCell
<1>3. /\ syTask' \in SyPasses /\ syTask'.file = syTask.file /\ syTask'.got = syTask.got
      /\ syTask'.at \in {"peek", "load"} => syTask'.todo # {}
      /\ syTask'.at = "load" => syTask'.todo = syTask.todo /\ syTask'.seq = SyCell(s).seq
  <2>1. CASE SyTurn(syTask.todo \ {s}, syTask.got)
    <3> DEFINE rest == syTask.todo \ {s}
    <3>1. rest \in SUBSET SySlotSet
      BY <1>k, Zenon DEF SyPasses
    <3> HIDE DEF rest
    <3> QED
      BY <1>k, <2>1, <3>1, Zenon DEF SyTurn, SyPasses, rest
  <2>2. CASE syTask' = [syTask EXCEPT !.at = "load", !.seq = SyCell(s).seq]
    BY <1>k, <1>1, <1>2, <2>2, Zenon DEF SyPasses
  <2> QED
    BY <2>1, <2>2, Zenon DEF SyPeek
<1>4. ASSUME syTask'.at = "load", NEW q \in SySlotSet, SyNow(q)' PROVE syTask'.seq <= SyCell(q)'.seq
  <2>1. q = s
    <3>1. s <= q /\ q <= s
      BY <1>1, <1>3, <1>4, Zenon DEF SyPeek, SyNow
    <3> QED
      BY <3>1 DEF SySlotSet
  <2>2. SyCell(q)' = SyCell(s)
    BY <1>u, <1>3, <2>1, Zenon DEF SyCell, syShm
  <2> QED
    BY <1>2, <1>3, <1>4, <2>2
<1>5. syLast \in [SySlotSet -> Nat] /\ syRetry \subseteq SySlotSet /\ \A g \in syTask.got : SyReadOf(g)
  BY <1>k, Zenon DEF SyKinds, SyInv
<1> QED
  BY <1>k, <1>u, <1>3, <1>4, <1>5, SyMoved, Zenon

\* The value of a slot is read after its number.
LEMMA SyLoaded == ASSUME SyInv, NEW s \in SySlotSet, SyLoad(s) PROVE SyInv'
<1>k. SyKinds /\ syTask.at = "load" /\ syTask \in SyPasses /\ syTask.file # 0
  BY Zenon DEF SyInv, SyLoad, SyKinds
<1>1. syTask.file \in SyPlaces
  BY <1>k, CurrentSlot, Zenon
<1>u. UNCHANGED <<syShm, syRoute, syReloads, syRedis>>
  BY Zenon DEF SyLoad
<1>2. SyCell(s).seq \in Nat /\ SyCell(s).val \in Nat /\ SyCell(s) = sySlot[syTask.file][s]
      /\ syTask.seq \in Nat /\ syTask.seq <= SyCell(s).seq
  BY <1>k, <1>1, SMTT(30) DEF SyKinds, SyCell, SyInv, SyPasses, SyLoad
<1> DEFINE torn == SyCell(s).seq % 2 = 1
           todo == syTask.todo \ {s}
           read == [slot |-> s, seq |-> syTask.seq, val |-> SyCell(s).val, inst |-> syRoute[s]]
           got == IF torn \/ SyCell(s).val = 0 THEN syTask.got ELSE syTask.got \union {read}
<1>3. /\ SyTurn(todo, got)
      /\ syRetry' = IF torn THEN syRetry \union {s} ELSE syRetry
      /\ syLast' = IF ~torn /\ SyCell(s).val = 0 THEN [syLast EXCEPT ![s] = syTask.seq] ELSE syLast
  BY Zenon DEF SyLoad
<1>4. read \in SyReads /\ (SyCell(s).val # 0 => SyReadOf(read))
  <2>1. syRoute[s] \in SyInsts
    BY <1>k, <1>1, Zenon DEF SyKinds
  <2>2. read \in SyReads
    BY <1>1, <1>2, <2>1, Zenon DEF SyReads
  <2>3. SyCell(s).val # 0 => syChan[s] <= SyCell(s).val
    <3>1. SyBehind(s)
      BY <1>1, Zenon DEF SyInv
    <3>2. syTask.file >= syTask.file
      BY <1>1, SMTT(30) DEF SyPlaces
    <3> QED
      BY <1>1, <1>2, <3>1, <3>2, Zenon DEF SyBehind
  <2>4. SyCell(s).val # 0 => SyReadOf(read)
    BY <1>k, <1>2, <2>3, SMTT(30) DEF SyReadOf
  <2> QED
    BY <2>2, <2>4, Zenon
<1>5. got \subseteq SyReads /\ todo \in SUBSET SySlotSet /\ \A g \in got : SyReadOf(g)
  <2> HIDE DEF read, torn
  <2>1. syTask.got \subseteq SyReads /\ todo \in SUBSET SySlotSet
    BY <1>k, Zenon DEF SyPasses
  <2>2. \A g \in syTask.got : SyReadOf(g)
    BY Zenon DEF SyInv
  <2> QED
    BY <1>4, <2>1, <2>2, Zenon
<1>6. /\ syTask' \in SyPasses /\ syTask'.file = syTask.file /\ syTask'.got = got
      /\ syTask'.at \in {"peek", "load"} => syTask'.todo # {}
      /\ syTask'.at # "load"
  <2> HIDE DEF got, todo
  <2> QED
    BY <1>k, <1>3, <1>5, Zenon DEF SyTurn, SyPasses
<1>7. syLast \in [SySlotSet -> Nat] /\ syRetry \subseteq SySlotSet
  BY <1>k, Zenon DEF SyKinds
<1>8. /\ syLast' \in [SySlotSet -> Nat] /\ syRetry' \subseteq SySlotSet
      /\ \A q \in SySlotSet : \/ syLast'[q] = syLast[q]
                              \/ /\ syLast'[q] <= sySlot[syTask.file][q].seq
                                 /\ sySlot[syTask.file][q].val = 0
  <2> HIDE DEF torn
  <2> QED
    BY <1>1, <1>2, <1>3, <1>7, Zenon
<1> HIDE DEF got, todo, torn, read
<1> QED
  BY <1>k, <1>u, <1>5, <1>6, <1>8, SyMoved, Zenon

\* What a push leaves of a slot: a value that was read, and its number if the push
\* succeeded.
SyOf(s) == CHOOSE g \in syTask.got : g.slot = s
SyHas(s) == \E g \in syTask.got : g.slot = s

\* A push, noted or failed, executed or not, keeps what was read in order.
LEMMA SyPushes ==
    ASSUME SyInv, SyPushed \/ SyPushFails
    PROVE  SyInv' /\ \A s \in SySlotSet : syChan'[s] >= syChan[s]
<1>k. SyKinds /\ syTask.at = "push" /\ syTask \in SyPasses /\ syTask.file # 0
  BY Zenon DEF SyInv, SyPushed, SyPushFails, SyKinds
<1>u. /\ sySlot' = sySlot /\ syFile' = syFile /\ syWrites' = syWrites /\ syDirty' = syDirty
      /\ syRoute' = syRoute /\ syReloads' = syReloads
  BY Zenon DEF SyPushed, SyPushFails, syShm
<1>1. syTask' \in SyPasses /\ syTask'.file = syTask.file /\ syTask'.at = "idle" /\ syTask'.got = {}
  BY <1>k, Zenon DEF SyPushed, SyPushFails, SyPasses
<1>0. /\ syChan \in [SySlotSet -> Nat] /\ syLast \in [SySlotSet -> Nat] /\ syRetry \subseteq SySlotSet
      /\ syTask.got \subseteq SyReads /\ syTask.file \in SyPlaces
  <2>1. syTask.file \in 0 .. SyFiles /\ syTask.got \subseteq SyReads
    BY <1>k, Zenon DEF SyPasses
  <2> QED
    BY <1>k, <2>1 DEF SyKinds, SyPlaces
<1>2. ASSUME NEW s \in SySlotSet, SyHas(s)
      PROVE  SyOf(s).slot = s /\ SyOf(s).val \in Nat /\ SyOf(s).seq \in Nat /\ SyReadOf(SyOf(s))
  <2>1. SyOf(s) \in syTask.got /\ SyOf(s).slot = s
    BY <1>2, Zenon DEF SyOf, SyHas
  <2> QED
    BY <1>0, <2>1, Zenon DEF SyReads, SyInv
<1>3. /\ syRetry' \subseteq SySlotSet
      /\ \/ syChan' = syChan
         \/ syChan' = [s \in SySlotSet |-> IF SyHas(s) THEN SyOf(s).val ELSE syChan[s]]
      /\ \/ syLast' = syLast
         \/ /\ syLast' = [s \in SySlotSet |-> IF SyHas(s) THEN SyOf(s).seq ELSE syLast[s]]
            /\ syChan' = [s \in SySlotSet |-> IF SyHas(s) THEN SyOf(s).val ELSE syChan[s]]
  <2>1. {g.slot : g \in syTask.got} \subseteq SySlotSet
    BY <1>0, Zenon DEF SyReads
  <2>2. CASE SyPushed
    BY <1>0, <2>2, Zenon DEF SyPushed, SyWritten, SyHas, SyOf
  <2>3. CASE SyPushFails
    BY <1>0, <2>1, <2>3, Zenon DEF SyPushFails, SyWritten, SyHas, SyOf, syRedis
  <2> QED
    BY <2>2, <2>3, Zenon
<1>4. ASSUME NEW s \in SySlotSet
      PROVE  /\ \/ syChan'[s] = syChan[s]
                \/ SyHas(s) /\ syChan'[s] = SyOf(s).val
             /\ \/ syLast'[s] = syLast[s]
                \/ SyHas(s) /\ syChan'[s] = SyOf(s).val /\ syLast'[s] = SyOf(s).seq
  BY <1>3, Zenon
<1>5. syChan' \in [SySlotSet -> Nat] /\ syLast' \in [SySlotSet -> Nat]
  BY <1>0, <1>2, <1>3, Zenon
<1>6. SyKinds'
  BY <1>k, <1>u, <1>1, <1>3, <1>5, Zenon DEF SyKinds
<1>7. ASSUME NEW s \in SySlotSet PROVE SyCells(s)' /\ SyBehind(s)' /\ syChan'[s] >= syChan[s]
  <2>0. SyCells(s) /\ SyBehind(s)
    BY Zenon DEF SyInv
  <2>1. SyCells(s)'
    BY <1>u, <2>0, Zenon DEF SyCells
  <2>c. /\ syTask.file \in Nat /\ syChan[s] \in Nat /\ syChan'[s] \in Nat /\ syLast[s] \in Nat
        /\ \A f \in SyPlaces : f \in Nat /\ sySlot[f][s].seq \in Nat /\ sySlot[f][s].val \in Nat
        /\ syWrites[s] \in Nat
    <3>1. syChan[s] \in Nat /\ syChan'[s] \in Nat /\ syLast[s] \in Nat
      BY <1>0, <1>5, Zenon
    <3>2. syTask.file \in Nat /\ \A f \in SyPlaces : f \in Nat
      BY <1>0, SMTT(30) DEF SyPlaces
    <3>3. \A f \in SyPlaces : sySlot[f][s] \in [seq : Nat, val : Nat]
      BY <1>k, SMTT(30) DEF SyKinds
    <3>4. syWrites[s] \in Nat
      BY <1>k, Zenon DEF SyKinds
    <3> QED
      BY <3>1, <3>2, <3>3, <3>4, Zenon
  <2> DEFINE c == sySlot[syTask.file][s]
  <2>2. SyHas(s) => /\ SyOf(s).val # 0 /\ syChan[s] <= SyOf(s).val /\ SyOf(s).val <= c.val
                    /\ SyOf(s).seq <= c.seq /\ (SyOf(s).seq = c.seq => SyOf(s).val = c.val)
    BY <1>2, Zenon DEF SyReadOf
  <2>3. SyHas(s) => SyOf(s).val \in Nat /\ SyOf(s).seq \in Nat
    BY <1>2, Zenon
  <2>4. syChan'[s] >= syChan[s] /\ (syChan'[s] # syChan[s] => syChan'[s] <= c.val)
    BY <1>4, <2>c, <2>2, <2>3, SMTT(30)
  <2>5. syChan'[s] <= syWrites[s]
    BY <1>0, <2>0, <2>c, <2>4, SMTT(30) DEF SyCells, SyBehind
  <2>6. ASSUME NEW f \in SyPlaces, f >= syTask.file, sySlot[f][s].val # 0 PROVE syChan'[s] <= sySlot[f][s].val
    <3>1. c.val <= sySlot[f][s].val
      BY <1>0, <2>0, <2>c, <2>6, Zenon DEF SyCells
    <3>2. syChan[s] <= sySlot[f][s].val
      BY <2>0, <2>6, Zenon DEF SyBehind
    <3> HIDE DEF c
    <3>3. c.val \in Nat
      BY <1>0, <2>c, Zenon DEF c
    <3> QED
      BY <2>c, <2>4, <3>1, <3>2, <3>3, SMTT(30)
  <2>7. syLast'[s] <= c.seq /\ (syLast'[s] = c.seq /\ c.val # 0 => syChan'[s] = c.val)
    <3>1. CASE syLast'[s] = syLast[s]
      <4>1. syLast[s] <= c.seq /\ (syLast[s] = c.seq /\ c.val # 0 => syChan[s] = c.val)
        BY <1>k, <2>0, Zenon DEF SyBehind
      <4>2. c.val \in Nat
        BY <1>0, <2>c, Zenon
      <4> HIDE DEF c
      <4>3. syLast'[s] <= c.seq
        BY <3>1, <4>1, Zenon
      <4>4. ASSUME syLast'[s] = c.seq, c.val # 0 PROVE syChan'[s] = c.val
        <5>1. syChan[s] = c.val
          BY <3>1, <4>1, <4>4, Zenon
        <5>2. syChan'[s] \in Nat
          BY <2>c, Zenon
        <5> QED
          BY <2>4, <4>2, <5>1, <5>2
      <4> QED
        BY <4>3, <4>4, Zenon
    <3>2. CASE SyHas(s) /\ syChan'[s] = SyOf(s).val /\ syLast'[s] = SyOf(s).seq
      BY <2>2, <3>2, Zenon
    <3> QED
      BY <1>4, <3>1, <3>2, Zenon
  <2>8. SyBehind(s)'
    BY <1>k, <1>u, <1>1, <2>5, <2>6, <2>7, Zenon DEF SyBehind
  <2> QED
    BY <2>1, <2>4, <2>8, Zenon
<1> QED
  BY <1>1, <1>6, <1>7, Zenon DEF SyInv

\* Every step keeps the mirror behind the slots, and takes no value of Redis back.
LEMMA SyStep ==
    ASSUME SyInv, [SyNext]_syVars
    PROVE  SyInv' /\ \A s \in SySlotSet : syChan'[s] >= syChan[s]
<1>k. SyKinds
  BY Zenon DEF SyInv
<1>c. ASSUME syChan' = syChan PROVE \A s \in SySlotSet : syChan'[s] >= syChan[s]
  <2>1. \A s \in SySlotSet : syChan[s] \in Nat
    BY <1>k, Zenon DEF SyKinds
  <2> QED
    BY <1>c, <2>1, SMTT(30)
<1>s. ASSUME NEW s \in SySlotSet PROVE /\ sySlot[syFile][s] \in [seq : Nat, val : Nat] /\ syWrites[s] \in Nat
                                       /\ sySlot[syFile][s].seq \in Nat /\ sySlot[syFile][s].val \in Nat
  BY <1>k, SMTT(30) DEF SyKinds
<1>q. ASSUME sySlot' = sySlot, syWrites' = syWrites, syTask' = syTask, syLast' = syLast, syRetry' = syRetry,
             syChan' = syChan, syFile' \in SyPlaces, syFile <= syFile', syReloads' \in Nat,
             syRoute' \in [SySlotSet -> SyInsts], syDirty' \in [SyPlaces -> SUBSET SySlotSet]
      PROVE  SyInv'
  <2>0. syFile \in Nat /\ syFile' \in Nat /\ syTask.file \in Nat /\ SyPlaces \subseteq Nat
    <3>1. syTask.file \in 0 .. SyFiles /\ syFile \in 1 .. SyFiles
      BY <1>k, Zenon DEF SyKinds, SyPasses, SyPlaces
    <3> QED
      BY <1>q, <3>1 DEF SyPlaces
  <2>1. SyKinds'
    BY <1>k, <1>q, <2>0 DEF SyKinds
  <2>2. ASSUME NEW s \in SySlotSet PROVE SyCells(s)' /\ SyBehind(s)'
    <3>0. SyCells(s) /\ SyBehind(s)
      BY Zenon DEF SyInv
    <3>1. \A f \in SyPlaces : f > syFile' => f > syFile
      BY <1>q, <2>0, SMTT(30)
    <3>2. SyCells(s)'
      BY <1>q, <3>0, <3>1, Zenon DEF SyCells
    <3>3. SyBehind(s)'
      BY <1>q, <3>0, Zenon DEF SyBehind
    <3> QED
      BY <3>2, <3>3, Zenon
  <2>3. \A g \in syTask'.got : SyReadOf(g)'
    BY <1>q, Zenon DEF SyInv, SyReadOf
  <2>4. ASSUME NEW s \in SySlotSet PROVE SyCell(s)' = SyCell(s) /\ SyNow(s)' = SyNow(s)
    BY <1>q, Zenon DEF SyCell, SyNow
  <2> QED
    BY <1>q, <2>1, <2>2, <2>3, <2>4, Zenon DEF SyInv
<1>1. ASSUME NEW s \in SySlotSet, SyWriteBegin(s) PROVE SyInv' /\ syChan' = syChan
  <2> DEFINE c == [seq |-> sySlot[syFile][s].seq + 1, val |-> sySlot[syFile][s].val]
  <2>1. c \in [seq : Nat, val : Nat] /\ c.seq = sySlot[syFile][s].seq + 1 /\ c.val = sySlot[syFile][s].val
    BY <1>s
  <2>2. sySlot' = [sySlot EXCEPT ![syFile][s] = c]
    <3>1. sySlot' = [sySlot EXCEPT ![syFile][s].seq = sySlot[syFile][s].seq + 1]
      BY <1>1, Zenon DEF SyWriteBegin
    <3>2. [sySlot[syFile][s] EXCEPT !.seq = sySlot[syFile][s].seq + 1] = c
      BY <1>s
    <3> HIDE DEF c
    <3> QED
      BY <1>k, <3>1, <3>2, Zenon DEF SyKinds
  <2>3. syWrites' \in [SySlotSet -> Nat] /\ \A t \in SySlotSet : syWrites[t] <= syWrites'[t]
    BY <1>1, <1>k DEF SyWriteBegin, SyKinds
  <2>4. UNCHANGED <<syDirty, syFile, syRoute, syReloads, syTask, syKept, syRedis>>
    BY <1>1, Zenon DEF SyWriteBegin
  <2> HIDE DEF c
  <2> QED
    BY <2>1, <2>2, <2>3, <2>4, SyWrote, Zenon DEF syRedis
<1>2. ASSUME NEW s \in SySlotSet, SyWriteEnd(s) PROVE SyInv' /\ syChan' = syChan
  <2> DEFINE c == [seq |-> sySlot[syFile][s].seq + 1, val |-> syWrites[s]]
  <2>1. c \in [seq : Nat, val : Nat] /\ c.seq = sySlot[syFile][s].seq + 1 /\ c.val = syWrites[s]
    BY <1>s, SMTT(30)
  <2>2. sySlot' = [sySlot EXCEPT ![syFile][s] = c] /\ syWrites' = syWrites
    BY <1>2, Zenon DEF SyWriteEnd
  <2>3. syWrites' \in [SySlotSet -> Nat] /\ \A t \in SySlotSet : syWrites[t] <= syWrites'[t]
    BY <1>k, <2>2, SMTT(30) DEF SyKinds
  <2>4. UNCHANGED <<syDirty, syFile, syRoute, syReloads, syTask, syKept, syRedis>>
    BY <1>2, Zenon DEF SyWriteEnd
  <2> HIDE DEF c
  <2> QED
    BY <2>1, <2>2, <2>3, <2>4, SyWrote, Zenon DEF syRedis
<1>3. ASSUME NEW s \in SySlotSet, SyMarkDirty(s) PROVE SyInv' /\ syChan' = syChan
  <2>1. syDirty' \in [SyPlaces -> SUBSET SySlotSet]
    BY <1>3, <1>k, Zenon DEF SyMarkDirty, SyKinds
  <2>2. syFile \in SyPlaces /\ syFile <= syFile /\ syReloads \in Nat /\ syRoute \in [SySlotSet -> SyInsts]
    BY <1>k DEF SyKinds, SyPlaces
  <2> QED
    BY <1>3, <1>q, <2>1, <2>2, Zenon DEF SyMarkDirty, syKept, syRedis
<1>4. CASE SyRebuild
  <2>1. syFile + 1 \in SyPlaces /\ syFile <= syFile + 1
    BY <1>4, <1>k, SMTT(30) DEF SyRebuild, SyKinds, SyPlaces
  <2>2. syReloads \in Nat /\ syRoute \in [SySlotSet -> SyInsts] /\ syDirty \in [SyPlaces -> SUBSET SySlotSet]
    BY <1>k, Zenon DEF SyKinds
  <2>3. SyInv' /\ syChan' = syChan
    BY <1>4, <1>q, <2>1, <2>2, Zenon DEF SyRebuild, syKept, syRedis
  <2> QED
    BY <1>c, <2>3, Zenon
<1>5. CASE SyReload \/ UNCHANGED syVars
  <2>1. /\ syFile' = syFile /\ sySlot' = sySlot /\ syWrites' = syWrites /\ syTask' = syTask /\ syLast' = syLast
        /\ syRetry' = syRetry /\ syChan' = syChan /\ syDirty' = syDirty
    BY <1>5, Zenon DEF SyReload, syVars, syShm, syKept, syRedis
  <2>2. syFile \in SyPlaces /\ syFile <= syFile /\ syDirty \in [SyPlaces -> SUBSET SySlotSet]
    BY <1>k DEF SyKinds, SyPlaces
  <2>3. syReloads' \in Nat /\ syRoute' \in [SySlotSet -> SyInsts]
    <3>1. CASE SyReload
      BY <1>k, <3>1, SMTT(30) DEF SyReload, SyKinds, SyRoutes
    <3>2. CASE UNCHANGED syVars
      BY <1>k, <3>2, Zenon DEF syVars, SyKinds
    <3> QED
      BY <1>5, <3>1, <3>2, Zenon
  <2>4. SyInv'
    BY <1>q, <2>1, <2>2, <2>3, Zenon
  <2> QED
    BY <1>c, <2>1, <2>4, Zenon
<1>6. ASSUME NEW s \in SySlotSet, SyPeek(s) \/ SyLoad(s) PROVE SyInv' /\ syChan' = syChan
  <2>1. SyInv'
    BY <1>6, SyPeeked, SyLoaded, Zenon
  <2>2. syChan' = syChan
    BY <1>6, Zenon DEF SyPeek, SyLoad, syRedis
  <2> QED
    BY <2>1, <2>2, Zenon
<1>p. CASE SyScan
  BY <1>p, <1>c, SyScanned, Zenon DEF SyScan, syRedis
<1>7. CASE SyPushed \/ SyPushFails
  BY <1>7, SyPushes, Zenon
<1> QED
  BY <1>c, <1>1, <1>2, <1>3, <1>4, <1>5, <1>6, <1>p, <1>7, Zenon DEF SyNext

\* The mirror starts with blank files and an empty Redis.
LEMMA SyStart == SyInit => SyInv
<1> SUFFICES ASSUME SyInit PROVE SyInv
  BY Zenon
<1>1. /\ sySlot = [f \in SyPlaces |-> [s \in SySlotSet |-> [seq |-> 0, val |-> 0]]]
      /\ syDirty = [f \in SyPlaces |-> {}] /\ syFile = 1 /\ syWrites = [s \in SySlotSet |-> 0]
      /\ syRoute \in [SySlotSet -> SyInsts] /\ syReloads = 0 /\ syTask = SyIdle
      /\ syLast = [s \in SySlotSet |-> 0] /\ syRetry = {} /\ syChan = [s \in SySlotSet |-> 0]
  BY Zenon DEF SyInit, SyPlaces, SyRoutes
<1>2. syTask \in SyPasses /\ syTask.at = "idle" /\ syTask.file = 0 /\ syTask.got = {}
  BY <1>1 DEF SyPasses, SyIdle
<1>3. 1 \in SyPlaces
  BY SMTT(30) DEF SyPlaces
<1>4. SyKinds
  BY <1>1, <1>2, <1>3, SMTT(30) DEF SyKinds
<1>5. ASSUME NEW s \in SySlotSet PROVE SyCells(s) /\ SyBehind(s)
  <2>1. \A f \in SyPlaces : sySlot[f][s].seq = 0 /\ sySlot[f][s].val = 0
    BY <1>1, Zenon
  <2>2. syWrites[s] = 0 /\ syLast[s] = 0 /\ syChan[s] = 0
    BY <1>1, Zenon
  <2> QED
    BY <1>2, <2>1, <2>2, SMTT(30) DEF SyCells, SyBehind
<1> QED
  BY <1>2, <1>4, <1>5, Zenon DEF SyInv

\* A slot whose sequence number the mirror takes for published has its value in
\* Redis, for any number of slots, writes, layouts and routes, and any limits of the
\* pipeline and of the retries.
THEOREM NotedIsPublished == SySpec => [](\A s \in SySlotSet : SyPublished(s))
<1>1. SyInv => \A s \in SySlotSet : SyPublished(s)
  <2> SUFFICES ASSUME SyInv, NEW s \in SySlotSet,
                      syTask.file = syFile, sySlot[syFile][s].val # 0, sySlot[syFile][s].seq = syLast[s]
               PROVE  syChan[s] = sySlot[syFile][s].val
    BY Zenon DEF SyPublished
  <2>1. SyBehind(s) /\ syFile \in SyPlaces
    BY Zenon DEF SyInv, SyKinds
  <2>2. syFile # 0
    BY <2>1, SMTT(30) DEF SyPlaces
  <2> QED
    BY <2>1, <2>2, Zenon DEF SyBehind
<1>2. SyInv /\ [SyNext]_syVars => SyInv'
  BY SyStep, Zenon
<1> QED
  BY <1>1, <1>2, SyStart, PTL DEF SySpec

\* Redis never goes back to an older value of a point: a push that failed and is tried
\* again, and a layout that was replaced meanwhile, bring no older one.
THEOREM MirrorNeverRollsBack == SySpec => SyNoRollback
<1>1. SyInv /\ [SyNext]_syVars => SyInv' /\ [\A s \in SySlotSet : syChan'[s] >= syChan[s]]_syVars
  BY SyStep, Zenon
<1> QED
  BY <1>1, SyStart, PTL DEF SySpec, SyNoRollback

\* The mirror in Redis is faithful to the slots, for any number of slots, writes,
\* layouts and routes.
THEOREM MirrorFaithful == SySpec => SyFaithful
BY NotedIsPublished, MirrorNeverRollsBack, PTL DEF SyFaithful

-----------------------------------------------------------------------------
(* comsrv: the task of a channel *)

\* While the task waits for a backoff or for connect(), the helper is in state
\* Reconnecting: nothing else of the task runs meanwhile.
InAttempt == pc \in {"backoff", "connecting"} => state = "reconnecting"

\* Every finished round has used max_attempts attempts at most, and the current
\* one current_attempt.
RoundsPaid ==
    MaxAttempts > 0 =>
        /\ attempt <= MaxAttempts
        /\ tries <= MaxAttempts * rounds + attempt

\* A removal is done only when the task has ended.
RemovedEnded == remove = "done" => ~Alive

IInv == TypeOK /\ InAttempt /\ FailedFlagTrue /\ RoundsPaid /\ RemovedEnded

USE CommandsAssumption, QueueCapAssumption, PolicyAssumption, EnvAssumption,
    AttemptCapAssumption, MaxSendsAssumption

-----------------------------------------------------------------------------
\* Cap() stays within its bound.
LEMMA CapType ==
    ASSUME NEW n \in Nat, NEW b \in Nat
    PROVE  Cap(n, b) \in 0 .. b /\ Cap(n, b) <= n
BY DEF Cap

\* The attempt budget of an outage is a number.
LEMMA BudgetType == Budget \in Nat
BY DEF Budget

\* A round more pays for max_attempts attempts more.
LEMMA RoundCost ==
    ASSUME NEW r \in Nat
    PROVE  MaxAttempts * (r + 1) = MaxAttempts * r + MaxAttempts
OBVIOUS

\* The three parts of the state: what the helper, the publications and the task
\* itself keep.
HelperOK ==
    /\ state \in {"connected", "disconnected", "reconnecting", "failed"}
    /\ attempt \in 0 .. AttemptCap /\ total \in 0 .. 2
    /\ rounds \in 0 .. MaxRounds
    /\ cooldown \in {"unset", "running", "elapsed"}
    /\ tries \in 0 .. Budget + 1

StatusOK ==
    /\ cached \in BOOLEAN /\ lost \in BOOLEAN
    /\ prev \in {"none", "on", "off"} /\ online \in {"none", "on", "off"}

TaskOK ==
    /\ pc \in {"start", "run", "backoff", "connecting", "stopped", "aborted"}
    /\ link \in BOOLEAN /\ business \in BOOLEAN /\ failed \in BOOLEAN
    /\ zero \in 0 .. ZeroThreshold
    /\ remove \in {"no", "asked", "done"}
    /\ sent \in 0 .. MaxSends

QueueOK == queue \in Seq(Commands \cup {"shutdown"}) /\ Len(queue) <= QueueCap

\* The parts together are the type invariant.
LEMMA TypeParts ==
    /\ TypeOK <=> HelperOK /\ StatusOK /\ TaskOK /\ QueueOK
    /\ TypeOK' <=> HelperOK' /\ StatusOK' /\ TaskOK' /\ QueueOK'
BY Zenon DEF TypeOK, HelperOK, StatusOK, TaskOK, QueueOK

\* Every operation of the ReconnectHelper keeps its state well typed.
LEMMA HelperOps ==
    ASSUME HelperOK,
           \/ MarkConnected \/ AllowAttempt \/ RecordFailure
           \/ (RecoveryDue /\ AutoRecover) \/ CooldownElapses \/ UNCHANGED helperVars
    PROVE  HelperOK'
<1> DEFINE B == Budget
<1>b. B \in Nat
  BY BudgetType, Zenon
<1>u. /\ HelperOK <=>
           /\ state \in {"connected", "disconnected", "reconnecting", "failed"}
           /\ attempt \in 0 .. AttemptCap /\ total \in 0 .. 2 /\ rounds \in 0 .. MaxRounds
           /\ cooldown \in {"unset", "running", "elapsed"} /\ tries \in 0 .. B + 1
      /\ HelperOK' <=>
           /\ state' \in {"connected", "disconnected", "reconnecting", "failed"}
           /\ attempt' \in 0 .. AttemptCap /\ total' \in 0 .. 2 /\ rounds' \in 0 .. MaxRounds
           /\ cooldown' \in {"unset", "running", "elapsed"} /\ tries' \in 0 .. B + 1
  BY Zenon DEF HelperOK
<1> HIDE DEF B
<1>1. CASE MarkConnected
  BY <1>1, <1>u, <1>b DEF MarkConnected
<1>2. CASE RecordFailure
  BY <1>2, <1>u, Zenon DEF RecordFailure, StartCooldown
<1>3. CASE AllowAttempt
  <2>1. /\ Cap(attempt + 1, AttemptCap) \in 0 .. AttemptCap
        /\ Cap(total + 1, 2) \in 0 .. 2
        /\ Cap(tries + 1, B + 1) \in 0 .. B + 1
    BY <1>b, <1>u DEF Cap
  <2>2. /\ attempt' = Cap(attempt + 1, AttemptCap) /\ total' = Cap(total + 1, 2)
        /\ tries' = Cap(tries + 1, B + 1)
        /\ state' = "reconnecting" /\ rounds' = rounds /\ cooldown' = cooldown
    BY <1>3, Zenon DEF AllowAttempt, B
  <2> QED
    BY <2>1, <2>2, <1>u, Zenon
<1>4. CASE RecoveryDue /\ AutoRecover
  BY <1>4, <1>u DEF RecoveryDue, AutoRecover
<1>5. CASE CooldownElapses
  BY <1>5, <1>u, Zenon DEF CooldownElapses
<1>6. CASE UNCHANGED helperVars
  BY <1>6, <1>u, Zenon DEF helperVars
<1> QED
  BY <1>1, <1>2, <1>3, <1>4, <1>5, <1>6, Zenon

\* Publishing keeps the publications well typed.
LEMMA PublishOps ==
    ASSUME StatusOK, NEW up \in BOOLEAN, Publish(up)
    PROVE  StatusOK'
<1>1. cached' \in BOOLEAN /\ lost' \in BOOLEAN
  BY Zenon DEF Publish, WriteOnline, StatusOK
<1>2. Status(up) \in {"none", "on", "off"}
  BY Zenon DEF Status
<1>3. prev' \in {"none", "on", "off"} /\ online' \in {"none", "on", "off"}
  <2>1. CASE prev # Status(up)
    BY <1>2, <2>1, Zenon DEF Publish, StatusOK, WriteOnline
  <2>2. CASE prev = Status(up)
    BY <2>2, Zenon DEF Publish, StatusOK
  <2> QED
    BY <2>1, <2>2, Zenon
<1> QED
  BY <1>1, <1>3, Zenon DEF StatusOK

\* Taking the head of the command queue keeps it well typed.
LEMMA TailOK ==
    ASSUME QueueOK, queue # <<>>, queue' = Tail(queue)
    PROVE  QueueOK'
BY SMTT(30) DEF QueueOK

\* Every step keeps the type invariant.
LEMMA TypeStep == TypeOK /\ [Next]_vars => TypeOK'
<1> SUFFICES ASSUME HelperOK, StatusOK, TaskOK, QueueOK, [Next]_vars
             PROVE  HelperOK' /\ StatusOK' /\ TaskOK' /\ QueueOK'
  BY TypeParts, Zenon
<1>l. link \in BOOLEAN /\ failed \in BOOLEAN /\ TRUE \in BOOLEAN /\ FALSE \in BOOLEAN
  BY Zenon DEF TaskOK
<1>q. ASSUME UNCHANGED queue PROVE QueueOK'
  BY <1>q, Zenon DEF QueueOK
<1>s. ASSUME UNCHANGED statusVars PROVE StatusOK'
  BY <1>s, Zenon DEF StatusOK, statusVars
<1>h. ASSUME UNCHANGED helperVars PROVE HelperOK'
  BY <1>h, HelperOps, Zenon
<1>n. ASSUME NoteConnected PROVE HelperOK' /\ failed' \in BOOLEAN
  BY <1>n, <1>l, HelperOps, Zenon DEF NoteConnected
<1>z. 0 \in 0 .. ZeroThreshold
  OBVIOUS
<1>1. CASE PollData
  BY <1>1, <1>z, <1>l, <1>q, <1>n, PublishOps, Zenon DEF PollData, TaskOK
<1>2. CASE PollEmpty
  <2>1. zero' \in 0 .. ZeroThreshold
    BY <1>2 DEF PollEmpty, TaskOK
  <2> QED
    BY <1>2, <2>1, <1>l, <1>q, <1>n, PublishOps, Zenon DEF PollEmpty, TaskOK
<1>3. CASE PollZombie
  BY <1>3, <1>z, <1>l, <1>q, <1>n, PublishOps, Zenon DEF PollZombie, TaskOK
<1>4. CASE TickRecover
  BY <1>4, <1>l, <1>q, HelperOps, PublishOps, Zenon DEF TickRecover, TaskOK
<1>5. CASE TickFailed
  BY <1>5, <1>l, <1>q, <1>h, PublishOps, Zenon DEF TickFailed, TaskOK
<1>7. CASE TickAttempt
  <2>1. pc' \in {"backoff", "connecting"}
    BY <1>7, Zenon DEF TickAttempt
  <2> QED
    BY <1>7, <2>1, <1>q, <1>s, HelperOps, Zenon DEF TickAttempt, TaskOK
<1>8. CASE Start
  BY <1>8, <1>l, <1>q, <1>h, PublishOps, Zenon DEF Start, TaskOK
<1>9. CASE BackoffOver
  BY <1>9, <1>q, <1>h, <1>s, Zenon DEF BackoffOver, TaskOK
<1>10. CASE ConnectOk
  BY <1>10, <1>l, <1>q, HelperOps, PublishOps, Zenon DEF ConnectOk, TaskOK
<1>11. CASE ConnectFail
  BY <1>11, <1>l, <1>q, HelperOps, PublishOps, Zenon DEF ConnectFail, TaskOK
<1>12. CASE RunShutdown
  <2>1. StatusOK'
    BY <1>12, Zenon DEF RunShutdown, Exit, WriteOnline, StatusOK
  <2> QED
    BY <1>12, <2>1, <1>l, <1>h, TailOK, Zenon DEF RunShutdown, Exit, TaskOK
<1>13. CASE BackoffShutdown
  <2>1. StatusOK'
    BY <1>13, Zenon DEF BackoffShutdown, Exit, WriteOnline, StatusOK, Status
  <2> QED
    BY <1>13, <2>1, <1>l, <1>h, TailOK, Zenon DEF BackoffShutdown, Exit, TaskOK
<1>a. \A c : LinkAfter(c) \subseteq BOOLEAN
  BY <1>l, Zenon DEF LinkAfter
<1>14. CASE RunCommand
  <2>1. link' \in BOOLEAN
    BY <1>14, <1>a, Zenon DEF RunCommand
  <2> QED
    BY <1>14, <2>1, <1>h, <1>s, TailOK, Zenon DEF RunCommand, TaskOK
<1>15. CASE BackoffCommand
  <2>1. link' \in BOOLEAN
    BY <1>15, <1>a, Zenon DEF BackoffCommand
  <2>2. HelperOK'
    BY <1>15, <1>h, HelperOps, Zenon DEF BackoffCommand
  <2>3. StatusOK'
    BY <1>15, <2>1, PublishOps, Zenon DEF BackoffCommand
  <2> QED
    BY <1>15, <2>1, <2>2, <2>3, TailOK, Zenon DEF BackoffCommand, TaskOK
<1>16. CASE RunBusiness
  BY <1>16, <1>l, <1>q, <1>h, <1>s, Zenon DEF RunBusiness, TaskOK
<1>17. CASE LinkLost
  BY <1>17, <1>l, <1>q, <1>h, <1>s, Zenon DEF LinkLost, TaskOK
<1>18. CASE LinkRestored
  BY <1>18, <1>l, <1>q, <1>h, <1>s, Zenon DEF LinkRestored, TaskOK
<1>19. CASE SendBusiness
  <2>1. sent' \in 0 .. MaxSends
    BY <1>19 DEF SendBusiness, TaskOK
  <2> QED
    BY <1>19, <2>1, <1>l, <1>q, <1>h, <1>s, Zenon DEF SendBusiness, TaskOK
<1>20. CASE CooldownElapses
  BY <1>20, <1>q, <1>s, HelperOps, Zenon DEF CooldownElapses, TaskOK
<1>21. CASE \E c \in Commands : Send(c)
  <2> PICK c \in Commands : Send(c)
    BY <1>21, Zenon
  <2>1. sent' \in 0 .. MaxSends
    BY DEF Send, TaskOK
  <2>2. QueueOK'
    BY DEF Send, QueueOK
  <2> QED
    BY <2>1, <2>2, <1>h, <1>s, Zenon DEF Send, TaskOK
<1>22. CASE RemoveRequest
  <2>1. QueueOK'
    BY <1>22 DEF RemoveRequest, QueueOK
  <2> QED
    BY <1>22, <2>1, <1>h, <1>s, Zenon DEF RemoveRequest, TaskOK
<1>23. CASE Abort
  BY <1>23, <1>l, <1>q, <1>h, <1>s, Zenon DEF Abort, TaskOK
<1>24. CASE Cleanup
  <2>1. StatusOK'
    BY <1>24, Zenon DEF Cleanup, WriteOnline, StatusOK
  <2> QED
    BY <1>24, <2>1, <1>q, <1>h, Zenon DEF Cleanup, TaskOK
<1>25. CASE UNCHANGED vars
  BY <1>25, <1>q, <1>h, <1>s, Zenon DEF vars, TaskOK
<1> QED
  BY <1>1, <1>2, <1>3, <1>4, <1>5, <1>7, <1>8, <1>9, <1>10, <1>11, <1>12, <1>13,
     <1>14, <1>15, <1>16, <1>17, <1>18, <1>19, <1>20, <1>21, <1>22, <1>23, <1>24, <1>25, Zenon
     DEF Next, Tick, Serve, Environment, Removal

\* The initial state is well typed.
LEMMA InitType == Init => TypeOK
<1> SUFFICES ASSUME Init PROVE HelperOK /\ StatusOK /\ TaskOK /\ QueueOK
  BY TypeParts, Zenon
<1>1. HelperOK
  <2> DEFINE B == Budget
  <2>1. B \in Nat
    BY BudgetType, Zenon
  <2> HIDE DEF B
  <2>2. 0 \in 0 .. B + 1 /\ 0 \in 0 .. AttemptCap /\ 0 \in 0 .. 2 /\ 0 \in 0 .. MaxRounds
    BY <2>1
  <2> QED
    BY <2>2, Zenon DEF B, HelperOK, Init
<1>2. StatusOK
  BY Zenon DEF StatusOK, Init
<1>3. TaskOK
  <2>1. 0 \in 0 .. ZeroThreshold /\ 0 \in 0 .. MaxSends
    OBVIOUS
  <2> QED
    BY <2>1, Zenon DEF TaskOK, Init
<1>4. QueueOK
  BY DEF QueueOK, Init
<1> QED
  BY <1>1, <1>2, <1>3, <1>4, Zenon

\* Type correctness: counters stay within the policy's limits and the command
\* queue within its capacity, for every policy and capacity.
THEOREM TypeCorrect == Spec => []TypeOK
BY InitType, TypeStep, PTL DEF Spec

-----------------------------------------------------------------------------
\* Every step keeps the helper in Reconnecting while an attempt is under way, and
\* the failed flag tied to the helper's state.
LEMMA FlagStep == IInv /\ [Next]_vars => InAttempt' /\ FailedFlagTrue'
<1> SUFFICES ASSUME IInv, [Next]_vars PROVE InAttempt' /\ FailedFlagTrue'
  BY Zenon
<1> USE DEF IInv, InAttempt, FailedFlagTrue, helperVars
<1>f. failed \in BOOLEAN
  BY Zenon DEF TypeOK
<1>1. CASE PollData \/ PollEmpty \/ PollZombie
  BY <1>1, Zenon DEF PollData, PollEmpty, PollZombie, Ticking, NoteConnected, MarkConnected
<1>2. CASE TickRecover \/ TickFailed
  BY <1>2, Zenon DEF TickRecover, TickFailed, Ticking, AutoRecover
<1>3. CASE TickAttempt
  <2>1. ~failed /\ failed' = failed /\ state' = "reconnecting"
    BY <1>3, Zenon DEF TickAttempt, AllowAttempt
  <2> QED
    BY <2>1, Zenon
<1>4. CASE Start \/ BackoffOver \/ ConnectOk
  <2>1. CASE Start
    BY <2>1, Zenon DEF Start
  <2>2. CASE BackoffOver
    BY <2>2, Zenon DEF BackoffOver
  <2>3. CASE ConnectOk
    BY <2>3, Zenon DEF ConnectOk
  <2> QED
    BY <1>4, <2>1, <2>2, <2>3, Zenon
<1>5. CASE ConnectFail
  <2>1. ~failed /\ failed' = failed /\ pc' = "run"
    BY <1>5, Zenon DEF ConnectFail
  <2> QED
    BY <2>1, Zenon
<1>6. CASE RunShutdown \/ BackoffShutdown \/ RunCommand
  BY <1>6 DEF RunShutdown, BackoffShutdown, Exit, RunCommand
<1>7. CASE BackoffCommand
  <2>1. ~failed /\ failed' = failed /\ pc' = "run"
    BY <1>7, Zenon DEF BackoffCommand
  <2> QED
    BY <2>1, Zenon
<1>8. CASE Environment \/ RunBusiness \/ Removal
  BY <1>8 DEF Environment, RunBusiness, LinkLost, LinkRestored, SendBusiness, CooldownElapses, Send,
     Removal, RemoveRequest, Abort, Cleanup
<1>9. CASE UNCHANGED vars
  BY <1>9, Zenon DEF vars
<1> QED
  BY <1>1, <1>2, <1>3, <1>4, <1>5, <1>6, <1>7, <1>8, <1>9, Zenon DEF Next, Tick, Serve

\* Every step keeps the account of attempts per round.
LEMMA RoundsStep == IInv /\ [Next]_vars => RoundsPaid'
<1> SUFFICES ASSUME IInv, [Next]_vars, MaxAttempts > 0
             PROVE  attempt' <= MaxAttempts /\ tries' <= MaxAttempts * rounds' + attempt'
  BY Zenon DEF RoundsPaid
<1>t. attempt \in Nat /\ tries \in Nat /\ rounds \in Nat /\ MaxAttempts \in Nat
  BY BudgetType DEF IInv, TypeOK
<1>i. attempt <= MaxAttempts /\ tries <= MaxAttempts * rounds + attempt
  BY Zenon DEF IInv, RoundsPaid
<1>1. CASE UNCHANGED <<attempt, tries, rounds>>
  BY <1>1, <1>i, Zenon
<1>2. CASE MarkConnected
  BY <1>2, <1>t DEF MarkConnected
<1>3. CASE AllowAttempt
  <2> DEFINE B == Budget + 1
  <2>1. attempt' = Cap(attempt + 1, AttemptCap) /\ tries' = Cap(tries + 1, B) /\ rounds' = rounds
    BY <1>3, Zenon DEF AllowAttempt
  <2>2. B \in Nat /\ attempt + 1 <= MaxAttempts
    BY <1>3, <1>t, BudgetType DEF AllowAttempt, Exhausted
  <2> HIDE DEF B
  <2>3. attempt' = attempt + 1
    BY <2>1, <2>2, <1>t, SMTT(30) DEF Cap
  <2>4. tries' \in Nat /\ tries' <= tries + 1
    BY <2>1, <2>2, <1>t, SMTT(30) DEF Cap
  <2> DEFINE R == MaxAttempts * rounds
  <2>5. R \in Nat /\ tries <= R + attempt /\ MaxAttempts * rounds' = R
    BY <1>t, <1>i, <2>1
  <2> HIDE DEF R
  <2> QED
    BY <2>2, <2>3, <2>4, <2>5, <1>t
<1>4. CASE AutoRecover
  <2>1. attempt' = 0 /\ tries' = tries /\ rounds' = rounds + 1
    BY <1>4, Zenon DEF AutoRecover
  <2>2. MaxAttempts * rounds' = MaxAttempts * rounds + MaxAttempts
    BY <2>1, <1>t, RoundCost, Zenon
  <2> DEFINE R == MaxAttempts * rounds
  <2>3. R \in Nat /\ tries <= R + attempt /\ MaxAttempts * rounds' = R + MaxAttempts
    BY <1>t, <1>i, <2>2
  <2> HIDE DEF R
  <2> QED
    BY <2>1, <2>3, <1>t, <1>i
<1>5. \/ MarkConnected \/ AllowAttempt \/ AutoRecover \/ UNCHANGED <<attempt, tries, rounds>>
  <2> USE DEF helperVars
  <2>1. CASE Tick
    BY <2>1, Zenon DEF Tick, PollData, PollEmpty, PollZombie, NoteConnected, TickRecover, TickFailed,
       TickAttempt
  <2>2. CASE Serve
    BY <2>2, Zenon DEF Serve, Start, BackoffOver, ConnectOk, ConnectFail, RecordFailure, RunShutdown, BackoffShutdown,
       RunCommand, BackoffCommand, RunBusiness
  <2>3. CASE Environment \/ Removal
    BY <2>3, Zenon DEF Environment, LinkLost, LinkRestored, SendBusiness, CooldownElapses, Send, Removal,
       RemoveRequest, Abort, Cleanup
  <2>4. CASE UNCHANGED vars
    BY <2>4, Zenon DEF vars
  <2> QED
    BY <2>1, <2>2, <2>3, <2>4, Zenon DEF Next
<1> QED
  BY <1>1, <1>2, <1>3, <1>4, <1>5, Zenon

\* A task that has ended does nothing more: no step of Tick or Serve is possible.
LEMMA EndedIsEnded == Tick \/ Serve => Alive
BY Zenon DEF Tick, PollData, PollEmpty, PollZombie, TickRecover, TickFailed, TickAttempt, Ticking,
   Serve, Start, BackoffOver, ConnectOk, ConnectFail, RunShutdown, BackoffShutdown, RunCommand, BackoffCommand,
   RunBusiness, Alive

\* Every step keeps a removed channel's task ended.
LEMMA RemovedStep == IInv /\ [Next]_vars => RemovedEnded'
<1> SUFFICES ASSUME IInv, [Next]_vars, remove' = "done" PROVE ~Alive'
  BY Zenon DEF RemovedEnded
<1>1. CASE Tick \/ Serve
  <2>1. remove' = remove
    BY <1>1, Zenon DEF Tick, PollData, PollEmpty, PollZombie, TickRecover, TickFailed, TickAttempt,
       Serve, Start, BackoffOver, ConnectOk, ConnectFail, RunShutdown, BackoffShutdown, RunCommand, BackoffCommand,
       RunBusiness
  <2> QED
    BY <1>1, <2>1, EndedIsEnded, Zenon DEF IInv, RemovedEnded
<1>2. CASE Environment
  BY <1>2, Zenon DEF Environment, LinkLost, LinkRestored, SendBusiness, CooldownElapses, Send, IInv, RemovedEnded, Alive
<1>3. CASE Removal
  BY <1>3, Zenon DEF Removal, RemoveRequest, Abort, Cleanup, Alive
<1>4. CASE UNCHANGED vars
  BY <1>4, Zenon DEF vars, IInv, RemovedEnded, Alive
<1> QED
  BY <1>1, <1>2, <1>3, <1>4, Zenon DEF Next

\* The invariant is inductive.
THEOREM Inductive == Spec => []IInv
<1>1. Init => IInv
  <2> SUFFICES ASSUME Init PROVE InAttempt /\ FailedFlagTrue /\ RoundsPaid /\ RemovedEnded
    BY InitType, Zenon DEF IInv
  <2> QED
    BY DEF Init, IInv, InAttempt, FailedFlagTrue, RoundsPaid, RemovedEnded
<1>2. IInv /\ [Next]_vars => IInv'
  <2>1. IInv /\ [Next]_vars => TypeOK'
    BY TypeStep, Zenon DEF IInv
  <2> QED
    BY <2>1, FlagStep, RoundsStep, RemovedStep, Zenon DEF IInv
<1> QED
  BY <1>1, <1>2, PTL DEF Spec

\* reconnect_failed is raised only while the helper is in state Failed, whatever
\* mixture of recoveries, commands and reconnections happened before.
THEOREM FlagTruthful == Spec => []FailedFlagTrue
<1>1. IInv => FailedFlagTrue
  BY Zenon DEF IInv
<1> QED
  BY <1>1, Inductive, PTL

\* An outage takes at most max_attempts * (1 + max_recovery_rounds) attempts, for
\* every limit and every number of rounds.
THEOREM BudgetKept == Spec => []AttemptsBounded
<1>1. IInv => AttemptsBounded
  <2> SUFFICES ASSUME IInv, MaxAttempts > 0 PROVE tries <= Budget
    BY Zenon DEF AttemptsBounded
  <2>1. attempt \in Nat /\ tries \in Nat /\ rounds \in Nat /\ rounds <= MaxRounds
    BY BudgetType DEF IInv, TypeOK
  <2>2. attempt <= MaxAttempts /\ tries <= MaxAttempts * rounds + attempt
    BY Zenon DEF IInv, RoundsPaid
  <2>3. PICK d \in Nat : MaxRounds = rounds + d
    <3>1. MaxRounds - rounds \in Nat /\ MaxRounds = rounds + (MaxRounds - rounds)
      BY <2>1
    <3> QED
      BY <3>1, Zenon
  <2>4. MaxAttempts * MaxRounds = MaxAttempts * rounds + MaxAttempts * d /\ MaxAttempts * d \in Nat
    BY <2>1, <2>3
  <2>5. Budget = MaxAttempts * MaxRounds + MaxAttempts
    BY RoundCost, Zenon DEF Budget
  <2> DEFINE R == MaxAttempts * rounds
             D == MaxAttempts * d
  <2>6. R \in Nat /\ D \in Nat /\ tries <= R + attempt /\ Budget = R + D + MaxAttempts
    BY <2>1, <2>2, <2>4, <2>5
  <2> HIDE DEF R, D, Budget
  <2> QED
    BY <2>1, <2>2, <2>6
<1> QED
  BY <1>1, Inductive, PTL

\* A removed channel has no online entry, unless a write to Redis failed: the task
\* publishes for the last time before the cleanup deletes the entry.
THEOREM NoGhost == Spec => []NoGhostOnline
<1>1. Init => NoGhostOnline
  BY Zenon DEF Init, NoGhostOnline
<1>2. IInv /\ NoGhostOnline /\ [Next]_vars => NoGhostOnline'
  <2> SUFFICES ASSUME IInv, NoGhostOnline, [Next]_vars, remove' = "done", ~lost'
               PROVE  online' = "none"
    BY Zenon DEF NoGhostOnline
  <2>1. CASE Tick \/ Serve
    <3>1. remove' = remove
      BY <2>1, Zenon DEF Tick, PollData, PollEmpty, PollZombie, TickRecover, TickFailed, TickAttempt,
         Serve, Start, BackoffOver, ConnectOk, ConnectFail, RunShutdown, BackoffShutdown, RunCommand, BackoffCommand,
         RunBusiness
    <3> QED
      BY <2>1, <3>1, EndedIsEnded, Zenon DEF IInv, RemovedEnded
  <2>2. CASE Environment
    BY <2>2, Zenon DEF Environment, LinkLost, LinkRestored, SendBusiness, CooldownElapses, Send, NoGhostOnline, statusVars
  <2>3. CASE Removal
    BY <2>3, Zenon DEF Removal, RemoveRequest, Abort, Cleanup, WriteOnline, NoGhostOnline
  <2>4. CASE UNCHANGED vars
    BY <2>4, Zenon DEF vars, NoGhostOnline, statusVars
  <2> QED
    BY <2>1, <2>2, <2>3, <2>4, Zenon DEF Next
<1> QED
  BY <1>1, <1>2, Inductive, PTL DEF Spec

=============================================================================
