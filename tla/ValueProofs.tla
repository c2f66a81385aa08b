---------------------------- MODULE ValueProofs -----------------------------
(***************************************************************************)
(* A value is read in one piece, and what it sets off is accounted for.    *)
(* For any number of readers, any even range of seq and any number of      *)
(* retries, the seqlock of a slot gives its readers whole values, in       *)
(* order, when one thread writes. For any number of rules, calls and       *)
(* alerts, the alarm monitor has one active alert per rule, and every      *)
(* alert is active or on record.                                           *)
(***************************************************************************)
EXTENDS PointSlot, AlarmMonitor, FiniteSetTheorems, TLAPS

-----------------------------------------------------------------------------
(* The seqlock of a slot; first, facts about counters that wrap, such as its seq *)

\* Division with remainder.
LEMMA DivMod ==
    ASSUME NEW M \in Nat \ {0}, NEW x \in Nat
    PROVE  /\ x = M * (x \div M) + (x % M)
           /\ x % M \in 0 .. M - 1
           /\ x \div M \in Nat
  OBVIOUS

\* The remainder is the only one.
LEMMA ModUnique ==
    ASSUME NEW M \in Nat \ {0}, NEW q \in Nat, NEW s \in 0 .. M - 1
    PROVE  (M * q + s) % M = s
  OBVIOUS

\* A positive multiple of M is at least M.
LEMMA MultAtLeast ==
    ASSUME NEW M \in Nat \ {0}, NEW q \in Int, q >= 1
    PROVE  M * q >= M
  OBVIOUS

\* Two counts less than M apart with the same remainder are the same count:
\* a wrapping counter that has advanced by less than its range has changed.
LEMMA ModInjective ==
    ASSUME NEW M \in Nat \ {0}, NEW a \in Nat, NEW b \in Nat,
           b <= a, a - b < M, a % M = b % M
    PROVE  a = b
  <1> DEFINE p == a \div M
             q == b \div M
  <1>a. a = M * p + (a % M) /\ p \in Nat /\ a % M \in 0 .. M - 1
    BY DivMod, Zenon
  <1>b. b = M * q + (b % M) /\ q \in Nat
    BY DivMod, Zenon
  <1> HIDE DEF p, q
  <1>1. a = M * p + (a % M) /\ b = M * q + (b % M) /\ p \in Nat /\ q \in Nat
        /\ a % M \in Int
    BY <1>a, <1>b
  <1>2. a - b = M * p - M * q
    BY <1>1
  <1>3. M * p - M * q = M * (p - q)
    BY <1>1
  <1>4. ~(p - q >= 1)
    <2>1. SUFFICES ASSUME p - q >= 1 PROVE FALSE
      BY Zenon
    <2>2. M * (p - q) >= M
      BY <1>1, <2>1, MultAtLeast
    <2>3. QED BY <1>1, <1>2, <1>3, <2>2
  <1>5. ~(q - p >= 1)
    <2>1. SUFFICES ASSUME q - p >= 1 PROVE FALSE
      BY Zenon
    <2>2. M * (q - p) >= M
      BY <1>1, <2>1, MultAtLeast
    <2>3. M * (q - p) = M * q - M * p
      BY <1>1
    <2>4. QED BY <1>1, <1>2, <2>2, <2>3
  <1>6. p = q
    BY <1>1, <1>4, <1>5
  <1>7. QED BY <1>1, <1>6, Zenon

\* Adding one before or after taking the remainder is the same: what
\* fetch_add(1) does to a counter that wraps.
LEMMA ModSucc ==
    ASSUME NEW M \in Nat \ {0}, NEW x \in Nat
    PROVE  ((x % M) + 1) % M = (x + 1) % M
  <1> DEFINE q == x \div M
             s == x % M
  <1>1. x = M * q + s /\ s \in 0 .. M - 1 /\ q \in Nat
    BY DivMod, Zenon
  <1> HIDE DEF q, s
  <1>2. CASE s + 1 < M
    <2>1. (M * q + (s + 1)) % M = s + 1
      BY <1>1, <1>2, ModUnique
    <2>2. (M * 0 + (s + 1)) % M = s + 1
      BY <1>1, <1>2, ModUnique
    <2>3. M * 0 + (s + 1) = s + 1 /\ M * q + (s + 1) = x + 1
      BY <1>1
    <2>4. QED BY <2>1, <2>2, <2>3, Zenon DEF s
  <1>3. CASE s + 1 = M
    <2>1. (M * (q + 1) + 0) % M = 0
      BY <1>1, ModUnique
    <2>2. (M * 1 + 0) % M = 0
      BY <1>1, ModUnique
    <2>3. M * (q + 1) + 0 = x + 1 /\ M * 1 + 0 = s + 1
      BY <1>1, <1>3
    <2>4. QED BY <2>1, <2>2, <2>3, Zenon DEF s
  <1>4. QED BY <1>1, <1>2, <1>3

\* An even range keeps the parity of the count: the low bit of seq tells
\* whether a write is in progress, wrapped or not.
LEMMA ModParity ==
    ASSUME NEW M \in Nat \ {0}, NEW x \in Nat, M % 2 = 0
    PROVE  (x % M) % 2 = x % 2
  <1> DEFINE q == x \div M
             s == x % M
             k == M \div 2
  <1>1. x = M * q + s /\ s \in 0 .. M - 1 /\ q \in Nat
    BY DivMod, Zenon
  <1>2. M = 2 * k /\ k \in Nat
    OBVIOUS
  <1> HIDE DEF q, s, k
  <1>3. M * q = 2 * (k * q) /\ k * q \in Nat
    BY <1>1, <1>2
  <1> DEFINE n == k * q
  <1>4. x = 2 * n + s /\ n \in Nat
    BY <1>1, <1>3, Zenon
  <1> HIDE DEF n
  <1>5. x % 2 = s % 2
    BY <1>1, <1>4
  <1>6. QED BY <1>5, Zenon DEF s

-----------------------------------------------------------------------------
\* No set() is between its two fetch_adds.
Idle == \A w \in Writers : wpc[w] # "store"

\* A slot at rest holds the triple of the last set().
AtRest == Idle => started = completed /\ \A f \in Fields : word[f] = completed

\* A set() under way is the next one, and has replaced the words it no longer
\* has to store.
Storing ==
    \A w \in Writers : wpc[w] = "store" =>
        /\ wid[w] = started
        /\ started = completed + 1
        /\ \A f \in Fields : word[f] = IF f \in wtodo[w] THEN completed ELSE started

\* seq counts two for every set() and one for the set() under way.
SeqCounts == seq = (2 * completed + (IF Idle THEN 0 ELSE 1)) % SeqMod

\* No read began after the set() calls completed so far.
Begun == \A r \in Readers : rbegin[r] <= completed

\* A reader between its two loads of seq: if no set() has begun since the first,
\* the words it has loaded are those of the last set().
Reading ==
    \A r \in Readers : rpc[r] = "data" =>
        /\ started - rbegin[r] < SeqMod \div 2
        /\ rseq[r] = (2 * rbegin[r]) % SeqMod
        /\ (Idle /\ completed = rbegin[r]) =>
               \A f \in Fields \ rtodo[r] : rword[r][f] = rbegin[r]

\* The inductive invariant.
IInv == TypeOK /\ AtRest /\ Storing /\ SeqCounts /\ Begun /\ Reading /\ NoTornRead

-----------------------------------------------------------------------------
USE DEF Fields

\* A failed attempt keeps the reader's variables in their types, and the count
\* of attempts below the limit while the call goes on.
LEMMA RetryType ==
    ASSUME TypeOK, NEW r \in Readers, rpc[r] # "idle", Retry(r)
    PROVE  /\ rpc' \in [Readers -> {"idle", "seq1", "data"}]
           /\ rtry' \in [Readers -> 0 .. MaxRetries]
           /\ result' \in [Readers -> [Fields -> Nat] \cup {None}]
           /\ \A q \in Readers : rpc'[q] # "idle" => rtry'[q] < MaxRetries
  <1> USE RetriesAssumption
  <1>1. rtry[r] \in Nat /\ rtry[r] < MaxRetries /\ MaxRetries \in Nat
    BY DEF TypeOK
  <1>2. rtry' = [rtry EXCEPT ![r] = rtry[r] + 1]
    BY Zenon DEF Retry
  <1>3. rtry' \in [Readers -> 0 .. MaxRetries]
    BY <1>1, <1>2 DEF TypeOK
  <1>4. CASE rtry[r] + 1 < MaxRetries
    <2>1. rpc' = [rpc EXCEPT ![r] = "seq1"] /\ result' = result
      BY <1>4, Zenon DEF Retry
    <2>2. QED BY <1>1, <1>2, <1>3, <1>4, <2>1, Zenon DEF TypeOK
  <1>5. CASE ~(rtry[r] + 1 < MaxRetries)
    <2>1. rpc' = [rpc EXCEPT ![r] = "idle"] /\ result' = [result EXCEPT ![r] = None]
      BY <1>5, Zenon DEF Retry
    <2>2. QED BY <1>1, <1>2, <1>3, <2>1, Zenon DEF TypeOK
  <1>6. QED BY <1>4, <1>5, Zenon

\* The type invariant is inductive by itself, however many threads write.
LEMMA TypeStep == TypeOK /\ [Next]_vars => TypeOK'
  <1> SUFFICES ASSUME TypeOK, [Next]_vars PROVE TypeOK'
    BY Zenon
  <1> USE SeqModAssumption, RetriesAssumption, MaxSetsAssumption
  <1>1. CASE UNCHANGED vars
    BY <1>1, Zenon DEF TypeOK, vars, slotVars, writerVars, readerVars
  <1>2. ASSUME NEW w \in Writers, WriterStep(w) PROVE TypeOK'
    <2>0. (seq + 1) % SeqMod \in 0 .. SeqMod - 1
      BY DivMod DEF TypeOK
    <2>1. CASE BeginSet(w)
      BY <2>0, <2>1 DEF TypeOK, BeginSet, readerVars
    <2>2. ASSUME NEW f \in Fields, StoreField(w, f) PROVE TypeOK'
      BY <2>2 DEF TypeOK, StoreField, readerVars
    <2>3. CASE EndSet(w)
      BY <2>0, <2>3, Zenon DEF TypeOK, EndSet, readerVars
    <2>4. CASE SetDirty(w)
      BY <2>4, Zenon DEF TypeOK, SetDirty, readerVars
    <2>5. QED BY <1>2, <2>1, <2>2, <2>3, <2>4, Zenon DEF WriterStep
  <1>3. ASSUME NEW r \in Readers, StartRead(r) \/ ReadStep(r) PROVE TypeOK'
    <2>1. CASE StartRead(r)
      BY <2>1 DEF TypeOK, StartRead, slotVars, writerVars
    <2>2. CASE LoadSeq1Odd(r)
      BY <2>2, RetryType, Zenon DEF TypeOK, LoadSeq1Odd, slotVars, writerVars
    <2>3. CASE LoadSeq1Even(r)
      BY <2>3 DEF TypeOK, LoadSeq1Even, slotVars, writerVars
    <2>4. ASSUME NEW f \in Fields, LoadField(r, f) PROVE TypeOK'
      BY <2>4, Zenon DEF TypeOK, LoadField, slotVars, writerVars
    <2>5. CASE LoadSeq2Same(r)
      BY <2>5, Zenon DEF TypeOK, LoadSeq2Same, slotVars, writerVars
    <2>6. CASE LoadSeq2Changed(r)
      BY <2>6, RetryType, Zenon DEF TypeOK, LoadSeq2Changed, slotVars, writerVars
    <2>7. QED BY <1>3, <2>1, <2>2, <2>3, <2>4, <2>5, <2>6, Zenon DEF ReadStep
  <1>4. QED BY <1>1, <1>2, <1>3, Zenon DEF Next

THEOREM TypeCorrect == Spec => []TypeOK
  <1>1. Init => TypeOK
    BY SeqModAssumption, RetriesAssumption, MaxSetsAssumption DEF Init, TypeOK, Unwritten
  <1>2. QED BY <1>1, TypeStep, PTL DEF Spec

-----------------------------------------------------------------------------
(* One lemma per group of steps: what a writer does, what a reader does. *)

\* A fetch_add(1) moves seq to the remainder of the next count.
LEMMA SeqSucc ==
    ASSUME NEW n \in Nat, seq = n % SeqMod
    PROVE  (seq + 1) % SeqMod = (n + 1) % SeqMod
  BY ModSucc, SeqModAssumption, Zenon

\* seq is odd exactly while a set() is under way.
LEMMA SeqParity ==
    ASSUME TypeOK, SeqCounts
    PROVE  seq % 2 = IF Idle THEN 0 ELSE 1
  <1>1. completed \in Nat
    BY MaxSetsAssumption DEF TypeOK
  <1>2. CASE Idle
    <2>1. seq = (2 * completed) % SeqMod
      BY <1>1, <1>2 DEF SeqCounts
    <2>2. seq % 2 = (2 * completed) % 2
      BY <1>1, <2>1, ModParity, SeqModAssumption
    <2>3. QED BY <1>1, <1>2, <2>2
  <1>3. CASE ~Idle
    <2>1. seq = (2 * completed + 1) % SeqMod
      BY <1>1, <1>3, Zenon DEF SeqCounts
    <2>2. seq % 2 = (2 * completed + 1) % 2
      BY <1>1, <2>1, ModParity, SeqModAssumption
    <2>3. QED BY <1>1, <1>3, <2>2
  <1>4. QED BY <1>2, <1>3, Zenon

\* A reader that finds seq unchanged has seen no set() begin: seq cannot have
\* wrapped to the same value within one attempt.
LEMMA UnchangedSeq ==
    ASSUME TypeOK, AtRest, Storing, SeqCounts, Begun, Reading,
           NEW r \in Readers, rpc[r] = "data", seq = rseq[r]
    PROVE  Idle /\ completed = rbegin[r]
  <1>1. /\ completed \in Nat /\ started \in Nat /\ rbegin[r] \in Nat
        /\ rbegin[r] <= completed /\ started - rbegin[r] < SeqMod \div 2
        /\ rseq[r] = (2 * rbegin[r]) % SeqMod
    BY MaxSetsAssumption DEF TypeOK, Begun, Reading
  <1>2. SeqMod \in Nat \ {0} /\ 2 * (SeqMod \div 2) = SeqMod
    BY SeqModAssumption
  <1>3. CASE Idle
    <2>1. started = completed
      BY <1>3, Zenon DEF AtRest
    <2>2. (2 * completed) % SeqMod = (2 * rbegin[r]) % SeqMod
      BY <1>1, <1>3 DEF SeqCounts
    <2>3. 2 * completed - 2 * rbegin[r] < SeqMod /\ 2 * rbegin[r] <= 2 * completed
      BY <1>1, <1>2, <2>1
    <2>4. 2 * completed = 2 * rbegin[r]
      <3> DEFINE a == 2 * completed
                 b == 2 * rbegin[r]
      <3>1. a \in Nat /\ b \in Nat /\ b <= a /\ a - b < SeqMod /\ a % SeqMod = b % SeqMod
        BY <1>1, <2>2, <2>3
      <3> HIDE DEF a, b
      <3>2. a = b
        BY <1>2, <3>1, ModInjective, Zenon
      <3>3. QED BY <3>2, Zenon DEF a, b
    <2>5. QED BY <1>1, <1>3, <2>4
  <1>4. CASE ~Idle
    <2>1. started = completed + 1
      BY <1>4, Zenon DEF Idle, Storing
    <2>2. (2 * completed + 1) % SeqMod = (2 * rbegin[r]) % SeqMod
      BY <1>1, <1>4, Zenon DEF SeqCounts
    <2>3. (2 * completed + 1) - 2 * rbegin[r] < SeqMod
          /\ 2 * rbegin[r] <= 2 * completed + 1
      BY <1>1, <1>2, <2>1
    <2>4. 2 * completed + 1 = 2 * rbegin[r]
      <3> DEFINE a == 2 * completed + 1
                 b == 2 * rbegin[r]
      <3>1. a \in Nat /\ b \in Nat /\ b <= a /\ a - b < SeqMod /\ a % SeqMod = b % SeqMod
        BY <1>1, <2>2, <2>3
      <3> HIDE DEF a, b
      <3>2. a = b
        BY <1>2, <3>1, ModInjective, Zenon
      <3>3. QED BY <3>2, Zenon DEF a, b
    <2>5. QED BY <1>1, <2>4
  <1>5. QED BY <1>3, <1>4, Zenon

-----------------------------------------------------------------------------
\* The steps of the only writer preserve the invariant.
LEMMA WriterSteps ==
    ASSUME SingleWriter, IInv, TypeOK', NEW w \in Writers, WriterStep(w)
    PROVE  IInv'
  <1> USE DEF IInv
  <1>0. /\ completed \in Nat /\ started \in Nat /\ seq \in Nat
        /\ \A r \in Readers : rbegin[r] \in Nat
        /\ \A v \in Writers : v = w
        /\ SeqMod \in Nat \ {0}
    BY MaxSetsAssumption, SeqModAssumption DEF TypeOK, SingleWriter
  <1>1. CASE BeginSet(w)
    <2>1. Idle /\ ~Idle' /\ started = completed /\ completed' = completed
          /\ started' = completed + 1
      BY <1>0, <1>1 DEF BeginSet, Idle, AtRest, TypeOK
    <2>2. seq' = (2 * completed' + 1) % SeqMod
      <3>1. seq = (2 * completed) % SeqMod /\ 2 * completed \in Nat
        BY <1>0, <2>1 DEF SeqCounts
      <3>2. (seq + 1) % SeqMod = (2 * completed + 1) % SeqMod
        BY <3>1, SeqSucc, Zenon
      <3>3. QED BY <1>1, <2>1, <3>2, Zenon DEF BeginSet
    <2>3. SeqCounts'
      BY <2>1, <2>2, Zenon DEF SeqCounts
    <2>4. Storing'
      BY <1>0, <1>1, <2>1, Zenon DEF Storing, BeginSet, TypeOK, AtRest
    <2>5. Reading'
      BY <1>0, <1>1, <2>1 DEF Reading, BeginSet, NotOutrun, readerVars
    <2>6. QED BY <1>1, <2>1, <2>3, <2>4, <2>5, Zenon DEF AtRest, Begun, NoTornRead, BeginSet, readerVars
  <1>2. ASSUME NEW f \in Fields, StoreField(w, f) PROVE IInv'
    <2>1. ~Idle /\ ~Idle' /\ started = completed + 1 /\ wid[w] = started
      BY <1>2, Zenon DEF StoreField, Idle, Storing
    <2>2. Storing'
      BY <1>0, <1>2, <2>1, SMTT(30) DEF Storing, StoreField, TypeOK
    <2>3. SeqCounts' /\ Begun' /\ Reading' /\ AtRest' /\ NoTornRead'
      BY <1>2, <2>1, Zenon DEF SeqCounts, Begun, Reading, AtRest, NoTornRead, StoreField, readerVars
    <2>4. QED BY <2>2, <2>3, Zenon
  <1>3. CASE EndSet(w)
    <2>1. ~Idle /\ Idle' /\ started = completed + 1 /\ completed' = started
          /\ started' = started
      BY <1>0, <1>3 DEF EndSet, Idle, Storing, TypeOK
    <2>2. \A f \in Fields : word'[f] = completed'
      BY <1>3, <2>1, Zenon DEF EndSet, Storing
    <2>3. seq' = (2 * completed + 1 + 1) % SeqMod
      <3>1. seq = (2 * completed + 1) % SeqMod /\ 2 * completed + 1 \in Nat
        BY <1>0, <2>1 DEF SeqCounts
      <3>2. (seq + 1) % SeqMod = (2 * completed + 1 + 1) % SeqMod
        BY <3>1, SeqSucc, Zenon
      <3>3. QED BY <1>3, <3>2, Zenon DEF EndSet
    <2>4. SeqCounts'
      BY <1>0, <2>1, <2>3 DEF SeqCounts
    <2>5. Reading'
      BY <1>0, <1>3, <2>1 DEF Begun, Reading, EndSet, readerVars
    <2>6. Storing' /\ AtRest'
      BY <2>1, <2>2, Zenon DEF Storing, AtRest, Idle
    <2>7. QED BY <1>0, <1>3, <2>1, <2>4, <2>5, <2>6 DEF Begun, NoTornRead, EndSet, readerVars
  <1>4. CASE SetDirty(w)
    <2>1. Idle' = Idle /\ (Idle => Idle')
      BY <1>0, <1>4, Zenon DEF SetDirty, Idle, TypeOK
    <2>2. Storing'
      BY <1>0, <1>4, Zenon DEF Storing, SetDirty, TypeOK
    <2>3. QED BY <1>4, <2>1, <2>2, Zenon
              DEF SetDirty, AtRest, SeqCounts, Begun, Reading, NoTornRead, readerVars
  <1>5. QED BY <1>1, <1>2, <1>3, <1>4, Zenon DEF WriterStep

\* The steps of a reader preserve the invariant.
LEMMA ReaderSteps ==
    ASSUME IInv, TypeOK', NEW r \in Readers, StartRead(r) \/ ReadStep(r)
    PROVE  IInv'
  <1> USE DEF IInv
  <1>0. /\ completed \in Nat /\ started \in Nat /\ seq \in Nat
        /\ \A q \in Readers : rbegin[q] \in Nat
        /\ SeqMod \in Nat \ {0} /\ SeqMod \div 2 >= 1
    BY MaxSetsAssumption, SeqModAssumption, SMTT(30) DEF TypeOK
  <1>1. UNCHANGED <<slotVars, writerVars>>
    BY Zenon DEF StartRead, ReadStep, LoadSeq1Odd, LoadSeq1Even, LoadField, LoadSeq2Same,
           LoadSeq2Changed
  <1>2. /\ AtRest' /\ Storing' /\ SeqCounts' /\ Idle' = Idle
        /\ UNCHANGED <<started, completed, word, seq>>
    BY <1>1, Zenon DEF AtRest, Storing, SeqCounts, Idle, slotVars, writerVars
  <1>3. CASE StartRead(r)
    BY <1>0, <1>2, <1>3 DEF StartRead, Begun, Reading, NoTornRead, TypeOK
  <1>4. ASSUME Retry(r), UNCHANGED <<rseq, rtodo, rword, rbegin>> PROVE IInv'
    <2>1. \A q \in Readers : rpc'[q] = "data" => rpc[q] = "data"
      BY <1>4, SMTT(30) DEF Retry, TypeOK
    <2>2. \A q \in Readers : result'[q] = None \/ result'[q] = result[q]
      BY <1>4, SMTT(30) DEF Retry, TypeOK
    <2>3. Reading'
      BY <1>2, <1>4, <2>1, Zenon DEF Reading
    <2>4. NoTornRead'
      BY <2>2, Zenon DEF NoTornRead
    <2>5. QED BY <1>2, <1>4, <2>3, <2>4, Zenon DEF Begun
  <1>5. CASE LoadSeq1Even(r)
    <2>1. Idle
      BY <1>5, SeqParity DEF LoadSeq1Even
    <2>2. completed = started /\ seq = (2 * completed) % SeqMod
      BY <1>0, <2>1, SMTT(30) DEF AtRest, SeqCounts
    <2>3. Reading'
      <3> SUFFICES ASSUME NEW q \in Readers, rpc'[q] = "data"
                   PROVE  /\ started - rbegin'[q] < SeqMod \div 2
                          /\ rseq'[q] = (2 * rbegin'[q]) % SeqMod
                          /\ (Idle /\ completed = rbegin'[q]) =>
                                \A f \in Fields \ rtodo'[q] : rword'[q][f] = rbegin'[q]
        BY <1>2, Zenon DEF Reading
      <3>1. CASE q = r
        <4>1. rbegin'[q] = completed /\ rseq'[q] = seq /\ rtodo'[q] = Fields
          BY <1>5, <3>1, Zenon DEF LoadSeq1Even, TypeOK
        <4>2. started - rbegin'[q] = 0 /\ 0 < SeqMod \div 2
          BY <1>0, <2>2, <4>1
        <4>3. \A f \in Fields \ rtodo'[q] : rword'[q][f] = rbegin'[q]
          BY <4>1, Zenon
        <4>4. QED BY <2>2, <4>1, <4>2, <4>3, Zenon
      <3>2. CASE q # r
        <4>1. /\ rbegin'[q] = rbegin[q] /\ rseq'[q] = rseq[q] /\ rpc[q] = "data"
              /\ rtodo'[q] = rtodo[q] /\ rword' = rword
          BY <1>5, <3>2, Zenon DEF LoadSeq1Even, TypeOK
        <4>2. QED BY <4>1, Zenon DEF Reading
      <3>3. QED BY <3>1, <3>2, Zenon
    <2>4. QED BY <1>0, <1>2, <1>5, <2>3 DEF LoadSeq1Even, Begun, NoTornRead, TypeOK
  <1>6. ASSUME NEW f \in Fields, LoadField(r, f) PROVE IInv'
    <2>1. ASSUME NEW q \in Readers, rpc'[q] = "data", Idle, completed = rbegin'[q],
                 NEW g \in Fields \ rtodo'[q]
          PROVE  rword'[q][g] = rbegin'[q]
      <3>0. rpc[q] = "data" /\ rbegin'[q] = rbegin[q]
        BY <1>6, <2>1, Zenon DEF LoadField
      <3>1. CASE q = r /\ g = f
        BY <1>6, <2>1, <3>0, <3>1, SMTT(30) DEF LoadField, TypeOK, AtRest
      <3>2. CASE ~(q = r /\ g = f)
        <4>1. g \notin rtodo[q] /\ rword'[q][g] = rword[q][g]
          BY <1>6, <2>1, <3>2, SMTT(30) DEF LoadField, TypeOK
        <4>2. QED BY <2>1, <3>0, <4>1, Zenon DEF Reading
      <3>3. QED BY <3>1, <3>2, Zenon
    <2>3. Reading'
      <3>1. /\ UNCHANGED <<rpc, rseq, rbegin, started, completed>>
            /\ Idle' = Idle
        BY <1>2, <1>6, Zenon DEF LoadField
      <3>2. SUFFICES ASSUME NEW q \in Readers, rpc[q] = "data"
                     PROVE  (Idle /\ completed = rbegin'[q]) =>
                               \A g \in Fields \ rtodo'[q] : rword'[q][g] = rbegin'[q]
        BY <3>1, Zenon DEF Reading
      <3>3. QED BY <2>1, <3>1, <3>2, Zenon
    <2>4. QED BY <1>2, <1>6, <2>3, Zenon DEF LoadField, Begun, NoTornRead
  <1>7. CASE LoadSeq2Same(r)
    <2>1. Idle /\ completed = rbegin[r]
      BY <1>7, UnchangedSeq, Zenon DEF LoadSeq2Same
    <2>2. \A f \in Fields : rword[r][f] = completed
      BY <1>7, <2>1, Zenon DEF LoadSeq2Same, Reading
    <2>3. NoTornRead'
      BY <1>7, <2>2, SMTT(30) DEF NoTornRead, LoadSeq2Same, TypeOK
    <2>4. Reading'
      BY <1>2, <1>7 DEF Reading, LoadSeq2Same, TypeOK
    <2>5. QED BY <1>2, <1>7, <2>3, <2>4, Zenon DEF LoadSeq2Same, Begun
  <1>8. QED BY <1>3, <1>4, <1>5, <1>6, <1>7, Zenon DEF ReadStep, LoadSeq1Odd, LoadSeq2Changed

-----------------------------------------------------------------------------
\* With one writer, the inductive invariant holds in every state.
THEOREM Inductive == ASSUME SingleWriter PROVE Spec => []IInv
  <1>1. Init => IInv
    <2> SUFFICES ASSUME Init PROVE IInv
      BY Zenon
    <2>1. TypeOK
      BY SeqModAssumption, RetriesAssumption, MaxSetsAssumption
         DEF Init, TypeOK, Unwritten
    <2>2. Idle /\ (2 * 0 + 0) % SeqMod = 0
      BY SeqModAssumption DEF Init, Idle
    <2>3. SeqCounts
      BY <2>2, Zenon DEF Init, SeqCounts
    <2>4. AtRest /\ Storing /\ Begun /\ Reading /\ NoTornRead
      BY DEF Init, Begun, AtRest, Storing, Reading, NoTornRead, Unwritten
    <2>5. QED BY <2>1, <2>3, <2>4, Zenon DEF IInv
  <1>2. IInv /\ [Next]_vars => IInv'
    <2> SUFFICES ASSUME IInv, [Next]_vars PROVE IInv'
      BY Zenon
    <2>1. TypeOK'
      BY TypeStep, Zenon DEF IInv
    <2>2. CASE UNCHANGED vars
      BY <2>1, <2>2 DEF IInv, AtRest, Storing, SeqCounts, Begun, Reading, NoTornRead, Idle,
                        vars, slotVars, writerVars, readerVars
    <2>3. QED BY <2>1, <2>2, WriterSteps, ReaderSteps, Zenon DEF Next
  <1>3. QED BY <1>1, <1>2, PTL DEF Spec

\* With one writer, load_consistent() never returns a torn triple.
THEOREM NeverTorn == ASSUME SingleWriter PROVE Spec => []NoTornRead
  <1>1. IInv => NoTornRead
    BY Zenon DEF IInv
  <1>2. QED BY <1>1, Inductive, PTL

\* With one writer, the debug_assert at the entry of set() holds.
THEOREM EntersEven == ASSUME SingleWriter PROVE Spec => SetEntersEven
  <1>1. IInv /\ [Next]_vars => [\A w \in Writers : BeginSet(w) => seq % 2 = 0]_vars
    <2> SUFFICES ASSUME IInv, NEW w \in Writers, BeginSet(w) PROVE seq % 2 = 0
      BY Zenon
    <2>1. Idle
      BY Zenon DEF BeginSet, Idle, SingleWriter
    <2>2. QED BY <2>1, SeqParity, Zenon DEF IInv
  <1>2. QED BY <1>1, Inductive, PTL DEF Spec, SetEntersEven

\* With one writer, the seqlock implements the atomic register of AtomicSlot.
THEOREM Implements == ASSUME SingleWriter PROVE Spec => RegisterSpec
  <1>1. Init => Register!Init
    BY Zenon DEF Init, Register!Init
  <1>2. IInv /\ [Next]_vars => [Register!Next]_<<completed, result>>
    <2> SUFFICES ASSUME IInv, [Next]_vars
                 PROVE  Register!Next \/ UNCHANGED <<completed, result>>
      BY Zenon
    <2>1. CASE UNCHANGED vars
      BY <2>1, Zenon DEF vars, writerVars, readerVars
    <2>2. ASSUME NEW w \in Writers, WriterStep(w)
          PROVE  Register!Next \/ UNCHANGED <<completed, result>>
      <3>1. CASE EndSet(w)
        BY <3>1, Zenon DEF EndSet, readerVars, IInv, Storing, Register!Next, Register!Write
      <3>2. QED BY <2>2, <3>1, Zenon DEF WriterStep, BeginSet, StoreField, SetDirty, readerVars
    <2>3. ASSUME NEW r \in Readers, StartRead(r) \/ ReadStep(r)
          PROVE  Register!Next \/ UNCHANGED <<completed, result>>
      <3>1. CASE LoadSeq2Same(r)
        <4>1. Idle /\ completed = rbegin[r]
          BY <3>1, UnchangedSeq, Zenon DEF LoadSeq2Same, IInv
        <4>2. rword[r] \in [Fields -> Nat] /\ \A f \in Fields : rword[r][f] = completed
          BY <3>1, <4>1, Zenon DEF LoadSeq2Same, IInv, Reading, TypeOK
        <4>3. rword[r] = Register!Triple(completed)
          BY <4>2, Zenon DEF Register!Triple
        <4>4. QED BY <3>1, <4>3, Zenon
                  DEF LoadSeq2Same, Register!Next, Register!Read, writerVars
      <3>2. ASSUME Retry(r), UNCHANGED writerVars
            PROVE  Register!Next \/ UNCHANGED <<completed, result>>
        BY <3>2, Zenon DEF Retry, Register!Next, Register!Read, writerVars
      <3>3. QED BY <2>3, <3>1, <3>2, Zenon
                DEF ReadStep, StartRead, LoadSeq1Odd, LoadSeq1Even, LoadField,
                    LoadSeq2Changed, writerVars
    <2>4. QED BY <2>1, <2>2, <2>3, Zenon DEF Next
  <1>3. QED BY <1>1, <1>2, Inductive, PTL DEF Spec, RegisterSpec, Register!Spec

\* With one writer, a read returns None only under contention.
THEOREM NoneContended == ASSUME SingleWriter PROVE Spec => NoneOnlyUnderContention
  <1> DEFINE A == \A r \in Readers :
                    (rpc[r] # "idle" /\ rpc'[r] = "idle" /\ result'[r] = None)
                      => started > rbegin[r]
  <1>1. IInv /\ [Next]_vars => [A]_vars
    <2> SUFFICES ASSUME IInv, Next, NEW r \in Readers, rpc[r] # "idle",
                        rpc'[r] = "idle", result'[r] = None
                 PROVE  started > rbegin[r]
      BY Zenon DEF A
    <2>0. /\ started \in Nat /\ completed \in Nat /\ rbegin[r] \in Nat
          /\ rbegin[r] <= completed /\ completed <= started
      BY MaxSetsAssumption DEF IInv, TypeOK, Begun
    <2>1. ~Idle => started = completed + 1
      BY Zenon DEF IInv, Storing, Idle
    <2>2. ASSUME NEW w \in Writers, WriterStep(w) PROVE FALSE
      BY <2>2, Zenon DEF WriterStep, BeginSet, StoreField, EndSet, SetDirty, readerVars
    <2>3. ASSUME NEW q \in Readers, q # r, StartRead(q) \/ ReadStep(q) PROVE FALSE
      BY <2>3, Zenon DEF StartRead, ReadStep, LoadSeq1Odd, LoadSeq1Even, LoadField,
                  LoadSeq2Same, LoadSeq2Changed, Retry, IInv, TypeOK
    <2>4. StartRead(r) \/ ReadStep(r)
      BY <2>2, <2>3, Zenon DEF Next
    <2>5. CASE LoadSeq1Odd(r)
      BY <2>0, <2>1, <2>5, SeqParity DEF LoadSeq1Odd, IInv
    <2>6. CASE LoadSeq2Changed(r)
      <3>1. CASE started = rbegin[r]
        <4>1. Idle /\ completed = rbegin[r]
          BY <2>0, <2>1, <3>1
        <4>2. seq = (2 * rbegin[r]) % SeqMod
          BY <2>0, <4>1, SMTT(30) DEF IInv, SeqCounts
        <4>3. QED BY <2>6, <4>2, Zenon DEF LoadSeq2Changed, IInv, Reading
      <3>2. QED BY <2>0, <3>1, SMTT(30)
    <2>7. CASE LoadSeq2Same(r)
      BY <2>7, NoneAssumption, Zenon DEF LoadSeq2Same, IInv, TypeOK
    <2>8. QED BY <2>4, <2>5, <2>6, <2>7, Zenon
              DEF ReadStep, StartRead, LoadSeq1Even, LoadField, IInv, TypeOK
  <1>2. QED BY <1>1, Inductive, PTL DEF Spec, NoneOnlyUnderContention, A

-----------------------------------------------------------------------------
(* alarmsrv: the monitor *)

AlSteps == [at : {"none", "start", "value", "act", "tell"}, hot : BOOLEAN, alert : Nat]
AlRequests == [at : {"none", "disabled", "resolve", "tell"}, id : Nat, rule : AlRules \union {"none"}]

\* Ids are given once, and a task or a call refers only to ids that were given.  A
\* task that looked up no alert, and is still to act, has none: only the task of a
\* rule raises its alerts.
AlInv ==
    /\ alTask \in [AlRules -> AlSteps] /\ alCall \in [AlCalls -> AlRequests]
    /\ alNext \in 1 .. AlMaxAlerts + 1 /\ alEvents \in [AlIds -> Nat]
    /\ AlActive \subseteq AlIds /\ \A i \in AlActive : i < alNext /\ alAlert[i] \in AlRules
    /\ \A i \in AlIds : i >= alNext => alEvents[i] = 0
    /\ \A r \in AlRules : alTask[r].alert < alNext /\ (alTask[r].at = "act" /\ alTask[r].alert = 0 => AlOf(r) = {})
    /\ \A c \in AlCalls : alCall[c].id < alNext /\ (alCall[c].at = "resolve" => alCall[c].id # 0)
    /\ \A r \in AlRules : \A i, j \in AlOf(r) : i = j
    /\ AlHistoryComplete

USE AlAssumption

\* The tables stay as they are while a task, a call or a count goes on.
LEMMA AlTablesKept ==
    ASSUME AlInv, alAlert' = alAlert, alNext' = alNext, alEvents' = alEvents,
           alTask' \in [AlRules -> AlSteps], alCall' \in [AlCalls -> AlRequests],
           \A r \in AlRules : /\ alTask'[r].alert < alNext
                              /\ alTask'[r].at = "act" /\ alTask'[r].alert = 0 => AlOf(r) = {},
           \A c \in AlCalls : alCall'[c].id < alNext /\ (alCall'[c].at = "resolve" => alCall'[c].id # 0)
    PROVE  AlInv'
BY DEF AlInv, AlActive, AlOf, AlHistoryComplete

\* One task takes a step that leaves the tables alone.
LEMMA AlTaskMoved ==
    ASSUME AlInv, alAlert' = alAlert, alNext' = alNext, alEvents' = alEvents, alCall' = alCall,
           NEW r \in AlRules, NEW t \in AlSteps, alTask' = [alTask EXCEPT ![r] = t],
           t.alert < alNext, t.at = "act" /\ t.alert = 0 => AlOf(r) = {}
    PROVE  AlInv'
<1>1. alTask \in [AlRules -> AlSteps] /\ alCall \in [AlCalls -> AlRequests]
  BY Zenon DEF AlInv
<1>2. alTask' \in [AlRules -> AlSteps] /\ \A q \in AlRules : alTask'[q] = IF q = r THEN t ELSE alTask[q]
  BY <1>1, Zenon
<1>3. ASSUME NEW q \in AlRules
      PROVE  alTask'[q].alert < alNext /\ (alTask'[q].at = "act" /\ alTask'[q].alert = 0 => AlOf(q) = {})
  BY <1>2, Zenon DEF AlInv
<1>4. \A c \in AlCalls : alCall'[c].id < alNext /\ (alCall'[c].at = "resolve" => alCall'[c].id # 0)
  BY Zenon DEF AlInv
<1> QED
  BY <1>1, <1>2, <1>3, <1>4, AlTablesKept, Zenon

\* One call takes a step that leaves the tables alone.
LEMMA AlCallMoved ==
    ASSUME AlInv, alAlert' = alAlert, alNext' = alNext, alEvents' = alEvents, alTask' = alTask,
           NEW c \in AlCalls, NEW q \in AlRequests, alCall' = [alCall EXCEPT ![c] = q], q.id < alNext,
           q.at = "resolve" => q.id # 0
    PROVE  AlInv'
<1>1. alTask \in [AlRules -> AlSteps] /\ alCall \in [AlCalls -> AlRequests]
  BY Zenon DEF AlInv
<1>2. alCall' \in [AlCalls -> AlRequests] /\ \A d \in AlCalls : alCall'[d].id < alNext /\ (alCall'[d].at = "resolve" => alCall'[d].id # 0)
  BY <1>1, Zenon DEF AlInv
<1> QED
  BY <1>1, <1>2, AlTablesKept, Zenon DEF AlInv

\* Alerts that were given an id recover, whether or not they are still active.
LEMMA AlRecovered ==
    ASSUME AlInv, NEW ids, \A i \in ids : i \in AlIds /\ i < alNext, AlRecover(ids), alNext' = alNext,
           alTask' \in [AlRules -> AlSteps], alCall' \in [AlCalls -> AlRequests],
           \A r \in AlRules : /\ alTask'[r].alert < alNext
                              /\ alTask'[r].at = "act" /\ alTask'[r].alert = 0 => AlOf(r) = {},
           \A c \in AlCalls : alCall'[c].id < alNext /\ (alCall'[c].at = "resolve" => alCall'[c].id # 0)
    PROVE  AlInv'
<1>1. /\ alNext \in Nat /\ alEvents \in [AlIds -> Nat] /\ AlActive \subseteq AlIds
      /\ \A i \in AlActive : i < alNext
      /\ \A i \in AlIds : i >= alNext => alEvents[i] = 0
      /\ \A r \in AlRules : \A i, j \in AlOf(r) : i = j
      /\ \A i \in AlIds : i < alNext => (i \in AlActive <=> alEvents[i] = 0)
  BY DEF AlInv, AlHistoryComplete
<1>2. /\ AlActive' = AlActive \ ids
      /\ \A i \in AlActive' : alAlert'[i] = alAlert[i]
  BY Zenon DEF AlRecover, AlActive
<1>3. alEvents' \in [AlIds -> Nat]
      /\ \A i \in AlIds : alEvents'[i] = IF i \in ids THEN alEvents[i] + 1 ELSE alEvents[i]
  BY <1>1, SMTT(30) DEF AlRecover
<1>4. \A r \in AlRules : AlOf(r)' \subseteq AlOf(r)
  BY <1>2, Zenon DEF AlOf
<1>5. AlIds \subseteq Nat
  BY DEF AlIds
<1>6. \A i \in AlIds : i >= alNext => alEvents'[i] = 0
  BY <1>1, <1>3, <1>5, SMTT(30)
<1>7. \A i \in AlIds : i < alNext => (i \in AlActive' <=> alEvents'[i] = 0)
  BY <1>1, <1>2, <1>3, SMTT(30)
<1>8. \A r \in AlRules : \A i, j \in AlOf(r)' : i = j
  BY <1>1, <1>4, Zenon
<1>9. \A r \in AlRules : alTask'[r].at = "act" /\ alTask'[r].alert = 0 => AlOf(r)' = {}
  BY <1>4, Zenon
<1> QED
  BY <1>1, <1>2, <1>3, <1>6, <1>7, <1>8, <1>9, Zenon DEF AlInv, AlHistoryComplete

\* A task that looked up no alert raises one, under a new id.
LEMMA AlRaised1 == ASSUME AlInv, NEW r \in AlRules, AlRaise(r) PROVE AlInv'
<1>0. /\ alTask \in [AlRules -> AlSteps] /\ alCall \in [AlCalls -> AlRequests] /\ alNext \in Nat
      /\ alTask[r].at = "act" /\ alTask[r].alert = 0 /\ AlOf(r) = {} /\ alTask[r].alert < alNext
  BY DEF AlInv, AlRaise
<1>t. [AlIdle EXCEPT !.at = "tell"] \in AlSteps /\ AlIdle \in AlSteps
      /\ [AlIdle EXCEPT !.at = "tell"].alert = 0 /\ AlIdle.alert = 0
      /\ [AlIdle EXCEPT !.at = "tell"].at = "tell" /\ AlIdle.at = "none"
  BY Zenon DEF AlIdle, AlSteps
<1>1. CASE ~AlRow(r)
  <2>1. /\ alTask' = [alTask EXCEPT ![r] = AlIdle] /\ alAlert' = alAlert /\ alNext' = alNext
        /\ alEvents' = alEvents /\ alCall' = alCall
    BY <1>1, Zenon DEF AlRaise
  <2> HIDE DEF AlIdle
  <2> QED
    BY <1>0, <1>t, <2>1, AlTaskMoved, Zenon
<1>2. CASE AlRow(r)
  <2>1. /\ alNext \in AlIds /\ alNext' = alNext + 1 /\ alEvents' = alEvents /\ alCall' = alCall
        /\ alAlert' = [i \in AlActive \union {alNext} |-> IF i = alNext THEN r ELSE alAlert[i]]
        /\ alTask' = [alTask EXCEPT ![r] = [AlIdle EXCEPT !.at = "tell"]]
    BY <1>2, Zenon DEF AlRaise
  <2>2. /\ AlActive' = AlActive \union {alNext} /\ alAlert'[alNext] = r
        /\ \A i \in AlActive : i # alNext => alAlert'[i] = alAlert[i]
    BY <2>1, Zenon DEF AlActive
  <2>3. /\ alEvents \in [AlIds -> Nat] /\ AlActive \subseteq AlIds /\ AlIds \subseteq Nat
        /\ \A i \in AlActive : i < alNext
        /\ \A i \in AlIds : i >= alNext => alEvents[i] = 0
        /\ \A q \in AlRules : \A i, j \in AlOf(q) : i = j
        /\ \A i \in AlIds : i < alNext => (i \in AlActive <=> alEvents[i] = 0)
        /\ \A q \in AlRules : alTask[q].alert < alNext /\ (alTask[q].at = "act" /\ alTask[q].alert = 0 => AlOf(q) = {})
        /\ \A c \in AlCalls : alCall[c].id < alNext /\ (alCall[c].at = "resolve" => alCall[c].id # 0)
    BY DEF AlInv, AlHistoryComplete, AlIds
  <2>4. alNext \notin AlActive
    BY <1>0, <2>3
  <2>5. AlOf(r)' = {alNext} /\ \A q \in AlRules : q # r => AlOf(q)' = AlOf(q)
    <3>1. AlOf(r)' = {alNext}
      BY <1>0, <2>2, <2>4, Zenon DEF AlOf
    <3>2. ASSUME NEW q \in AlRules, q # r PROVE AlOf(q)' = AlOf(q)
      BY <2>2, <2>4, <3>2, Zenon DEF AlOf
    <3> QED
      BY <3>1, <3>2, Zenon
  <2>6. \A q \in AlRules : \A i, j \in AlOf(q)' : i = j
    <3> SUFFICES ASSUME NEW q \in AlRules, NEW i \in AlOf(q)', NEW j \in AlOf(q)' PROVE i = j
      BY Zenon
    <3>1. CASE q = r
      BY <2>5, <3>1, Zenon
    <3>2. CASE q # r
      BY <2>3, <2>5, <3>2, Zenon
    <3> QED
      BY <3>1, <3>2, Zenon
  <2>7. /\ alTask' \in [AlRules -> AlSteps]
        /\ \A q \in AlRules : alTask'[q] = IF q = r THEN [AlIdle EXCEPT !.at = "tell"] ELSE alTask[q]
    BY <1>0, <1>t, <2>1, Zenon
  <2>8. ASSUME NEW q \in AlRules
        PROVE  alTask'[q].alert < alNext' /\ (alTask'[q].at = "act" /\ alTask'[q].alert = 0 => AlOf(q)' = {})
    <3>1. CASE q = r
      BY <1>0, <1>t, <2>1, <2>7, <3>1
    <3>2. CASE q # r
      <4>1. alTask[q].alert \in Nat /\ alTask'[q] = alTask[q] /\ AlOf(q)' = AlOf(q)
        BY <1>0, <2>5, <2>7, <3>2, Zenon DEF AlSteps
      <4>2. alTask[q].alert < alNext /\ (alTask[q].at = "act" /\ alTask[q].alert = 0 => AlOf(q) = {})
        BY <2>3, Zenon
      <4>3. alTask[q].alert < alNext + 1
        BY <1>0, <4>1, <4>2
      <4> QED
        BY <2>1, <4>1, <4>2, <4>3, Zenon
    <3> QED
      BY <3>1, <3>2, Zenon
  <2>9. \A c \in AlCalls : alCall'[c].id < alNext' /\ (alCall'[c].at = "resolve" => alCall'[c].id # 0)
    BY <1>0, <2>1, <2>3 DEF AlRequests
  <2>10. /\ AlActive' \subseteq AlIds /\ \A i \in AlActive' : i < alNext'
         /\ \A i \in AlIds : i >= alNext' => alEvents'[i] = 0
         /\ \A i \in AlIds : i < alNext' => (i \in AlActive' <=> alEvents'[i] = 0)
    BY <1>0, <2>1, <2>2, <2>3, <2>4, SMTT(30)
  <2>11. alNext' \in 1 .. AlMaxAlerts + 1
    BY <2>1 DEF AlIds
  <2>12. \A i \in AlActive' : alAlert'[i] \in AlRules
    BY <2>2, <2>4, Zenon DEF AlInv
  <2> QED
    BY <1>0, <2>1, <2>3, <2>6, <2>7, <2>8, <2>9, <2>10, <2>11, <2>12, Zenon DEF AlInv, AlHistoryComplete
<1> QED
  BY <1>1, <1>2, Zenon

\* A task takes one step of check_single_rule().
LEMMA AlChecked == ASSUME AlInv, NEW r \in AlRules, AlCheck(r) PROVE AlInv'
<1>0. /\ alTask \in [AlRules -> AlSteps] /\ alCall \in [AlCalls -> AlRequests] /\ alNext \in Nat
      /\ alNext > 0 /\ alNext <= AlMaxAlerts + 1 /\ alTask[r] \in AlSteps
  BY SMTT(30) DEF AlInv
<1>t. /\ AlIdle \in AlSteps /\ AlIdle.alert = 0 /\ AlIdle.at = "none"
      /\ [AlIdle EXCEPT !.at = "tell"] \in AlSteps /\ [AlIdle EXCEPT !.at = "tell"].alert = 0
      /\ [AlIdle EXCEPT !.at = "tell"].at = "tell"
  BY Zenon DEF AlIdle, AlSteps
<1>1. CASE AlNoValue(r) \/ AlKeep(r) \/ AlTell(r)
  <2>1. /\ alTask' = [alTask EXCEPT ![r] = AlIdle] /\ alAlert' = alAlert /\ alNext' = alNext
        /\ alEvents' = alEvents /\ alCall' = alCall
    BY <1>1, Zenon DEF AlNoValue, AlKeep, AlTell
  <2> HIDE DEF AlIdle
  <2> QED
    BY <1>0, <1>t, <2>1, AlTaskMoved, Zenon
<1>2. CASE AlReadValue(r)
  <2> DEFINE t == [AlIdle EXCEPT !.at = "value", !.hot = r \in alHot]
  <2>1. /\ alTask' = [alTask EXCEPT ![r] = t] /\ alAlert' = alAlert /\ alNext' = alNext
        /\ alEvents' = alEvents /\ alCall' = alCall
    BY <1>2, Zenon DEF AlReadValue
  <2>2. t \in AlSteps /\ t.alert = 0 /\ t.at = "value"
    <3>1. (r \in alHot) \in BOOLEAN
      OBVIOUS
    <3> DEFINE b == r \in alHot
    <3> HIDE DEF b
    <3>2. \A h \in BOOLEAN : LET u == [AlIdle EXCEPT !.at = "value", !.hot = h]
                             IN  u \in AlSteps /\ u.alert = 0 /\ u.at = "value"
      BY Zenon DEF AlIdle, AlSteps
    <3> QED
      BY <3>1, <3>2, Zenon
  <2> HIDE DEF t
  <2> QED
    BY <1>0, <2>1, <2>2, AlTaskMoved, Zenon
<1>3. CASE AlLookUp(r)
  <2>1. PICK i \in IF AlOf(r) = {} THEN {0} ELSE AlOf(r) :
            alTask' = [alTask EXCEPT ![r].at = "act", ![r].alert = i]
    BY <1>3, Zenon DEF AlLookUp
  <2>2. alAlert' = alAlert /\ alNext' = alNext /\ alEvents' = alEvents /\ alCall' = alCall
    BY <1>3, Zenon DEF AlLookUp
  <2> DEFINE t == [alTask[r] EXCEPT !.at = "act", !.alert = i]
  <2>3. i \in Nat /\ i < alNext /\ (i = 0 => AlOf(r) = {})
    <3>1. AlOf(r) \subseteq AlIds /\ \A j \in AlOf(r) : j < alNext
      BY Zenon DEF AlInv, AlOf
    <3> QED
      BY <1>0, <2>1, <3>1, SMTT(30) DEF AlIds
  <2>4. t \in AlSteps /\ t.alert = i /\ t.at = "act"
    BY <1>0, <2>3, Zenon DEF AlSteps
  <2>5. alTask' = [alTask EXCEPT ![r] = t]
    BY <1>0, <2>1, Zenon
  <2> HIDE DEF t
  <2> QED
    BY <2>2, <2>3, <2>4, <2>5, AlTaskMoved, Zenon
<1>4. CASE AlClear(r)
  <2>1. /\ AlRecover({alTask[r].alert}) /\ alTask[r].alert # 0 /\ alNext' = alNext /\ alCall' = alCall
        /\ alTask' = [alTask EXCEPT ![r] = [AlIdle EXCEPT !.at = "tell"]]
    BY <1>4, Zenon DEF AlClear
  <2>2. alTask[r].alert \in AlIds /\ alTask[r].alert < alNext
    <3>1. alTask[r].alert \in Nat /\ alTask[r].alert < alNext
      BY <1>0, Zenon DEF AlInv, AlSteps
    <3> QED
      BY <1>0, <2>1, <3>1, SMTT(30) DEF AlIds
  <2>3. alTask' \in [AlRules -> AlSteps]
        /\ \A q \in AlRules : alTask'[q] = IF q = r THEN [AlIdle EXCEPT !.at = "tell"] ELSE alTask[q]
    BY <1>0, <1>t, <2>1, Zenon
  <2>4. ASSUME NEW q \in AlRules
        PROVE  alTask'[q].alert < alNext /\ (alTask'[q].at = "act" /\ alTask'[q].alert = 0 => AlOf(q) = {})
    <3>1. CASE q = r
      BY <1>0, <1>t, <2>3, <3>1, Zenon
    <3>2. CASE q # r
      BY <2>3, <3>2, Zenon DEF AlInv
    <3> QED
      BY <3>1, <3>2, Zenon
  <2>5. \A c \in AlCalls : alCall'[c].id < alNext /\ (alCall'[c].at = "resolve" => alCall'[c].id # 0)
    BY <2>1, Zenon DEF AlInv
  <2>6. \A i \in {alTask[r].alert} : i \in AlIds /\ i < alNext
    BY <2>2, Zenon
  <2> QED
    BY <1>0, <2>1, <2>3, <2>4, <2>5, <2>6, AlRecovered, Zenon
<1> QED
  BY <1>1, <1>2, <1>3, <1>4, AlRaised1, Zenon DEF AlCheck

\* A call takes a step.
LEMMA AlCalled ==
    ASSUME AlInv, NEW c \in AlCalls,
           \/ AlDisabled(c) \/ AlResolved(c) \/ AlCallTells(c)
           \/ \E r \in AlRules : AlDisable(c, r) \/ AlDelete(c, r)
           \/ \E i \in AlIds : AlResolve(c, i)
    PROVE  AlInv'
<1>0. /\ alTask \in [AlRules -> AlSteps] /\ alCall \in [AlCalls -> AlRequests] /\ alNext \in Nat
      /\ alNext > 0 /\ alNext <= AlMaxAlerts + 1 /\ alCall[c] \in AlRequests
  BY DEF AlInv
<1>t. /\ AlFree \in AlRequests /\ AlFree.id = 0 /\ AlFree.at = "none"
      /\ [AlFree EXCEPT !.at = "tell"] \in AlRequests /\ [AlFree EXCEPT !.at = "tell"].id = 0
      /\ [AlFree EXCEPT !.at = "tell"].at = "tell"
  BY Zenon DEF AlFree, AlRequests
<1>k. \A r \in AlRules : alTask[r].alert < alNext /\ (alTask[r].at = "act" /\ alTask[r].alert = 0 => AlOf(r) = {})
  BY Zenon DEF AlInv
<1>r. ASSUME NEW ids, \A i \in ids : i \in AlIds /\ i < alNext, AlRecover(ids), alNext' = alNext, alTask' = alTask,
             NEW q \in AlRequests, q.id < alNext, q.at # "resolve", alCall' = [alCall EXCEPT ![c] = q]
      PROVE  AlInv'
  <2>1. /\ alCall' \in [AlCalls -> AlRequests]
        /\ \A d \in AlCalls : alCall'[d].id < alNext /\ (alCall'[d].at = "resolve" => alCall'[d].id # 0)
    BY <1>0, <1>r, Zenon DEF AlInv
  <2> QED
    BY <1>0, <1>k, <1>r, <2>1, AlRecovered, Zenon
<1>o. ASSUME NEW r PROVE \A i \in AlOf(r) : i \in AlIds /\ i < alNext
  BY Zenon DEF AlInv, AlOf
<1>1. CASE AlCallTells(c)
  <2> HIDE DEF AlFree
  <2> QED
    BY <1>0, <1>1, <1>t, AlCallMoved, Zenon DEF AlCallTells
<1>2. CASE AlDisabled(c)
  <2> DEFINE r == alCall[c].rule
  <2>1. CASE alRule[r] = "disabled" /\ AlOf(r) # {}
    <3>1. /\ AlRecover(AlOf(r)) /\ alCall' = [alCall EXCEPT ![c] = [AlFree EXCEPT !.at = "tell"]]
          /\ alNext' = alNext /\ alTask' = alTask
      BY <1>2, <2>1, Zenon DEF AlDisabled
    <3> HIDE DEF r
    <3> QED
      BY <1>0, <1>t, <1>r, <1>o, <3>1, Zenon
  <2>2. CASE ~(alRule[r] = "disabled" /\ AlOf(r) # {})
    <3>1. /\ alCall' = [alCall EXCEPT ![c] = AlFree] /\ alAlert' = alAlert /\ alEvents' = alEvents
          /\ alNext' = alNext /\ alTask' = alTask
      BY <1>2, <2>2, Zenon DEF AlDisabled
    <3> HIDE DEF AlFree
    <3> QED
      BY <1>0, <1>t, <3>1, AlCallMoved, Zenon
  <2> QED
    BY <2>1, <2>2, Zenon
<1>3. CASE AlResolved(c)
  <2>1. /\ alCall[c].at = "resolve" /\ AlRecover({alCall[c].id}) /\ alNext' = alNext /\ alTask' = alTask
        /\ alCall' = [alCall EXCEPT ![c] = [AlFree EXCEPT !.at = "tell"]]
    BY <1>3, Zenon DEF AlResolved
  <2>2. alCall[c].id \in Nat /\ alCall[c].id # 0 /\ alCall[c].id < alNext
    BY <1>0, <2>1, Zenon DEF AlInv, AlRequests
  <2>3. \A i \in {alCall[c].id} : i \in AlIds /\ i < alNext
    BY <1>0, <2>2 DEF AlIds
  <2> QED
    BY <1>0, <1>t, <1>r, <2>1, <2>3, Zenon
<1>4. ASSUME NEW r \in AlRules, AlDisable(c, r) PROVE AlInv'
  <2> DEFINE q == [at |-> "disabled", id |-> 0, rule |-> r]
  <2>1. q \in AlRequests /\ q.id = 0 /\ q.at = "disabled"
    BY Zenon DEF AlRequests
  <2>2. /\ alCall' = [alCall EXCEPT ![c] = q] /\ alAlert' = alAlert /\ alEvents' = alEvents
        /\ alNext' = alNext /\ alTask' = alTask
    BY <1>4, Zenon DEF AlDisable
  <2> HIDE DEF q
  <2> QED
    BY <1>0, <2>1, <2>2, AlCallMoved, Zenon
<1>5. ASSUME NEW r \in AlRules, AlDelete(c, r) PROVE AlInv'
  <2>1. /\ AlRecover(AlOf(r)) /\ alNext' = alNext /\ alTask' = alTask
        /\ alCall' = [alCall EXCEPT ![c].at = IF AlOf(r) = {} THEN "none" ELSE "tell"]
    BY <1>5, Zenon DEF AlDelete
  <2> DEFINE a == IF AlOf(r) = {} THEN "none" ELSE "tell"
             q == [alCall[c] EXCEPT !.at = a]
  <2>2. a \in {"none", "tell"}
    BY Zenon
  <2> HIDE DEF a
  <2>3. q \in AlRequests /\ q.id = alCall[c].id /\ q.at = a
    BY <1>0, <2>2, Zenon DEF AlRequests
  <2>4. alCall' = [alCall EXCEPT ![c] = q]
    BY <1>0, <2>1, Zenon DEF a
  <2>5. alCall[c].id < alNext
    BY Zenon DEF AlInv
  <2> HIDE DEF q
  <2> QED
    BY <1>r, <1>o, <2>1, <2>2, <2>3, <2>4, <2>5, Zenon
<1>6. ASSUME NEW i \in AlIds, AlResolve(c, i) PROVE AlInv'
  <2> DEFINE q == [at |-> "resolve", id |-> i, rule |-> alAlert[i]]
  <2>1. i \in AlActive /\ i < alNext /\ i \in Nat /\ i # 0 /\ alAlert[i] \in AlRules
    BY <1>6 DEF AlResolve, AlInv, AlIds
  <2>2. q \in AlRequests /\ q.id = i
    BY <2>1, Zenon DEF AlRequests
  <2>3. /\ alCall' = [alCall EXCEPT ![c] = q] /\ alAlert' = alAlert /\ alEvents' = alEvents
        /\ alNext' = alNext /\ alTask' = alTask
    BY <1>6, Zenon DEF AlResolve
  <2> HIDE DEF q
  <2> QED
    BY <2>1, <2>2, <2>3, AlCallMoved, Zenon
<1> QED
  BY <1>1, <1>2, <1>3, <1>4, <1>5, <1>6, Zenon

\* Every step keeps the alerts apart and the history complete.
LEMMA AlStep == AlInv /\ [AlNext]_alVars => AlInv'
<1> SUFFICES ASSUME AlInv, [AlNext]_alVars PROVE AlInv'
  BY Zenon
<1>0. /\ alTask \in [AlRules -> AlSteps] /\ alCall \in [AlCalls -> AlRequests] /\ alNext \in Nat /\ alNext > 0
      /\ \A c \in AlCalls : alCall[c].id < alNext /\ (alCall[c].at = "resolve" => alCall[c].id # 0)
      /\ \A r \in AlRules : alTask[r].alert < alNext /\ (alTask[r].at = "act" /\ alTask[r].alert = 0 => AlOf(r) = {})
  BY DEF AlInv
<1>1. CASE AlTick
  <2>1. /\ alAlert' = alAlert /\ alNext' = alNext /\ alEvents' = alEvents /\ alCall' = alCall
        /\ alTask' = [r \in AlRules |-> IF alRule[r] = "enabled" THEN [AlIdle EXCEPT !.at = "start"] ELSE AlIdle]
    BY <1>1, Zenon DEF AlTick
  <2>2. /\ AlIdle \in AlSteps /\ AlIdle.alert = 0 /\ AlIdle.at = "none"
        /\ [AlIdle EXCEPT !.at = "start"] \in AlSteps /\ [AlIdle EXCEPT !.at = "start"].alert = 0
        /\ [AlIdle EXCEPT !.at = "start"].at = "start"
    BY Zenon DEF AlIdle, AlSteps
  <2>3. alTask' \in [AlRules -> AlSteps]
        /\ \A r \in AlRules : alTask'[r].alert = 0 /\ alTask'[r].at \in {"none", "start"}
    <3> HIDE DEF AlIdle
    <3> QED
      BY <2>1, <2>2, Zenon
  <2> QED
    BY <1>0, <2>1, <2>3, AlTablesKept, Zenon
<1>2. CASE \/ AlCountRead \/ AlCountSent \/ AlCountFailed \/ UNCHANGED alVars
           \/ \E r \in AlRules : AlCreate(r) \/ AlEnable(r) \/ AlValueMoves(r)
  <2>1. /\ alAlert' = alAlert /\ alNext' = alNext /\ alEvents' = alEvents /\ alCall' = alCall /\ alTask' = alTask
    BY <1>2, Zenon DEF AlCountRead, AlCountSent, AlCountFailed, alVars, AlCreate, AlEnable, AlValueMoves
  <2> QED
    BY <1>0, <2>1, AlTablesKept, Zenon
<1> QED
  BY <1>1, <1>2, AlChecked, AlCalled, Zenon DEF AlNext

\* No alert has been raised at first.
LEMMA AlStart == AlInit => AlInv
<1> SUFFICES ASSUME AlInit PROVE AlInv
  BY Zenon
<1>1. AlIdle \in AlSteps /\ AlIdle.alert = 0 /\ AlIdle.at = "none" /\ AlFree \in AlRequests /\ AlFree.id = 0
      /\ AlFree.at = "none"
  BY Zenon DEF AlIdle, AlSteps, AlFree, AlRequests
<1>2. AlActive = {} /\ alNext = 1 /\ alEvents = [i \in AlIds |-> 0]
      /\ alTask = [r \in AlRules |-> AlIdle] /\ alCall = [c \in AlCalls |-> AlFree]
  BY Zenon DEF AlInit, AlActive
<1>3. \A r : AlOf(r) = {}
  BY <1>2, Zenon DEF AlOf
<1>4. \A i \in AlIds : ~(i < 1)
  BY DEF AlIds
<1>5. alTask \in [AlRules -> AlSteps] /\ alCall \in [AlCalls -> AlRequests] /\ alNext \in 1 .. AlMaxAlerts + 1
      /\ alEvents \in [AlIds -> Nat]
  BY <1>1, <1>2
<1> HIDE DEF AlIdle, AlFree
<1> QED
  BY <1>1, <1>2, <1>3, <1>4, <1>5 DEF AlInv, AlHistoryComplete

\* A rule never has two active alerts, and every alert raised is active or has its
\* recovery in the history and never both, for any number of rules, calls and alerts.
THEOREM AlertsAccounted == AlSpec => []AlertsSound
<1>1. AlInv => AlertsSound
  <2> SUFFICES ASSUME AlInv, NEW r \in AlRules PROVE Cardinality(AlOf(r)) <= 1
    BY Zenon DEF AlInv, AlertsSound, AlOneAlert
  <2>1. CASE AlOf(r) = {}
    BY <2>1, FS_EmptySet
  <2>2. CASE AlOf(r) # {}
    <3>1. PICK i \in AlOf(r) : TRUE
      BY <2>2, Zenon
    <3>2. AlOf(r) = {i}
      BY <3>1 DEF AlInv
    <3>3. Cardinality({i}) = 1
      BY FS_Singleton, Zenon
    <3> QED
      BY <3>2, <3>3
  <2> QED
    BY <2>1, <2>2, Zenon
<1> QED
  BY <1>1, AlStart, AlStep, PTL DEF AlSpec

=============================================================================
