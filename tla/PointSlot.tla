------------------------------ MODULE PointSlot ------------------------------
(***************************************************************************)
(* The seqlock of one PointSlot (libs/voltage-rtdb-shm/src/core/slot.rs):  *)
(* threads that call set() and threads that call load_consistent() on the  *)
(* same 32 bytes of shared memory.                                         *)
(*                                                                         *)
(* Every load and store of an atomic is a step.  The loads and the stores  *)
(* of the three data words are Relaxed, so each side performs its three in *)
(* any order; the fences keep them between the two accesses to seq.        *)
(*                                                                         *)
(* The payload of the n-th set() is the number n: each word holds the      *)
(* number of the call that stored it, 0 for the unwritten sentinel.  Two   *)
(* words with different numbers are the torn read the protocol must never  *)
(* return.                                                                 *)
(***************************************************************************)
EXTENDS Integers

CONSTANTS Writers,     \* threads that call set() on this slot
          Readers,     \* threads that call load_consistent()
          SeqMod,      \* 2^32: seq is an AtomicU32 and wraps
          MaxRetries,  \* MAX_CONSISTENCY_RETRIES; 1 is try_load_consistent
          MaxSets,     \* bound: set() calls in a behaviour
          None         \* Option::None

\* The three data words of the slot.
Fields == {"value", "raw", "timestamp"}

ASSUME SeqModAssumption == SeqMod \in Nat \ {0} /\ SeqMod % 2 = 0
ASSUME RetriesAssumption == MaxRetries \in Nat \ {0}
ASSUME MaxSetsAssumption == MaxSets \in Nat
ASSUME NoneAssumption == None \notin [Fields -> Nat]

VARIABLES
    seq,        \* the sequence counter, modulo SeqMod
    word,       \* field -> the number of the set() call that stored it
    dirty,      \* the dirty flag of the slot
    wpc,        \* writer -> "idle", "store" or "dirty"
    wid,        \* writer -> the number of its current set() call
    wtodo,      \* writer -> the fields it has still to store
    rpc,        \* reader -> "idle", "seq1" or "data"
    rseq,       \* reader -> seq1
    rtodo,      \* reader -> the fields it has still to load
    rword,      \* reader -> the words it has loaded
    rtry,       \* reader -> the attempts made in this load_consistent()
    result,     \* reader -> what its last read returned
    started,    \* history: set() calls begun
    completed,  \* history: the number of the last set() call completed
    rbegin      \* history: reader -> completed when its read, or its last
                \*          attempt to load data, began

slotVars == <<seq, word, dirty>>
writerVars == <<wpc, wid, wtodo, started, completed>>
readerVars == <<rpc, rseq, rtodo, rword, rtry, result, rbegin>>
vars == <<slotVars, writerVars, readerVars>>

Unwritten == [f \in Fields |-> 0]

Init ==
    /\ seq = 0 /\ word = Unwritten /\ dirty = 0
    /\ wpc = [w \in Writers |-> "idle"]
    /\ wid = [w \in Writers |-> 0]
    /\ wtodo = [w \in Writers |-> {}]
    /\ rpc = [r \in Readers |-> "idle"]
    /\ rseq = [r \in Readers |-> 0]
    /\ rtodo = [r \in Readers |-> {}]
    /\ rword = [r \in Readers |-> Unwritten]
    /\ rtry = [r \in Readers |-> 0]
    /\ result = [r \in Readers |-> None]
    /\ started = 0 /\ completed = 0
    /\ rbegin = [r \in Readers |-> 0]

-----------------------------------------------------------------------------
(* set() *)

\* Timing assumption: no single attempt to read lasts while seq runs through
\* half its range (2^31 calls of set()); see the README.
NotOutrun == \A r \in Readers : rpc[r] = "data" => started + 1 - rbegin[r] < SeqMod \div 2

\* seq.fetch_add(1): a write is in progress.  The debug_assert on the old
\* value is compiled out of release builds and has no effect.
BeginSet(w) ==
    /\ wpc[w] = "idle"
    /\ started < MaxSets
    /\ NotOutrun
    /\ started' = started + 1
    /\ seq' = (seq + 1) % SeqMod
    /\ wid' = [wid EXCEPT ![w] = started + 1]
    /\ wtodo' = [wtodo EXCEPT ![w] = Fields]
    /\ wpc' = [wpc EXCEPT ![w] = "store"]
    /\ UNCHANGED <<word, dirty, completed, readerVars>>

\* One of the three Relaxed stores of data.
StoreField(w, f) ==
    /\ wpc[w] = "store"
    /\ f \in wtodo[w]
    /\ word' = [word EXCEPT ![f] = wid[w]]
    /\ wtodo' = [wtodo EXCEPT ![w] = @ \ {f}]
    /\ UNCHANGED <<seq, dirty, wpc, wid, started, completed, readerVars>>

\* seq.fetch_add(1) with Release: the write is complete.
EndSet(w) ==
    /\ wpc[w] = "store"
    /\ wtodo[w] = {}
    /\ seq' = (seq + 1) % SeqMod
    /\ completed' = wid[w]
    /\ wpc' = [wpc EXCEPT ![w] = "dirty"]
    /\ UNCHANGED <<word, dirty, wid, wtodo, started, readerVars>>

\* dirty.store(1), the last statement of set().
SetDirty(w) ==
    /\ wpc[w] = "dirty"
    /\ dirty' = 1
    /\ wpc' = [wpc EXCEPT ![w] = "idle"]
    /\ UNCHANGED <<seq, word, wid, wtodo, started, completed, readerVars>>

-----------------------------------------------------------------------------
(* load_consistent() *)

StartRead(r) ==
    /\ rpc[r] = "idle"
    /\ rpc' = [rpc EXCEPT ![r] = "seq1"]
    /\ rtry' = [rtry EXCEPT ![r] = 0]
    /\ rbegin' = [rbegin EXCEPT ![r] = completed]
    /\ UNCHANGED <<slotVars, writerVars, rseq, rtodo, rword, result>>

\* try_load_consistent() returned None: another attempt, or None to the caller
\* when the retries are used up.
Retry(r) ==
    /\ rtry' = [rtry EXCEPT ![r] = @ + 1]
    /\ IF rtry[r] + 1 < MaxRetries
         THEN /\ rpc' = [rpc EXCEPT ![r] = "seq1"]
              /\ UNCHANGED result
         ELSE /\ rpc' = [rpc EXCEPT ![r] = "idle"]
              /\ result' = [result EXCEPT ![r] = None]

\* The first load of seq finds a write in progress.
LoadSeq1Odd(r) ==
    /\ rpc[r] = "seq1"
    /\ seq % 2 = 1
    /\ Retry(r)
    /\ UNCHANGED <<slotVars, writerVars, rseq, rtodo, rword, rbegin>>

\* Mutant: the parity of seq is not tested.
LoadSeq1Any(r) ==
    /\ rpc[r] = "seq1"
    /\ rseq' = [rseq EXCEPT ![r] = seq]
    /\ rtodo' = [rtodo EXCEPT ![r] = Fields]
    /\ rpc' = [rpc EXCEPT ![r] = "data"]
    /\ rbegin' = [rbegin EXCEPT ![r] = completed]
    /\ UNCHANGED <<slotVars, writerVars, rword, rtry, result>>

\* The first load of seq finds the slot at rest.
LoadSeq1Even(r) ==
    /\ rpc[r] = "seq1"
    /\ seq % 2 = 0
    /\ rseq' = [rseq EXCEPT ![r] = seq]
    /\ rtodo' = [rtodo EXCEPT ![r] = Fields]
    /\ rpc' = [rpc EXCEPT ![r] = "data"]
    /\ rbegin' = [rbegin EXCEPT ![r] = completed]
    /\ UNCHANGED <<slotVars, writerVars, rword, rtry, result>>

\* One of the three Relaxed loads of data.
LoadField(r, f) ==
    /\ rpc[r] = "data"
    /\ f \in rtodo[r]
    /\ rword' = [rword EXCEPT ![r] = [@ EXCEPT ![f] = word[f]]]
    /\ rtodo' = [rtodo EXCEPT ![r] = @ \ {f}]
    /\ UNCHANGED <<slotVars, writerVars, rpc, rseq, rtry, result, rbegin>>

\* Mutant: the second load of seq is not compared with the first.
LoadSeq2Unchecked(r) ==
    /\ rpc[r] = "data"
    /\ rtodo[r] = {}
    /\ result' = [result EXCEPT ![r] = rword[r]]
    /\ rpc' = [rpc EXCEPT ![r] = "idle"]
    /\ UNCHANGED <<slotVars, writerVars, rseq, rtodo, rword, rtry, rbegin>>

\* The second load of seq finds it unchanged: the words go to the caller.
LoadSeq2Same(r) ==
    /\ rpc[r] = "data"
    /\ rtodo[r] = {}
    /\ seq = rseq[r]
    /\ result' = [result EXCEPT ![r] = rword[r]]
    /\ rpc' = [rpc EXCEPT ![r] = "idle"]
    /\ UNCHANGED <<slotVars, writerVars, rseq, rtodo, rword, rtry, rbegin>>

\* The second load of seq finds it changed.
LoadSeq2Changed(r) ==
    /\ rpc[r] = "data"
    /\ rtodo[r] = {}
    /\ seq # rseq[r]
    /\ Retry(r)
    /\ UNCHANGED <<slotVars, writerVars, rseq, rtodo, rword, rbegin>>

-----------------------------------------------------------------------------
WriterStep(w) ==
    BeginSet(w) \/ (\E f \in Fields : StoreField(w, f)) \/ EndSet(w) \/ SetDirty(w)

\* The steps of a read under way.
ReadStep(r) ==
    \/ LoadSeq1Odd(r) \/ LoadSeq1Even(r)
    \/ \E f \in Fields : LoadField(r, f)
    \/ LoadSeq2Same(r) \/ LoadSeq2Changed(r)

Next ==
    \/ \E w \in Writers : WriterStep(w)
    \/ \E r \in Readers : StartRead(r) \/ ReadStep(r)

Spec == Init /\ [][Next]_vars

-----------------------------------------------------------------------------
(* Properties *)

\* The words of the slot and the locals of set() and load_consistent() keep their
\* types: seq stays a u32 and a reader that is still trying has retries left.
TypeOK ==
    /\ seq \in 0 .. SeqMod - 1
    /\ word \in [Fields -> Nat]
    /\ dirty \in {0, 1}
    /\ wpc \in [Writers -> {"idle", "store", "dirty"}]
    /\ wid \in [Writers -> 0 .. started]
    /\ wtodo \in [Writers -> SUBSET Fields]
    /\ rpc \in [Readers -> {"idle", "seq1", "data"}]
    /\ rseq \in [Readers -> 0 .. SeqMod - 1]
    /\ rtodo \in [Readers -> SUBSET Fields]
    /\ rword \in [Readers -> [Fields -> Nat]]
    /\ rtry \in [Readers -> 0 .. MaxRetries]
    /\ \A r \in Readers : rpc[r] # "idle" => rtry[r] < MaxRetries
    /\ result \in [Readers -> [Fields -> Nat] \cup {None}]
    /\ started \in 0 .. MaxSets
    /\ completed \in 0 .. started
    /\ rbegin \in [Readers -> Nat]

\* comsrv's task for a channel is the one thread that writes its slots.
SingleWriter == \A v, w \in Writers : v = w

\* A read that returns data never mixes the words of two set() calls: what
\* try_load_consistent() returns is one whole triple.
NoTornRead ==
    \A r \in Readers : result[r] # None =>
        \A f, g \in Fields : result[r][f] = result[r][g]

\* load_consistent() gives up (returns None) only when a set() was under way
\* during its last attempt: without contention a read succeeds.
NoneOnlyUnderContention ==
    [][\A r \in Readers :
         (rpc[r] # "idle" /\ rpc'[r] = "idle" /\ result'[r] = None)
           => started > rbegin[r]]_vars

\* What set() asserts on entry (its debug_assert): the counter is even, no
\* other write is in progress.
SetEntersEven == [][\A w \in Writers : BeginSet(w) => seq % 2 = 0]_vars

\* The seqlock implements the register of AtomicSlot: a set() takes effect at
\* its second fetch_add, and a successful read at its second load of seq.
Register == INSTANCE AtomicSlot WITH reg <- completed, out <- result

\* Readers of the slot see a register: a set() is one instant, a read returns the
\* whole triple of that instant or nothing.
RegisterSpec == Register!Spec

=============================================================================
