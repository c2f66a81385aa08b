----------------------------- MODULE AtomicSlot -----------------------------
(***************************************************************************)
(* What a point slot of the shared memory promises its readers: the slot   *)
(* behaves as one register.  A set() replaces the whole (value, raw,       *)
(* timestamp) triple at one instant, and a read that returns data returns  *)
(* the whole triple that is in the register when it returns.  A read may   *)
(* also return nothing.                                                    *)
(*                                                                         *)
(* A triple is named by the number of the set() call that wrote it; 0 is   *)
(* the unwritten triple (NaN, NaN, 0).                                     *)
(***************************************************************************)
EXTENDS Naturals

CONSTANTS Fields,   \* the words of the triple
          Readers,  \* threads that read the slot
          None      \* "no data", the Option::None of a read

VARIABLES reg,      \* the number of the set() whose triple is in the slot
          out       \* reader -> the words its last read returned, or None

\* The words of the triple that the n-th set() writes.
Triple(n) == [f \in Fields |-> n]

Init ==
    /\ reg = 0
    /\ out = [r \in Readers |-> None]

\* A set() takes effect.
Write ==
    /\ reg' = reg + 1
    /\ UNCHANGED out

\* A read returns, with the register's triple or with nothing.
Read(r) ==
    /\ \/ out' = [out EXCEPT ![r] = Triple(reg)]
       \/ out' = [out EXCEPT ![r] = None]
    /\ UNCHANGED reg

Next == Write \/ \E r \in Readers : Read(r)

Spec == Init /\ [][Next]_<<reg, out>>
=============================================================================
