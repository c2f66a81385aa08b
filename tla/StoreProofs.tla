---------------------------- MODULE StoreProofs -----------------------------
(***************************************************************************)
(* What follows a store. For any number of requests and any contents of    *)
(* the rules table, the rule scheduler of modsrv: its subscription index   *)
(* follows the rules in force, and the rules follow the table unless       *)
(* requests overlapped or a load failed. For any keys, fields, values and  *)
(* bounds, the in-memory store of voltage-rtdb: it implements the abstract *)
(* one.                                                                    *)
(***************************************************************************)
EXTENDS RtdbMemory, RuleScheduler, FiniteSetTheorems, TLAPS

-----------------------------------------------------------------------------
(* voltage-rtdb: the in-memory store *)

USE RmKeysAssumption, RmBoundsAssumption

\* The content of an entry that was just written.
LEMMA TheOne == \A x : RmThe({x}) = x /\ RmOrEmpty({x}) = x
BY Zenon DEF RmThe, RmOrEmpty

\* The instance counts and restricts as the modules it takes that from.
LEMMA SameLibrary ==
    /\ \A S : RmStore!Cardinality(S) = Cardinality(S)
    /\ \A f, S : RmStore!Restrict(f, S) = Restrict(f, S)
BY Zenon DEF RmStore!Cardinality, Cardinality, RmStore!Restrict, Restrict

\* No entry reads as an empty collection.
LEMMA NoEntry == RmOrEmpty({}) = <<>>
BY Zenon DEF RmOrEmpty

\* The bounds that normalize_list_indices() returns.
LEMMA Normalized ==
    ASSUME NEW n \in Nat, NEW a \in Int, NEW b \in Int
    PROVE  LET i == NormalizeListIndices(n, a, b)
           IN  /\ i[1] \in 0 .. n /\ i[2] \in 0 .. n
               /\ \A j \in 1 .. n :
                     (IF a < 0 THEN n + a ELSE a) <= j - 1 /\ j - 1 <= (IF b < 0 THEN n + b ELSE b)
                       <=> j \in i[1] + 1 .. i[2]
BY DEF NormalizeListIndices, RmClamp

\* SubSeq, position by position.
LEMMA Window ==
    ASSUME NEW V, NEW s \in Seq(V), NEW p \in Nat, NEW q \in Nat, p < q, q <= Len(s)
    PROVE  [x \in 1 .. q - p |-> s[p + 1 + x - 1]] = SubSeq(s, p + 1, q)
<1> DEFINE w == SubSeq(s, p + 1, q)
<1>1. w \in Seq(V) /\ Len(w) = q - p
  OBVIOUS
<1>2. \A x \in 1 .. q - p : w[x] = s[p + 1 + x - 1]
  OBVIOUS
<1> HIDE DEF w
<1>3. w = [x \in 1 .. q - p |-> w[x]]
  BY <1>1
<1>4. [x \in 1 .. q - p |-> s[p + 1 + x - 1]] = [x \in 1 .. q - p |-> w[x]]
  BY <1>2, Zenon
<1> QED
  BY <1>3, <1>4, Zenon DEF w

\* The index arithmetic of list_range() and list_trim() selects the slice of LRANGE.
LEMMA SliceIsRange ==
    ASSUME NEW list \in Seq(RmVals), NEW a \in Int, NEW b \in Int
    PROVE  LET i == NormalizeListIndices(Len(list), a, b)
           IN  RmStore!RtSlice(list, a, b) = IF i[1] < i[2] THEN SubSeq(list, i[1] + 1, i[2]) ELSE <<>>
<1> DEFINE n == Len(list)
           i == NormalizeListIndices(n, a, b)
           in == {j \in 1 .. n : (IF a < 0 THEN n + a ELSE a) <= j - 1 /\ j - 1 <= (IF b < 0 THEN n + b ELSE b)}
           low == CHOOSE x \in in : \A j \in in : x <= j
<1>1. n \in Nat
  OBVIOUS
<1>2. i[1] \in 0 .. n /\ i[2] \in 0 .. n
  BY <1>1, Normalized, Zenon
<1>3. in = i[1] + 1 .. i[2]
  <2>1. \A j \in 1 .. n : j \in in <=> j \in i[1] + 1 .. i[2]
    BY <1>1, Normalized, Zenon
  <2> HIDE DEF i
  <2>2. i[1] + 1 .. i[2] \subseteq 1 .. n /\ in \subseteq 1 .. n
    BY <1>1, <1>2
  <2> HIDE DEF in
  <2> QED
    BY <2>1, <2>2, Zenon
<1>4. RmStore!RtSlice(list, a, b) = [x \in 1 .. Cardinality(in) |-> list[low + x - 1]]
  BY SameLibrary, Zenon DEF RmStore!RtSlice
<1> HIDE DEF i, in
<1>5. CASE i[1] < i[2]
  <2>1. Cardinality(in) = i[2] - i[1]
    <3>1. i[1] + 1 \in Int /\ i[2] \in Int /\ ~(i[1] + 1 > i[2])
      BY <1>2, <1>5
    <3>2. Cardinality(i[1] + 1 .. i[2]) = i[2] - (i[1] + 1) + 1
      BY <3>1, FS_Interval, Zenon
    <3> QED
      BY <1>2, <1>3, <3>2
  <2>2. low = i[1] + 1
    <3>1. i[1] + 1 \in in /\ \A j \in in : i[1] + 1 <= j
      BY <1>2, <1>3, <1>5
    <3>2. low \in in /\ \A j \in in : low <= j
      BY <3>1, Zenon
    <3> HIDE DEF low
    <3> QED
      BY <1>2, <1>3, <3>1, <3>2
  <2> HIDE DEF low
  <2>3. [x \in 1 .. i[2] - i[1] |-> list[i[1] + 1 + x - 1]] = SubSeq(list, i[1] + 1, i[2])
    <3>1. i[1] \in Nat /\ i[2] \in Nat /\ i[2] <= n
      BY <1>1, <1>2
    <3> QED
      BY <1>5, <3>1, Window, Zenon
  <2>4. RmStore!RtSlice(list, a, b) = SubSeq(list, i[1] + 1, i[2])
    <3>1. RmStore!RtSlice(list, a, b) = [x \in 1 .. i[2] - i[1] |-> list[i[1] + 1 + x - 1]]
      BY <1>4, <2>1, <2>2, Zenon
    <3> QED
      BY <2>3, <3>1, Zenon
  <2> QED
    BY <1>5, <2>4, Zenon DEF i
<1>6. CASE ~(i[1] < i[2])
  <2>1. in = {}
    BY <1>2, <1>3, <1>6
  <2>2. Cardinality(in) = 0
    BY <2>1, FS_EmptySet, Zenon
  <2> QED
    BY <1>4, <1>6, <2>2 DEF i
<1> QED
  BY <1>5, <1>6, Zenon

-----------------------------------------------------------------------------
Maps == UNION {[d -> RmVals] : d \in SUBSET RmFields}

\* What the refinement needs to know of the maps and the calls in progress.
RInv ==
    /\ rmStr = [k \in DOMAIN rmStr |-> rmStr[k]]
    /\ rmHash = [k \in DOMAIN rmHash |-> rmHash[k]]
    /\ rmList = [k \in DOMAIN rmList |-> rmList[k]]
    /\ rmSet = [k \in DOMAIN rmSet |-> rmSet[k]]
    /\ DOMAIN rmStr \cap (DOMAIN rmHash \cup DOMAIN rmList \cup DOMAIN rmSet) = {}
    /\ \A k \in DOMAIN rmHash : RmOrEmpty(rmHash[k]) \in Maps
    /\ \A k \in DOMAIN rmList : RmOrEmpty(rmList[k]) \in Seq(RmVals)
    /\ rmPipe \in Seq((DOMAIN rmHash) \X Maps)
    /\ rmWait \in {{}, {1}} /\ rmDrop = <<>>

Calls == rmPipe' = rmPipe /\ rmWait' = rmWait /\ rmDrop' = rmDrop

\* A hash that is empty, one of one field, and one written over another.
LEMMA MapsClosed ==
    /\ <<>> \in Maps
    /\ \A f \in RmFields, v \in RmVals : RmField(f, v) \in Maps /\ RmField(f, v) # <<>>
    /\ \A g, h \in Maps : RmPut(g, h) \in Maps
    /\ \A g \in Maps, S \in SUBSET RmFields : Restrict(g, DOMAIN g \ S) \in Maps
<1>1. <<>> \in Maps
  <2>1. <<>> \in [{} -> RmVals]
    OBVIOUS
  <2> QED
    BY <2>1, Zenon DEF Maps
<1>2. ASSUME NEW f \in RmFields, NEW v \in RmVals PROVE RmField(f, v) \in Maps /\ RmField(f, v) # <<>>
  <2>1. RmField(f, v) \in [{f} -> RmVals] /\ {f} \in SUBSET RmFields
    BY Zenon DEF RmField
  <2>2. DOMAIN RmField(f, v) = {f} /\ DOMAIN <<>> = {}
    BY DEF RmField
  <2> QED
    BY <2>1, <2>2, Zenon DEF Maps
<1>3. ASSUME NEW g \in Maps, NEW h \in Maps PROVE RmPut(g, h) \in Maps
  <2>1. PICK d \in SUBSET RmFields : g \in [d -> RmVals]
    BY Zenon DEF Maps
  <2>2. PICK e \in SUBSET RmFields : h \in [e -> RmVals]
    BY Zenon DEF Maps
  <2>3. RmPut(g, h) \in [d \cup e -> RmVals]
    BY <2>1, <2>2, Zenon DEF RmPut
  <2> QED
    BY <2>3, Zenon DEF Maps
<1>4. ASSUME NEW g \in Maps, NEW S \in SUBSET RmFields PROVE Restrict(g, DOMAIN g \ S) \in Maps
  <2>1. PICK d \in SUBSET RmFields : g \in [d -> RmVals]
    BY Zenon DEF Maps
  <2>2. Restrict(g, DOMAIN g \ S) \in [d \ S -> RmVals]
    BY <2>1, Zenon DEF Restrict
  <2> QED
    BY <2>2, Zenon DEF Maps
<1> QED
  BY <1>1, <1>2, <1>3, <1>4, Zenon

\* A call that only answers.
LEMMA Answered ==
    ASSUME NEW out, RmAnswer(out), RInv
    PROVE  /\ rmOut' = out /\ rmMaps' = rmMaps
           /\ Calls => RInv'
           /\ \A k \in DOMAIN rmStr : RmStore!RtPutStr(k, rmStr[k], out)
           /\ \A k \in DOMAIN rmHash : RmStore!RtPutHash(k, RmOrEmpty(rmHash[k]), out)
           /\ \A k \in DOMAIN rmList : RmStore!RtPutList(k, RmOrEmpty(rmList[k]), out)
           /\ \A k \in DOMAIN rmSet : RmStore!RtPutSet(k, RmMembers(k), out)
<1>1. rmOut' = out /\ rmStr' = rmStr /\ rmHash' = rmHash /\ rmList' = rmList /\ rmSet' = rmSet
  BY Zenon DEF RmAnswer, rmMaps
<1>2. Calls => RInv'
  BY <1>1, Zenon DEF Calls, RInv
<1>3. \A k \in DOMAIN rmStr : RmStore!RtPutStr(k, rmStr[k], out)
  BY <1>1 DEF RInv, RmStore!RtPutStr, RmMembers
<1>4. \A k \in DOMAIN rmHash : RmStore!RtPutHash(k, RmOrEmpty(rmHash[k]), out)
  BY <1>1, Zenon DEF RmStore!RtPutHash, RmMembers
<1>5. \A k \in DOMAIN rmList : RmStore!RtPutList(k, RmOrEmpty(rmList[k]), out)
  BY <1>1, Zenon DEF RmStore!RtPutList, RmMembers
<1>6. \A k \in DOMAIN rmSet : RmStore!RtPutSet(k, RmMembers(k), out)
  BY <1>1, Zenon DEF RmStore!RtPutSet, RmMembers
<1> QED
  BY <1>1, <1>2, <1>3, <1>4, <1>5, <1>6, Zenon DEF rmMaps

\* A call that writes one entry of a map.
LEMMA StrPut ==
    ASSUME RInv, NEW k \in DOMAIN rmStr, NEW v, NEW out, RmPutStr(k, v, out)
    PROVE  RmStore!RtPutStr(k, v, out) /\ (Calls => RInv')
<1>1. rmStr' = [rmStr EXCEPT ![k] = v] /\ rmOut' = out /\ rmHash' = rmHash /\ rmList' = rmList /\ rmSet' = rmSet
  BY Zenon DEF RmPutStr
<1>2. DOMAIN rmStr' = DOMAIN rmStr
  BY <1>1, Zenon
<1>3. RmStore!RtPutStr(k, v, out)
  BY <1>1, Zenon DEF RmStore!RtPutStr, RmMembers
<1>4. rmStr' = [j \in DOMAIN rmStr' |-> rmStr'[j]]
  BY <1>1, Zenon
<1> QED
  BY <1>1, <1>2, <1>3, <1>4 DEF RInv, Calls

LEMMA HashPut ==
    ASSUME RInv, NEW k \in DOMAIN rmHash, NEW v \in Maps, NEW out, NEW e,
           RmOrEmpty(e) = v, RmPutHash(k, e, out)
    PROVE  /\ RmStore!RtPutHash(k, v, out)
           /\ rmDrop' = rmDrop /\ rmWait' = rmWait /\ rmPipe' \in Seq((DOMAIN rmHash) \X Maps) => RInv'
<1>1. rmHash' = [rmHash EXCEPT ![k] = e] /\ rmOut' = out /\ rmStr' = rmStr /\ rmList' = rmList /\ rmSet' = rmSet
  BY Zenon DEF RmPutHash
<1>2. DOMAIN rmHash' = DOMAIN rmHash
  BY <1>1, Zenon
<1>3. \A j \in DOMAIN rmHash : rmHash'[j] = IF j = k THEN e ELSE rmHash[j]
  BY <1>1, Zenon
<1>4. \A j \in DOMAIN rmHash : RmOrEmpty(rmHash'[j]) = IF j = k THEN v ELSE RmOrEmpty(rmHash[j])
  BY <1>3, Zenon
<1>5. RmStore!RtPutHash(k, v, out)
  BY <1>1, <1>2, <1>4, Zenon DEF RmStore!RtPutHash, RmMembers
<1>6. rmHash' = [j \in DOMAIN rmHash' |-> rmHash'[j]]
  BY <1>1, Zenon
<1>7. ASSUME rmDrop' = rmDrop, rmWait' = rmWait, rmPipe' \in Seq((DOMAIN rmHash) \X Maps) PROVE RInv'
  <2>1. \A j \in DOMAIN rmHash' : RmOrEmpty(rmHash'[j]) \in Maps
    BY <1>2, <1>4, Zenon DEF RInv
  <2>2. rmPipe' \in Seq((DOMAIN rmHash') \X Maps)
    BY <1>2, <1>7, Zenon
  <2>3. /\ rmStr' = [j \in DOMAIN rmStr' |-> rmStr'[j]] /\ rmList' = [j \in DOMAIN rmList' |-> rmList'[j]]
        /\ rmSet' = [j \in DOMAIN rmSet' |-> rmSet'[j]]
        /\ \A j \in DOMAIN rmList' : RmOrEmpty(rmList'[j]) \in Seq(RmVals)
        /\ DOMAIN rmStr' \cap (DOMAIN rmHash' \cup DOMAIN rmList' \cup DOMAIN rmSet') = {}
        /\ rmWait' \in {{}, {1}} /\ rmDrop' = <<>>
    BY <1>1, <1>2, <1>7, SMTT(30) DEF RInv
  <2> QED
    BY <1>6, <2>1, <2>2, <2>3, Zenon DEF RInv
<1> QED
  BY <1>5, <1>7, Zenon

LEMMA ListPut ==
    ASSUME RInv, NEW k \in DOMAIN rmList, NEW v \in Seq(RmVals), NEW out, RmPutList(k, {v}, out)
    PROVE  /\ RmStore!RtPutList(k, v, out)
           /\ rmDrop' = rmDrop /\ rmPipe' = rmPipe /\ rmWait' \in {{}, {1}} => RInv'
<1>1. rmList' = [rmList EXCEPT ![k] = {v}] /\ rmOut' = out /\ rmStr' = rmStr /\ rmHash' = rmHash /\ rmSet' = rmSet
  BY Zenon DEF RmPutList
<1>2. DOMAIN rmList' = DOMAIN rmList
  BY <1>1, Zenon
<1>3. \A j \in DOMAIN rmList : RmOrEmpty(rmList'[j]) = IF j = k THEN v ELSE RmOrEmpty(rmList[j])
  BY <1>1, TheOne, Zenon
<1>4. RmStore!RtPutList(k, v, out)
  BY <1>1, <1>2, <1>3, Zenon DEF RmStore!RtPutList, RmMembers
<1>5. rmList' = [j \in DOMAIN rmList' |-> rmList'[j]]
  BY <1>1, Zenon
<1>6. ASSUME rmDrop' = rmDrop, rmPipe' = rmPipe, rmWait' \in {{}, {1}} PROVE RInv'
  <2>1. \A j \in DOMAIN rmList' : RmOrEmpty(rmList'[j]) \in Seq(RmVals)
    BY <1>2, <1>3, Zenon DEF RInv
  <2>2. /\ rmStr' = [j \in DOMAIN rmStr' |-> rmStr'[j]] /\ rmHash' = [j \in DOMAIN rmHash' |-> rmHash'[j]]
        /\ rmSet' = [j \in DOMAIN rmSet' |-> rmSet'[j]]
        /\ \A j \in DOMAIN rmHash' : RmOrEmpty(rmHash'[j]) \in Maps
        /\ DOMAIN rmStr' \cap (DOMAIN rmHash' \cup DOMAIN rmList' \cup DOMAIN rmSet') = {}
        /\ rmPipe' \in Seq((DOMAIN rmHash') \X Maps) /\ rmDrop' = <<>>
    BY <1>1, <1>2, <1>6, SMTT(30) DEF RInv
  <2> QED
    BY <1>5, <1>6, <2>1, <2>2, Zenon DEF RInv
<1> QED
  BY <1>4, <1>6, Zenon

LEMMA SetPut ==
    ASSUME RInv, NEW k \in DOMAIN rmSet, NEW v, NEW out, NEW e,
           (IF e = {} THEN {} ELSE RmThe(e)) = v, RmPutSet(k, e, out), Calls
    PROVE  RmStore!RtPutSet(k, v, out) /\ RInv'
<1>1. rmSet' = [rmSet EXCEPT ![k] = e] /\ rmOut' = out /\ rmStr' = rmStr /\ rmHash' = rmHash /\ rmList' = rmList
  BY Zenon DEF RmPutSet
<1>2. DOMAIN rmSet' = DOMAIN rmSet
  BY <1>1, Zenon
<1>3. \A j \in DOMAIN rmSet : RmMembers(j)' = IF j = k THEN v ELSE RmMembers(j)
  BY <1>1, Zenon DEF RmMembers
<1>4. RmStore!RtPutSet(k, v, out)
  BY <1>1, <1>2, <1>3, Zenon DEF RmStore!RtPutSet
<1>5. rmSet' = [j \in DOMAIN rmSet' |-> rmSet'[j]]
  BY <1>1, Zenon
<1> QED
  BY <1>1, <1>2, <1>4, <1>5 DEF RInv, Calls

-----------------------------------------------------------------------------
\* The calls on strings.
LEMMA StringCalls ==
    ASSUME RInv, RmLoose = {}, Calls,
           RmGet \/ RmSetCall \/ RmIncrbyfloat \/ RmDel \/ RmExists \/ RmScanMatch
    PROVE  RmStore!RtNext /\ RInv'
<1>1. CASE RmGet
  <2>1. PICK k \in DOMAIN rmStr : RmAnswer(<<"get", k, rmStr[k]>>)
    BY <1>1, Zenon DEF RmGet
  <2>2. RmStore!RtPutStr(k, rmStr[k], <<"get", k, rmStr[k]>>) /\ RInv'
    BY <2>1, Answered, Zenon
  <2> QED
    BY <2>2, Zenon DEF RmStore!RtNext, RmStore!RtGet
<1>2. CASE RmSetCall
  <2>1. PICK k \in DOMAIN rmStr, v \in RmVals : RmPutStr(k, {v}, <<"set", k, v>>)
    BY <1>2, Zenon DEF RmSetCall
  <2>2. RmStore!RtPutStr(k, {v}, <<"set", k, v>>) /\ RInv'
    BY <2>1, StrPut, Zenon
  <2> QED
    BY <2>2, Zenon DEF RmStore!RtNext, RmStore!RtSetCmd
<1>3. CASE RmIncrbyfloat
  <2> DEFINE n(k, d) == (IF rmStr[k] = {} THEN 0 ELSE CHOOSE v \in rmStr[k] : TRUE) + d
  <2>1. PICK k \in DOMAIN rmStr, d \in RmVals :
            n(k, d) \in RmVals /\ RmPutStr(k, {n(k, d)}, <<"incr", k, d, n(k, d)>>)
    BY <1>3, Zenon DEF RmIncrbyfloat, RmThe
  <2>2. RmStore!RtPutStr(k, {n(k, d)}, <<"incr", k, d, n(k, d)>>) /\ RInv'
    BY <2>1, StrPut, Zenon
  <2>3. RmStore!RtIncr
    BY <2>1, <2>2, Zenon DEF RmStore!RtIncr
  <2> QED
    BY <2>2, <2>3, Zenon DEF RmStore!RtNext
<1>4. ASSUME NEW k \in DOMAIN rmStr PROVE RmStore!RtHas(k) = (rmStr[k] # {})
  BY Zenon DEF RInv, RmStore!RtHas
<1>5. CASE RmDel
  <2>1. PICK k \in DOMAIN rmStr : RmPutStr(k, {}, <<"del", k, rmStr[k] # {}>>)
    BY <1>5, Zenon DEF RmDel, RmAddressed
  <2>2. RmStore!RtPutStr(k, {}, <<"del", k, RmStore!RtHas(k)>>) /\ RInv'
    BY <2>1, <1>4, StrPut, Zenon
  <2>3. RmStore!RtDel
    <3>1. k \in RmStore!RtAllKeys
      BY Zenon DEF RmStore!RtAllKeys
    <3>2. k \notin DOMAIN rmHash /\ k \notin DOMAIN rmList /\ k \notin DOMAIN rmSet
      BY Zenon DEF RInv
    <3> QED
      BY <2>2, <3>1, <3>2, Zenon DEF RmStore!RtDel
  <2> QED
    BY <2>2, <2>3, Zenon DEF RmStore!RtNext
<1>6. CASE RmExists
  <2>1. PICK k \in DOMAIN rmStr : RmAnswer(<<"exists", k, rmStr[k] # {}>>)
    BY <1>6, Zenon DEF RmExists, RmAddressed
  <2>2. rmOut' = <<"exists", k, RmStore!RtHas(k)>> /\ rmMaps' = rmMaps /\ RInv'
    BY <2>1, <1>4, Answered, Zenon
  <2>3. RmStore!RtExists
    BY <2>2, Zenon DEF RmStore!RtExists, RmStore!RtAllKeys, rmMaps, RmMembers
  <2> QED
    BY <2>2, <2>3, Zenon DEF RmStore!RtNext
<1>7. CASE RmScanMatch
  BY <1>7, Zenon DEF RmScanMatch
<1> QED
  BY <1>1, <1>2, <1>3, <1>5, <1>6, <1>7, Zenon

\* The calls on hashes that take one step.
LEMMA HashCalls ==
    ASSUME RInv, Calls,
           RmHashSet \/ RmHashSetnx \/ RmHashMget \/ RmHashGetAll \/ RmHincrby \/ RmHashDel \/ RmHashMset
    PROVE  RmStore!RtNext /\ RInv'
<1> DEFINE H(k) == RmOrEmpty(rmHash[k])
           M == [k \in DOMAIN rmHash |-> RmOrEmpty(rmHash[k])]
           Over(k, f, v) == [x \in DOMAIN M[k] \cup {f} |-> IF x = f THEN v ELSE M[k][x]]
<1>0. /\ \A k \in DOMAIN rmHash : H(k) \in Maps
      /\ rmDrop' = rmDrop /\ rmWait' = rmWait /\ rmPipe' \in Seq((DOMAIN rmHash) \X Maps)
  BY Zenon DEF RInv, Calls
<1>p. ASSUME NEW k \in DOMAIN rmHash, NEW v \in Maps, NEW out, RmPutHash(k, {v}, out)
      PROVE  RmStore!RtPutHash(k, v, out) /\ RInv'
  BY <1>0, <1>p, HashPut, TheOne, Zenon
<1>f. ASSUME NEW k \in DOMAIN rmHash, NEW f, NEW v PROVE RmPut(H(k), RmField(f, v)) = Over(k, f, v)
  <2>1. M[k] = H(k)
    BY Zenon
  <2> HIDE DEF M, H
  <2> QED
    BY <2>1, Zenon DEF RmPut, RmField
<1>1. CASE RmHashSet
  <2>1. PICK k \in DOMAIN rmHash, f \in RmFields, v \in RmVals :
            RmPutHash(k, {RmPut(H(k), RmField(f, v))}, <<"hset", k, f, v>>)
    BY <1>1, Zenon DEF RmHashSet
  <2>2. RmStore!RtPutHash(k, RmPut(H(k), RmField(f, v)), <<"hset", k, f, v>>) /\ RInv'
    BY <1>0, <1>p, <2>1, MapsClosed, Zenon
  <2>3. RmStore!RtPutHash(k, Over(k, f, v), <<"hset", k, f, v>>)
    <3> HIDE DEF H, M, Over
    <3> QED
      BY <1>f, <2>2, Zenon
  <2>4. RmStore!RtHset
    BY <2>3, Zenon DEF RmStore!RtHset
  <2> QED
    BY <2>2, <2>4, Zenon DEF RmStore!RtNext
<1>2. CASE RmHashSetnx
  <2>1. PICK k \in DOMAIN rmHash, f \in RmFields, v \in RmVals :
            IF f \in DOMAIN H(k) THEN RmPutHash(k, {H(k)}, <<"hsetnx", k, f, v, FALSE>>)
            ELSE RmPutHash(k, {RmPut(H(k), RmField(f, v))}, <<"hsetnx", k, f, v, TRUE>>)
    BY <1>2, Zenon DEF RmHashSetnx
  <2> DEFINE old == f \in DOMAIN M[k]
             new == [x \in DOMAIN M[k] \cup {f} |-> IF x = f /\ ~old THEN v ELSE M[k][x]]
  <2>2. M[k] = H(k)
    BY Zenon
  <2>3. CASE old
    <3>1. PICK d \in SUBSET RmFields : M[k] \in [d -> RmVals]
      BY <1>0, <2>2, Zenon DEF Maps
    <3> HIDE DEF M
    <3>2. new = M[k]
      BY <2>3, <3>1, Zenon
    <3>3. RmStore!RtPutHash(k, M[k], <<"hsetnx", k, f, v, FALSE>>) /\ RInv'
      BY <1>0, <1>p, <2>1, <2>2, <2>3, Zenon
    <3>4. (~old) = FALSE
      BY <2>3, Zenon
    <3>5. RmStore!RtPutHash(k, new, <<"hsetnx", k, f, v, ~old>>)
      <4> HIDE DEF new, old
      <4> QED
        BY <3>2, <3>3, <3>4, Zenon
    <3> QED
      BY <3>3, <3>5, Zenon DEF RmStore!RtHsetnx, RmStore!RtNext, M
  <2>4. CASE ~old
    <3>1. new = Over(k, f, v)
      <4> HIDE DEF M
      <4> QED
        BY <2>4, Zenon
    <3>2. RmStore!RtPutHash(k, Over(k, f, v), <<"hsetnx", k, f, v, TRUE>>) /\ RInv'
      <4>1. RmPutHash(k, {RmPut(H(k), RmField(f, v))}, <<"hsetnx", k, f, v, TRUE>>)
        BY <2>1, <2>2, <2>4, Zenon
      <4> HIDE DEF H, M, Over, old, new
      <4>2. RmPut(H(k), RmField(f, v)) \in Maps
        BY <1>0, MapsClosed, Zenon
      <4>3. RmPut(H(k), RmField(f, v)) = Over(k, f, v)
        BY <1>f, Zenon
      <4> QED
        BY <1>p, <4>1, <4>2, <4>3, Zenon
    <3>3. (~old) = TRUE
      BY <2>4, Zenon
    <3>4. RmStore!RtPutHash(k, new, <<"hsetnx", k, f, v, ~old>>)
      <4> HIDE DEF new, old, Over
      <4> QED
        BY <3>1, <3>2, <3>3, Zenon
    <3> QED
      BY <3>2, <3>4, Zenon DEF RmStore!RtHsetnx, RmStore!RtNext
  <2> QED
    BY <2>3, <2>4, Zenon
<1>3. CASE RmHashMget
  <2> DEFINE old(k) == IF rmHash[k] = {} THEN [f \in RmFields |-> {}]
                       ELSE [f \in RmFields |-> {RmThe(rmHash[k])[x] : x \in {f} \cap DOMAIN RmThe(rmHash[k])}]
             new(k) == [f \in RmFields |-> IF f \in DOMAIN H(k) THEN {H(k)[f]} ELSE {}]
  <2>1. PICK k \in DOMAIN rmHash : RmAnswer(<<"hmget", k, old(k)>>)
    BY <1>3, Zenon DEF RmHashMget
  <2>2. old(k) = new(k)
    <3>1. CASE rmHash[k] = {}
      BY <3>1, NoEntry
    <3>2. CASE rmHash[k] # {}
      <4>1. H(k) = RmThe(rmHash[k])
        BY <3>2, Zenon DEF RmOrEmpty
      <4>2. \A f : {H(k)[x] : x \in {f} \cap DOMAIN H(k)} = IF f \in DOMAIN H(k) THEN {H(k)[f]} ELSE {}
        BY Zenon
      <4>3. old(k) = [f \in RmFields |-> {H(k)[x] : x \in {f} \cap DOMAIN H(k)}]
        BY <3>2, <4>1, Zenon
      <4> HIDE DEF H
      <4> QED
        BY <4>2, <4>3, Zenon
    <3> QED
      BY <3>1, <3>2, Zenon
  <2>3. RmStore!RtPutHash(k, H(k), <<"hmget", k, new(k)>>) /\ RInv'
    BY <2>1, <2>2, Answered, Zenon
  <2>4. RmStore!RtHmget
    BY <2>3, Zenon DEF RmStore!RtHmget
  <2> QED
    BY <2>3, <2>4, Zenon DEF RmStore!RtNext
<1>4. CASE RmHashGetAll
  <2>1. PICK k \in DOMAIN rmHash : RmAnswer(<<"hgetall", k, H(k)>>)
    BY <1>4, Zenon DEF RmHashGetAll
  <2>2. RmStore!RtPutHash(k, H(k), <<"hgetall", k, H(k)>>) /\ RInv'
    BY <2>1, Answered, Zenon
  <2>3. RmStore!RtHgetall
    BY <2>2, Zenon DEF RmStore!RtHgetall
  <2> QED
    BY <2>2, <2>3, Zenon DEF RmStore!RtNext
<1>5. CASE RmHincrby
  <2> DEFINE n(k, f, d) == (IF f \in DOMAIN H(k) THEN H(k)[f] ELSE 0) + d
  <2>1. PICK k \in DOMAIN rmHash, f \in RmFields, d \in RmVals :
            /\ n(k, f, d) \in RmVals
            /\ RmPutHash(k, {RmPut(H(k), RmField(f, n(k, f, d)))}, <<"hincr", k, f, d, n(k, f, d)>>)
    BY <1>5, Zenon DEF RmHincrby
  <2>2. RmStore!RtPutHash(k, RmPut(H(k), RmField(f, n(k, f, d))), <<"hincr", k, f, d, n(k, f, d)>>) /\ RInv'
    BY <1>0, <1>p, <2>1, MapsClosed, Zenon
  <2>3. RmStore!RtPutHash(k, Over(k, f, n(k, f, d)), <<"hincr", k, f, d, n(k, f, d)>>)
    <3> HIDE DEF H, M, Over, n
    <3> QED
      BY <1>f, <2>2, Zenon
  <2>4. RmStore!RtHincr
    BY <2>1, <2>3, Zenon DEF RmStore!RtHincr
  <2> QED
    BY <2>2, <2>4, Zenon DEF RmStore!RtNext
<1>6. CASE RmHashDel
  <2>1. PICK k \in DOMAIN rmHash, f \in RmFields :
            RmPutHash(k, IF rmHash[k] = {} THEN {} ELSE {Restrict(H(k), DOMAIN H(k) \ {f})},
                      <<"hdel", k, {f}, Cardinality({f} \cap DOMAIN H(k))>>)
    BY <1>6, Zenon DEF RmHashDel
  <2> DEFINE e == IF rmHash[k] = {} THEN {} ELSE {Restrict(H(k), DOMAIN H(k) \ {f})}
             v == Restrict(H(k), DOMAIN H(k) \ {f})
  <2>2. RmOrEmpty(e) = v
    <3>1. CASE rmHash[k] = {}
      <4>1. H(k) = <<>>
        BY <3>1, NoEntry, Zenon
      <4>2. v = <<>>
        BY <4>1 DEF Restrict
      <4> QED
        BY <3>1, <4>2, NoEntry, Zenon
    <3>2. CASE rmHash[k] # {}
      BY <3>2, TheOne, Zenon
    <3> QED
      BY <3>1, <3>2, Zenon
  <2>3. v \in Maps
    BY <1>0, MapsClosed, Zenon
  <2>4. RmStore!RtPutHash(k, v, <<"hdel", k, {f}, Cardinality({f} \cap DOMAIN H(k))>>) /\ RInv'
    BY <1>0, <2>1, <2>2, <2>3, HashPut, SMTT(30)
  <2>5. {f} \in SUBSET RmFields /\ {f} # {}
    BY Zenon
  <2>6. RmStore!RtPutHash(k, RmStore!Restrict(M[k], DOMAIN M[k] \ {f}),
                            <<"hdel", k, {f}, RmStore!Cardinality({f} \cap DOMAIN M[k])>>)
    <3>1. M[k] = H(k)
      BY Zenon
    <3> HIDE DEF H, M
    <3> QED
      BY <2>4, <3>1, SameLibrary, Zenon
  <2>7. RmStore!RtHdel
    BY <2>5, <2>6, Zenon DEF RmStore!RtHdel
  <2> QED
    BY <2>4, <2>7, Zenon DEF RmStore!RtNext
<1>7. CASE RmHashMset
  <2>1. PICK k \in DOMAIN rmHash, m \in UNION {[d -> RmVals] : d \in (SUBSET RmFields) \ {{}}} :
            RmPutHash(k, {RmPut(H(k), m)}, <<"hmset", k, m>>)
    BY <1>7, Zenon DEF RmHashMset
  <2>2. m \in Maps /\ m # <<>>
    <3>1. PICK d \in (SUBSET RmFields) \ {{}} : m \in [d -> RmVals]
      BY Zenon
    <3>2. d # {} /\ d \in SUBSET RmFields
      BY Zenon
    <3>4. DOMAIN m = d /\ DOMAIN <<>> = {}
      BY <3>1
    <3>3. m \in Maps
      BY <3>1, <3>2, Zenon DEF Maps
    <3> QED
      BY <3>2, <3>3, <3>4, Zenon
  <2>3. RmStore!RtPutHash(k, RmPut(H(k), m), <<"hmset", k, m>>) /\ RInv'
    BY <1>0, <1>p, <2>1, <2>2, MapsClosed, Zenon
  <2>4. RmStore!RtHmset
    BY <2>2, <2>3, Zenon DEF RmStore!RtHmset, RmStore!RtMaps, RmStore!RtEmpty, Maps, RmPut
  <2> QED
    BY <2>3, <2>4, Zenon DEF RmStore!RtNext
<1> QED
  BY <1>1, <1>2, <1>3, <1>4, <1>5, <1>6, <1>7, SMTT(30)

\* The calls on lists that take one step.
LEMMA ListCalls ==
    ASSUME RInv, Calls, RmListPush \/ RmListLpop \/ RmListRpop \/ RmListRange \/ RmListTrim
    PROVE  RmStore!RtNext /\ RInv'
<1> DEFINE L(k) == RmOrEmpty(rmList[k])
           M == [k \in DOMAIN rmList |-> RmOrEmpty(rmList[k])]
<1>0. \A k \in DOMAIN rmList : L(k) \in Seq(RmVals) /\ M[k] = L(k)
  BY Zenon DEF RInv
<1>p. ASSUME NEW k \in DOMAIN rmList, NEW v \in Seq(RmVals), NEW out, RmPutList(k, {v}, out)
      PROVE  RmStore!RtPutList(k, v, out) /\ RInv'
  BY <1>p, ListPut, Zenon DEF RInv, Calls
<1>a. ASSUME NEW k \in DOMAIN rmList, NEW out, RmAnswer(out)
      PROVE  RmStore!RtPutList(k, L(k), out) /\ RInv'
  BY <1>a, Answered, Zenon
<1>1. CASE RmListPush
  <2>1. PICK k \in DOMAIN rmList, v \in RmVals :
            /\ Len(L(k)) < RmMax
            /\ \/ RmPutList(k, {<<v>> \o L(k)}, <<"lpush", k, v>>)
               \/ RmPutList(k, {Append(L(k), v)}, <<"rpush", k, v>>)
    BY <1>1, Zenon DEF RmListPush
  <2>2. <<v>> \o L(k) \in Seq(RmVals) /\ Append(L(k), v) \in Seq(RmVals)
    <3> HIDE DEF L, M
    <3> QED
      BY <1>0
  <2>3. /\ \/ RmStore!RtPutList(k, <<v>> \o M[k], <<"lpush", k, v>>)
           \/ RmStore!RtPutList(k, Append(M[k], v), <<"rpush", k, v>>)
        /\ RInv'
    <3> HIDE DEF L, M
    <3> QED
      BY <1>0, <1>p, <2>1, <2>2, Zenon
  <2>4. Len(M[k]) < RmMax
    BY <1>0, <2>1, Zenon
  <2>5. RmStore!RtPush
    BY <2>3, <2>4, Zenon DEF RmStore!RtPush
  <2> QED
    BY <2>3, <2>5, Zenon DEF RmStore!RtNext
<1>2. CASE RmListLpop
  <2>1. PICK k \in DOMAIN rmList :
            IF L(k) = <<>> THEN RmAnswer(<<"lpop", k, {}>>)
            ELSE RmPutList(k, {Tail(L(k))}, <<"lpop", k, {Head(L(k))}>>)
    BY <1>2, Zenon DEF RmListLpop
  <2>2. /\ IF M[k] = <<>> THEN RmStore!RtPutList(k, <<>>, <<"lpop", k, {}>>)
           ELSE RmStore!RtPutList(k, Tail(M[k]), <<"lpop", k, {Head(M[k])}>>)
        /\ RInv'
    <3> HIDE DEF L, M
    <3>1. CASE L(k) = <<>>
      BY <1>0, <1>a, <2>1, <3>1, Zenon
    <3>2. CASE L(k) # <<>>
      <4>1. Tail(L(k)) \in Seq(RmVals)
        BY <1>0, <3>2
      <4> QED
        BY <1>0, <1>p, <2>1, <3>2, <4>1, Zenon
    <3> QED
      BY <3>1, <3>2, Zenon
  <2>3. RmStore!RtLpop
    BY <2>2, Zenon DEF RmStore!RtLpop
  <2> QED
    BY <2>2, <2>3, Zenon DEF RmStore!RtNext
<1>3. CASE RmListRpop
  <2>1. PICK k \in DOMAIN rmList :
            IF Len(L(k)) = 0 THEN RmAnswer(<<"rpop", k, {}>>)
            ELSE RmPutList(k, {SubSeq(L(k), 1, Len(L(k)) - 1)}, <<"rpop", k, {L(k)[Len(L(k))]}>>)
    BY <1>3, Zenon DEF RmListRpop
  <2>2. /\ IF Len(M[k]) = 0 THEN RmStore!RtPutList(k, <<>>, <<"rpop", k, {}>>)
           ELSE RmStore!RtPutList(k, SubSeq(M[k], 1, Len(M[k]) - 1), <<"rpop", k, {M[k][Len(M[k])]}>>)
        /\ RInv'
    <3> HIDE DEF L, M
    <3>1. CASE Len(L(k)) = 0
      <4>1. L(k) = <<>>
        BY <1>0, <3>1
      <4> QED
        BY <1>0, <1>a, <2>1, <3>1, <4>1, Zenon
    <3>2. CASE Len(L(k)) # 0
      <4>1. SubSeq(L(k), 1, Len(L(k)) - 1) \in Seq(RmVals)
        BY <1>0, <3>2
      <4> QED
        BY <1>0, <1>p, <2>1, <3>2, <4>1, Zenon
    <3> QED
      BY <3>1, <3>2, Zenon
  <2>3. RmStore!RtRpop
    BY <2>2, Zenon DEF RmStore!RtRpop
  <2> QED
    BY <2>2, <2>3, Zenon DEF RmStore!RtNext
<1> DEFINE S(k, a, b) == LET i == NormalizeListIndices(Len(L(k)), a, b)
                         IN  IF i[1] < i[2] THEN SubSeq(L(k), i[1] + 1, i[2]) ELSE <<>>
<1>s. ASSUME NEW k \in DOMAIN rmList, NEW a \in RmBounds, NEW b \in RmBounds
      PROVE  RmStore!RtSlice(M[k], a, b) = S(k, a, b) /\ S(k, a, b) \in Seq(RmVals)
  <2> DEFINE i == NormalizeListIndices(Len(L(k)), a, b)
  <2>1. a \in Int /\ b \in Int /\ L(k) \in Seq(RmVals) /\ M[k] = L(k) /\ Len(L(k)) \in Nat
    BY <1>0
  <2>2. i[1] \in 0 .. Len(L(k)) /\ i[2] \in 0 .. Len(L(k))
    <3> HIDE DEF L, M
    <3> QED
      BY <2>1, Normalized, Zenon
  <2>3. RmStore!RtSlice(L(k), a, b) = S(k, a, b)
    <3> HIDE DEF L, M
    <3> QED
      BY <2>1, SliceIsRange, Zenon
  <2>4. S(k, a, b) \in Seq(RmVals)
    <3> HIDE DEF L, M, i
    <3>1. S(k, a, b) = IF i[1] < i[2] THEN SubSeq(L(k), i[1] + 1, i[2]) ELSE <<>>
      BY Zenon DEF i
    <3> HIDE DEF S
    <3> QED
      BY <2>1, <2>2, <3>1, SMTT(30)
  <2> HIDE DEF L, M, S
  <2> QED
    BY <2>1, <2>3, <2>4, Zenon
<1>4. CASE RmListRange
  <2>1. PICK k \in DOMAIN rmList, a \in RmBounds, b \in RmBounds : RmAnswer(<<"lrange", k, a, b, S(k, a, b)>>)
    BY <1>4, Zenon DEF RmListRange
  <2>2. RmStore!RtPutList(k, M[k], <<"lrange", k, a, b, RmStore!RtSlice(M[k], a, b)>>) /\ RInv'
    <3> HIDE DEF L, M, S
    <3> QED
      BY <1>0, <1>a, <1>s, <2>1, Zenon
  <2>3. RmStore!RtLrange
    BY <2>2, Zenon DEF RmStore!RtLrange
  <2> QED
    BY <2>2, <2>3, Zenon DEF RmStore!RtNext
<1>5. CASE RmListTrim
  <2> DEFINE i(k, a, b) == NormalizeListIndices(Len(RmThe(rmList[k])), a, b)
             T(k, a, b) == IF i(k, a, b)[1] < i(k, a, b)[2] /\ i(k, a, b)[2] <= Len(RmThe(rmList[k]))
                           THEN SubSeq(RmThe(rmList[k]), i(k, a, b)[1] + 1, i(k, a, b)[2]) ELSE <<>>
  <2>1. PICK k \in DOMAIN rmList, a \in RmBounds, b \in RmBounds :
            IF rmList[k] = {} THEN RmAnswer(<<"ltrim", k, a, b>>)
            ELSE RmPutList(k, {T(k, a, b)}, <<"ltrim", k, a, b>>)
    BY <1>5, Zenon DEF RmListTrim
  <2>2. RmStore!RtPutList(k, S(k, a, b), <<"ltrim", k, a, b>>) /\ RInv'
    <3>1. CASE rmList[k] = {}
      <4>1. L(k) = <<>>
        BY <3>1, NoEntry, Zenon
      <4>2. S(k, a, b) = L(k)
        <5> DEFINE j == NormalizeListIndices(Len(L(k)), a, b)
        <5>1. a \in Int /\ b \in Int /\ Len(L(k)) = 0
          BY <4>1, Zenon
        <5>2. NormalizeListIndices(0, a, b)[1] \in 0 .. 0 /\ NormalizeListIndices(0, a, b)[2] \in 0 .. 0
          <6>1. 0 \in Nat
            BY Zenon
          <6> QED
            BY <5>1, <6>1, Normalized, Zenon
        <5>3. ~(j[1] < j[2])
          <6> HIDE DEF L
          <6> QED
            BY <5>1, <5>2, SMTT(30)
        <5> QED
          BY <4>1, <5>3, Zenon
      <4> HIDE DEF L, M, S, T
      <4> QED
        BY <1>a, <2>1, <3>1, <4>2, Zenon
    <3>2. CASE rmList[k] # {}
      <4>1. L(k) = RmThe(rmList[k])
        BY <3>2, Zenon DEF RmOrEmpty
      <4>2. i(k, a, b)[2] <= Len(L(k))
        <5>0. L(k) \in Seq(RmVals)
          BY <1>0, Zenon
        <5>1. a \in Int /\ b \in Int /\ Len(L(k)) \in Nat
          <6>1. a \in Int /\ b \in Int
            BY <2>1, Zenon
          <6>2. \A s \in Seq(RmVals) : Len(s) \in Nat
            OBVIOUS
          <6> QED
            BY <5>0, <6>1, <6>2, Zenon
        <5>2. NormalizeListIndices(Len(L(k)), a, b)[2] \in 0 .. Len(L(k))
          <6> HIDE DEF L, M
          <6> QED
            BY <5>1, Normalized, Zenon
        <5> HIDE DEF L
        <5> QED
          BY <4>1, <5>1, <5>2
      <4>3. T(k, a, b) = S(k, a, b)
        <5> HIDE DEF L
        <5> QED
          BY <4>1, <4>2, Zenon
      <4> HIDE DEF L, M, S, T
      <4> QED
        BY <1>p, <1>s, <2>1, <3>2, <4>3, Zenon
    <3> QED
      BY <3>1, <3>2, Zenon
  <2>3. RmStore!RtPutList(k, RmStore!RtSlice(M[k], a, b), <<"ltrim", k, a, b>>)
    <3> HIDE DEF L, M, S
    <3> QED
      BY <1>s, <2>2, Zenon
  <2>4. RmStore!RtLtrim
    BY <2>3, Zenon DEF RmStore!RtLtrim
  <2> QED
    BY <2>2, <2>4, Zenon DEF RmStore!RtNext
<1> QED
  BY <1>1, <1>2, <1>3, <1>4, <1>5, Zenon

\* The calls on sets.
LEMMA SetCalls ==
    ASSUME RInv, Calls, RmSadd \/ RmSrem \/ RmSmembers
    PROVE  RmStore!RtNext /\ RInv'
<1> DEFINE M == [k \in DOMAIN rmSet |-> RmMembers(k)]
<1>1. CASE RmSadd
  <2>1. PICK k \in DOMAIN rmSet, m \in RmFields :
            RmPutSet(k, {RmMembers(k) \cup {m}}, <<"sadd", k, m, m \notin RmMembers(k)>>)
    BY <1>1, Zenon DEF RmSadd
  <2>2. (IF {RmMembers(k) \cup {m}} = {} THEN {} ELSE RmThe({RmMembers(k) \cup {m}})) = RmMembers(k) \cup {m}
    BY TheOne, Zenon
  <2>3. RmStore!RtPutSet(k, RmMembers(k) \cup {m}, <<"sadd", k, m, m \notin RmMembers(k)>>) /\ RInv'
    BY <2>1, <2>2, SetPut, Zenon
  <2>4. RmStore!RtSadd
    BY <2>3, Zenon DEF RmStore!RtSadd
  <2> QED
    BY <2>3, <2>4, Zenon DEF RmStore!RtNext
<1>2. CASE RmSrem
  <2>1. PICK k \in DOMAIN rmSet, m \in RmFields :
            RmPutSet(k, IF rmSet[k] = {} THEN {} ELSE {RmMembers(k) \ {m}}, <<"srem", k, m, m \in RmMembers(k)>>)
    BY <1>2, Zenon DEF RmSrem
  <2> DEFINE e == IF rmSet[k] = {} THEN {} ELSE {RmMembers(k) \ {m}}
  <2>2. (IF e = {} THEN {} ELSE RmThe(e)) = RmMembers(k) \ {m}
    <3>1. CASE rmSet[k] = {}
      BY <3>1, Zenon DEF RmMembers
    <3>2. CASE rmSet[k] # {}
      BY <3>2, TheOne, Zenon
    <3> QED
      BY <3>1, <3>2, Zenon
  <2>3. RmStore!RtPutSet(k, RmMembers(k) \ {m}, <<"srem", k, m, m \in RmMembers(k)>>) /\ RInv'
    <3> HIDE DEF e
    <3>1. RmPutSet(k, e, <<"srem", k, m, m \in RmMembers(k)>>)
      BY <2>1, Zenon DEF e
    <3> QED
      BY <2>2, <3>1, SetPut, Zenon
  <2>4. RmStore!RtSrem
    BY <2>3, Zenon DEF RmStore!RtSrem
  <2> QED
    BY <2>3, <2>4, Zenon DEF RmStore!RtNext
<1>3. CASE RmSmembers
  <2>1. PICK k \in DOMAIN rmSet : RmAnswer(<<"smembers", k, RmMembers(k)>>)
    BY <1>3, Zenon DEF RmSmembers
  <2>2. RmStore!RtPutSet(k, RmMembers(k), <<"smembers", k, RmMembers(k)>>) /\ RInv'
    BY <2>1, Answered, Zenon
  <2>3. RmStore!RtSmembers
    BY <2>2, Zenon DEF RmStore!RtSmembers
  <2> QED
    BY <2>2, <2>3, Zenon DEF RmStore!RtNext
<1> QED
  BY <1>1, <1>2, <1>3, Zenon

\* The calls of several steps, each step seen as one command or none: a pipeline is
\* one HMSET per key with fields, a blocking pop is the poll that ends it.
LEMMA LongCalls ==
    ASSUME RInv, RmLoose = {},
           RmHashDelMany \/ RmHashDelNext \/ RmPipelineHashMset \/ RmPipelineNext \/ RmListBlpop \/ RmBlpopPoll
    PROVE  (RmStore!RtNext \/ UNCHANGED RmStore!rtVars) /\ RInv'
<1>u. ASSUME rmStr' = rmStr, rmHash' = rmHash, rmList' = rmList, rmSet' = rmSet, rmOut' = rmOut
      PROVE  UNCHANGED RmStore!rtVars
  BY <1>u, Zenon DEF RmStore!rtVars, RmMembers
<1>k. ASSUME rmStr' = rmStr, rmHash' = rmHash, rmList' = rmList, rmSet' = rmSet, rmDrop' = rmDrop,
             rmPipe' \in Seq((DOMAIN rmHash) \X Maps), rmWait' \in {{}, {1}}
      PROVE  RInv'
  BY <1>k, SMTT(30) DEF RInv
<1>1. CASE RmHashDelMany \/ RmHashDelNext
  BY <1>1, Zenon DEF RmHashDelMany, RmHashDelNext, RInv
<1>2. CASE RmPipelineHashMset
  <2>1. /\ rmStr' = rmStr /\ rmHash' = rmHash /\ rmList' = rmList /\ rmSet' = rmSet /\ rmOut' = rmOut
        /\ rmDrop' = rmDrop /\ rmWait' = rmWait
    BY <1>2, Zenon DEF RmPipelineHashMset, rmMaps
  <2>2. PICK f \in RmFields, v \in RmVals, k \in DOMAIN rmHash, l \in DOMAIN rmHash :
            rmPipe' = <<<<k, RmField(f, v)>>, <<l, <<>>>>, <<l, RmField(f, v)>>>>
    BY <1>2, Zenon DEF RmPipelineHashMset
  <2>3. /\ <<k, RmField(f, v)>> \in (DOMAIN rmHash) \X Maps /\ <<l, <<>>>> \in (DOMAIN rmHash) \X Maps
        /\ <<l, RmField(f, v)>> \in (DOMAIN rmHash) \X Maps
    BY MapsClosed, Zenon
  <2>4. rmPipe' \in Seq((DOMAIN rmHash) \X Maps)
    <3> DEFINE P == (DOMAIN rmHash) \X Maps
    <3>1. \A x, y, z \in P : <<x, y, z>> \in Seq(P)
      <4> HIDE DEF P
      <4> QED
        OBVIOUS
    <3> QED
      BY <2>2, <2>3, <3>1, Zenon
  <2> QED
    BY <1>u, <1>k, <2>1, <2>4, Zenon DEF RInv
<1>3. CASE RmPipelineNext
  <2> DEFINE k == rmPipe[1][1]
             m == rmPipe[1][2]
             P == (DOMAIN rmHash) \X Maps
             H == RmOrEmpty(rmHash[k])
             M == [j \in DOMAIN rmHash |-> RmOrEmpty(rmHash[j])]
  <2>1. rmPipe # <<>> /\ rmPipe \in Seq(P) /\ rmPipe' = Tail(rmPipe) /\ rmWait' = rmWait /\ rmDrop' = rmDrop
    BY <1>3, Zenon DEF RmPipelineNext, RInv
  <2>2. rmPipe[1] \in P /\ rmPipe' \in Seq(P)
    <3> HIDE DEF P
    <3> QED
      BY <2>1
  <2>3. k \in DOMAIN rmHash /\ m \in Maps
    BY <2>2, Zenon
  <2>4. CASE m = <<>>
    <3>1. rmStr' = rmStr /\ rmHash' = rmHash /\ rmList' = rmList /\ rmSet' = rmSet /\ rmOut' = rmOut
      BY <1>3, <2>4, Zenon DEF RmPipelineNext, rmMaps
    <3> QED
      BY <1>u, <1>k, <2>1, <2>2, <3>1, Zenon DEF RInv
  <2>5. CASE m # <<>>
    <3>1. RmPutHash(k, {RmPut(H, m)}, <<"hmset", k, m>>)
      BY <1>3, <2>5, Zenon DEF RmPipelineNext
    <3>2. M[k] = H /\ H \in Maps
      BY <2>3, Zenon DEF RInv
    <3>3. RmPut(H, m) = [x \in DOMAIN M[k] \cup DOMAIN m |-> IF x \in DOMAIN m THEN m[x] ELSE M[k][x]]
      <4> HIDE DEF H, M, k, m
      <4> QED
        BY <3>2, Zenon DEF RmPut
    <3>4. RmStore!RtPutHash(k, RmPut(H, m), <<"hmset", k, m>>) /\ RInv'
      <4>1. RmPut(H, m) \in Maps /\ RmOrEmpty({RmPut(H, m)}) = RmPut(H, m)
        BY <2>3, <3>2, MapsClosed, TheOne, Zenon
      <4> HIDE DEF H, M, k, m
      <4> QED
        BY <2>1, <2>2, <2>3, <3>1, <4>1, HashPut, Zenon DEF P
    <3>5. RmStore!RtPutHash(k, [x \in DOMAIN M[k] \cup DOMAIN m |-> IF x \in DOMAIN m THEN m[x] ELSE M[k][x]],
                            <<"hmset", k, m>>)
      BY <3>3, <3>4, Zenon
    <3>6. RmStore!RtHmset
      <4> HIDE DEF k, m
      <4>1. m \in RmStore!RtMaps /\ m # RmStore!RtEmpty
        BY <2>3, <2>5, Zenon DEF RmStore!RtMaps, RmStore!RtEmpty, Maps
      <4> QED
        BY <2>3, <3>5, <4>1, Zenon DEF RmStore!RtHmset
    <3> QED
      BY <3>4, <3>6, Zenon DEF RmStore!RtNext
  <2> QED
    BY <2>4, <2>5, Zenon
<1>4. CASE RmListBlpop
  <2>1. /\ rmStr' = rmStr /\ rmHash' = rmHash /\ rmList' = rmList /\ rmSet' = rmSet /\ rmOut' = rmOut
        /\ rmDrop' = rmDrop /\ rmPipe' = rmPipe /\ rmWait' = {1}
    BY <1>4, Zenon DEF RmListBlpop, rmMaps
  <2> QED
    BY <1>u, <1>k, <2>1, Zenon DEF RInv
<1>5. CASE RmBlpopPoll
  <2> DEFINE L(k) == RmOrEmpty(rmList[k])
             M == [j \in DOMAIN rmList |-> RmOrEmpty(rmList[j])]
             full == {k \in DOMAIN rmList : L(k) # <<>>}
  <2>1. /\ rmWait = {1} /\ rmWait' = {} /\ rmPipe' = rmPipe /\ rmDrop' = rmDrop
        /\ \/ \E k \in full : RmPutList(k, {Tail(RmThe(rmList[k]))}, <<"blpop", {<<k, Head(RmThe(rmList[k]))>>}, RmThe(rmWait)>>)
           \/ full = {} /\ RmAnswer(<<"blpop", {}, RmThe(rmWait)>>)
    BY <1>5, Zenon DEF RmBlpopPoll, RInv
  <2>2. RmThe(rmWait) = 1
    BY <2>1, TheOne, Zenon
  <2>3. ASSUME NEW k \in full, RmPutList(k, {Tail(RmThe(rmList[k]))}, <<"blpop", {<<k, Head(RmThe(rmList[k]))>>}, RmThe(rmWait)>>)
        PROVE  RmStore!RtBlpop /\ RInv'
    <3>1. k \in DOMAIN rmList /\ L(k) # <<>> /\ L(k) = RmThe(rmList[k]) /\ M[k] = L(k) /\ L(k) \in Seq(RmVals)
      BY <2>3, Zenon DEF RmOrEmpty, RInv
    <3>2. Tail(L(k)) \in Seq(RmVals)
      <4> HIDE DEF L, M
      <4> QED
        BY <3>1, SMTT(30)
    <3>3. RmPutList(k, {Tail(L(k))}, <<"blpop", {<<k, Head(L(k))>>}, 1>>)
      <4> HIDE DEF L, M
      <4> QED
        BY <2>2, <2>3, <3>1, Zenon
    <3>4. RmStore!RtPutList(k, Tail(L(k)), <<"blpop", {<<k, Head(L(k))>>}, 1>>) /\ RInv'
      <4> HIDE DEF L, M
      <4> QED
        BY <2>1, <3>1, <3>2, <3>3, ListPut, Zenon
    <3>5. RmStore!RtPutList(k, Tail(M[k]), <<"blpop", {<<k, Head(M[k])>>}, 1>>) /\ M[k] # <<>>
      <4> HIDE DEF L, M
      <4> QED
        BY <3>1, <3>4, Zenon
    <3> QED
      BY <3>1, <3>4, <3>5, Zenon DEF RmStore!RtBlpop
  <2>4. ASSUME full = {}, RmAnswer(<<"blpop", {}, RmThe(rmWait)>>) PROVE RmStore!RtBlpop /\ RInv'
    <3>1. rmOut' = <<"blpop", {}, 1>> /\ rmStr' = rmStr /\ rmHash' = rmHash /\ rmList' = rmList /\ rmSet' = rmSet
      BY <2>2, <2>4, Zenon DEF RmAnswer, rmMaps
    <3>2. \A k \in DOMAIN rmList : M[k] = <<>>
      BY <2>4, Zenon
    <3>3. RInv'
      BY <1>k, <2>1, <3>1, Zenon DEF RInv
    <3> QED
      BY <3>1, <3>2, <3>3, Zenon DEF RmStore!RtBlpop, RmMembers
  <2> QED
    BY <2>1, <2>3, <2>4, Zenon DEF RmStore!RtNext
<1> QED
  BY <1>1, <1>2, <1>3, <1>4, <1>5, Zenon

\* MemoryRtdb implements the store the trait Rtdb promises, with every set of keys,
\* fields and values, lists of any length and any bounds: each step of a call is one
\* command of the store with the same answer, or none.  RmLoose is empty: of the calls
\* it names the code gives other answers than Redis.
THEOREM Implements == RmLoose = {} => (RmSpec => RmImplements)
<1> SUFFICES ASSUME RmLoose = {} PROVE RmSpec => RmImplements
  BY Zenon
<1>1. RmInit => RInv /\ RmStore!RtInit
  <2> SUFFICES ASSUME RmInit PROVE RInv /\ RmStore!RtInit
    BY Zenon
  <2>1. PICK ks \in RmKeys :
            /\ rmStr = [k \in ks[1] |-> {}] /\ rmHash = [k \in ks[2] |-> {}]
            /\ rmList = [k \in ks[3] |-> {}] /\ rmSet = [k \in ks[4] |-> {}]
            /\ rmPipe = <<>> /\ rmWait = {} /\ rmDrop = <<>> /\ rmOut = <<>>
    BY Zenon DEF RmInit
  <2>2. DOMAIN rmStr = ks[1] /\ DOMAIN rmHash = ks[2] /\ DOMAIN rmList = ks[3] /\ DOMAIN rmSet = ks[4]
    BY <2>1, Zenon
  <2>3. DOMAIN rmStr \cap (DOMAIN rmHash \cup DOMAIN rmList \cup DOMAIN rmSet) = {}
    <3>1. ks[1] \cap ks[2] = {} /\ ks[1] \cap ks[3] = {} /\ ks[1] \cap ks[4] = {}
      BY RmKeysAssumption, SMTT(30)
    <3> QED
      BY <2>2, <3>1, Zenon
  <2>4. /\ \A k \in DOMAIN rmHash : RmOrEmpty(rmHash[k]) = <<>>
        /\ \A k \in DOMAIN rmList : RmOrEmpty(rmList[k]) = <<>>
        /\ \A k \in DOMAIN rmSet : RmMembers(k) = {}
    BY <2>1, NoEntry, Zenon DEF RmMembers
  <2>5. RInv
    <3>1. \A k \in DOMAIN rmHash : RmOrEmpty(rmHash[k]) \in Maps
      BY <2>4, MapsClosed, Zenon
    <3>e. <<>> \in Seq(RmVals)
      OBVIOUS
    <3>2. \A k \in DOMAIN rmList : RmOrEmpty(rmList[k]) \in Seq(RmVals)
      BY <2>4, <3>e, Zenon
    <3>3. rmPipe \in Seq((DOMAIN rmHash) \X Maps)
      BY <2>1, SMTT(30)
    <3> QED
      BY <2>1, <2>3, <3>1, <3>2, <3>3, Zenon DEF RInv
  <2>6. RmStore!RtInit
    BY <2>1, <2>2, <2>4, SMTT(30) DEF RmStore!RtInit, RmStore!RtEmpty
  <2> QED
    BY <2>5, <2>6, Zenon
<1>2. RInv /\ [RmNextStep]_rmVars => RInv' /\ [RmStore!RtNext]_(RmStore!rtVars)
  <2> SUFFICES ASSUME RInv, [RmNextStep]_rmVars PROVE RInv' /\ (RmStore!RtNext \/ UNCHANGED RmStore!rtVars)
    BY Zenon
  <2>1. CASE RmAtOnce /\ UNCHANGED rmCalls
    <3>1. Calls
      BY <2>1, Zenon DEF Calls, rmCalls
    <3> QED
      BY <2>1, <3>1, StringCalls, HashCalls, ListCalls, SetCalls, Zenon DEF RmAtOnce
  <2>2. CASE RmHashDelMany \/ RmHashDelNext \/ RmPipelineHashMset \/ RmPipelineNext \/ RmListBlpop \/ RmBlpopPoll
    BY <2>2, LongCalls, Zenon
  <2>3. CASE UNCHANGED rmVars
    <3>1. /\ rmStr' = rmStr /\ rmHash' = rmHash /\ rmList' = rmList /\ rmSet' = rmSet /\ rmOut' = rmOut
          /\ rmPipe' = rmPipe /\ rmWait' = rmWait /\ rmDrop' = rmDrop
      BY <2>3, Zenon DEF rmVars, rmMaps, rmCalls
    <3> QED
      BY <3>1, SMTT(30) DEF RInv, RmStore!rtVars, RmMembers
  <2> QED
    BY <2>1, <2>2, <2>3, Zenon DEF RmNextStep
<1> QED
  BY <1>1, <1>2, PTL DEF RmSpec, RmImplements, RmStore!RtSpec

-----------------------------------------------------------------------------
(* modsrv: the rule scheduler *)

Busy(q) == req[q].at \in {"edited", "read", "stored"}

\* Every scheduled rule has its definition.
ListOK == \A i \in DOMAIN rules : "rule" \in DOMAIN rules[i]

ReqOK == /\ req \in [Requests -> [at : {"new", "edited", "read", "stored", "done"},
                                  loaded : DOMAIN Catalog \cup {0}]]
         /\ db \in DOMAIN Catalog
         /\ \A q \in Requests : At(q, "read") => req[q].loaded \in DOMAIN Catalog

\* As long as nothing excuses the rules, one request at most is under way, what
\* it has read is the table, and otherwise the rules are the table.
InStep ==
    ~excused =>
        /\ \A q, o \in Requests : Busy(q) /\ Busy(o) => q = o
        /\ \A q \in Requests : At(q, "read") => req[q].loaded = db
        /\ (\A q \in Requests : ~At(q, "edited") /\ ~At(q, "read")) => Loaded = Catalog[db]

IInv == ListOK /\ ReqOK /\ IndexFollowsRules /\ InStep

\* A step that leaves the definitions, the index and the requests alone.
Quiet == /\ ListOK'
         /\ Loaded' = Loaded
         /\ UNCHANGED <<index, watched, db, req, excused>>

-----------------------------------------------------------------------------
\* Scheduling a version of the table and reading the definitions back gives
\* that version (load_rules).
LEMMA LoadedIsTable ==
    ASSUME NEW v \in DOMAIN Catalog, rules' = Scheduled(v)
    PROVE  ListOK' /\ Loaded' = Catalog[v]
  <1>1. DOMAIN rules' = DOMAIN Catalog[v]
    BY Zenon DEF Scheduled
  <1>2. \A i \in DOMAIN Catalog[v] :
           "rule" \in DOMAIN rules'[i] /\ rules'[i].rule = Catalog[v][i]
    BY Zenon DEF Scheduled, Fresh
  <1>3. Loaded' = [i \in DOMAIN Catalog[v] |-> Catalog[v][i]]
    BY <1>1, <1>2, Zenon DEF Loaded
  <1> QED
    BY <1>1, <1>2, <1>3, CatalogAssumption, Zenon DEF ListOK

\* Updating fields other than the definition of the rules keeps the definitions.
LEMMA SameDefinitions ==
    ASSUME ListOK, DOMAIN rules' = DOMAIN rules,
           \A i \in DOMAIN rules : /\ DOMAIN rules'[i] = DOMAIN rules[i]
                                   /\ rules'[i].rule = rules[i].rule
    PROVE  ListOK' /\ Loaded' = Loaded
  BY Zenon DEF ListOK, Loaded

\* The age of the instants is not part of the definitions.
LEMMA ElapseQuiet == ASSUME ListOK, Elapse PROVE Quiet
  <1>1. DOMAIN rules' = DOMAIN rules
    BY Zenon DEF Elapse
  <1>2. \A i \in DOMAIN rules : /\ DOMAIN rules'[i] = DOMAIN rules[i]
                                /\ rules'[i].rule = rules[i].rule
    BY Zenon DEF Elapse, Aged, ListOK
  <1> QED
    BY <1>1, <1>2, SameDefinitions, Zenon DEF Elapse, Quiet

\* Neither commit changes a definition (phase 3 of tick, and its counterpart in
\* execute_watch_triggered).
LEMMA CommitQuiet == ASSUME ListOK, TickCommit \/ WatchCommit PROVE Quiet
  <1>1. DOMAIN rules' = DOMAIN rules
    BY Zenon DEF TickCommit, WatchCommit, Commit
  <1>2. ASSUME NEW i \in DOMAIN rules
        PROVE  /\ DOMAIN rules'[i] = DOMAIN rules[i]
               /\ rules'[i].rule = rules[i].rule
    <2>1. ASSUME NEW r
          PROVE  /\ DOMAIN TickStamp(rules[i], r) = DOMAIN rules[i]
                 /\ TickStamp(rules[i], r).rule = rules[i].rule
                 /\ DOMAIN WatchStamp(rules[i], r) = DOMAIN rules[i]
                 /\ WatchStamp(rules[i], r).rule = rules[i].rule
      BY Zenon DEF TickStamp, WatchStamp, ListOK
    <2>2. \/ rules'[i] = rules[i]
          \/ \E r : rules'[i] = TickStamp(rules[i], r)
          \/ \E r : rules'[i] = WatchStamp(rules[i], r)
      BY Zenon DEF TickCommit, WatchCommit, Commit, Stamp
    <2> QED BY <2>1, <2>2, Zenon
  <1>3. UNCHANGED <<index, watched, db, req, excused>>
    BY Zenon DEF TickCommit, WatchCommit, Commit, Env
  <1> QED
    BY <1>1, <1>2, <1>3, SameDefinitions, Zenon DEF Quiet

\* The other steps of the loop, of comsrv and of the bridge leave the rules alone.
LEMMA OthersQuiet ==
    ASSUME ListOK,
           \/ \E p \in Points, v \in Values \cup {NaN} : Sample(p, v)
           \/ EventLost \/ Dispatch \/ Snapshot \/ WatchFilter \/ Filter
           \/ \E r \in job.runs : Execute(r)
           \/ UNCHANGED vars
    PROVE  Quiet
  <1>1. UNCHANGED <<rules, index, watched, db, req, excused>>
    BY Zenon DEF Sample, EventLost, Dispatch, Snapshot, WatchFilter, Filter, Execute, Env, vars
  <1> QED
    BY <1>1, Zenon DEF Quiet, ListOK, Loaded

\* A quiet step keeps the invariant.
LEMMA QuietKeeps == ASSUME IInv, Quiet PROVE IInv'
  BY Zenon DEF IInv, Quiet, ReqOK, IndexFollowsRules, InStep, At, Busy
-----------------------------------------------------------------------------
\* An edit starts a request; a request that was under way excuses the rules.
LEMMA EditKeeps ==
    ASSUME IInv, NEW q \in Requests, NEW v \in DOMAIN Catalog, Edit(q, v) PROVE IInv'
  <1> USE DEF At
  <1>1. ListOK' /\ Loaded' = Loaded
    BY Zenon DEF IInv, Edit, ListOK, Loaded
  <1>2. ReqOK'
    BY Zenon DEF IInv, ReqOK, Edit
  <1>3. IndexFollowsRules'
    <2>1. \A o \in Requests : req'[o].at = "stored" <=> req[o].at = "stored"
      BY Zenon DEF IInv, ReqOK, Edit
    <2> QED
      BY <1>1, <2>1, Zenon DEF IInv, IndexFollowsRules, Edit
  <1>4. InStep'
    <2> SUFFICES ASSUME ~excused' PROVE InStep'
      BY Zenon DEF InStep
    <2>1. \A o \in Requests : ~Busy(o)
      BY Zenon DEF Edit, Busy
    <2>2. \A o \in Requests : req'[o].at = IF o = q THEN "edited" ELSE req[o].at
      BY Zenon DEF Edit, IInv, ReqOK
    <2> QED
      BY <2>1, <2>2, Zenon DEF InStep, Busy
  <1> QED
    BY <1>1, <1>2, <1>3, <1>4, Zenon DEF IInv

\* load_enabled_rules returns the table, or fails and excuses the rules.
LEMMA LoadKeeps ==
    ASSUME IInv, NEW q \in Requests, LoadRead(q) \/ LoadFails(q) PROVE IInv'
  <1> USE DEF At
  <1>1. ListOK' /\ Loaded' = Loaded
    BY Zenon DEF IInv, LoadRead, LoadFails, ListOK, Loaded
  <1>2. ReqOK'
    BY DEF IInv, ReqOK, LoadRead, LoadFails
  <1>3. IndexFollowsRules'
    <2>1. \A o \in Requests : req'[o].at = "stored" <=> req[o].at = "stored"
      BY SMTT(30) DEF IInv, ReqOK, LoadRead, LoadFails
    <2> QED
      BY <1>1, <2>1, Zenon DEF IInv, IndexFollowsRules, LoadRead, LoadFails
  <1>4. InStep'
    <2> SUFFICES ASSUME ~excused' PROVE InStep'
      BY Zenon DEF InStep
    <2>1. LoadRead(q) /\ ~excused /\ db' = db
      BY SMTT(30) DEF LoadFails, LoadRead
    <2>2. /\ \A o \in Requests : o # q => req'[o] = req[o]
          /\ req'[q].at = "read" /\ req'[q].loaded = db
      BY <2>1, Zenon DEF LoadRead, IInv, ReqOK
    <2> QED
      BY <2>1, <2>2, SMTT(30) DEF IInv, InStep, Busy, LoadRead
  <1> QED
    BY <1>1, <1>2, <1>3, <1>4, Zenon DEF IInv

\* The list that was read is stored; the index is behind until the rebuild.
LEMMA LoadWriteKeeps ==
    ASSUME IInv, NEW q \in Requests, LoadWrite(q) PROVE IInv'
  <1> USE DEF At
  <1>1. req[q].loaded \in DOMAIN Catalog
    BY Zenon DEF IInv, ReqOK, LoadWrite
  <1>2. ListOK' /\ Loaded' = Catalog[req[q].loaded]
    BY <1>1, LoadedIsTable, Zenon DEF LoadWrite
  <1>3. ReqOK'
    BY Zenon DEF IInv, ReqOK, LoadWrite
  <1>4. /\ \A o \in Requests : o # q => req'[o] = req[o]
        /\ req'[q].at = "stored" /\ db' = db /\ excused' = excused
    BY Zenon DEF LoadWrite, IInv, ReqOK
  <1>5. IndexFollowsRules'
    BY <1>4, Zenon DEF IndexFollowsRules
  <1>6. InStep'
    BY <1>2, <1>4, SMTT(30) DEF IInv, InStep, Busy, LoadWrite
  <1> QED
    BY <1>2, <1>3, <1>5, <1>6, Zenon DEF IInv

\* The index is rebuilt from the list in force, whoever stored it.
LEMMA RebuildKeeps ==
    ASSUME IInv, NEW q \in Requests, Rebuild(q) PROVE IInv'
  <1> USE DEF At
  <1>1. ListOK' /\ Loaded' = Loaded
    BY Zenon DEF IInv, Rebuild, ListOK, Loaded
  <1>2. ReqOK'
    BY Zenon DEF IInv, ReqOK, Rebuild
  <1>3. IndexFollowsRules'
    BY <1>1, Zenon DEF IndexFollowsRules, Rebuild
  <1>4. /\ \A o \in Requests : o # q => req'[o] = req[o]
        /\ req[q].at = "stored" /\ req'[q].at = "done"
        /\ db' = db /\ excused' = excused
    BY Zenon DEF Rebuild, IInv, ReqOK
  <1>5. InStep'
    BY <1>1, <1>4, Zenon DEF IInv, InStep, Busy
  <1> QED
    BY <1>1, <1>2, <1>3, <1>5, Zenon DEF IInv

-----------------------------------------------------------------------------
\* main() starts the loop after its own reload.
LEMMA InitInv == Init => IInv
  <1> SUFFICES ASSUME Init PROVE IInv
    BY Zenon
  <1>1. ListOK /\ Loaded = Catalog[1]
    <2>1. /\ DOMAIN rules = DOMAIN Catalog[1]
          /\ \A i \in DOMAIN Catalog[1] :
                "rule" \in DOMAIN rules[i] /\ rules[i].rule = Catalog[1][i]
      BY Zenon DEF Init, Scheduled, Fresh
    <2>2. Loaded = [i \in DOMAIN Catalog[1] |-> Catalog[1][i]]
      BY <2>1, Zenon DEF Loaded
    <2> QED
      BY <2>1, <2>2, CatalogAssumption, Zenon DEF ListOK
  <1>2. ReqOK
    BY CatalogAssumption, Zenon DEF Init, ReqOK, At
  <1>3. IndexFollowsRules
    BY <1>1, Zenon DEF Init, IndexFollowsRules
  <1>4. InStep
    BY <1>1, Zenon DEF Init, InStep, Busy, At
  <1> QED
    BY <1>1, <1>2, <1>3, <1>4, Zenon DEF IInv

\* Every step keeps the invariant.
LEMMA Inductive == IInv /\ [Next]_vars => IInv'
  <1> SUFFICES ASSUME IInv, [Next]_vars PROVE IInv'
    BY Zenon
  <1>1. ASSUME NEW q \in Requests, NEW v \in DOMAIN Catalog, Edit(q, v) PROVE IInv'
    BY <1>1, EditKeeps, Zenon
  <1>2. ASSUME NEW q \in Requests, Reload(q) PROVE IInv'
    BY <1>2, LoadKeeps, LoadWriteKeeps, RebuildKeeps, Zenon DEF Reload
  <1>3. ASSUME Elapse \/ TickCommit \/ WatchCommit PROVE IInv'
    BY <1>3, ElapseQuiet, CommitQuiet, QuietKeeps, Zenon DEF IInv
  <1>4. ASSUME \/ \E p \in Points, v \in Values \cup {NaN} : Sample(p, v)
               \/ EventLost \/ Dispatch \/ Snapshot \/ WatchFilter \/ Filter
               \/ \E r \in job.runs : Execute(r)
               \/ UNCHANGED vars
        PROVE  IInv'
    BY <1>4, OthersQuiet, QuietKeeps, Zenon DEF IInv
  <1> QED
    BY <1>1, <1>2, <1>3, <1>4, Zenon DEF Next, LoopStep

\* The subscription index and the bitmap follow the rules in force, for any
\* number of overlapping reloads (reload_rules, rebuild_from_rules).
THEOREM IndexCorrect == Spec => []IndexFollowsRules
  <1>1. IInv => IndexFollowsRules
    BY Zenon DEF IInv
  <1> QED
    BY <1>1, InitInv, Inductive, PTL DEF Spec

\* The rules in force follow the rules table once the requests are done, for
\* any number of requests that neither overlap nor fail to load (load_rules).
THEOREM RulesCorrect == Spec => []RulesFollowDb
  <1>1. IInv => RulesFollowDb
    BY Zenon DEF IInv, InStep, RulesFollowDb, At
  <1> QED
    BY <1>1, InitInv, Inductive, PTL DEF Spec
\* A commit stamps only rules that have run, whatever reloads did in between
\* (the check of the rule's id in both commits).
THEOREM StampsCorrect == Spec => StampsOwnRule
  <1> DEFINE Own == \A i \in DOMAIN rules \cap DOMAIN rules' :
                (rules[i].last_execution = None /\ rules'[i].last_execution # None)
                   => \E r \in job.runs : r.rule.id = rules[i].rule.id
  <1>1. ASSUME TickCommit \/ WatchCommit PROVE Own
    <2> SUFFICES ASSUME NEW i \in DOMAIN rules, rules'[i] # rules[i]
                 PROVE  \E r \in job.runs : r.rule.id = rules[i].rule.id
      BY Zenon
    <2>1. \E r \in job.runs : Matches(i, r)
      BY <1>1, Zenon DEF TickCommit, WatchCommit, Commit
    <2> QED
      BY <2>1, Zenon DEF Matches
  <1>2. ASSUME Elapse PROVE Own
    <2> SUFFICES ASSUME NEW i \in DOMAIN rules, rules[i].last_execution = None
                 PROVE  rules'[i].last_execution = None
      BY Zenon
    <2>1. rules'[i] = Aged(rules[i])
      BY <1>2, Zenon DEF Elapse
    <2> QED
      BY <2>1, SMTT(30) DEF Aged, Older
  <1>3. ASSUME NEW q \in Requests, LoadWrite(q) PROVE Own
    BY <1>3, Zenon DEF LoadWrite, Scheduled, Fresh
  <1>4. ASSUME UNCHANGED rules PROVE Own
    BY <1>4, Zenon
  <1>5. ASSUME [Next]_vars
        PROVE  \/ UNCHANGED rules \/ TickCommit \/ WatchCommit \/ Elapse
               \/ \E q \in Requests : LoadWrite(q)
    BY <1>5, Zenon DEF Next, LoopStep, Reload, Sample, EventLost, Dispatch, Snapshot,
                WatchFilter, Filter, Execute, Edit, LoadRead, LoadFails, Rebuild, vars
  <1>6. [Next]_vars => [Own]_vars
    BY <1>1, <1>2, <1>3, <1>4, <1>5, Zenon
  <1> QED
    BY <1>6, PTL DEF Spec, StampsOwnRule

=============================================================================
