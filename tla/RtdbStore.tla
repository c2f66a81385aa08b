------------------------------ MODULE RtdbStore ------------------------------
(***************************************************************************)
(* What the trait Rtdb promises (libs/voltage-rtdb traits.rs), as Redis    *)
(* keeps it behind RedisRtdb (redis_impl.rs): one keyspace of strings,     *)
(* hashes, lists and sets, where a collection that becomes empty is no key *)
(* any more.  Every command is one step and leaves its answer in rtOut.    *)
(* The services give a key one kind for good.                              *)
(***************************************************************************)
EXTENDS Integers, Sequences, FiniteSets, Functions

CONSTANTS RtKeys,     \* sets <<strings, hashes, lists, sets>> of keys
          RtFields,   \* fields of hashes and members of sets
          RtVals,     \* values, integers written in decimal
          RtMax,      \* bound: length of a list
          RtBounds    \* the start and stop indices of LRANGE and LTRIM

VARIABLES rtStr, rtHash, rtList, rtSet, rtOut

rtVars == <<rtStr, rtHash, rtList, rtSet, rtOut>>

RtEmpty == <<>>                                  \* no fields, no elements
RtMaps == UNION {[d -> RtVals] : d \in SUBSET RtFields}

RtAllKeys == DOMAIN rtStr \cup DOMAIN rtHash \cup DOMAIN rtList \cup DOMAIN rtSet

RtInit == \E ks \in RtKeys :
  /\ rtStr = [k \in ks[1] |-> {}]
  /\ rtHash = [k \in ks[2] |-> RtEmpty]
  /\ rtList = [k \in ks[3] |-> RtEmpty]
  /\ rtSet = [k \in ks[4] |-> {}]
  /\ rtOut = <<>>

(* A value, the new content of a key, the answer. *)
RtPutStr(k, v, out)  == rtStr' = [rtStr EXCEPT ![k] = v] /\ rtOut' = out
                        /\ UNCHANGED <<rtHash, rtList, rtSet>>
RtPutHash(k, v, out) == rtHash' = [rtHash EXCEPT ![k] = v] /\ rtOut' = out
                        /\ UNCHANGED <<rtStr, rtList, rtSet>>
RtPutList(k, v, out) == rtList' = [rtList EXCEPT ![k] = v] /\ rtOut' = out
                        /\ UNCHANGED <<rtStr, rtHash, rtSet>>
RtPutSet(k, v, out)  == rtSet' = [rtSet EXCEPT ![k] = v] /\ rtOut' = out
                        /\ UNCHANGED <<rtStr, rtHash, rtList>>

RtHas(k) == CASE k \in DOMAIN rtStr  -> rtStr[k] # {}
              [] k \in DOMAIN rtHash -> rtHash[k] # RtEmpty
              [] k \in DOMAIN rtList -> rtList[k] # RtEmpty
              [] k \in DOMAIN rtSet  -> rtSet[k] # {}

(* GET, SET, INCRBYFLOAT *)
RtGet == \E k \in DOMAIN rtStr : RtPutStr(k, rtStr[k], <<"get", k, rtStr[k]>>)
RtSetCmd == \E k \in DOMAIN rtStr, v \in RtVals : RtPutStr(k, {v}, <<"set", k, v>>)
RtIncr ==
  \E k \in DOMAIN rtStr, d \in RtVals :
    LET n == (IF rtStr[k] = {} THEN 0 ELSE CHOOSE v \in rtStr[k] : TRUE) + d
    IN  n \in RtVals /\ RtPutStr(k, {n}, <<"incr", k, d, n>>)

(* DEL, EXISTS and SCAN know every kind of key. *)
RtDel ==
  \E k \in RtAllKeys :
    CASE k \in DOMAIN rtStr  -> RtPutStr(k, {}, <<"del", k, RtHas(k)>>)
      [] k \in DOMAIN rtHash -> RtPutHash(k, RtEmpty, <<"del", k, RtHas(k)>>)
      [] k \in DOMAIN rtList -> RtPutList(k, RtEmpty, <<"del", k, RtHas(k)>>)
      [] k \in DOMAIN rtSet  -> RtPutSet(k, {}, <<"del", k, RtHas(k)>>)
RtExists == \E k \in RtAllKeys : rtOut' = <<"exists", k, RtHas(k)>>
                                     /\ UNCHANGED <<rtStr, rtHash, rtList, rtSet>>
RtScan == /\ rtOut' = <<"scan", {k \in RtAllKeys : RtHas(k)}>>
          /\ UNCHANGED <<rtStr, rtHash, rtList, rtSet>>

(* HSET, HSETNX, HGET, HMGET, HMSET, HGETALL, HDEL, HINCRBY *)
RtHset == \E k \in DOMAIN rtHash, f \in RtFields, v \in RtVals :
  RtPutHash(k, [x \in DOMAIN rtHash[k] \cup {f} |-> IF x = f THEN v ELSE rtHash[k][x]], <<"hset", k, f, v>>)
RtHsetnx == \E k \in DOMAIN rtHash, f \in RtFields, v \in RtVals :
  LET old == f \in DOMAIN rtHash[k]
  IN  RtPutHash(k, [x \in DOMAIN rtHash[k] \cup {f} |->
                      IF x = f /\ ~old THEN v ELSE rtHash[k][x]], <<"hsetnx", k, f, v, ~old>>)
RtHgetall == \E k \in DOMAIN rtHash : RtPutHash(k, rtHash[k], <<"hgetall", k, rtHash[k]>>)
RtHmget == \E k \in DOMAIN rtHash :
  RtPutHash(k, rtHash[k], <<"hmget", k, [f \in RtFields |->
              IF f \in DOMAIN rtHash[k] THEN {rtHash[k][f]} ELSE {}]>>)
RtHmset == \E k \in DOMAIN rtHash, m \in RtMaps :
  m # RtEmpty /\ RtPutHash(k, [x \in DOMAIN rtHash[k] \cup DOMAIN m |->
                                IF x \in DOMAIN m THEN m[x] ELSE rtHash[k][x]], <<"hmset", k, m>>)
RtHdel == \E k \in DOMAIN rtHash, fs \in (SUBSET RtFields) \ {{}} :
  RtPutHash(k, Restrict(rtHash[k], DOMAIN rtHash[k] \ fs),
            <<"hdel", k, fs, Cardinality(fs \cap DOMAIN rtHash[k])>>)
RtHincr == \E k \in DOMAIN rtHash, f \in RtFields, d \in RtVals :
  LET n == (IF f \in DOMAIN rtHash[k] THEN rtHash[k][f] ELSE 0) + d
  IN  n \in RtVals /\ RtPutHash(k, [x \in DOMAIN rtHash[k] \cup {f} |->
                                     IF x = f THEN n ELSE rtHash[k][x]], <<"hincr", k, f, d, n>>)

(* LPUSH, RPUSH, LPOP, RPOP *)
RtPush == \E k \in DOMAIN rtList, v \in RtVals :
  /\ Len(rtList[k]) < RtMax
  /\ \/ RtPutList(k, <<v>> \o rtList[k], <<"lpush", k, v>>)
     \/ RtPutList(k, Append(rtList[k], v), <<"rpush", k, v>>)
RtLpop == \E k \in DOMAIN rtList :
  IF rtList[k] = <<>> THEN RtPutList(k, <<>>, <<"lpop", k, {}>>)
  ELSE RtPutList(k, Tail(rtList[k]), <<"lpop", k, {Head(rtList[k])}>>)
RtRpop == \E k \in DOMAIN rtList :
  LET n == Len(rtList[k])
  IN  IF n = 0 THEN RtPutList(k, <<>>, <<"rpop", k, {}>>)
      ELSE RtPutList(k, SubSeq(rtList[k], 1, n - 1), <<"rpop", k, {rtList[k][n]}>>)

(* BLPOP: a value, or none once a timeout that is not zero has passed. *)
RtBlpop ==
  \/ \E k \in DOMAIN rtList, t \in {0, 1} :
       rtList[k] # <<>> /\ RtPutList(k, Tail(rtList[k]), <<"blpop", {<<k, Head(rtList[k])>>}, t>>)
  \/ /\ \A k \in DOMAIN rtList : rtList[k] = <<>>
     /\ rtOut' = <<"blpop", {}, 1>> /\ UNCHANGED <<rtStr, rtHash, rtList, rtSet>>

(* LRANGE and LTRIM: the elements from start to stop, counted from the end *)
(* when negative.                                                          *)
RtSlice(list, start, stop) ==
  LET at(i) == IF i < 0 THEN Len(list) + i ELSE i
      in == {i \in 1..Len(list) : at(start) <= i - 1 /\ i - 1 <= at(stop)}
      low == CHOOSE i \in in : \A j \in in : i <= j
  IN  [i \in 1..Cardinality(in) |-> list[low + i - 1]]
RtLrange == \E k \in DOMAIN rtList, a, b \in RtBounds :
  RtPutList(k, rtList[k], <<"lrange", k, a, b, RtSlice(rtList[k], a, b)>>)
RtLtrim == \E k \in DOMAIN rtList, a, b \in RtBounds :
  RtPutList(k, RtSlice(rtList[k], a, b), <<"ltrim", k, a, b>>)

(* SADD, SREM, SMEMBERS *)
RtSadd == \E k \in DOMAIN rtSet, m \in RtFields :
  RtPutSet(k, rtSet[k] \cup {m}, <<"sadd", k, m, m \notin rtSet[k]>>)
RtSrem == \E k \in DOMAIN rtSet, m \in RtFields :
  RtPutSet(k, rtSet[k] \ {m}, <<"srem", k, m, m \in rtSet[k]>>)
RtSmembers == \E k \in DOMAIN rtSet : RtPutSet(k, rtSet[k], <<"smembers", k, rtSet[k]>>)

RtNext ==
  \/ RtGet \/ RtSetCmd \/ RtIncr \/ RtDel \/ RtExists \/ RtScan
  \/ RtHset \/ RtHsetnx \/ RtHgetall \/ RtHmget \/ RtHmset \/ RtHdel \/ RtHincr
  \/ RtPush \/ RtLpop \/ RtRpop \/ RtBlpop \/ RtLrange \/ RtLtrim
  \/ RtSadd \/ RtSrem \/ RtSmembers

RtSpec == RtInit /\ [][RtNext]_rtVars
=============================================================================
