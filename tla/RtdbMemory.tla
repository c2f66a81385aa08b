----------------------------- MODULE RtdbMemory ------------------------------
(***************************************************************************)
(* MemoryRtdb (libs/voltage-rtdb/src/memory_impl.rs): four concurrent maps *)
(* that know nothing of one another.  A map entry of a hash, list or set   *)
(* stays when its content becomes empty.  The calls that hold the entry's  *)
(* write lock are one step.  pipeline_hash_mset takes it once per key,     *)
(* list_blpop polls, and hash_del_many removes field by field under a read *)
(* lock that only keeps writers of the key out, so these take several.     *)
(*                                                                         *)
(* RmLoose names the calls whose answers are not those of the store it     *)
(* stands in for; without them it implements RtdbStore.                    *)
(***************************************************************************)
EXTENDS Integers, Sequences, FiniteSets, Functions

CONSTANTS RmKeys, RmFields, RmVals, RmMax, RmBounds,
          RmLoose      \* subset of {"del", "scan", "blpop0", "hdel_many"}

\* A key is of one kind for good; the other kinds have keys of their own.
ASSUME RmKeysAssumption == \A ks \in RmKeys : \A i, j \in 1 .. 4 : i # j => ks[i] \cap ks[j] = {}
ASSUME RmBoundsAssumption == RmBounds \subseteq Int

VARIABLES rmStr,     \* kv_store: {} or {value}
          rmHash,    \* hash_store: {} or {the DashMap}
          rmList,    \* list_store: {} or {the VecDeque}
          rmSet,     \* set_store: {} or {the DashSet}
          rmPipe,    \* pipeline_hash_mset: the operations left
          rmWait,    \* list_blpop: {} or {its timeout in seconds}
          rmDrop,    \* hash_del_many: <<>> or <<key, fields left, removed, fields>>
          rmOut      \* the last answer

rmMaps == <<rmStr, rmHash, rmList, rmSet>>
rmCalls == <<rmPipe, rmWait, rmDrop>>
rmVars == <<rmMaps, rmCalls, rmOut>>

RmThe(s) == CHOOSE x \in s : TRUE
RmOrEmpty(s) == IF s = {} THEN <<>> ELSE RmThe(s)         \* entry().or_default()

RmAllKeys == DOMAIN rmStr \cup DOMAIN rmHash \cup DOMAIN rmList \cup DOMAIN rmSet

RmInit == \E ks \in RmKeys :
  /\ rmStr = [k \in ks[1] |-> {}]
  /\ rmHash = [k \in ks[2] |-> {}]
  /\ rmList = [k \in ks[3] |-> {}]
  /\ rmSet = [k \in ks[4] |-> {}]
  /\ rmPipe = <<>> /\ rmWait = {} /\ rmDrop = <<>> /\ rmOut = <<>>

RmPutStr(k, v, out)  == rmStr' = [rmStr EXCEPT ![k] = v] /\ rmOut' = out
                        /\ UNCHANGED <<rmHash, rmList, rmSet>>
RmPutHash(k, v, out) == rmHash' = [rmHash EXCEPT ![k] = v] /\ rmOut' = out
                        /\ UNCHANGED <<rmStr, rmList, rmSet>>
RmPutList(k, v, out) == rmList' = [rmList EXCEPT ![k] = v] /\ rmOut' = out
                        /\ UNCHANGED <<rmStr, rmHash, rmSet>>
RmPutSet(k, v, out)  == rmSet' = [rmSet EXCEPT ![k] = v] /\ rmOut' = out
                        /\ UNCHANGED <<rmStr, rmHash, rmList>>
RmAnswer(out)        == rmOut' = out /\ UNCHANGED rmMaps

(* ------------------------------ kv_store ------------------------------- *)

RmGet == \E k \in DOMAIN rmStr : RmAnswer(<<"get", k, rmStr[k]>>)

RmSetCall == \E k \in DOMAIN rmStr, v \in RmVals : RmPutStr(k, {v}, <<"set", k, v>>)

RmIncrbyfloat ==
  \E k \in DOMAIN rmStr, d \in RmVals :
    LET n == (IF rmStr[k] = {} THEN 0 ELSE RmThe(rmStr[k])) + d
    IN  n \in RmVals /\ RmPutStr(k, {n}, <<"incr", k, d, n>>)

(* del and exists look into kv_store alone, whatever the key holds. *)
RmAddressed == IF "del" \in RmLoose THEN RmAllKeys ELSE DOMAIN rmStr

RmDel ==
  \E k \in RmAddressed :
    IF k \in DOMAIN rmStr THEN RmPutStr(k, {}, <<"del", k, rmStr[k] # {}>>)
    ELSE RmAnswer(<<"del", k, FALSE>>)

RmExists ==
  \E k \in RmAddressed :
    RmAnswer(<<"exists", k, IF k \in DOMAIN rmStr THEN rmStr[k] # {} ELSE FALSE>>)

(* scan_match lists the entries of three maps, set_store is not one. *)
RmScanMatch ==
  /\ "scan" \in RmLoose
  /\ RmAnswer(<<"scan", {k \in DOMAIN rmStr : rmStr[k] # {}}
                   \cup {k \in DOMAIN rmHash : rmHash[k] # {}}
                   \cup {k \in DOMAIN rmList : rmList[k] # {}}>>)

(* ----------------------------- hash_store ------------------------------ *)

RmPut(hash, m) == [x \in DOMAIN hash \cup DOMAIN m |->
                   IF x \in DOMAIN m THEN m[x] ELSE hash[x]]

RmField(f, v) == [x \in {f} |-> v]

(* The key's shard is free for a writer. *)
RmFree(k) == rmDrop # <<>> => rmDrop[1] # k

RmHashSet ==
  \E k \in DOMAIN rmHash, f \in RmFields, v \in RmVals :
    RmFree(k) /\ RmPutHash(k, {RmPut(RmOrEmpty(rmHash[k]), RmField(f, v))}, <<"hset", k, f, v>>)

RmHashSetnx ==
  \E k \in DOMAIN rmHash, f \in RmFields, v \in RmVals :
    LET hash == RmOrEmpty(rmHash[k])
    IN  /\ RmFree(k)
        /\ IF f \in DOMAIN hash THEN RmPutHash(k, {hash}, <<"hsetnx", k, f, v, FALSE>>)
           ELSE RmPutHash(k, {RmPut(hash, RmField(f, v))}, <<"hsetnx", k, f, v, TRUE>>)

RmHashMget ==
  \E k \in DOMAIN rmHash :
    RmAnswer(<<"hmget", k, IF rmHash[k] = {} THEN [f \in RmFields |-> {}]
                           ELSE [f \in RmFields |->
                                   {RmThe(rmHash[k])[x] : x \in {f} \cap DOMAIN RmThe(rmHash[k])}]>>)

RmHashGetAll == \E k \in DOMAIN rmHash : RmAnswer(<<"hgetall", k, RmOrEmpty(rmHash[k])>>)

RmHincrby ==
  \E k \in DOMAIN rmHash, f \in RmFields, d \in RmVals :
    LET hash == RmOrEmpty(rmHash[k])
        n == (IF f \in DOMAIN hash THEN hash[f] ELSE 0) + d
    IN  RmFree(k) /\ n \in RmVals /\ RmPutHash(k, {RmPut(hash, RmField(f, n))}, <<"hincr", k, f, d, n>>)

RmHashDel ==
  \E k \in DOMAIN rmHash, f \in RmFields :
    LET hash == RmOrEmpty(rmHash[k])
    IN  RmPutHash(k, IF rmHash[k] = {} THEN {} ELSE {Restrict(hash, DOMAIN hash \ {f})},
                  <<"hdel", k, {f}, Cardinality({f} \cap DOMAIN hash)>>)

RmHashDelMany ==
  /\ "hdel_many" \in RmLoose /\ rmDrop = <<>>
  /\ \E k \in DOMAIN rmHash, fs \in (SUBSET RmFields) \ {{}} :
       rmHash[k] # {} /\ rmDrop' = <<k, fs, 0, fs>>
  /\ UNCHANGED <<rmMaps, rmOut, rmPipe, rmWait>>

RmHashDelNext ==
  /\ rmDrop # <<>>
  /\ \E f \in rmDrop[2] :
       LET k == rmDrop[1]
           hash == RmThe(rmHash[k])
           n == rmDrop[3] + Cardinality({f} \cap DOMAIN hash)
           last == rmDrop[2] = {f}
       IN  /\ rmDrop' = IF last THEN <<>> ELSE <<k, rmDrop[2] \ {f}, n, rmDrop[4]>>
           /\ RmPutHash(k, {Restrict(hash, DOMAIN hash \ {f})},
                        IF last THEN <<"hdel", k, rmDrop[4], n>> ELSE rmOut)
  /\ UNCHANGED <<rmPipe, rmWait>>

RmHashMset ==
  \E k \in DOMAIN rmHash, m \in UNION {[d -> RmVals] : d \in (SUBSET RmFields) \ {{}}} :
    RmFree(k) /\ RmPutHash(k, {RmPut(RmOrEmpty(rmHash[k]), m)}, <<"hmset", k, m>>)

(* pipeline_hash_mset, and pipeline_hash_mset_atomic that delegates to it. *)
RmPipelineHashMset ==
  /\ rmPipe = <<>>
  /\ \E f \in RmFields, v \in RmVals, k, l \in DOMAIN rmHash :
       rmPipe' = <<<<k, RmField(f, v)>>, <<l, <<>>>>, <<l, RmField(f, v)>>>>
  /\ UNCHANGED <<rmMaps, rmOut, rmWait, rmDrop>>

RmPipelineNext ==
  /\ rmPipe # <<>>
  /\ LET k == rmPipe[1][1]
         m == rmPipe[1][2]
     IN  IF m = <<>> THEN UNCHANGED <<rmMaps, rmOut>>
         ELSE RmFree(k) /\ RmPutHash(k, {RmPut(RmOrEmpty(rmHash[k]), m)}, <<"hmset", k, m>>)
  /\ rmPipe' = Tail(rmPipe)
  /\ UNCHANGED <<rmWait, rmDrop>>

(* ----------------------------- list_store ------------------------------ *)

RmListPush ==
  \E k \in DOMAIN rmList, v \in RmVals :
    LET list == RmOrEmpty(rmList[k])
    IN  /\ Len(list) < RmMax
        /\ \/ RmPutList(k, {<<v>> \o list}, <<"lpush", k, v>>)
           \/ RmPutList(k, {Append(list, v)}, <<"rpush", k, v>>)

RmListLpop ==
  \E k \in DOMAIN rmList :
    LET list == RmOrEmpty(rmList[k])
    IN  IF list = <<>> THEN RmAnswer(<<"lpop", k, {}>>)
        ELSE RmPutList(k, {Tail(list)}, <<"lpop", k, {Head(list)}>>)

RmListRpop ==
  \E k \in DOMAIN rmList :
    LET list == RmOrEmpty(rmList[k])
        n == Len(list)
    IN  IF n = 0 THEN RmAnswer(<<"rpop", k, {}>>)
        ELSE RmPutList(k, {SubSeq(list, 1, n - 1)}, <<"rpop", k, {list[n]}>>)

RmListBlpop ==
  /\ rmWait = {}
  /\ \E t \in {1} \cup (IF "blpop0" \in RmLoose THEN {0} ELSE {}) : rmWait' = {t}
  /\ UNCHANGED <<rmMaps, rmOut, rmPipe, rmDrop>>

(* One round of the loop: the keys in turn, then the clock. *)
RmBlpopPoll ==
  /\ rmWait # {}
  /\ LET full == {k \in DOMAIN rmList : RmOrEmpty(rmList[k]) # <<>>}
     IN  \/ \E k \in full :
              LET list == RmThe(rmList[k])
              IN  /\ RmPutList(k, {Tail(list)}, <<"blpop", {<<k, Head(list)>>}, RmThe(rmWait)>>)
                  /\ rmWait' = {}
         \/ /\ full = {} /\ rmWait' = {}
            /\ RmAnswer(<<"blpop", {}, RmThe(rmWait)>>)
  /\ UNCHANGED <<rmPipe, rmDrop>>

RmClamp(n, len) == IF n < 0 THEN 0 ELSE IF n > len THEN len ELSE n
\* Mutant: the last index is excluded.
NormalizeListIndicesOpen(len, start, stop) ==
  <<IF start < 0 THEN RmClamp(len + start, len) ELSE RmClamp(start, len),
    IF stop < 0 THEN RmClamp(len + stop, len) ELSE RmClamp(stop, len)>>

NormalizeListIndices(len, start, stop) ==
  <<IF start < 0 THEN RmClamp(len + start, len) ELSE RmClamp(start, len),
    IF stop < 0 THEN RmClamp(len + stop + 1, len) ELSE RmClamp(stop + 1, len)>>

RmListRange ==
  \E k \in DOMAIN rmList, a, b \in RmBounds :
    LET list == RmOrEmpty(rmList[k])
        i == NormalizeListIndices(Len(list), a, b)
    IN  RmAnswer(<<"lrange", k, a, b, IF i[1] < i[2] THEN SubSeq(list, i[1] + 1, i[2]) ELSE <<>>>>)

RmListTrim ==
  \E k \in DOMAIN rmList, a, b \in RmBounds :
    IF rmList[k] = {} THEN RmAnswer(<<"ltrim", k, a, b>>)
    ELSE LET list == RmThe(rmList[k])
             i == NormalizeListIndices(Len(list), a, b)
         IN  RmPutList(k, {IF i[1] < i[2] /\ i[2] <= Len(list) THEN SubSeq(list, i[1] + 1, i[2])
                           ELSE <<>>}, <<"ltrim", k, a, b>>)

(* ------------------------------ set_store ------------------------------ *)

RmMembers(k) == IF rmSet[k] = {} THEN {} ELSE RmThe(rmSet[k])

RmSadd == \E k \in DOMAIN rmSet, m \in RmFields :
  RmPutSet(k, {RmMembers(k) \cup {m}}, <<"sadd", k, m, m \notin RmMembers(k)>>)

RmSrem == \E k \in DOMAIN rmSet, m \in RmFields :
  RmPutSet(k, IF rmSet[k] = {} THEN {} ELSE {RmMembers(k) \ {m}}, <<"srem", k, m, m \in RmMembers(k)>>)

RmSmembers == \E k \in DOMAIN rmSet : RmAnswer(<<"smembers", k, RmMembers(k)>>)

(* ----------------------------------------------------------------------- *)

RmAtOnce ==
  \/ RmGet \/ RmSetCall \/ RmIncrbyfloat \/ RmDel \/ RmExists \/ RmScanMatch
  \/ RmHashSet \/ RmHashSetnx \/ RmHashMget \/ RmHashGetAll \/ RmHincrby
  \/ RmHashDel \/ RmHashMset
  \/ RmListPush \/ RmListLpop \/ RmListRpop \/ RmListRange \/ RmListTrim
  \/ RmSadd \/ RmSrem \/ RmSmembers

RmNextStep ==
  \/ RmAtOnce /\ UNCHANGED rmCalls
  \/ RmHashDelMany \/ RmHashDelNext \/ RmPipelineHashMset \/ RmPipelineNext
  \/ RmListBlpop \/ RmBlpopPoll

RmSpec == RmInit /\ [][RmNextStep]_rmVars

RmOne(S) == {{}} \cup {{x} : x \in S}
RmTypeOK ==
  /\ \A k \in DOMAIN rmStr : rmStr[k] \in RmOne(RmVals)
  /\ \A k \in DOMAIN rmHash : \A h \in rmHash[k] : DOMAIN h \subseteq RmFields /\ Range(h) \subseteq RmVals
  /\ \A k \in DOMAIN rmList : \A l \in rmList[k] : Len(l) <= RmMax /\ Range(l) \subseteq RmVals
  /\ \A k \in DOMAIN rmSet : rmSet[k] \in RmOne(SUBSET RmFields)
  /\ rmWait \in RmOne({0, 1})

(* ----------------------------- the contract ---------------------------- *)

RmStore == INSTANCE RtdbStore WITH
  RtKeys <- RmKeys, RtFields <- RmFields, RtVals <- RmVals, RtMax <- RmMax, RtBounds <- RmBounds,
  rtStr <- rmStr,
  rtHash <- [k \in DOMAIN rmHash |-> RmOrEmpty(rmHash[k])],
  rtList <- [k \in DOMAIN rmList |-> RmOrEmpty(rmList[k])],
  rtSet <- [k \in DOMAIN rmSet |-> RmMembers(k)],
  rtOut <- rmOut

(* The in-memory store answers every call as the store of the trait would, *)
(* at every interleaving of a pipeline, a blocking pop and other callers:  *)
(* entries that stay behind empty, and the index arithmetic of the lists,  *)
(* are never seen.                                                         *)
RmImplements == RmStore!RtSpec
=============================================================================
