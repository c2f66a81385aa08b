---------------------------- MODULE SharedMemory ----------------------------
(***************************************************************************)
(* The shared memory as a whole: the pool of dynamic slots, the layout and its *)
(* snapshot on disk, and the readers that watch it.                        *)
(***************************************************************************)
EXTENDS Integers, Sequences, FiniteSets, Functions, FiniteSetsExt, TLC

-----------------------------------------------------------------------------
(*----------------------------- SlotAllocator -----------------------------*)
(***************************************************************************)
(* The pool of slots and the indices that hand its blocks to channels and  *)
(* instances: a bitmap with a count and a hint, first-fit from the hint    *)
(* with one wrap around, and maps replaced as a whole (copy on write).     *)
(* Every operation that allocates or frees holds the bitmap's lock; the    *)
(* ones on shared references do not.                                       *)
(***************************************************************************)

CONSTANTS SaTotal,   \* slots in the pool
          SaOwners,  \* channels (or instances: each index has its own pool)
          SaSizes    \* numbers of points an owner may have

ASSUME SaAssumption == SaTotal \in Nat /\ SaSizes \subseteq Nat

VARIABLES
    saBits,    \* the slots marked in the bitmap
    saCount,   \* allocated_count
    saHint,    \* first_free_hint
    saIndex,   \* the index: owner to its block and shared references
    saClear,   \* clear_shared_slots() under way: owner and the map it cloned
    saRaced    \* history: the index changed under a clear_shared_slots()

saVars == <<saBits, saCount, saHint, saIndex, saClear, saRaced>>

SaSlots == 0 .. SaTotal - 1
SaBlock(base, n) == base .. base + n - 1
SaNoClear == [owner |-> "none", map |-> <<>>]

SaInit ==
    /\ saBits = {} /\ saCount = 0 /\ saHint = 0
    /\ saIndex = <<>> /\ saClear = SaNoClear /\ saRaced = FALSE

\* find_contiguous_free(): the first run of n free slots from start on.
SaFits(bits, start, n) ==
    {b \in start .. SaTotal - n : SaBlock(b, n) \cap bits = {}}

\* alloc_contiguous(): -1 when it returns None.
SaBase(bits, count, hint, n) ==
    LET start == IF hint < SaTotal - n THEN hint ELSE SaTotal - n
        here == SaFits(bits, start, n)
        wrapped == SaFits(bits, 0, n)
    IN  IF n = 0 \/ n > SaTotal - count THEN -1
        ELSE IF here # {} THEN Min(here)
        ELSE IF wrapped # {} THEN Min(wrapped)
        ELSE -1

\* mark_allocated(): the hint moves behind the block, unless that is the end.
SaHintAfter(hint, base, n) == IF base + n < SaTotal THEN base + n ELSE hint

\* free(): the hint moves back to the block.
SaHintFreed(hint, base) == IF base < hint THEN base ELSE hint

SaTouch == saRaced' = (saRaced \/ saClear # SaNoClear)

SaAdd(o) ==
    \E n \in SaSizes :
        LET base == SaBase(saBits, saCount, saHint, n)
        IN  /\ o \notin DOMAIN saIndex /\ base >= 0
            /\ saBits' = saBits \cup SaBlock(base, n)
            /\ saCount' = saCount + n
            /\ saHint' = SaHintAfter(saHint, base, n)
            /\ saIndex' = o :> [base |-> base, n |-> n, shared |-> FALSE] @@ saIndex
            /\ SaTouch /\ UNCHANGED saClear

\* Mutant: the count is not reduced.
SaRemoveKeepsCount(o) ==
    /\ o \in DOMAIN saIndex
    /\ LET blk == saIndex[o]
       IN  /\ saBits' = saBits \ SaBlock(blk.base, blk.n)
           /\ saCount' = saCount
           /\ saHint' = SaHintFreed(saHint, blk.base)
    /\ saIndex' = Restrict(saIndex, DOMAIN saIndex \ {o})
    /\ SaTouch /\ UNCHANGED saClear

SaRemove(o) ==
    /\ o \in DOMAIN saIndex
    /\ LET blk == saIndex[o]
       IN  /\ saBits' = saBits \ SaBlock(blk.base, blk.n)
           /\ saCount' = saCount - blk.n
           /\ saHint' = SaHintFreed(saHint, blk.base)
    /\ saIndex' = Restrict(saIndex, DOMAIN saIndex \ {o})
    /\ SaTouch /\ UNCHANGED saClear

\* update_channel(): the old block is freed first, and stays free when no block
\* of the new size is found.
SaUpdate(o) ==
    /\ o \in DOMAIN saIndex
    /\ \E n \in SaSizes :
        LET blk == saIndex[o]
            bits == saBits \ SaBlock(blk.base, blk.n)
            hint == SaHintFreed(saHint, blk.base)
            base == SaBase(bits, saCount - blk.n, hint, n)
            rest == Restrict(saIndex, DOMAIN saIndex \ {o})
        IN  \/ /\ base >= 0
               /\ saBits' = bits \cup SaBlock(base, n)
               /\ saCount' = saCount - blk.n + n
               /\ saHint' = SaHintAfter(hint, base, n)
               /\ saIndex' = o :> [base |-> base, n |-> n, shared |-> FALSE] @@ rest
            \/ /\ base < 0
               /\ saBits' = bits /\ saCount' = saCount - blk.n /\ saHint' = hint
               /\ saIndex' = rest
    /\ SaTouch /\ UNCHANGED saClear

\* add_shared_slot(): get(), load() and store() with nothing in between here.
SaShare(o) ==
    /\ o \in DOMAIN saIndex /\ ~saIndex[o].shared
    /\ saIndex' = [saIndex EXCEPT ![o].shared = TRUE]
    /\ SaTouch /\ UNCHANGED <<saBits, saCount, saHint, saClear>>

\* clear_shared_slots() clones the map ...
SaClearRead(o) ==
    /\ o \in DOMAIN saIndex /\ saClear = SaNoClear
    /\ saClear' = [owner |-> o, map |-> saIndex]
    /\ UNCHANGED <<saBits, saCount, saHint, saIndex, saRaced>>

\* ... and stores it with the owner's references cleared.
SaClearStore ==
    /\ saClear # SaNoClear
    /\ saIndex' = [saClear.map EXCEPT ![saClear.owner].shared = FALSE]
    /\ saClear' = SaNoClear
    /\ UNCHANGED <<saBits, saCount, saHint, saRaced>>

\* What follows a race is not explored.
SaNext ==
    /\ ~saRaced
    /\ \/ \E o \in SaOwners :
             SaAdd(o) \/ SaRemove(o) \/ SaUpdate(o) \/ SaShare(o) \/ SaClearRead(o)
       \/ SaClearStore

SaSpec == SaInit /\ [][SaNext]_saVars

SaTypeOK ==
    /\ saBits \subseteq SaSlots /\ saHint \in 0 .. SaTotal
    /\ DOMAIN saIndex \subseteq SaOwners

-----------------------------------------------------------------------------
\* As long as no clear_shared_slots() raced with a change of the index, the
\* blocks of two owners never overlap, the bitmap marks exactly the slots of
\* the blocks, and allocated_count is their number: no slot is leaked by an
\* update that fails, and none is handed out twice.
SaExact ==
    ~saRaced =>
        /\ \A o, p \in DOMAIN saIndex : o # p =>
              SaBlock(saIndex[o].base, saIndex[o].n) \cap SaBlock(saIndex[p].base, saIndex[p].n) = {}
        /\ saBits = UNION {SaBlock(saIndex[o].base, saIndex[o].n) : o \in DOMAIN saIndex}
        /\ saCount = Cardinality(saBits)

\* The hint never hides a free block: alloc_contiguous() refuses a size only
\* when no run of that many slots is free.
SaFindsRoom ==
    ~saRaced => \A n \in SaSizes \ {0} :
        SaBase(saBits, saCount, saHint, n) >= 0
            <=> \E b \in SaSlots : SaBlock(b, n) \subseteq SaSlots \ saBits

-----------------------------------------------------------------------------
(*------------------------------ ShmSnapshot ------------------------------*)
(***************************************************************************)
(* Where the points of the channels live in shared memory, and what a      *)
(* snapshot brings back after a restart of comsrv: slots are dealt out     *)
(* from the point counts, a background task copies them slot by slot to a  *)
(* temporary file that is renamed over the last snapshot, and a start of   *)
(* comsrv creates an empty memory and fills it by slot number.             *)
(*                                                                         *)
(* A reading is the point it belongs to and its number; a slot is being    *)
(* written between the two halves of its sequence lock.                    *)
(***************************************************************************)

CONSTANTS SnChannels,  \* channels 1 .. SnChannels
          SnConfigs,   \* point counts of the channels: <<T, S, C, A>> each
          SnMax,       \* bound: readings
          SnStarts     \* bound: restarts and rebuilds

ASSUME SnAssumption == SnChannels \in Nat \ {0}

VARIABLES
    snDb,      \* the counts of the point tables
    snLay,     \* the counts the memory was created from
    snMem,     \* the slots: a reading, empty when unwritten
    snBusy,    \* points whose slot is being written
    snTmp,     \* the temporary file: the slots copied so far, -1 when none
    snFile,    \* the snapshot: counts (their hash) and slots
    snUp,      \* comsrv runs
    snMoved,   \* history: the memory was restored from other counts
    snNext,    \* the number of the next reading
    snLeft     \* restarts and rebuilds that are left

snVars == <<snDb, snLay, snMem, snBusy, snTmp, snFile, snUp, snMoved, snNext, snLeft>>

SnUnwritten == <<>>
SnNoFile == [lay |-> <<>>, slots |-> <<>>]
SnNoTmp == [at |-> -1, slots |-> <<>>]

SnEven(n) == n + (n % 2)

\* allocate_layouts(): a channel starts on a fresh cache line (two slots), and
\* so do its action points.
SnLayout(cfg) ==
    LET actions(c) == cfg[c][3] + cfg[c][4]
        upto[c \in 0 .. SnChannels] ==
            IF c = 0 THEN 0
            ELSE IF cfg[c] = <<0, 0, 0, 0>> THEN upto[c - 1]
            ELSE LET inputs == SnEven(upto[c - 1]) + cfg[c][1] + cfg[c][2]
                 IN  IF actions(c) = 0 THEN inputs ELSE SnEven(inputs) + actions(c)
        base(c) == SnEven(upto[c - 1])
        first(c, t) ==
            CASE t = 1 -> base(c)
              [] t = 2 -> base(c) + cfg[c][1]
              [] t = 3 -> SnEven(base(c) + cfg[c][1] + cfg[c][2])
              [] t = 4 -> SnEven(base(c) + cfg[c][1] + cfg[c][2]) + cfg[c][3]
    IN  [first |-> [c \in 1 .. SnChannels |-> [t \in 1 .. 4 |-> first(c, t)]],
         count |-> upto[SnChannels]]

SnTable == [cfg \in SnConfigs |-> SnLayout(cfg)]

\* ChannelLayout::slot() of the points there are: channel, type, number.
SnPointsOf == [cfg \in SnConfigs |->
    {p \in (1 .. SnChannels) \X (1 .. 4) \X (0 .. 3) : p[3] < cfg[p[1]][p[2]]}]
SnPoints(cfg) == SnPointsOf[cfg]
SnSlot(cfg, p) == SnTable[cfg].first[p[1]][p[2]] + p[3]
SnSlots(cfg) == 0 .. SnTable[cfg].count - 1

\* UnifiedWriter::create(): every slot unwritten.
SnFresh(cfg) == [i \in SnSlots(cfg) |-> SnUnwritten]

SnInit ==
    /\ snDb \in SnConfigs /\ snLay = snDb /\ snMem = SnFresh(snDb)
    /\ snBusy = {} /\ snTmp = SnNoTmp /\ snFile = SnNoFile
    /\ snUp = TRUE /\ snMoved = FALSE /\ snNext = 1 /\ snLeft = SnStarts

SnBegin(p) ==
    /\ snUp /\ p \in SnPoints(snLay) \ snBusy /\ snNext <= SnMax
    /\ snBusy' = snBusy \cup {p}
    /\ UNCHANGED <<snDb, snLay, snMem, snTmp, snFile, snUp, snMoved, snNext, snLeft>>

SnEnd(p) ==
    /\ snUp /\ p \in snBusy /\ snBusy' = snBusy \ {p}
    /\ snNext <= SnMax /\ snNext' = snNext + 1
    /\ snMem' = [snMem EXCEPT ![SnSlot(snLay, p)] = <<p, snNext>>]
    /\ UNCHANGED <<snDb, snLay, snTmp, snFile, snUp, snMoved, snLeft>>

\* save_snapshot_impl(): the temporary file is created, then slot after slot ...
SnSave ==
    /\ snUp /\ snTmp.at = -1 /\ snTmp' = [at |-> 0, slots |-> <<>>]
    /\ UNCHANGED <<snDb, snLay, snMem, snBusy, snFile, snUp, snMoved, snNext, snLeft>>

\* ... one being written goes in as unwritten ...
SnCopy ==
    /\ snUp /\ snTmp.at \in SnSlots(snLay)
    /\ LET busy == \E p \in snBusy : SnSlot(snLay, p) = snTmp.at
       IN  snTmp' = [at |-> snTmp.at + 1,
                     slots |-> snTmp.at :> (IF busy THEN SnUnwritten ELSE snMem[snTmp.at]) @@ snTmp.slots]
    /\ UNCHANGED <<snDb, snLay, snMem, snBusy, snFile, snUp, snMoved, snNext, snLeft>>

\* ... and the file is renamed over the last snapshot.
SnRename ==
    /\ snUp /\ snTmp.at = SnTable[snLay].count
    /\ snFile' = [lay |-> snLay, slots |-> snTmp.slots] /\ snTmp' = SnNoTmp
    /\ UNCHANGED <<snDb, snLay, snMem, snBusy, snUp, snMoved, snNext, snLeft>>

\* The point tables change; the memory does not.
SnEdit ==
    /\ \E cfg \in SnConfigs : cfg # snDb /\ snDb' = cfg
    /\ snLeft > 0 /\ snLeft' = snLeft - 1
    /\ UNCHANGED <<snLay, snMem, snBusy, snTmp, snFile, snUp, snMoved, snNext>>

\* rebuild_via_swap() for the tables as they are: nothing is carried over.  A
\* save that has begun holds the old layout (layout_arc()) and runs to its end
\* without another await, so the two do not overlap.
SnRebuild ==
    /\ snUp /\ snTmp.at = -1 /\ snLay # snDb
    /\ snLay' = snDb /\ snMem' = SnFresh(snDb) /\ snBusy' = {} /\ snMoved' = FALSE
    /\ UNCHANGED <<snDb, snTmp, snFile, snUp, snNext, snLeft>>

SnCrash ==
    /\ snUp /\ snUp' = FALSE /\ snLeft > 0 /\ snLeft' = snLeft - 1
    /\ snBusy' = {} /\ snTmp' = SnNoTmp
    /\ UNCHANGED <<snDb, snLay, snMem, snFile, snMoved, snNext>>

\* restore_from_snapshot(): the slots both memories have, by their number; a
\* hash that differs is only logged.
SnRestored(cfg, file) ==
    [i \in SnSlots(cfg) |-> IF i \in DOMAIN file.slots THEN file.slots[i] ELSE SnUnwritten]

\* The start of comsrv: from the snapshot when there is one.
SnStart ==
    /\ ~snUp /\ snUp' = TRUE /\ snLay' = snDb
    /\ \/ /\ snFile = SnNoFile
          /\ snMem' = SnFresh(snDb) /\ snMoved' = FALSE
       \/ /\ snFile # SnNoFile
          /\ snMem' = SnRestored(snDb, snFile) /\ snMoved' = (snFile.lay # snDb)
    /\ UNCHANGED <<snDb, snBusy, snTmp, snFile, snNext, snLeft>>

SnNextStep ==
    \/ \E p \in SnPoints(snLay) : SnBegin(p) \/ SnEnd(p)
    \/ SnSave \/ SnCopy \/ SnRename \/ SnEdit \/ SnRebuild \/ SnCrash \/ SnStart

SnSpec == SnInit /\ [][SnNextStep]_snVars

SnTypeOK ==
    /\ snDb \in SnConfigs /\ snLay \in SnConfigs
    /\ DOMAIN snMem = SnSlots(snLay) /\ snBusy \subseteq SnPoints(snLay)

-----------------------------------------------------------------------------
\* allocate_layouts() gives every point a slot of its own below slot_count, and
\* no cache line (two slots) holds both a slot comsrv writes (T, S) and one
\* modsrv writes (C, A), or slots of two channels.
SnLinesApart ==
    \A p, q \in SnPoints(snDb) :
        /\ SnSlot(snDb, p) \in SnSlots(snDb)
        /\ (p # q => SnSlot(snDb, p) # SnSlot(snDb, q))
        /\ (p[1] # q[1] \/ (p[2] <= 2 /\ q[2] > 2))
              => SnSlot(snDb, p) \div 2 # SnSlot(snDb, q) \div 2

\* Whatever was saved, crashed and restored, a point shows a reading of its own
\* or none, as long as the snapshot was made from the counts it is restored to;
\* and a snapshot at its path is always whole.
SnOwnReadings ==
    /\ ~snMoved => \A p \in SnPoints(snLay) :
          \/ snMem[SnSlot(snLay, p)] = SnUnwritten
          \/ snMem[SnSlot(snLay, p)][1] = p
    /\ snFile # SnNoFile => DOMAIN snFile.slots = SnSlots(snFile.lay)

-----------------------------------------------------------------------------
(*-------------------------------- ShmWatch -------------------------------*)
(***************************************************************************)
(* The shared file between comsrv and the rule engine of modsrv: created   *)
(* by comsrv at start (truncating the file in place), replaced by an       *)
(* atomic rename when channels are renumbered, read by the rule engine     *)
(* through a UnifiedReader it opened at its own start, and watched through *)
(* a bitmap of slots that modsrv sets and comsrv tests on every write.     *)
(* A layout maps points to slots; a slot's content says for which point it *)
(* was written.                                                            *)
(***************************************************************************)

CONSTANTS SwPoints,    \* points (strings)
          SwLayouts,   \* layouts the database may describe: functions from
                       \* points to slots 1..n
          SwSlots,     \* max_slots
          SwWrites,    \* bound: writes of comsrv
          SwStarts,    \* bound: starts of comsrv
          SwModStarts, \* bound: starts of modsrv
          SwSwaps,     \* bound: rebuilds by rename
          SwEdits,     \* bound: changes of the database
          SwCap        \* capacity of the event channel

ASSUME SwAssumption ==
    /\ SwSlots \in Nat /\ SwCap \in Nat
    /\ \A l \in SwLayouts : /\ DOMAIN l \subseteq SwPoints
                            /\ \A p \in DOMAIN l : l[p] \in 1..SwSlots

VARIABLES swDb,      \* the layout the database describes
          swNodes,   \* inodes: [layout, val, age]
          swPath,    \* inode at the canonical path, 0 = no file
          swStaged,  \* inode of the staging file, 0 = none
          swBits,    \* the bitmap file: [made, set]
          swCom,     \* comsrv: [st, ino, sig]
          swMod,     \* modsrv: [st, points, reader, age, watch, subs]
          swQueue,   \* events on their way
          swGot,     \* what a rule read last: [point, val]
          swSeen,    \* the event dispatched last: [point, val]
          swCount    \* [writes, starts, mods, swaps, edits]

swVars == <<swDb, swNodes, swPath, swStaged, swBits, swCom, swMod, swQueue,
            swGot, swSeen, swCount>>

SwNan == <<"nan", 0>>          \* init_unwritten
SwZero == <<"zero", 0>>        \* what set_len leaves behind
SwNothing == [point |-> "none", val |-> SwNan]
SwModOff == [st |-> "off", points |-> <<>>, reader |-> 0, age |-> 0,
             watch |-> FALSE, subs |-> {}]
SwComOff == [st |-> "off", ino |-> 0, sig |-> <<>>]

\* UnifiedWriter::create: every slot of the layout is the unwritten sentinel,
\* the rest of the file is what set_len made of it.
SwFresh(layout, age) ==
    [layout |-> layout,
     val |-> [s \in 1..SwSlots |->
                 IF s <= Cardinality(DOMAIN layout) THEN SwNan ELSE SwZero],
     age |-> age]

\* ReverseSlotIndex::from_forward: the point a slot belongs to.
SwOrigin(layout, s) ==
    IF \E p \in DOMAIN layout : layout[p] = s
    THEN CHOOSE p \in DOMAIN layout : layout[p] = s
    ELSE "none"

\* PointWatchEvent: the origin and the value.
SwEvent(p, v) == [point |-> p, val |-> v]

\* SubscriptionBitmap::create: zero-filled.
SwBitmap == [made |-> TRUE, set |-> {}]

\* SubscriptionBitmap: the bits of a set of points, after clear_all, by the
\* index built from the layout.
SwWatchSet(index, w) == {index[p] : p \in w \cap DOMAIN index}
SwIsWatched(s) == s \in swBits.set

\* SlotReader::slot_at: bounded by the slot_count of the open, not by what
\* the file's header says now.
SwSlotAt(ino, s) == swNodes[ino].val[s]

\* SlotWriter::set_direct.
SwStore(ino, s, v) == [swNodes EXCEPT ![ino].val[s] = v]

\* cleanup_orphan_generation_files: a staging file nobody renamed.
SwCleanup == 0

\* validate_shm_header and verify_slot_count: the fingerprint of the file is
\* the one of the local layout.
SwAligned(ino, points) == ino # 0 /\ swNodes[ino].layout = points

SwInit ==
    /\ swDb \in SwLayouts
    /\ swNodes = <<>> /\ swPath = 0 /\ swStaged = 0
    /\ swBits = [made |-> FALSE, set |-> {}]
    /\ swCom = SwComOff /\ swMod = SwModOff
    /\ swQueue = <<>> /\ swGot = SwNothing /\ swSeen = SwNothing
    /\ swCount = [writes |-> 0, starts |-> 0, mods |-> 0, swaps |-> 0, edits |-> 0]

\* The configuration changes: through comsrv's interface or offline.
SwReconfigure(l) ==
    /\ swCount.edits < SwEdits /\ l # swDb
    /\ swDb' = l
    /\ swCount' = [swCount EXCEPT !.edits = @ + 1]
    /\ UNCHANGED <<swNodes, swPath, swStaged, swBits, swCom, swMod, swQueue,
                   swGot, swSeen>>

\* ------------------------------------------------------------------
\* comsrv
\* ------------------------------------------------------------------
\* Start: orphaned staging files are removed; the canonical file is created,
\* or truncated in place under whoever has it mapped.
SwCreate ==
    /\ swCom.st = "off" /\ swCount.starts < SwStarts
    /\ swStaged' = SwCleanup
    /\ IF swPath = 0
       THEN /\ swNodes' = Append(swNodes, SwFresh(swDb, 0))
            /\ swPath' = Len(swNodes) + 1
       ELSE /\ swNodes' = [swNodes EXCEPT ![swPath] = SwFresh(swDb, @.age + 1)]
            /\ UNCHANGED swPath
    /\ swCom' = [st |-> "made", ino |-> swPath', sig |-> <<>>]
    /\ swQueue' = <<>>
    /\ swCount' = [swCount EXCEPT !.starts = @ + 1]
    /\ UNCHANGED <<swDb, swBits, swMod, swGot, swSeen>>

\* SubscriptionBitmap::create (zero-filled, same inode) and the signaler with
\* the reverse index of this moment's layout.
SwAttach ==
    /\ swCom.st = "made"
    /\ swBits' = SwBitmap
    /\ swCom' = [swCom EXCEPT !.st = "up", !.sig = swNodes[swCom.ino].layout]
    /\ UNCHANGED <<swDb, swNodes, swPath, swStaged, swMod, swQueue, swGot, swSeen,
                   swCount>>

SwComStop ==
    /\ swCom.st # "off"
    /\ swCom' = SwComOff
    /\ UNCHANGED <<swDb, swNodes, swPath, swStaged, swBits, swMod, swQueue, swGot,
                   swSeen, swCount>>

\* rebuild_via_swap: a fresh file at a staging path ...
SwStage ==
    /\ swCom.st = "up" /\ swStaged = 0 /\ swCount.swaps < SwSwaps
    /\ swNodes' = Append(swNodes, SwFresh(swDb, 0))
    /\ swStaged' = Len(swNodes) + 1
    /\ swCount' = [swCount EXCEPT !.swaps = @ + 1]
    /\ UNCHANGED <<swDb, swPath, swBits, swCom, swMod, swQueue, swGot, swSeen>>

\* ... renamed over the canonical one and opened as the writer; the stored
\* signaler is attached to it again.
SwCommit ==
    /\ swCom.st = "up" /\ swStaged # 0
    /\ swPath' = swStaged /\ swStaged' = 0
    /\ swCom' = [swCom EXCEPT !.ino = swStaged]
    /\ UNCHANGED <<swDb, swNodes, swBits, swMod, swQueue, swGot, swSeen, swCount>>

\* PointWatchSignaler::emit: the slot is watched, has an origin, and the
\* channel has room.
SwEmit(s, v) ==
    IF /\ SwIsWatched(s)
       /\ SwOrigin(swCom.sig, s) # "none"
       /\ Len(swQueue) < SwCap
    THEN Append(swQueue, SwEvent(SwOrigin(swCom.sig, s), v))
    ELSE swQueue

\* set_direct on the slot of the point, then the signaler.
SwWrite(p) ==
    /\ swCom.st = "up" /\ swCount.writes < SwWrites
    /\ p \in DOMAIN swNodes[swCom.ino].layout
    /\ LET s == swNodes[swCom.ino].layout[p]
           v == <<p, swCount.writes + 1>>
       IN /\ swNodes' = SwStore(swCom.ino, s, v)
          /\ swQueue' = SwEmit(s, v)
    /\ swCount' = [swCount EXCEPT !.writes = @ + 1]
    /\ UNCHANGED <<swDb, swPath, swStaged, swBits, swCom, swMod, swGot, swSeen>>

\* ------------------------------------------------------------------
\* modsrv
\* ------------------------------------------------------------------
\* The point counts are loaded once, before the reader is tried.
SwModLoad ==
    /\ swMod.st = "off" /\ swCount.mods < SwModStarts
    /\ swMod' = [SwModOff EXCEPT !.st = "opening", !.points = swDb]
    /\ swCount' = [swCount EXCEPT !.mods = @ + 1]
    /\ UNCHANGED <<swDb, swNodes, swPath, swStaged, swBits, swCom, swQueue, swGot,
                   swSeen>>

\* UnifiedReader::open succeeds; PointWatch is enabled if the bitmap is there.
SwModOpen ==
    /\ swMod.st = "opening" /\ SwAligned(swPath, swMod.points)
    /\ swMod' = [swMod EXCEPT !.st = "on", !.reader = swPath,
                              !.age = swNodes[swPath].age, !.watch = swBits.made]
    /\ UNCHANGED <<swDb, swNodes, swPath, swStaged, swBits, swCom, swQueue, swGot,
                   swSeen, swCount>>

\* MAX_RETRIES opens have failed: no file, or one of another layout.
\* modsrv runs without shared memory.
SwModGiveUp ==
    /\ swMod.st = "opening" /\ ~ SwAligned(swPath, swMod.points)
    /\ swMod' = [swMod EXCEPT !.st = "on"]
    /\ UNCHANGED <<swDb, swNodes, swPath, swStaged, swBits, swCom, swQueue, swGot,
                   swSeen, swCount>>

\* rebuild_from_rules: the bitmap is cleared, then the slots of the points
\* the rules name are set, by the index built at start.
SwReload(w) ==
    /\ swMod.st = "on" /\ swMod.watch
    /\ swMod.subs # w
    /\ swMod' = [swMod EXCEPT !.subs = w]
    /\ swBits' = [swBits EXCEPT !.set = SwWatchSet(swMod.points, w)]
    /\ UNCHANGED <<swDb, swNodes, swPath, swStaged, swCom, swQueue, swGot, swSeen,
                   swCount>>

\* handle_connection and the bridge: an event whose point has a rule is
\* dispatched; without a listener it is dropped.
SwDeliver ==
    /\ swQueue # <<>>
    /\ swQueue' = Tail(swQueue)
    /\ swSeen' = IF swMod.st = "on" /\ swMod.watch /\ Head(swQueue).point \in swMod.subs
                 THEN Head(swQueue) ELSE swSeen
    /\ UNCHANGED <<swDb, swNodes, swPath, swStaged, swBits, swCom, swMod, swGot,
                   swCount>>

\* get_instance of the executor and of the scheduler's snapshot: the slot by
\* the layout of the reader, the content from the file it has mapped.
SwRead(p) ==
    /\ swMod.st = "on" /\ swMod.reader # 0
    /\ p \in DOMAIN swMod.points
    /\ swGot' = [point |-> p, val |-> SwSlotAt(swMod.reader, swMod.points[p])]
    /\ swGot' # swGot
    /\ UNCHANGED <<swDb, swNodes, swPath, swStaged, swBits, swCom, swMod, swQueue,
                   swSeen, swCount>>

SwModStop ==
    /\ swMod.st # "off"
    /\ swMod' = SwModOff
    /\ swGot' = SwNothing /\ swSeen' = SwNothing
    /\ UNCHANGED <<swDb, swNodes, swPath, swStaged, swBits, swCom, swQueue, swCount>>

SwNext ==
    \/ \E l \in SwLayouts : SwReconfigure(l)
    \/ SwCreate \/ SwAttach \/ SwComStop \/ SwStage \/ SwCommit
    \/ \E p \in SwPoints : SwWrite(p)
    \/ SwModLoad \/ SwModOpen \/ SwModGiveUp
    \/ \E w \in SUBSET SwPoints : SwReload(w)
    \/ SwDeliver
    \/ \E p \in SwPoints : SwRead(p)
    \/ SwModStop

SwSpec == SwInit /\ [][SwNext]_swVars

\* ------------------------------------------------------------------
\* Properties
\* ------------------------------------------------------------------
SwTypeOK ==
    /\ swDb \in SwLayouts
    /\ swPath \in 0..Len(swNodes) /\ swStaged \in 0..Len(swNodes)
    /\ swBits.set \subseteq 1..SwSlots
    /\ swCom.st \in {"off", "made", "up"} /\ swCom.ino \in 0..Len(swNodes)
    /\ swMod.st \in {"off", "opening", "on"} /\ swMod.reader \in 0..Len(swNodes)
    /\ Len(swQueue) <= SwCap

\* As long as the file a rule engine has mapped was not created anew under
\* it, what a rule reads of a point was written for that point, whatever is
\* renumbered and swapped meanwhile (get_instance after rebuild_via_swap).
SwOwnReading ==
    swMod.reader # 0 /\ swNodes[swMod.reader].age = swMod.age
        => swGot.val[1] \in {"nan", swGot.point}

\* A reader is opened only on a file of the layout it will use, so the slots
\* it watches are those of its points (validate_shm_header).
SwOpensAligned ==
    [][swMod.reader = 0 /\ swMod'.reader # 0 =>
          swNodes[swMod'.reader].layout = swMod'.points]_swVars

=============================================================================
