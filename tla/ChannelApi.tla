----------------------------- MODULE ChannelApi -----------------------------
(***************************************************************************)
(* What the API of comsrv does with the channels: their points, the views of *)
(* their state, and their log files.                                       *)
(***************************************************************************)
EXTENDS Integers, Sequences, FiniteSets, Functions, SequencesExt, FiniteSetsExt, TLC

-----------------------------------------------------------------------------
(*----------------------------- ChannelPoints -----------------------------*)
(***************************************************************************)
(* comsrv's configuration API over SQLite: the points of a channel and     *)
(* their protocol mappings (single and batch edits, mapping updates,       *)
(* templates, SunSpec provisioning), the deletion of a channel and the     *)
(* migration of a channel to another id.                                   *)
(*                                                                         *)
(* Every statement runs on some connection of the pool; a connection       *)
(* enforces foreign keys unless `PRAGMA foreign_keys = OFF` was left on it.*)
(* The database is in WAL mode: a transaction that has read and then       *)
(* writes fails if another one has committed in between, and a transaction *)
(* that begins with a write is one step here.  The four point tables are   *)
(* one; of a mapping only the set of its fields is kept; names, scales and *)
(* units are left out.  The reload of the channel that an edit may spawn   *)
(* is the work of ChannelManager.                                          *)
(***************************************************************************)

CONSTANTS PtChans,   \* channel ids
          PtMaxId,   \* bound: largest point id
          PtFields,  \* fields of a protocol mapping
          PtConns,   \* connections of the pool
          PtCalls,   \* requests in progress at once
          PtBound    \* bound: requests

ASSUME PtAssumption ==
    PtMaxId \in Nat /\ PtBound \in Nat /\ IsFiniteSet(PtChans) /\ IsFiniteSet(PtConns)

VARIABLES
    ptChan,   \* channels with a row in `channels`
    ptRow,    \* point rows: <<channel, point>> to the fields of its mapping
    ptTpl,    \* the template, if there is one: point to fields
    ptFk,     \* connection to whether it enforces foreign keys
    ptCall,   \* what each request is doing
    ptLeft    \* requests still to come

ptVars == <<ptChan, ptRow, ptTpl, ptFk, ptCall, ptLeft>>

PtIds == 1..PtMaxId
PtIdle == [at |-> "idle"]
PtOf(ch) == {p \in PtIds : <<ch, p>> \in DOMAIN ptRow}

PtInit ==
    /\ \E ch \in PtChans : ptChan = {ch} /\ ptRow = (<<ch, 1>> :> {})
    /\ ptTpl = {}
    /\ ptFk = [k \in PtConns |-> TRUE]
    /\ ptCall = [c \in PtCalls |-> PtIdle]
    /\ ptLeft = PtBound

----------------------------------------------------------------------------
(* Requests and transactions *)

PtBegin(c, s) ==
    /\ ptCall[c] = PtIdle /\ ptLeft > 0
    /\ ptLeft' = ptLeft - 1
    /\ ptCall' = [ptCall EXCEPT ![c] = s]

PtTo(c, at) == ptCall' = [ptCall EXCEPT ![c].at = at]
PtEnd(c) == ptCall' = [ptCall EXCEPT ![c] = PtIdle]

\* The transactions that have read are out of date once c has committed.
PtCommitted(c, s) ==
    ptCall' = [d \in PtCalls |->
        IF d = c THEN s
        ELSE IF ptCall[d].at = "merge" THEN [ptCall[d] EXCEPT !.clean = FALSE] ELSE ptCall[d]]

\* Connections that no migration holds.
PtFree == PtConns \ {ptCall[c].conn : c \in {d \in PtCalls : ptCall[d].at \in {"move", "on"}}}

\* A row may be written on connection k if its channel exists or k does not look.
PtAllows(k, ch) == ptFk[k] => ch \in ptChan

PtRows(ch, f) == [r \in {ch} \X DOMAIN f |-> f[r[2]]]
PtWithout(rows, chs) == Restrict(rows, {r \in DOMAIN rows : r[1] \notin chs})
PtFrame == UNCHANGED <<ptChan, ptTpl, ptFk, ptLeft>>

----------------------------------------------------------------------------
(* Points, one by one and in a batch *)

\* create_*_point_handler, and a batch's create with or without `force`.
PtCreate(c) ==
    \E ch \in PtChans, p \in PtIds, fs \in {{}, PtFields}, force \in BOOLEAN :
        /\ PtBegin(c, [at |-> "exists", op |-> "create", ch |-> ch, p |-> p, fs |-> fs,
                       force |-> force])
        /\ UNCHANGED <<ptChan, ptRow, ptTpl, ptFk>>

PtDeletePoint(c) ==
    \E ch \in PtChans, p \in PtIds :
        /\ PtBegin(c, [at |-> "exists", op |-> "delete", ch |-> ch, p |-> p])
        /\ UNCHANGED <<ptChan, ptRow, ptTpl, ptFk>>

\* validate_channel_exists()
PtExists(c) ==
    /\ ptCall[c].at = "exists"
    /\ IF ptCall[c].ch \notin ptChan THEN PtEnd(c)
       ELSE PtTo(c, CASE ptCall[c].op = "create" -> (IF ptCall[c].force THEN "upsert" ELSE "unique")
                      [] ptCall[c].op = "delete" -> "find"
                      [] ptCall[c].op = "map" -> "items"
                      [] ptCall[c].op = "save" -> "points"
                      [] ptCall[c].op = "apply" -> "apply"
                      [] OTHER -> "number")
    /\ UNCHANGED ptRow /\ PtFrame

\* validate_point_uniqueness()
PtUnique(c) ==
    /\ ptCall[c].at = "unique"
    /\ IF ptCall[c].p \in PtOf(ptCall[c].ch) THEN PtEnd(c) ELSE PtTo(c, "insert")
    /\ UNCHANGED ptRow /\ PtFrame

\* The primary key refuses a row that another request has created meanwhile.
PtInsert(c) ==
    /\ ptCall[c].at = "insert"
    /\ \E k \in PtFree :
        IF PtAllows(k, ptCall[c].ch) /\ ptCall[c].p \notin PtOf(ptCall[c].ch)
        THEN /\ ptRow' = (<<ptCall[c].ch, ptCall[c].p>> :> ptCall[c].fs) @@ ptRow
             /\ PtCommitted(c, PtIdle)
        ELSE UNCHANGED ptRow /\ PtEnd(c)
    /\ PtFrame

\* INSERT ... ON CONFLICT DO UPDATE: without a mapping in the request the old one stays.
PtUpsert(c) ==
    /\ ptCall[c].at = "upsert"
    /\ \E k \in PtFree :
        LET r == <<ptCall[c].ch, ptCall[c].p>>
        IN  IF PtAllows(k, ptCall[c].ch)
            THEN /\ ptRow' = (r :> IF r \in DOMAIN ptRow /\ ptCall[c].fs = {} THEN ptRow[r]
                                   ELSE ptCall[c].fs) @@ ptRow
                 /\ PtCommitted(c, PtIdle)
            ELSE UNCHANGED ptRow /\ PtEnd(c)
    /\ PtFrame

PtFind(c) ==
    /\ ptCall[c].at = "find"
    /\ IF ptCall[c].p \in PtOf(ptCall[c].ch) THEN PtTo(c, "erase") ELSE PtEnd(c)
    /\ UNCHANGED ptRow /\ PtFrame

PtErase(c) ==
    /\ ptCall[c].at = "erase"
    /\ ptRow' = Restrict(ptRow, DOMAIN ptRow \ {<<ptCall[c].ch, ptCall[c].p>>})
    /\ PtCommitted(c, PtIdle)
    /\ PtFrame

----------------------------------------------------------------------------
(* update_channel_mappings_handler() *)

PtMap(c) ==
    \E ch \in PtChans, p \in PtIds, fs \in SUBSET PtFields, merge \in BOOLEAN :
        /\ PtBegin(c, [at |-> "exists", op |-> "map", ch |-> ch, p |-> p, fs |-> fs,
                       merge |-> merge])
        /\ UNCHANGED <<ptChan, ptRow, ptTpl, ptFk>>

\* Every point has to exist; a request may also end here: invalid, or validate_only.
PtItems(c) ==
    /\ ptCall[c].at = "items"
    /\ \/ ptCall[c].p \in PtOf(ptCall[c].ch)
          /\ PtTo(c, IF ptCall[c].merge THEN "select" ELSE "replace")
       \/ PtEnd(c)
    /\ UNCHANGED ptRow /\ PtFrame

PtSet(rows, r, fs) == IF r \in DOMAIN rows THEN [rows EXCEPT ![r] = fs] ELSE rows

PtReplace(c) ==
    /\ ptCall[c].at = "replace"
    /\ ptRow' = PtSet(ptRow, <<ptCall[c].ch, ptCall[c].p>>, ptCall[c].fs)
    /\ PtCommitted(c, PtIdle)
    /\ PtFrame

\* The transaction of a merge reads the mapping first.
PtSelect(c) ==
    /\ ptCall[c].at = "select"
    /\ LET r == <<ptCall[c].ch, ptCall[c].p>>
           base == IF r \in DOMAIN ptRow THEN ptRow[r] ELSE {}
       IN  ptCall' = [ptCall EXCEPT ![c] = [at |-> "merge", op |-> "map", row |-> r, clean |-> TRUE,
                                            fs |-> base \cup ptCall[c].fs]]
    /\ UNCHANGED ptRow /\ PtFrame

\* It writes what it has merged, unless the result is invalid or the snapshot is out of date.
PtMerge(c) ==
    /\ ptCall[c].at = "merge"
    /\ \/ /\ ptCall[c].clean
          /\ ptRow' = PtSet(ptRow, ptCall[c].row, ptCall[c].fs)
          /\ PtCommitted(c, PtIdle)
       \/ UNCHANGED ptRow /\ PtEnd(c)
    /\ PtFrame

----------------------------------------------------------------------------
(* Templates and provisioning *)

PtSave(c) ==
    \E ch \in PtChans :
        /\ PtBegin(c, [at |-> "exists", op |-> "save", ch |-> ch])
        /\ UNCHANGED <<ptChan, ptRow, ptTpl, ptFk>>

\* snapshot_channel_points() and snapshot_channel_mappings() are two reads.
PtSnapPoints(c) ==
    /\ ptCall[c].at = "points"
    /\ ptCall' = [ptCall EXCEPT ![c] = [at |-> "maps", op |-> "save", ch |-> ptCall[c].ch,
                                        pts |-> PtOf(ptCall[c].ch)]]
    /\ UNCHANGED ptRow /\ PtFrame

\* apply_template() gives a point without a mapping in the template none.
PtSnapMaps(c) ==
    /\ ptCall[c].at = "maps"
    /\ ptTpl' = {[p \in ptCall[c].pts |->
                    IF p \in PtOf(ptCall[c].ch) THEN ptRow[<<ptCall[c].ch, p>>] ELSE {}]}
    /\ PtCommitted(c, PtIdle)
    /\ UNCHANGED <<ptChan, ptRow, ptFk, ptLeft>>

PtApplyTemplate(c) ==
    \E ch \in PtChans, clear \in BOOLEAN, tpl \in ptTpl :
        /\ PtBegin(c, [at |-> "exists", op |-> "apply", ch |-> ch, clear |-> clear, tpl |-> tpl])
        /\ UNCHANGED <<ptChan, ptRow, ptTpl, ptFk>>

\* The rows that one transaction leaves: cleared or not, then f over them.
PtLaid(ch, clear, f) == PtRows(ch, f) @@ (IF clear THEN PtWithout(ptRow, {ch}) ELSE ptRow)

PtApply(c) ==
    /\ ptCall[c].at = "apply"
    /\ \E k \in PtFree :
        IF PtAllows(k, ptCall[c].ch) \/ DOMAIN ptCall[c].tpl = {}
        THEN ptRow' = PtLaid(ptCall[c].ch, ptCall[c].clear, ptCall[c].tpl)
             /\ PtCommitted(c, PtIdle)
        ELSE UNCHANGED ptRow /\ PtEnd(c)
    /\ PtFrame

\* provision_sunspec(): the points that discovery has found get the ids from the next one on.
PtProvision(c) ==
    \E ch \in PtChans, n \in PtIds, clear \in BOOLEAN :
        /\ PtBegin(c, [at |-> "exists", op |-> "provision", ch |-> ch, n |-> n, clear |-> clear])
        /\ UNCHANGED <<ptChan, ptRow, ptTpl, ptFk>>

\* next_point_id(), before the transaction.
PtNumber(c) ==
    /\ ptCall[c].at = "number"
    /\ LET start == Max(PtOf(ptCall[c].ch) \cup {0}) + 1
           last == start + ptCall[c].n - 1
       IN  IF last > PtMaxId THEN PtEnd(c)                        \* bound
           ELSE ptCall' = [ptCall EXCEPT ![c] = [at |-> "lay", op |-> "provision",
                    ch |-> ptCall[c].ch, clear |-> ptCall[c].clear, ids |-> start..last]]
    /\ UNCHANGED ptRow /\ PtFrame

\* Plain INSERTs: a point that another request has created meanwhile undoes them all.
PtLay(c) ==
    /\ ptCall[c].at = "lay"
    /\ \E k \in PtFree :
        IF /\ PtAllows(k, ptCall[c].ch)
           /\ ptCall[c].clear \/ ptCall[c].ids \cap PtOf(ptCall[c].ch) = {}
        THEN ptRow' = PtLaid(ptCall[c].ch, ptCall[c].clear, [p \in ptCall[c].ids |-> PtFields])
             /\ PtCommitted(c, PtIdle)
        ELSE UNCHANGED ptRow /\ PtEnd(c)
    /\ PtFrame

----------------------------------------------------------------------------
(* Channels *)

\* create_channel_handler(): its INSERT is refused for an id in use.
PtNewChannel(c) ==
    \E ch \in PtChans \ ptChan :
        /\ ptLeft > 0 /\ ptCall[c] = PtIdle /\ ptLeft' = ptLeft - 1
        /\ ptChan' = ptChan \cup {ch}
        /\ PtCommitted(c, PtIdle)
        /\ UNCHANGED <<ptRow, ptTpl, ptFk>>

\* delete_channel_handler(): one transaction over RELATED_TABLES and the channel.
PtDeleteChannel(c) ==
    \E ch \in ptChan :
        /\ ptLeft > 0 /\ ptCall[c] = PtIdle /\ ptLeft' = ptLeft - 1
        /\ ptChan' = ptChan \ {ch}
        /\ ptRow' = PtWithout(ptRow, {ch})
        /\ PtCommitted(c, PtIdle)
        /\ UNCHANGED <<ptTpl, ptFk>>

\* change_channel_id(): the new id is free, the old one has a row.
PtMigrate(c) ==
    \E o \in ptChan, n \in PtChans \ ptChan :
        /\ PtBegin(c, [at |-> "off", op |-> "migrate", ch |-> o, to |-> n])
        /\ UNCHANGED <<ptChan, ptRow, ptTpl, ptFk>>

\* migrate_channel_id_in_db() takes a connection and turns its foreign keys off.
PtFkOff(c) ==
    /\ ptCall[c].at = "off"
    /\ \E k \in PtFree :
        /\ ptFk' = [ptFk EXCEPT ![k] = FALSE]
        /\ ptCall' = [ptCall EXCEPT ![c] = [at |-> "move", op |-> "migrate", ch |-> ptCall[c].ch,
                                            to |-> ptCall[c].to, conn |-> k]]
    /\ UNCHANGED <<ptChan, ptRow, ptTpl, ptLeft>>

\* What the tables hold once the rows of `o` have become rows of `n`; a table where two rows
\* would meet keeps its rows.
PtRenumbered(o, n) ==
    IF PtOf(o) \cap PtOf(n) # {} THEN ptRow
    ELSE [r \in {<<n, p>> : p \in PtOf(o)} |-> ptRow[<<o, r[2]>>]] @@ PtWithout(ptRow, {o})

\* The new id may be in use by now: the primary key refuses it, and so does every other error
\* here; the function returns and the connection goes back to the pool as it is.
PtMove(c) ==
    /\ ptCall[c].at = "move"
    /\ LET o == ptCall[c].ch
           n == ptCall[c].to
       IN  IF o \in ptChan /\ n \in ptChan
           THEN UNCHANGED <<ptChan, ptRow>> /\ PtEnd(c)
           ELSE /\ ptChan' = IF o \in ptChan THEN (ptChan \ {o}) \cup {n} ELSE ptChan
                /\ ptRow' = PtRenumbered(o, n)
                /\ PtCommitted(c, [ptCall[c] EXCEPT !.at = "on"])
    /\ UNCHANGED <<ptTpl, ptFk, ptLeft>>

PtFkOn(c) ==
    /\ ptCall[c].at = "on"
    /\ ptFk' = [ptFk EXCEPT ![ptCall[c].conn] = TRUE]
    /\ PtEnd(c)
    /\ UNCHANGED <<ptChan, ptRow, ptTpl, ptLeft>>

\* A request that needs a connection waits for one.
PtServed(c) ==
    \/ PtCreate(c) \/ PtDeletePoint(c) \/ PtExists(c) \/ PtUnique(c) \/ PtInsert(c)
    \/ PtUpsert(c) \/ PtFind(c) \/ PtErase(c)
    \/ PtMap(c) \/ PtItems(c) \/ PtReplace(c) \/ PtSelect(c) \/ PtMerge(c)
    \/ PtSave(c) \/ PtSnapPoints(c) \/ PtSnapMaps(c) \/ PtApplyTemplate(c) \/ PtApply(c)
    \/ PtProvision(c) \/ PtNumber(c) \/ PtLay(c)
    \/ PtNewChannel(c) \/ PtDeleteChannel(c) \/ PtMigrate(c) \/ PtFkOff(c)

PtNext == \E c \in PtCalls : (PtFree # {} /\ PtServed(c)) \/ PtMove(c) \/ PtFkOn(c)

PtSpec == PtInit /\ [][PtNext]_ptVars

----------------------------------------------------------------------------
(* Properties *)

\* Types of the rows, the pool and the requests.
PtTypeOK ==
    /\ ptChan \subseteq PtChans
    /\ DOMAIN ptRow \subseteq PtChans \X PtIds
    /\ \A r \in DOMAIN ptRow : ptRow[r] \subseteq PtFields
    /\ ptFk \in [PtConns -> BOOLEAN]
    /\ ptLeft \in 0..PtBound

\* As long as every connection of the pool enforces foreign keys, every point has its channel:
\* whatever a request has checked before a channel was deleted or moved, its late write leaves no
\* row behind that belongs to nobody.
PtPointsOwned ==
    (\A k \in PtFree : ptFk[k]) => \A r \in DOMAIN ptRow : r[1] \in ptChan

\* A migration moves a channel with all of its points and their mappings, or not at all.
PtMovedTogether ==
    [][\A o \in ptChan \ ptChan', n \in ptChan' \ ptChan :
          /\ \A p \in PtOf(o) : <<n, p>> \in DOMAIN ptRow' /\ ptRow'[<<n, p>>] = ptRow[<<o, p>>]
          /\ \A p \in PtIds : <<o, p>> \notin DOMAIN ptRow']_ptVars

\* A merge of a mapping loses no field that another request has committed meanwhile: a commit of
\* a merge only adds to what the row holds at that moment.
PtMergeAdds ==
    [][\A c \in PtCalls, r \in DOMAIN ptRow :
          (ptCall[c].at = "merge" /\ ptCall'[c] # ptCall[c] /\ r \in DOMAIN ptRow')
            => ptRow[r] \subseteq ptRow'[r] \/ ptCall'[c].at = "merge"]_ptVars

-----------------------------------------------------------------------------
(*------------------------------ ChannelViews -----------------------------*)
(***************************************************************************)
(* What the API shows of the channels: the paged list with its filters,    *)
(* the status, the details, the search and the points across channels, and *)
(* behind the word "connected" ChannelEntry::is_connected, which joins the *)
(* cached state of the connection with the age of the last successful      *)
(* poll.  Time is counted in units of the poll interval; the wall clock    *)
(* the entries are stamped with may be set forward while the monotonic one *)
(* goes on.                                                                *)
(***************************************************************************)

CONSTANTS VwChans,   \* channel ids
          VwFresh,   \* data_freshness_timeout_ms, in units
          VwGrace,   \* first_poll_grace_ms, in units
          VwClock,   \* bound: time
          VwSets,    \* the amounts the wall clock is set by
          VwSizes    \* page sizes a client asks for; the cap stands for 100

VARIABLES vwRow,     \* the channels table: id -> [enabled, config]
          vwEntry,   \* ChannelManager: id -> {} or {the entry}
          vwNow,     \* the monotonic clock
          vwAhead,   \* the wall clock's lead over it
          vwGood     \* id -> when the entry's last successful poll really was, -1 for never

vwVars == <<vwRow, vwEntry, vwNow, vwAhead, vwGood>>

VwCap == 2
VwWall == vwNow + vwAhead + 1   \* a stamp of 0 means never
VwConfigs == {"none", "object", "broken"}

VwInit ==
  /\ vwRow \in UNION {[s -> [enabled : BOOLEAN, config : VwConfigs]] : s \in SUBSET VwChans}
  /\ vwEntry = [c \in VwChans |-> {}] /\ vwNow = 0 /\ vwAhead = 0
  /\ vwGood = [c \in VwChans |-> -1]

VwHas(c) == vwEntry[c] # {}
VwOf(c) == CHOOSE e \in vwEntry[c] : TRUE

(* ------------------------ the entry and its task ----------------------- *)

(* ChannelEntry::new: Connecting, no successful poll, no diagnostics *)
VwNewEntry == [state |-> "connecting", read |-> 0, created |-> vwNow, diag |-> {}]
VwStart(c) ==
  /\ c \in DOMAIN vwRow /\ vwRow[c].enabled /\ vwRow[c].config # "broken" /\ ~VwHas(c)
  /\ vwEntry' = [vwEntry EXCEPT ![c] = {VwNewEntry}]
  /\ vwGood' = [vwGood EXCEPT ![c] = -1]
  /\ UNCHANGED <<vwRow, vwNow, vwAhead>>
VwStop(c) ==
  /\ VwHas(c) /\ vwEntry' = [vwEntry EXCEPT ![c] = {}]
  /\ UNCHANGED <<vwRow, vwNow, vwAhead, vwGood>>

(* The task stores the state of the connection in the cache. *)
VwState(c, s) ==
  /\ VwHas(c) /\ VwOf(c).state # s
  /\ vwEntry' = [vwEntry EXCEPT ![c] = {[VwOf(c) EXCEPT !.state = s]}]
  /\ UNCHANGED <<vwRow, vwNow, vwAhead, vwGood>>

(* A poll: only one that returned a point stamps last_successful_read_ms;  *)
(* both refresh the cached diagnostics.                                    *)
VwPoll(c, some) ==
  /\ VwHas(c) /\ VwOf(c).state = "connected"
  /\ vwEntry' = [vwEntry EXCEPT ![c] = {[VwOf(c) EXCEPT !.read = IF some THEN VwWall ELSE @,
                                                        !.diag = {VwOf(c).state}]}]
  /\ vwGood' = IF some THEN [vwGood EXCEPT ![c] = vwNow] ELSE vwGood
  /\ UNCHANGED <<vwRow, vwNow, vwAhead>>

VwTick == vwNow < VwClock /\ vwNow' = vwNow + 1 /\ UNCHANGED <<vwRow, vwEntry, vwAhead, vwGood>>
VwSetClock ==
  /\ vwAhead = 0 /\ \E d \in VwSets : vwNow + d >= 0 /\ vwAhead' = d
  /\ UNCHANGED <<vwRow, vwEntry, vwNow, vwGood>>

VwNext ==
  \/ \E c \in VwChans : VwStart(c) \/ VwStop(c) \/ (\E s \in {"connected", "disconnected"} : VwState(c, s))
                        \/ (\E some \in BOOLEAN : VwPoll(c, some))
  \/ VwTick \/ VwSetClock
VwSpec == VwInit /\ [][VwNext]_vwVars

(* ------------------------------- the views ----------------------------- *)

VwIsConnected(e) ==
  /\ e.state = "connected"
  /\ IF e.read = 0 THEN vwNow - e.created < VwGrace ELSE VwWall - e.read < VwFresh

(* get_diagnostics: as of the last poll *)
VwDiagnosed(e) == e.diag = {"connected"}

VwConnected(c) == VwHas(c) /\ VwIsConnected(VwOf(c))

(* extract_description_from_config: one broken row fails the whole answer *)
VwFails == \E c \in DOMAIN vwRow : vwRow[c].config = "broken"

(* get_all_channels; a filter is {} or the one value asked for *)
VwList(enabled, connected) ==
  SelectSeq(SetToSortSeq(DOMAIN vwRow, <),
            LAMBDA c : (enabled = {} \/ vwRow[c].enabled \in enabled) /\ (connected = {} \/ VwConnected(c) \in connected))

(* PaginatedResponse::from_slice *)
VwAtLeast(n, m) == IF n < m THEN m ELSE n
VwSize(n) == IF n > VwCap THEN VwCap ELSE VwAtLeast(n, 1)
VwPage(s, page, n) ==
  LET start == (VwAtLeast(page, 1) - 1) * VwSize(n)
  IN  IF start < Len(s) THEN SubSeq(s, start + 1, IF start + VwSize(n) > Len(s) THEN Len(s) ELSE start + VwSize(n)) ELSE <<>>

(* get_channel_status, get_channel_detail_handler *)
VwStatus(c) == IF VwHas(c) THEN {[connected |-> VwConnected(c), running |-> VwIsConnected(VwOf(c)), diagnosed |-> VwDiagnosed(VwOf(c))]} ELSE {}
VwDetail(c) ==
  IF c \in DOMAIN vwRow /\ vwRow[c].config # "broken" THEN {[enabled |-> vwRow[c].enabled, connected |-> VwConnected(c)]} ELSE {}

(* search_channels: here "connected" is that the channel runs *)
VwSearch(ids) == {[id |-> c, connected |-> VwHas(c)] : c \in {d \in DOMAIN vwRow : ids = {} \/ d \in ids}}
(* list_channels *)
VwNames == SetToSortSeq(DOMAIN vwRow, <)

VwTypeOK ==
  /\ \A c \in VwChans : Cardinality(vwEntry[c]) <= 1 /\ vwGood[c] \in -1..VwClock
  /\ \A c \in VwChans : \A e \in vwEntry[c] : e.read \in 0..VwWall /\ e.created \in 0..vwNow

(* No zombie: a channel any view calls connected has its connection up,    *)
(* and really returned a point within the freshness window or is still in  *)
(* its first grace window (is_connected: "the UI cannot show "Connected"   *)
(* when reads have silently stopped flowing").                             *)
VwNotZombie ==
  \A c \in VwChans :
    (\E d \in VwDetail(c) : d.connected) \/ (\E d \in VwStatus(c) : d.connected) \/ VwConnected(c)
      => /\ VwOf(c).state = "connected"
         /\ IF vwGood[c] = -1 THEN vwNow - VwOf(c).created < VwGrace ELSE vwNow - vwGood[c] < VwFresh

(* Walking the pages of any size shows every channel that passes the       *)
(* filters once and in the order of the ids, and the connected filter      *)
(* splits the list in two; the search finds the same channels and calls    *)
(* connected at least those that the list does.                            *)
VwPagesComplete ==
  (~VwFails /\ DOMAIN vwRow # {}) =>
    /\ \A enabled \in SUBSET BOOLEAN, n \in VwSizes :
         LET s == VwList(enabled, {})
         IN  FlattenSeq([p \in 1..Cardinality(VwChans) + 1 |-> VwPage(s, p, n)]) = s
    /\ ToSet(VwList({}, {TRUE})) \cup ToSet(VwList({}, {FALSE})) = ToSet(VwNames)
    /\ ToSet(VwList({}, {TRUE})) = {c \in DOMAIN vwRow : \E d \in VwDetail(c) : d.connected}
    /\ ToSet(VwNames) = {r.id : r \in VwSearch({})}
    /\ ToSet(VwList({}, {TRUE})) \subseteq {r.id : r \in {q \in VwSearch({}) : q.connected}}

-----------------------------------------------------------------------------
(*------------------------------- ChannelLog ------------------------------*)
(***************************************************************************)
(* The log of one channel of comsrv: which events its adapter passes on    *)
(* (LogContext and ChannelLogConfig, protocols/core/logging.rs), which of  *)
(* them the per-channel, per-day file takes (ChannelFileLogHandler,        *)
(* protocols/core/file_logging.rs), how creation and the API set the two   *)
(* (configure_channel_logging, apply_log_level), and what happens to the   *)
(* file at midnight, when it or its directory is removed, or when a write  *)
(* fails.                                                                  *)
(***************************************************************************)

CONSTANTS LgDays,     \* bound: days
          LgEvents,   \* bound: events that reach the file
          LgFaults,   \* bound: failing writes and removals
          LgChanges   \* bound: level changes and restarts

VARIABLES lgStored,   \* the channel's logging section: [enabled, level]
          lgConf,     \* the adapter's ChannelLogConfig
          lgHandler,  \* the file handler exists
          lgLevel,    \* its FileLogLevel
          lgToday,    \* the date
          lgDir,      \* the channel's directory exists
          lgFiles,    \* day -> the lines of its file, in a set when it exists
          lgOpen,     \* {} or {[day, live]}: the open handle, its file not unlinked
          lgLines,    \* on_log: the lines left to write
          lgNow,      \* write_log: the date it took, 0 before
          lgEvents, lgFaults, lgChanges

lgVars == <<lgStored, lgConf, lgHandler, lgLevel, lgToday, lgDir, lgFiles, lgOpen,
            lgLines, lgNow, lgEvents, lgFaults, lgChanges>>
lgSetting == <<lgStored, lgConf, lgHandler, lgLevel, lgChanges>>
lgDisk == <<lgDir, lgFiles, lgOpen>>

LgKinds == {"connected", "disconnected", "read_ok", "read_err", "poll", "control_ok",
            "control_err", "error", "reconnect", "state", "raw", "points"}

(* --------------------------- what is passed on ------------------------- *)

LgAll == LgKinds
LgDefaultSet == {"connected", "disconnected", "control_ok", "control_err", "error",
                 "reconnect", "state", "points"}
LgErrorsAndConnections == {"connected", "disconnected", "error", "reconnect", "state"}

(* ChannelLogConfig: enabled events, minus the successes it leaves out. *)
LgPassed(conf) ==
  CASE conf = "all"     -> LgAll
    [] conf = "default" -> LgDefaultSet
    [] conf = "raw"     -> LgDefaultSet \cup {"raw"}
    [] conf = "errors"  -> LgErrorsAndConnections \ {"read_ok", "control_ok"}

(* ChannelFileLogHandler::should_log *)
LgTaken(level) ==
  {"error", "connected", "disconnected", "control_ok", "control_err", "points"}
    \cup (IF level = "debug" THEN {"raw", "poll", "state", "reconnect", "read_ok", "read_err"} ELSE {})

(* on_log: one line, none for a read, one per point type for the values. *)
LgFormat(kind) ==
  CASE kind = "points" -> <<"points_t", "points_s">>
    [] kind \in {"read_ok", "read_err"} -> <<>>
    [] OTHER -> <<kind>>

LgWritten == {k \in LgPassed(lgConf) \cap LgTaken(lgLevel) : lgHandler /\ LgFormat(k) # <<>>}

(* ----------------------------- the settings ---------------------------- *)

LgWords == {"debug", "verbose", "info", "error"}

LgParse(word) == IF word = "debug" THEN "debug" ELSE "info"

(* configure_channel_logging *)
LgConfigure(stored) ==
  /\ lgHandler' = stored.enabled
  /\ lgLevel' = LgParse(stored.level)
  /\ lgConf' = IF ~stored.enabled THEN "default"
               ELSE IF stored.level = "debug" THEN "all" ELSE "raw"

(* apply_log_level, in the channel task *)
LgApply(word) ==
  /\ lgConf' = CASE word \in {"debug", "verbose"} -> "all"
                 [] word = "info" -> "default"
                 [] word = "error" -> "errors"
  /\ lgLevel' = IF word \in {"debug", "verbose"} THEN "debug" ELSE "info"
  /\ UNCHANGED lgHandler

LgChange == lgChanges > 0 /\ lgChanges' = lgChanges - 1

(* PUT /api/channels/{id}/logging, between two events of the task. *)
LgSetLevel ==
  /\ LgChange /\ lgLines = <<>>
  /\ \E word \in LgWords : LgApply(word)
  /\ UNCHANGED <<lgStored, lgToday, lgDisk, lgLines, lgNow, lgEvents, lgFaults>>

(* PUT /api/channels/{id} with a logging section alone: no reload. *)
LgUpdate ==
  /\ LgChange /\ lgLines = <<>>
  /\ \E word \in LgWords, on \in BOOLEAN :
       lgStored' = [enabled |-> on, level |-> word] /\ LgApply(word)
  /\ UNCHANGED <<lgToday, lgDisk, lgLines, lgNow, lgEvents, lgFaults>>

(* The channel is created again: a new handler with no open file. *)
LgRestart ==
  /\ LgChange /\ lgLines = <<>>
  /\ LgConfigure(lgStored)
  /\ lgOpen' = {}
  /\ UNCHANGED <<lgStored, lgToday, lgDir, lgFiles, lgLines, lgNow, lgEvents, lgFaults>>

LgInit ==
  /\ lgStored \in [enabled : BOOLEAN, level : {"debug", "error"}]
  /\ lgHandler = lgStored.enabled /\ lgLevel = LgParse(lgStored.level)
  /\ lgConf = IF ~lgStored.enabled THEN "default" ELSE IF lgStored.level = "debug" THEN "all" ELSE "raw"
  /\ lgToday = 1 /\ lgDir = FALSE /\ lgOpen = {}
  /\ lgFiles = [d \in 1..LgDays |-> {}]
  /\ lgLines = <<>> /\ lgNow = 0
  /\ lgEvents = LgEvents /\ lgFaults = LgFaults /\ lgChanges = LgChanges

(* ----------------------------- the writing ----------------------------- *)

LgLog ==
  /\ lgLines = <<>> /\ lgEvents > 0
  /\ \E kind \in LgWritten : lgLines' = LgFormat(kind)
  /\ lgEvents' = lgEvents - 1
  /\ UNCHANGED <<lgSetting, lgToday, lgDisk, lgNow, lgFaults>>

(* write_log takes the time first, then the lock. *)
LgStamp ==
  /\ lgLines # <<>> /\ lgNow = 0
  /\ lgNow' = lgToday
  /\ UNCHANGED <<lgSetting, lgToday, lgDisk, lgLines, lgEvents, lgFaults>>

(* get_writer: the handle is kept while its day and the directory last. *)
LgNeedsNew == lgOpen = {} \/ ~lgDir \/ \E h \in lgOpen : h.day # lgNow
LgLive == LgNeedsNew \/ \E h \in lgOpen : h.live
LgOld == IF lgFiles[lgNow] = {} THEN <<>> ELSE CHOOSE c \in lgFiles[lgNow] : TRUE
LgLine == <<lgNow, Head(lgLines)>>

LgPut ==
  /\ lgOpen' = IF LgNeedsNew THEN {[day |-> lgNow, live |-> TRUE]} ELSE lgOpen
  /\ lgDir' = TRUE
  /\ lgFiles' = IF LgLive THEN [lgFiles EXCEPT ![lgNow] = {Append(LgOld, LgLine)}] ELSE lgFiles

(* The directory or the file cannot be opened, or the write fails: the     *)
(* handle goes, and its buffer is flushed once more as it is dropped.      *)
LgLost ==
  \/ /\ LgNeedsNew /\ UNCHANGED lgDisk
  \/ /\ lgOpen' = {} /\ lgDir' = TRUE
     /\ lgFiles' \in {lgFiles, IF LgLive THEN [lgFiles EXCEPT ![lgNow] = {LgOld}] ELSE lgFiles,
                      IF LgLive THEN [lgFiles EXCEPT ![lgNow] = {Append(LgOld, LgLine)}] ELSE lgFiles}

LgWrite ==
  /\ lgNow # 0
  /\ \/ LgPut /\ UNCHANGED lgFaults
     \/ LgLost /\ lgFaults > 0 /\ lgFaults' = lgFaults - 1
  /\ lgLines' = Tail(lgLines) /\ lgNow' = 0
  /\ UNCHANGED <<lgSetting, lgToday, lgEvents>>

LgMidnight ==
  /\ lgToday < LgDays /\ lgToday' = lgToday + 1
  /\ UNCHANGED <<lgSetting, lgDisk, lgLines, lgNow, lgEvents, lgFaults>>

(* Somebody removes the whole directory, or one file. *)
LgRemove ==
  /\ lgFaults > 0 /\ lgFaults' = lgFaults - 1 /\ lgDir
  /\ \/ /\ lgDir' = FALSE /\ lgFiles' = [d \in 1..LgDays |-> {}]
        /\ lgOpen' = {[h EXCEPT !.live = FALSE] : h \in lgOpen}
     \/ \E d \in 1..LgDays :
          /\ lgFiles[d] # {} /\ lgFiles' = [lgFiles EXCEPT ![d] = {}]
          /\ lgOpen' = {[h EXCEPT !.live = @ /\ h.day # d] : h \in lgOpen}
          /\ UNCHANGED lgDir
  /\ UNCHANGED <<lgSetting, lgToday, lgLines, lgNow, lgEvents>>

LgNext == \/ LgSetLevel \/ LgUpdate \/ LgRestart \/ LgLog \/ LgStamp \/ LgWrite
          \/ LgMidnight \/ LgRemove

LgSpec == LgInit /\ [][LgNext]_lgVars

(* ----------------------------- properties ------------------------------ *)

LgTypeOK ==
  /\ lgConf \in {"all", "default", "raw", "errors"} /\ lgLevel \in {"info", "debug"}
  /\ lgHandler \in BOOLEAN /\ lgDir \in BOOLEAN
  /\ \A d \in 1..LgDays : lgFiles[d] # {} => lgDir

(* A line is in the file of the day it carries, however midnight falls     *)
(* between taking the time, taking the lock and the lines of one event.    *)
LgDayFiles ==
  \A d \in 1..LgDays : \A c \in lgFiles[d] : \A i \in 1..Len(c) : c[i][1] = d

(* A written line is the last line of its day's file, also right after     *)
(* the directory was removed or a write failed; only a file removed alone  *)
(* while it is open takes lines with it.                                   *)
LgKept ==
  [][(/\ lgNow # 0 /\ lgNow' = 0 /\ lgFaults' = lgFaults
      /\ lgDir => \A h \in lgOpen : h.day = lgNow => h.live)
       => \E c \in lgFiles'[lgNow] : Last(c) = LgLine]_lgVars

=============================================================================
