---------------------------- MODULE ConfigFiles ----------------------------
(***************************************************************************)
(* The configuration files that monarch reads and writes: their transfer to and *)
(* from the database, and their validation.                                *)
(***************************************************************************)
EXTENDS Integers, Sequences, FiniteSets, Functions, SequencesExt, TLC

-----------------------------------------------------------------------------
(*------------------------------ ConfigFiles ------------------------------*)
(***************************************************************************)
(* monarch's "sync" and "export": the YAML, CSV and JSON files a site is   *)
(* configured from, the SQLite tables the services run from, and the two   *)
(* ways between them (tools/monarch/src/core/{syncer,exporter}.rs).        *)
(*                                                                         *)
(* A channel carries one point and one JSON mapping row, an instance one   *)
(* measurement routing and one property.  Each sync is one transaction, so *)
(* it is one step; a row that the database refuses is reported and left    *)
(* out (SyncError) while the rest is committed.  What SQLite does with     *)
(* INSERT OR REPLACE is modelled by what it does to the other tables: the  *)
(* old row is deleted, which runs the ON DELETE actions of the rows that   *)
(* refer to it (CASCADE, SET NULL), but no trigger.                        *)
(***************************************************************************)

CONSTANTS CfChans,      \* channel ids
          CfNames,      \* instance names, numbered in their order
          CfIds,        \* instance ids, 1..n
          CfRules,      \* rule names
          CfDirs,       \* the configuration directories a site may start from
          CfSame,       \* the bound on rules of one name
          CfEdits       \* the bound on edits through the APIs

VARIABLES cfDb,         \* the tables
          cfFile,       \* the configuration directory
          cfLeft        \* edits left

cfVars == <<cfDb, cfFile, cfLeft>>

(* routing and json rows refer to channels, routing and properties to       *)
(* instances; channel 0 is NULL, parent 0 is NULL                           *)
CfEmptyDb == [chan |-> {}, pt |-> {}, json |-> {}, c2c |-> {}, inst |-> <<>>,
              route |-> <<>>, prop |-> {}, rule |-> [r \in CfRules |-> 0]]

CfEmptyDir == [chan |-> {}, pt |-> {}, inst |-> <<>>, route |-> <<>>,
               prop |-> {}, rule |-> {}]

CfNamesOf(db) == {db.inst[i].name : i \in DOMAIN db.inst}

CfIdOf(db, n) == CHOOSE i \in DOMAIN db.inst : db.inst[i].name = n

(* a function without the arguments in s *)
CfWithout(f, s) == Restrict(f, DOMAIN f \ s)

(* the rows that go or change with the channels in s *)
CfChannelsGone(db, s) ==
    [db EXCEPT !.json = @ \ s,
               !.route = [i \in DOMAIN @ |-> IF @[i] \in s THEN 0 ELSE @[i]]]

(* the rows that go or change with the instances in s *)
CfInstancesGone(db, s) ==
    [db EXCEPT !.inst = [i \in DOMAIN @ \ s |->
                            [@[i] EXCEPT !.par = IF @ \in s THEN 0 ELSE @]],
               !.route = CfWithout(@, s),
               !.prop = @ \ s]

(***************************************************************************)
(* sync_comsrv.  A forced sync empties the point tables first, and the     *)
(* delete triggers of those take the routing of every deleted point with   *)
(* them; a channel-to-channel route forbids deleting its channel, which    *)
(* rolls the whole sync back.                                              *)
(***************************************************************************)
CfClearComsrv(db) ==
    [CfChannelsGone([db EXCEPT !.route = CfWithout(@, {i \in DOMAIN @ : @[i] \in db.pt})],
                    db.chan)
     EXCEPT !.pt = {}, !.chan = {}]

CfInsertChannels(file, db) ==
    [CfChannelsGone(db, file.chan \cap db.chan) EXCEPT !.chan = @ \cup file.chan]

(* a point of a channel that is not in the table is refused *)
CfInsertPoints(file, db) == [db EXCEPT !.pt = @ \cup (file.pt \cap db.chan)]

CfSyncComsrv(file, db, force) ==
    IF force /\ db.c2c # {}
    THEN db
    ELSE CfInsertPoints(file, CfInsertChannels(file, IF force THEN CfClearComsrv(db) ELSE db))

\* Mutant: only the routes are cleared.
CfClearModsrvRoutes(db) == [db EXCEPT !.route = <<>>]

(***************************************************************************)
(* sync_modsrv.                                                            *)
(***************************************************************************)
CfClearModsrv(db) == CfInstancesGone([db EXCEPT !.route = <<>>], DOMAIN db.inst)

(* get_next_instance_id *)
CfNextId(db) == 1 + Max({0} \cup DOMAIN db.inst)

(* channel_routing.csv of an instance *)
CfInsertMapping(file, db, i, n) ==
    IF n \in DOMAIN file.route /\ file.route[n] \in db.chan
    THEN [db EXCEPT !.route = i :> file.route[n] @@ @]
    ELSE db

(* one entry of instances.yaml: the rows that hold its id or its name go;  *)
(* a parent that is not there yet is refused by the database               *)
CfProcessInstance(file, db, e) ==
    LET i    == IF e.id = 0 THEN CfNextId(db) ELSE e.id
        old  == {j \in DOMAIN db.inst : j = i \/ db.inst[j].name = e.name}
        left == CfInstancesGone(db, old)
        new  == [left EXCEPT !.inst = i :> [name |-> e.name, par |-> e.par] @@ @,
                             !.prop = IF e.name \in file.prop THEN @ \cup {i} ELSE @]
    IN IF e.par = 0 \/ e.par \in DOMAIN new.inst
       THEN CfInsertMapping(file, new, i, e.name)
       ELSE db

CfSyncInstances(file, db) ==
    FoldLeft(LAMBDA d, e : CfProcessInstance(file, d, e), db, file.inst)

(* rules have no key of their own in the files: each sync inserts them all *)
CfSyncRules(file, db, force) ==
    IF file.rule = {}
    THEN db
    ELSE [db EXCEPT !.rule = [r \in CfRules |->
             (IF force THEN 0 ELSE @[r]) + (IF r \in file.rule THEN 1 ELSE 0)]]

CfSyncModsrv(file, db, force) ==
    CfSyncRules(file, CfSyncInstances(file, IF force THEN CfClearModsrv(db) ELSE db), force)

(* sync_command: comsrv before modsrv *)
CfSyncAll(file, db, force) == CfSyncModsrv(file, CfSyncComsrv(file, db, force), force)

(***************************************************************************)
(* export.  Instances are written by name, without id and parent, and      *)
(* their properties where sync does not read them; a file with nothing to  *)
(* hold is not written, and no old file is removed.                        *)
(***************************************************************************)
CfExportComsrv(file, db) ==
    [file EXCEPT !.chan = db.chan, !.pt = @ \cup db.pt]

CfExportInstances(db) ==
    LET names == CfNamesOf(db)
    IN [k \in 1..Cardinality(names) |->
           [id |-> 0, par |-> 0,
            name |-> CHOOSE n \in names : Cardinality({m \in names : m < n}) = k - 1]]

CfExportMappings(file, db) ==
    [n \in {db.inst[i].name : i \in DOMAIN db.route} |-> db.route[CfIdOf(db, n)]] @@ file.route

CfExportRules(file, db) == file.rule \cup {r \in CfRules : db.rule[r] > 0}

CfExportModsrv(file, db) ==
    [file EXCEPT !.inst = IF DOMAIN db.inst = {} THEN @ ELSE CfExportInstances(db),
                 !.route = CfExportMappings(file, db),
                 !.rule = CfExportRules(file, db)]

CfExported(file, db) == CfExportModsrv(CfExportComsrv(file, db), db)

-----------------------------------------------------------------------------
CfInit == cfDb = CfEmptyDb /\ cfFile \in CfDirs /\ cfLeft = CfEdits

CfEdit == cfLeft > 0 /\ cfLeft' = cfLeft - 1 /\ UNCHANGED cfFile

CfDoSync(force) ==
    /\ cfDb' = CfSyncAll(cfFile, cfDb, force)
    /\ \A r \in CfRules : cfDb'.rule[r] <= CfSame
    /\ DOMAIN cfDb'.inst \subseteq CfIds
    /\ UNCHANGED <<cfFile, cfLeft>>

(* the sync of the second service fails: the first one's is committed *)
CfHalfSync(force) ==
    /\ cfDb' = CfSyncComsrv(cfFile, cfDb, force)
    /\ UNCHANGED <<cfFile, cfLeft>>

CfDoExport == cfFile' = CfExported(cfFile, cfDb) /\ UNCHANGED <<cfDb, cfLeft>>

(* what the services' own APIs change *)
CfApiChannel(c) ==
    /\ c \notin cfDb.pt
    /\ cfDb' = [cfDb EXCEPT !.chan = @ \cup {c}, !.pt = @ \cup {c}, !.json = @ \cup {c}]
    /\ CfEdit

CfApiChannelRoute(c) ==
    /\ c \in cfDb.chan
    /\ cfDb' = [cfDb EXCEPT !.c2c = @ \cup {c}]
    /\ CfEdit

CfApiInstance(i, n, p) ==
    /\ i \notin DOMAIN cfDb.inst /\ n \notin CfNamesOf(cfDb)
    /\ p \in {0} \cup DOMAIN cfDb.inst
    /\ cfDb' = [cfDb EXCEPT !.inst = i :> [name |-> n, par |-> p] @@ @, !.prop = @ \cup {i}]
    /\ CfEdit

CfApiRoute(i, c) ==
    /\ i \in DOMAIN cfDb.inst /\ c \in cfDb.pt
    /\ cfDb' = [cfDb EXCEPT !.route = i :> c @@ @]
    /\ CfEdit

CfApiDeletePoint(c) ==
    /\ c \in cfDb.pt
    /\ cfDb' = [cfDb EXCEPT !.pt = @ \ {c},
                            !.route = CfWithout(@, {i \in DOMAIN @ : @[i] = c})]
    /\ CfEdit

CfNext ==
    \/ \E force \in BOOLEAN : CfDoSync(force) \/ CfHalfSync(force)
    \/ CfDoExport
    \/ \E c \in CfChans : CfApiChannel(c) \/ CfApiChannelRoute(c) \/ CfApiDeletePoint(c)
    \/ \E i \in CfIds, n \in CfNames, p \in {0} \cup CfIds : CfApiInstance(i, n, p)
    \/ \E i \in CfIds, c \in CfChans : CfApiRoute(i, c)

CfSpec == CfInit /\ [][CfNext]_cfVars

-----------------------------------------------------------------------------
(* The type invariant, the foreign keys the tables declare included: every  *)
(* point and JSON row is of a channel, every routing and property of an     *)
(* instance, every parent exists and no two instances share a name.         *)
CfRefs ==
    /\ cfDb.pt \cup cfDb.json \cup cfDb.c2c \subseteq cfDb.chan
    /\ DOMAIN cfDb.route \cup cfDb.prop \subseteq DOMAIN cfDb.inst
    /\ \A i \in DOMAIN cfDb.route : cfDb.route[i] \in {0} \cup cfDb.chan
    /\ \A i \in DOMAIN cfDb.inst :
         /\ cfDb.inst[i].par \in {0} \cup DOMAIN cfDb.inst
         /\ \A j \in DOMAIN cfDb.inst \ {i} : cfDb.inst[j].name # cfDb.inst[i].name

(* "When true, DELETE all rows before INSERT (full replace)": after a       *)
(* forced sync nothing is left of what the tables held before, whatever it  *)
(* was; with no rules directory the rules stay, and a channel-to-channel    *)
(* route makes the sync fail.                                               *)
CfForceReplaces ==
    cfDb.c2c = {} =>
        CfSyncAll(cfFile, cfDb, TRUE)
            = [CfSyncAll(cfFile, CfEmptyDb, TRUE) EXCEPT
                  !.rule = IF cfFile.rule = {} THEN cfDb.rule ELSE @]

(* A forced sync of an export into an empty directory rebuilds every        *)
(* channel, point, instance name, live routing and rule of the tables: the  *)
(* pair can carry a site to another device as far as names go (the ids, the *)
(* parents and the properties of instances are not carried).                *)
CfCarriesOver ==
    LET db == CfSyncAll(CfExported(CfEmptyDir, cfDb), CfEmptyDb, TRUE)
        live(d) == {<<d.inst[i].name, d.route[i]>> : i \in {j \in DOMAIN d.route : d.route[j] # 0}}
    IN /\ db.chan = cfDb.chan /\ db.pt = cfDb.pt
       /\ CfNamesOf(db) = CfNamesOf(cfDb)
       /\ live(db) = live(cfDb)
       /\ \A r \in CfRules : (db.rule[r] > 0) = (cfDb.rule[r] > 0)

-----------------------------------------------------------------------------
(*---------------------------- ConfigValidation ---------------------------*)
(***************************************************************************)
(* `monarch sync`: the files of the services are validated by the shared   *)
(* validators, level by level, and written to the database one service     *)
(* after another.  Validation is pure; a file is a record of what the      *)
(* validators look at.                                                     *)
(***************************************************************************)

CONSTANTS KvChannelSet,   \* the channel entries a comsrv file may list
          KvMaxChannels,  \* bound: channels of a file
          KvPorts         \* the ports a file may give

VARIABLES kvFile,    \* service -> what its file holds
          kvForce,   \* --force
          kvAt,      \* index of the service being synced, 0 after a failure
          kvSynced   \* the services whose rows were written

kvVars == <<kvFile, kvForce, kvAt, kvSynced>>

KvServices == <<"global", "comsrv", "modsrv">>

(* A file: present or not, parses or not, and the fields of its sections.  *)
KvPlain == [present |-> TRUE, parses |-> TRUE, name |-> "x", port |-> 6001, url |-> "redis",
            rotation |-> "none", paths |-> TRUE, free |-> TRUE, channels |-> <<>>]
(* Bound: one section of one file departs from the ordinary.               *)
KvFiles ==
  {KvPlain, [KvPlain EXCEPT !.present = FALSE], [KvPlain EXCEPT !.parses = FALSE], [KvPlain EXCEPT !.name = ""],
   [KvPlain EXCEPT !.paths = FALSE], [KvPlain EXCEPT !.free = FALSE]}
  \cup {[KvPlain EXCEPT !.port = p] : p \in KvPorts}
  \cup {[KvPlain EXCEPT !.url = u] : u \in {"", "http"}}
  \cup {[KvPlain EXCEPT !.rotation = r] : r \in {"odd", "size0"}}
KvLists == UNION {[1..n -> KvChannelSet] : n \in 0..KvMaxChannels}

KvInit ==
  /\ \E f \in KvFiles, s \in {"global", "comsrv", "modsrv"}, cs \in KvLists :
       LET all == [[t \in {"global", "comsrv", "modsrv"} |-> KvPlain] EXCEPT ![s] = f]
       IN  kvFile = [all EXCEPT !["comsrv"].channels = cs]
  /\ kvForce \in BOOLEAN /\ kvAt = 1 /\ kvSynced = {}

(* ------------------------------ validators ----------------------------- *)

(* ValidationResult: new, add_error, add_warning, merge *)
KvResult(errors, warnings) == [errors |-> errors, warnings |-> warnings]
KvMerge(a, b) == KvResult(a.errors \cup b.errors, a.warnings \cup b.warnings)
KvIf(p, x) == IF p THEN {<<x, "">>} ELSE {}

(* BaseServiceConfig, ApiConfig, RedisConfig, LoggingConfig ::validate     *)
KvCommon(f) ==
  KvResult(KvIf(f.name = "", "name") \cup KvIf(f.port = 0, "port") \cup KvIf(f.url = "", "url"),
           KvIf(f.port \in 1..1023, "system port") \cup KvIf(f.url = "http", "url scheme"))
KvLogging(f) == KvResult(KvIf(f.rotation = "odd", "strategy") \cup KvIf(f.rotation = "size0", "size"), {})

(* ChannelConfig::validate: the parameters of the two Modbus protocols *)
KvChannel(c) ==
  KvIf(c.name = "", "channel name") \cup KvIf(c.proto = "", "protocol")
  \cup {<<c.name, p>> : p \in (CASE c.proto = "modbus_tcp" -> {"host", "port"}
                               [] c.proto = "modbus_rtu" -> {"device", "baud_rate"}
                               [] OTHER -> {}) \ c.params}

KvSyntax(s, f) == KvResult({}, {})
KvSchema(s, f) ==
  CASE s = "comsrv" -> KvMerge(KvMerge(KvCommon(f), KvLogging(f)),
                               KvResult(KvIf(f.channels = <<>>, "no channel")
                                        \cup UNION {KvChannel(f.channels[i]) : i \in DOMAIN f.channels}, {}))
    [] OTHER -> KvMerge(KvCommon(f), KvResult(KvIf(~f.paths, "path"), {}))

(* ComsrvConfig::validate_business: ids and names are distinct *)
KvSupported == {"modbus_tcp", "modbus_rtu", "virtual", "grpc"}
KvTwice(s) == {j \in DOMAIN s : \E k \in 1..j - 1 : s[k] = s[j]}
KvComsrvBusiness(f) ==
  KvResult({<<f.channels[i].name, "id">> : i \in KvTwice([i \in DOMAIN f.channels |-> f.channels[i].id])}
           \cup {<<f.channels[i].name, "name">> : i \in KvTwice([i \in DOMAIN f.channels |-> f.channels[i].name])},
           KvIf(f.channels = <<>>, "no channels")
           \cup {<<c.name, "unknown protocol">> : c \in {d \in Range(f.channels) : d.proto \notin KvSupported}})
KvModsrvBusiness(f) == KvResult({}, KvIf(~f.paths, "no such path"))
KvBusiness(s, f) == IF s = "comsrv" THEN KvComsrvBusiness(f) ELSE KvModsrvBusiness(f)

(* validate_runtime: the port can be bound *)
KvRuntime(s, f) == KvResult(KvIf(~f.free, "port taken"), {})

KvAtLevel(s, f, n) ==
  CASE n = 1 -> KvSyntax(s, f) [] n = 2 -> KvSchema(s, f) [] n = 3 -> KvBusiness(s, f) [] OTHER -> KvRuntime(s, f)

(* ConfigValidator::validate: every level up to the one asked for *)
KvValidate(s, f, level) ==
  FoldFunction(KvMerge, KvResult({}, {}), [n \in 1..level |-> KvAtLevel(s, f, n)])

(* GenericValidator::from_file: a file that does not parse is an error.    *)
KvFromFile(s, f, level) == IF f.parses THEN KvValidate(s, f, level) ELSE KvResult(KvIf(TRUE, "parse"), {})

(* validate_service, validate_global *)
KvGlobal(f) == KvResult(KvIf(~f.parses, "yaml"), {})
KvService(s, level) ==
  LET f == kvFile[s]
  IN  IF ~f.present THEN KvResult(KvIf(TRUE, "missing"), {})
      ELSE IF s = "global" THEN KvGlobal(f) ELSE KvFromFile(s, f, level)
KvValid(r) == r.errors = {}

(* -------------------------------- sync --------------------------------- *)

(* sync_command: validate unless forced, then write; a file that cannot be *)
(* read fails the sync as well.                                            *)
KvStep ==
  /\ kvAt \in DOMAIN KvServices
  /\ LET s == KvServices[kvAt]
         may == (kvForce \/ KvValid(KvService(s, 3))) /\ kvFile[s].present /\ kvFile[s].parses
     IN  /\ kvSynced' = IF may THEN kvSynced \cup {s} ELSE kvSynced
         /\ kvAt' = IF may THEN kvAt + 1 ELSE 0
  /\ UNCHANGED <<kvFile, kvForce>>

KvNext == KvStep
KvSpec == KvInit /\ [][KvNext]_kvVars

(* ------------------------------ properties ----------------------------- *)

(* What a sync without --force writes: channels with distinct ids and      *)
(* names, and every Modbus channel with the parameters it is dialled by.   *)
KvWrittenSound ==
  (~kvForce /\ "comsrv" \in kvSynced) =>
    LET cs == kvFile["comsrv"].channels
    IN  /\ \A i, j \in DOMAIN cs : i # j => cs[i].id # cs[j].id /\ cs[i].name # cs[j].name
        /\ \A c \in Range(cs) : /\ c.proto = "modbus_tcp" => {"host", "port"} \subseteq c.params
                                /\ c.proto = "modbus_rtu" => {"device", "baud_rate"} \subseteq c.params

(* A level looks at all that the levels below it look at: what it accepts  *)
(* they accept, and no error found below is dropped.                       *)
KvLevelsNest ==
  kvAt > 1 => \A s \in {"comsrv", "modsrv"} : \A n \in 1..3 :
    KvService(s, n).errors \subseteq KvService(s, n + 1).errors

=============================================================================
