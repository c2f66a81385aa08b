----------------------------- MODULE Lifecycle -----------------------------
(***************************************************************************)
(* Starts, stops and everything that goes with them: the run of comsrv, the *)
(* migration of the database, and the log files.                           *)
(***************************************************************************)
EXTENDS Integers, Sequences, FiniteSets, Functions, TLC

-----------------------------------------------------------------------------
(*---------------------------- ServiceLifecycle ---------------------------*)
(***************************************************************************)
(* comsrv from start to exit: what it removes from Redis before anything   *)
(* runs, the channels it creates, the tasks that run beside them, and the  *)
(* order in which a shutdown stops them, while the channels still poll,    *)
(* the API still answers and the watchdog still respawns. A crash ends the *)
(* process anywhere; Redis survives it.                                    *)
(***************************************************************************)

CONSTANTS LcChannels,  \* channels of the database
          LcMax,       \* readings of a channel
          LcRuns,      \* starts of the process
          LcCalls      \* requests and edits of the configuration

VARIABLES
    lcPc,       \* main: "off" .. "serve" .. "exit" .. "off"
    lcEnabled,  \* table channels: the enabled ones
    lcKeys,     \* Redis: channels that have keys comsrv:{id}:*
    lcOnline,   \* Redis hash of the online flags: the channels set to 1
    lcRedis,    \* Redis: value of each channel's point
    lcShm,      \* value in the shared memory
    lcSnap,     \* value in the snapshot file
    lcTask,     \* channel tasks: "none", "down", "up"
    lcIds,      \* channels shutdown_handler still has to remove
    lcSync, lcSnapshot,  \* ShmRedisSync and SnapshotManager: "off", "on", "last"
    lcApi,      \* "off", "on", "draining"
    lcMark,     \* history: the shared memory when the signal came
    lcUps,      \* history: channels that connected in this run
    lcQuiet,    \* history: nothing went on behind the shutdown's back
    lcCleared,  \* history: the flags of the previous run could be deleted
    lcLeft      \* what is left of the bounds: <<runs, calls>>

lcVars == <<lcPc, lcEnabled, lcKeys, lcOnline, lcRedis, lcShm, lcSnap, lcTask, lcIds, lcSync, lcSnapshot,
            lcApi, lcMark, lcUps, lcQuiet, lcCleared, lcLeft>>

lcData == <<lcRedis, lcShm, lcSnap>>
lcHelpers == <<lcSync, lcSnapshot, lcApi>>
lcHistory == <<lcMark, lcUps, lcQuiet, lcCleared>>

LcZero == [c \in LcChannels |-> 0]

LcInit ==
    /\ lcPc = "off" /\ lcEnabled \in SUBSET LcChannels /\ lcKeys = {} /\ lcOnline = {}
    /\ lcRedis = LcZero /\ lcShm = LcZero /\ lcSnap = LcZero
    /\ lcTask = [c \in LcChannels |-> "none"] /\ lcIds = {}
    /\ lcSync = "off" /\ lcSnapshot = "off" /\ lcApi = "off"
    /\ lcMark = LcZero /\ lcUps = {} /\ lcQuiet = TRUE /\ lcCleared = TRUE
    /\ lcLeft = <<LcRuns, LcCalls>>

LcRunning == lcPc # "off"

-----------------------------------------------------------------------------
(* Starting. *)

\* main, up to the clean-up: cleanup_invalid_keys deletes the keys of every
\* channel that is not enabled; an error of Redis ends it early
LcStart ==
    /\ lcPc = "off" /\ lcLeft[1] > 0 /\ lcLeft' = [lcLeft EXCEPT ![1] = @ - 1]
    /\ lcPc' = "clean" /\ lcUps' = {} /\ lcQuiet' = TRUE
    /\ UNCHANGED <<lcEnabled, lcKeys, lcOnline, lcData, lcTask, lcIds, lcHelpers, lcMark, lcCleared>>
LcCleanup ==
    /\ lcPc = "clean" /\ lcPc' = "flags"
    /\ \E done \in SUBSET (lcKeys \ lcEnabled) : lcKeys' = lcKeys \ done
    /\ UNCHANGED <<lcEnabled, lcOnline, lcData, lcTask, lcIds, lcHelpers, lcHistory, lcLeft>>

\* Mutant: only the flags of enabled channels are cleared.
LcClearOnlineEnabled ==
    /\ lcPc = "flags" /\ lcPc' = "memory"
    /\ \E ok \in BOOLEAN :
         /\ lcOnline' = IF ok THEN lcOnline \ lcEnabled ELSE lcOnline
         /\ lcCleared' = ok
    /\ UNCHANGED <<lcEnabled, lcKeys, lcData, lcTask, lcIds, lcHelpers, lcMark, lcUps, lcQuiet, lcLeft>>

\* the flags of the previous run; an error is a warning
LcClearOnline ==
    /\ lcPc = "flags" /\ lcPc' = "memory"
    /\ \E ok \in BOOLEAN :
         /\ lcOnline' = IF ok THEN {} ELSE lcOnline
         /\ lcCleared' = ok
    /\ UNCHANGED <<lcEnabled, lcKeys, lcData, lcTask, lcIds, lcHelpers, lcMark, lcUps, lcQuiet, lcLeft>>

\* The shared memory: from the snapshot, or empty. Then the tasks beside it.
LcMemory ==
    /\ lcPc = "memory" /\ lcPc' = "channels"
    /\ \E restored \in BOOLEAN : lcShm' = IF restored THEN lcSnap ELSE LcZero
    /\ lcSync' = "on" /\ lcSnapshot' = "on"
    /\ UNCHANGED <<lcEnabled, lcKeys, lcOnline, lcRedis, lcSnap, lcTask, lcIds, lcApi, lcHistory, lcLeft>>

\* start_communication_service: each enabled channel, or it failed
LcChannelsUp ==
    /\ lcPc = "channels" /\ lcPc' = "serve" /\ lcApi' = "on"
    /\ \E made \in SUBSET lcEnabled :
         lcTask' = [c \in LcChannels |-> IF c \in made THEN "down" ELSE "none"]
    /\ UNCHANGED <<lcEnabled, lcKeys, lcOnline, lcData, lcIds, lcSync, lcSnapshot, lcHistory, lcLeft>>

-----------------------------------------------------------------------------
(* Running: the channel tasks, the tasks beside them, the API, the watchdog. *)

\* publish_channel_online
LcConnects(c) ==
    /\ lcTask[c] = "down" /\ lcTask' = [lcTask EXCEPT ![c] = "up"]
    /\ lcOnline' = lcOnline \cup {c} /\ lcUps' = lcUps \cup {c}
    /\ UNCHANGED <<lcPc, lcEnabled, lcKeys, lcData, lcIds, lcHelpers, lcMark, lcQuiet, lcCleared, lcLeft>>
LcDrops(c) ==
    /\ lcTask[c] = "up" /\ lcTask' = [lcTask EXCEPT ![c] = "down"]
    /\ lcOnline' = lcOnline \ {c}
    /\ UNCHANGED <<lcPc, lcEnabled, lcKeys, lcData, lcIds, lcHelpers, lcHistory, lcLeft>>
LcPolls(c) ==
    /\ lcTask[c] = "up" /\ lcShm[c] < LcMax /\ lcShm' = [lcShm EXCEPT ![c] = @ + 1]
    /\ UNCHANGED <<lcPc, lcEnabled, lcKeys, lcOnline, lcRedis, lcSnap, lcTask, lcIds, lcHelpers, lcHistory, lcLeft>>

LcFlush ==
    /\ lcSync \in {"on", "last"}
    /\ lcRedis' = lcShm /\ lcKeys' = lcKeys \cup {c \in LcChannels : lcTask[c] # "none"}
    /\ lcSync' = IF lcSync = "last" THEN "off" ELSE "on"
    /\ UNCHANGED <<lcPc, lcEnabled, lcOnline, lcShm, lcSnap, lcTask, lcIds, lcSnapshot, lcApi, lcHistory, lcLeft>>
LcSaves ==
    /\ lcSnapshot \in {"on", "last"} /\ lcSnap' = lcShm
    /\ lcSnapshot' = IF lcSnapshot = "last" THEN "off" ELSE "on"
    /\ UNCHANGED <<lcPc, lcEnabled, lcKeys, lcOnline, lcRedis, lcShm, lcTask, lcIds, lcSync, lcApi, lcHistory, lcLeft>>

\* A request creates or removes a channel; the watchdog respawns one.
LcStopping == lcPc \in {"stop", "flush", "remove", "drain", "flagsOff", "exit"}
LcCreates(c) ==
    /\ lcApi # "off" /\ lcLeft[2] > 0 /\ lcLeft' = [lcLeft EXCEPT ![2] = @ - 1]
    /\ lcEnabled' = lcEnabled \cup {c}
    /\ lcTask' = [lcTask EXCEPT ![c] = IF @ = "none" THEN "down" ELSE @]
    /\ lcQuiet' = (lcQuiet /\ ~LcStopping)
    /\ UNCHANGED <<lcPc, lcKeys, lcOnline, lcData, lcIds, lcHelpers, lcMark, lcUps, lcCleared>>
LcRemoves(c) ==
    /\ lcApi # "off" /\ lcLeft[2] > 0 /\ lcLeft' = [lcLeft EXCEPT ![2] = @ - 1]
    /\ lcEnabled' = lcEnabled \ {c} /\ lcTask' = [lcTask EXCEPT ![c] = "none"]
    /\ lcOnline' = lcOnline \ {c}
    /\ UNCHANGED <<lcPc, lcKeys, lcData, lcIds, lcHelpers, lcHistory>>

-----------------------------------------------------------------------------
(* Stopping. *)

LcSignal ==
    /\ lcPc = "serve" /\ lcPc' = "stop" /\ lcMark' = lcShm
    /\ UNCHANGED <<lcEnabled, lcKeys, lcOnline, lcData, lcTask, lcIds, lcHelpers, lcUps, lcQuiet, lcCleared, lcLeft>>

\* the final flush is awaited; then the snapshot manager is signalled
LcStopSync ==
    /\ lcPc = "stop" /\ lcPc' = "flush" /\ lcSync' = "last"
    /\ UNCHANGED <<lcEnabled, lcKeys, lcOnline, lcData, lcTask, lcIds, lcSnapshot, lcApi, lcHistory, lcLeft>>
LcStopSnapshot ==
    /\ lcPc = "flush" /\ lcSync = "off" /\ lcPc' = "remove" /\ lcSnapshot' = "last"
    /\ lcIds' = {c \in LcChannels : lcTask[c] # "none"}
    /\ UNCHANGED <<lcEnabled, lcKeys, lcOnline, lcData, lcTask, lcSync, lcApi, lcHistory, lcLeft>>

\* shutdown_handler: every channel that was there, together, five seconds each;
\* one that takes longer is left running
LcShutdown(c) ==
    /\ lcPc = "remove" /\ c \in lcIds /\ lcIds' = lcIds \ {c}
    /\ \E stopped \in BOOLEAN :
         /\ lcTask' = [lcTask EXCEPT ![c] = IF stopped THEN "none" ELSE @]
         /\ lcOnline' = IF stopped THEN lcOnline \ {c} ELSE lcOnline
         /\ lcQuiet' = (lcQuiet /\ (stopped \/ lcTask[c] = "none"))
    /\ UNCHANGED <<lcPc, lcEnabled, lcKeys, lcData, lcHelpers, lcMark, lcUps, lcCleared, lcLeft>>

\* shutdown_services: the token, then up to 30 s for the requests being served
LcCancel ==
    /\ lcPc = "remove" /\ lcIds = {} /\ lcPc' = "drain" /\ lcApi' = "draining"
    /\ UNCHANGED <<lcEnabled, lcKeys, lcOnline, lcData, lcTask, lcIds, lcSync, lcSnapshot, lcHistory, lcLeft>>
LcDrained ==
    /\ lcPc = "drain" /\ lcPc' = "flagsOff" /\ lcApi' = "off"
    /\ UNCHANGED <<lcEnabled, lcKeys, lcOnline, lcData, lcTask, lcIds, lcSync, lcSnapshot, lcHistory, lcLeft>>

\* the flags; an error is a warning
LcFlagsOff ==
    /\ lcPc = "flagsOff" /\ lcPc' = "exit"
    /\ \E ok \in BOOLEAN :
         /\ lcOnline' = IF ok THEN {} ELSE lcOnline
         /\ lcQuiet' = (lcQuiet /\ ok)
    /\ UNCHANGED <<lcEnabled, lcKeys, lcData, lcTask, lcIds, lcHelpers, lcMark, lcUps, lcCleared, lcLeft>>

\* the snapshot is awaited for ten seconds
LcGone ==
    /\ lcPc' = "off" /\ lcTask' = [c \in LcChannels |-> "none"] /\ lcIds' = {}
    /\ lcSync' = "off" /\ lcSnapshot' = "off" /\ lcApi' = "off"
LcExit ==
    /\ lcPc = "exit" /\ LcGone
    /\ lcQuiet' = (lcQuiet /\ lcSnapshot = "off")
    /\ UNCHANGED <<lcEnabled, lcKeys, lcOnline, lcData, lcMark, lcUps, lcCleared, lcLeft>>
LcCrash ==
    /\ LcRunning /\ LcGone /\ lcQuiet' = FALSE
    /\ UNCHANGED <<lcEnabled, lcKeys, lcOnline, lcData, lcMark, lcUps, lcCleared, lcLeft>>

\* While comsrv is down the configuration is edited.
LcEdit(c) ==
    /\ lcPc = "off" /\ lcLeft[2] > 0 /\ lcLeft' = [lcLeft EXCEPT ![2] = @ - 1]
    /\ lcEnabled' = IF c \in lcEnabled THEN lcEnabled \ {c} ELSE lcEnabled \cup {c}
    /\ UNCHANGED <<lcPc, lcKeys, lcOnline, lcData, lcTask, lcIds, lcHelpers, lcHistory>>

LcMain ==
    \/ LcCleanup \/ LcClearOnline \/ LcMemory \/ LcChannelsUp
    \/ LcStopSync \/ LcStopSnapshot \/ (\E c \in LcChannels : LcShutdown(c)) \/ LcCancel \/ LcDrained \/ LcFlagsOff \/ LcExit

LcNext ==
    \/ LcMain \/ LcStart \/ LcSignal \/ LcCrash \/ LcFlush \/ LcSaves
    \/ \E c \in LcChannels : LcConnects(c) \/ LcDrops(c) \/ LcPolls(c) \/ LcCreates(c) \/ LcRemoves(c) \/ LcEdit(c)

LcSpec == LcInit /\ [][LcNext]_lcVars

LcTypeOK ==
    /\ lcPc \in {"off", "clean", "flags", "memory", "channels", "serve", "stop", "flush", "remove", "drain", "flagsOff", "exit"}
    /\ lcEnabled \cup lcKeys \cup lcOnline \cup lcIds \subseteq LcChannels
    /\ lcSync \in {"off", "on", "last"} /\ lcSnapshot \in {"off", "on", "last"} /\ lcApi \in {"off", "on", "draining"}

-----------------------------------------------------------------------------
\* A flag says what this run found: once the channels run, a channel is shown
\* online only if it connected since the process started, however the run before
\* ended; only an error of Redis at the start lets an old flag through.
LcOnlineOfThisRun ==
    lcPc \notin {"off", "clean", "flags"} /\ lcCleared => lcOnline \subseteq lcUps

\* After a shutdown in which every channel stopped in time, Redis answered, the
\* snapshot was saved in time and no request created a channel, no flag is left,
\* and Redis and the snapshot hold at least what the shared memory held when the
\* signal came.
LcCleanExit ==
    lcPc = "off" /\ lcQuiet /\ lcLeft[1] < LcRuns =>
        /\ lcOnline = {}
        /\ \A c \in LcChannels : lcRedis[c] >= lcMark[c] /\ lcSnap[c] >= lcMark[c]

\* A shutdown comes to its end.
LcStops == []<>(~LcStopping)

-----------------------------------------------------------------------------
(*---------------------------- SchemaMigration ----------------------------*)
(***************************************************************************)
(* The schema migrations of voltage.db (tools/monarch/src/core/schema.rs): *)
(* monarch's init_database brings a database of any earlier version to     *)
(* SCHEMA_VERSION, migration by migration, and stamps the version only at  *)
(* the end.  The process may be killed between any two statements and is   *)
(* run again later; a statement the database refuses ends the run.         *)
(*                                                                         *)
(* v1 to v4 run statement by statement; v5 and v6 run in a transaction,    *)
(* which a crash or an error rolls back.                                   *)
(***************************************************************************)

CONSTANTS SmStarts,     \* the databases found at the first start
          SmCrashes     \* the bound on crashes

VARIABLES smDb,         \* the tables on disk, as the connection sees them
          smFound,      \* the database found at the first start
          smSaved,      \* what a rollback restores: <<>> outside a transaction
          smTodo,       \* the statements this run still has to execute
          smCrashed,    \* crashes so far
          smTorn        \* a crash hit v1 after it had begun to copy

smVars == <<smDb, smFound, smSaved, smTodo, smCrashed, smTorn>>

SmVersion == 6

(* A database: ver is PRAGMA user_version.  inst and new are the instances  *)
(* table and its replacement under construction, {} when the table does not *)
(* exist and {rows} when it does; rows maps an id to its product name and   *)
(* to whether the properties column holds values.  rules, hist and tmpl are *)
(* sets of ids with the shape of their table.                               *)
SmNone == [ver |-> 0, products |-> FALSE, column |-> FALSE, inst |-> {}, new |-> {},
           prop |-> {}, rkey |-> "none", rtrig |-> FALSE, rules |-> {},
           hcasc |-> FALSE, hist |-> {}, tmplFk |-> FALSE]

SmRows(t) == UNION {DOMAIN rows : rows \in t}

SmTable(t) == CHOOSE rows \in t : TRUE

(* a legacy database with a TEXT-keyed rules table starts rules over *)
SmV0(step, db) ==
    IF db.rkey # "text"
    THEN db
    ELSE IF step = "v0 hist" THEN [db EXCEPT !.hist = {}]
    ELSE [db EXCEPT !.rules = {}, !.rkey = "none"]

(* v1 rebuilds instances without the key into products *)
SmV1(step, db) ==
    CASE step = "v1 create" -> [db EXCEPT !.new = IF @ = {} THEN {<<>>} ELSE @]
      [] step = "v1 copy"   -> [db EXCEPT !.new = {SmTable(db.inst) @@ SmTable(@)}]
      [] step = "v1 drop"   -> [db EXCEPT !.inst = {}]
      [] step = "v1 rename" -> [db EXCEPT !.inst = db.new, !.new = {}]
      [] step = "v1 tables" -> [db EXCEPT !.products = FALSE]

(* v2 gives instances the product names of the built-in library *)
SmV2(db) ==
    [db EXCEPT !.inst = {[i \in DOMAIN rows |->
        [rows[i] EXCEPT !.prod = IF @ = "legacy" THEN "builtin" ELSE @]] : rows \in @}]

(* v4 adds rules.trigger_config *)
SmV4(db) == IF db.rkey = "none" THEN db ELSE [db EXCEPT !.rtrig = TRUE]

(* v5 moves the values of the properties column into a table of their own; *)
(* the key of a value is found through the built-in product                *)
SmV5(step, db) ==
    CASE step = "v5 move" ->
             [db EXCEPT !.prop = @ \cup {i \in SmRows(db.inst) :
                 LET row == SmTable(db.inst)[i] IN row.props /\ row.prod = "builtin"}]
      [] step = "v5 create" -> [db EXCEPT !.new = {<<>>}]
      [] step = "v5 copy"   -> [db EXCEPT !.new = {[i \in SmRows(db.inst) |->
                                   [SmTable(db.inst)[i] EXCEPT !.props = FALSE]]}]
      [] step = "v5 drop"   -> [db EXCEPT !.inst = {}]
      [] step = "v5 rename" -> [db EXCEPT !.inst = db.new, !.new = {}, !.column = FALSE]

(* v6 rebuilds rules with AUTOINCREMENT, the history with a cascading key, *)
(* and the templates with a key into channels                              *)
SmV6(step, db) ==
    CASE step = "v6 rules" -> [db EXCEPT !.rkey = IF @ = "none" THEN @ ELSE "auto"]
      [] step = "v6 hist"  -> IF db.hcasc THEN db
                              ELSE [db EXCEPT !.hist = {h \in @ : h \in db.rules},
                                              !.hcasc = (db.rkey # "none")]
      [] step = "v6 tmpl"  -> [db EXCEPT !.tmplFk = TRUE]

(* init_database creates what is still missing, empty *)
SmCreateTables(db) ==
    [db EXCEPT !.inst = IF @ = {} THEN {<<>>} ELSE @,
               !.rkey = IF @ = "none" THEN "auto" ELSE @,
               !.rtrig = TRUE, !.hcasc = TRUE, !.tmplFk = TRUE]

(* the statements the database refuses: a copy out of a table that is not  *)
(* there or onto rows that are, and a table created twice                  *)
SmRefused(step, db) ==
    \/ step = "v1 copy" /\ (db.inst = {} \/ SmRows(db.inst) \cap SmRows(db.new) # {})
    \/ step \in {"v1 drop", "v5 drop"} /\ db.inst = {}
    \/ step \in {"v1 rename", "v5 rename"} /\ (db.new = {} \/ db.inst # {})
    \/ step = "v5 create" /\ db.new # {}
    \/ step = "v6 rules" /\ db.rkey # "none" /\ ~db.rtrig

SmEffect(step, db) ==
    CASE step \in {"v0 hist", "v0 rules"} -> SmV0(step, db)
      [] step \in {"v1 create", "v1 copy", "v1 drop", "v1 rename", "v1 tables"} -> SmV1(step, db)
      [] step = "v2" -> SmV2(db)
      [] step = "v4" -> SmV4(db)
      [] step \in {"v5 move", "v5 create", "v5 copy", "v5 drop", "v5 rename"} -> SmV5(step, db)
      [] step \in {"v6 rules", "v6 hist", "v6 tmpl"} -> SmV6(step, db)
      [] step = "stamp" -> [db EXCEPT !.ver = SmVersion]
      [] step = "tables" -> SmCreateTables(db)
      [] OTHER -> db

(* run_migrations: the outstanding migrations, then the stamp *)
SmProgram(v) ==
    LET part(n, steps) == IF v < n THEN steps ELSE <<>>
    IN part(1, <<"v0 hist", "v0 rules", "v1">>)
       \o part(2, <<"v2">>) \o part(4, <<"v4">>)
       \o part(5, <<"begin", "v5">>)
       \o part(6, <<"begin", "v6 rules", "v6 hist", "v6 tmpl", "commit", "stamp">>)
       \o <<"tables">>

(* v1 and v5 look first whether there is anything to do *)
SmExpand(step, db) ==
    CASE step = "v1" -> IF db.products
                        THEN <<"v1 create", "v1 copy", "v1 drop", "v1 rename", "v1 tables">>
                        ELSE <<>>
      [] step = "v5" -> IF db.inst # {} /\ db.column
                        THEN <<"v5 move", "v5 create", "v5 copy", "v5 drop", "v5 rename", "commit">>
                        ELSE <<"commit">>
      [] OTHER -> <<>>

-----------------------------------------------------------------------------
SmInit ==
    /\ smDb \in SmStarts
    /\ smFound = smDb
    /\ smSaved = <<>> /\ smTodo = <<>>
    /\ smCrashed = 0
    /\ smTorn = FALSE

SmStart ==
    /\ smTodo = <<>>
    /\ smDb.ver < SmVersion \/ smDb.inst = {} \/ smDb.rkey = "none"
    /\ smTodo' = SmProgram(smDb.ver)
    /\ UNCHANGED <<smDb, smFound, smSaved, smCrashed, smTorn>>

SmStep ==
    /\ smTodo # <<>>
    /\ LET step == Head(smTodo)
       IN /\ ~SmRefused(step, smDb)
          /\ smDb' = SmEffect(step, smDb)
          /\ smTodo' = SmExpand(step, smDb) \o Tail(smTodo)
          /\ smSaved' = CASE step = "begin" -> <<smDb>>
                          [] step = "commit" -> <<>>
                          [] OTHER -> smSaved
    /\ UNCHANGED <<smFound, smCrashed, smTorn>>

(* the run ends, and with it an open transaction *)
SmEndRun ==
    /\ smTodo' = <<>> /\ smSaved' = <<>>
    /\ smDb' = IF smSaved = <<>> THEN smDb ELSE smSaved[1]
    /\ UNCHANGED smFound

SmError ==
    /\ smTodo # <<>> /\ SmRefused(Head(smTodo), smDb)
    /\ SmEndRun
    /\ UNCHANGED <<smCrashed, smTorn>>

SmCrash ==
    /\ smTodo # <<>> /\ smCrashed < SmCrashes
    /\ smCrashed' = smCrashed + 1
    /\ smTorn' = (smTorn \/ Head(smTodo) \in {"v1 drop", "v1 rename"})
    /\ SmEndRun

SmNext == SmStart \/ SmStep \/ SmError \/ SmCrash

SmSpec == SmInit /\ [][SmNext]_smVars

-----------------------------------------------------------------------------
(* Every instance of the database found is in the instances table or in     *)
(* its replacement after every statement, and no property value of a        *)
(* product the library knows, under its old name or its new one, is lost:   *)
(* it stays in the column until it is in instance_properties.               *)
SmNothingLost ==
    LET valued == {i \in SmRows(smFound.inst) : LET row == SmTable(smFound.inst)[i]
                                                IN row.props /\ row.prod # "other"}
    IN /\ SmRows(smFound.inst) \subseteq SmRows(smDb.inst) \cup SmRows(smDb.new)
       /\ \A i \in valued :
            \/ i \in smDb.prop
            \/ \E rows \in smDb.inst \cup smDb.new : i \in DOMAIN rows /\ rows[i].props
       /\ smFound.rkey # "text" => smFound.rules \subseteq smDb.rules

(* The stamp is true: a database that says version 6 has the tables of      *)
(* version 6 (an AUTOINCREMENT rules table with trigger_config, a cascading *)
(* history without orphans, no properties column, no table half built),     *)
(* except those init_database is about to create.                           *)
SmStampTrue ==
    smDb.ver = SmVersion =>
        /\ smDb.rkey \in {"none", "auto"} /\ (smDb.rkey = "auto" => smDb.rtrig)
        /\ smDb.hist \subseteq smDb.rules
        /\ ~smDb.column /\ smDb.new = {} /\ ~smDb.products
        /\ smDb.inst = {} \/ \A i \in SmRows(smDb.inst) : SmTable(smDb.inst)[i].prod # "legacy"

(* Run again after each crash, monarch does bring the database to the       *)
(* current version, unless a crash hit v1 between its copy and its rename.  *)
SmMigrates == []<>(smTorn \/ (smDb.ver = SmVersion /\ smDb.inst # {}))

-----------------------------------------------------------------------------
(*-------------------------------- LogFiles -------------------------------*)
(***************************************************************************)
(* The log files of a service: a file per day, further files when one is   *)
(* full, the files of API accesses beside them, the background task that   *)
(* packs files older than a day and removes old archives, SIGHUP, which    *)
(* opens the log anew, restarts, and an operator who deletes files.        *)
(* The clock counts days.                                             *)
(***************************************************************************)

CONSTANTS LfKinds,      \* "log", and "api", the files of API accesses
          LfGateway,    \* is the service the API gateway, whose name contains "_api"?
          LfMax,        \* records a file holds (20 MB)
          LfRetention,  \* days an archive is kept (30 days)
          LfWrites, LfTicks, LfRestarts, LfDeletes   \* bounds

VARIABLES
    lfNow,      \* days
    lfFile,     \* files: <<kind, day, n>> -> [recs, mtime]
    lfGz,       \* their archives
    lfW,        \* DailyRollingWriter of each kind: [date, open, linked, size, count]
    lfClosed,   \* SIGHUP: the old worker is gone, the new writer not yet in place
    lfPack,     \* the archive being made: none or <<name, records, written>>
    lfNext,     \* records written so far
    lfWritten,  \* history: time of each record
    lfGone,     \* history: records the operator deleted
    lfLost,     \* history: records that reached no file, with the file or "reopen"
    lfLeft      \* what is left of the bounds: <<restarts and reopenings, deletions>>

lfVars == <<lfNow, lfFile, lfGz, lfW, lfClosed, lfPack, lfNext, lfWritten, lfGone, lfLost, lfLeft>>

LfDay == lfNow

\* with_options: appends to the file of the day
LfOpened(kind, files) ==
    LET name == <<kind, LfDay, 0>>
    IN  [date |-> LfDay, open |-> name, linked |-> TRUE, count |-> 0,
         size |-> IF name \in DOMAIN files THEN Len(files[name].recs) ELSE 0]
LfCreated(name, files) == files @@ (name :> [recs |-> <<>>, mtime |-> lfNow])

LfInit ==
    /\ lfNow = 0 /\ lfGz = <<>> /\ lfClosed = FALSE /\ lfPack = <<>>
    /\ lfFile = [f \in {<<k, 0, 0>> : k \in LfKinds} |-> [recs |-> <<>>, mtime |-> 0]]
    /\ lfW = [k \in LfKinds |-> [date |-> 0, open |-> <<k, 0, 0>>, linked |-> TRUE, size |-> 0, count |-> 0]]
    /\ lfNext = 0 /\ lfWritten = <<>> /\ lfGone = {} /\ lfLost = {}
    /\ lfLeft = <<LfRestarts, LfDeletes>>

-----------------------------------------------------------------------------
(* The writer. *)

\* rotate_by_size: the next number of the writer's date; an existing file of
\* that name is appended to, and counted as empty
LfRotated(kind, w, files) ==
    LET name == <<kind, w.date, w.count + 1>>
    IN  [w |-> [w EXCEPT !.count = w.count + 1, !.size = 0, !.open = name, !.linked = TRUE],
         files |-> LfCreated(name, files)]

\* get_writer: a new day, or the file of the day gone
LfCurrent(kind, w, files) ==
    IF w.date # LfDay \/ <<kind, w.date, 0>> \notin DOMAIN files
    THEN [w |-> [LfOpened(kind, files) EXCEPT !.count = IF w.date # LfDay THEN 0 ELSE w.count],
          files |-> LfCreated(<<kind, LfDay, 0>>, files)]
    ELSE [w |-> w, files |-> files]

\* write
LfWrite(kind) ==
    /\ lfNext < LfWrites /\ lfNext' = lfNext + 1 /\ lfWritten' = Append(lfWritten, lfNow)
    /\ IF kind = "log" /\ lfClosed
       THEN /\ lfLost' = lfLost \cup {<<lfNext + 1, "reopen">>}
            /\ UNCHANGED <<lfW, lfFile>>
       ELSE \E r \in {IF kind = "log" /\ lfW[kind].size + 1 > LfMax
                      THEN LfRotated(kind, lfW[kind], lfFile) ELSE [w |-> lfW[kind], files |-> lfFile]} :
            \E c \in {LfCurrent(kind, r.w, r.files)} :
                /\ lfW' = [lfW EXCEPT ![kind] = [c.w EXCEPT !.size = @ + 1]]
                /\ IF c.w.linked
                   THEN /\ lfFile' = [c.files EXCEPT ![c.w.open] =
                                        [recs |-> Append(@.recs, lfNext + 1), mtime |-> lfNow]]
                        /\ lfLost' = lfLost
                   ELSE /\ lfFile' = c.files /\ lfLost' = lfLost \cup {<<lfNext + 1, c.w.open>>}
    /\ UNCHANGED <<lfNow, lfGz, lfClosed, lfPack, lfGone, lfLeft>>

\* reopen_logs_now: the guard of the old worker is dropped, then the new writer
\* put in its place. reopen_api_logs finds no runtime configuration and does
\* nothing.
LfReopenBegin ==
    /\ ~lfClosed /\ lfLeft[1] > 0 /\ lfLeft' = [lfLeft EXCEPT ![1] = @ - 1]
    /\ lfClosed' = TRUE
    /\ lfW' = [lfW EXCEPT !["log"] = LfOpened("log", lfFile)]
    /\ lfFile' = LfCreated(<<"log", LfDay, 0>>, lfFile)
    /\ UNCHANGED <<lfNow, lfGz, lfPack, lfNext, lfWritten, lfGone, lfLost>>
LfReopenEnd ==
    /\ lfClosed /\ lfClosed' = FALSE
    /\ UNCHANGED <<lfNow, lfFile, lfGz, lfW, lfPack, lfNext, lfWritten, lfGone, lfLost, lfLeft>>

\* init_with_config
LfRestart ==
    /\ lfLeft[1] > 0 /\ lfLeft' = [lfLeft EXCEPT ![1] = @ - 1]
    /\ lfW' = [k \in LfKinds |-> LfOpened(k, lfFile)]
    /\ lfFile' = lfFile @@ [f \in {<<k, LfDay, 0>> : k \in LfKinds} |-> [recs |-> <<>>, mtime |-> lfNow]]
    /\ lfClosed' = FALSE /\ lfPack' = <<>>
    /\ UNCHANGED <<lfNow, lfGz, lfNext, lfWritten, lfGone, lfLost>>

-----------------------------------------------------------------------------
(* The background task. *)

\* compress_service_logs: its filter takes a log for a log of API accesses when
\* "_api" occurs anywhere in the name
LfMatches(name) == name[1] = "api" \/ ~LfGateway

LfOld(mtime, age) == lfNow - mtime > age

\* rotate_files_in_dir and compress_file: read, write the archive, remove
LfCompressRead(name) ==
    /\ lfPack = <<>> /\ name \in DOMAIN lfFile /\ LfMatches(name) /\ LfOld(lfFile[name].mtime, 1)
    /\ lfPack' = <<name, lfFile[name].recs, FALSE>>
    /\ UNCHANGED <<lfNow, lfFile, lfGz, lfW, lfClosed, lfNext, lfWritten, lfGone, lfLost, lfLeft>>
LfCompressWrite ==
    /\ lfPack # <<>> /\ ~lfPack[3] /\ lfPack' = [lfPack EXCEPT ![3] = TRUE]
    /\ lfGz' = lfPack[1] :> [recs |-> lfPack[2], mtime |-> lfNow] @@ lfGz
    /\ UNCHANGED <<lfNow, lfFile, lfW, lfClosed, lfNext, lfWritten, lfGone, lfLost, lfLeft>>
LfUnlinked(name) == [k \in LfKinds |-> [lfW[k] EXCEPT !.linked = @ /\ lfW[k].open # name]]
LfCompressRemove ==
    /\ lfPack # <<>> /\ lfPack[3] /\ lfPack' = <<>>
    /\ lfFile' = Restrict(lfFile, DOMAIN lfFile \ {lfPack[1]})
    /\ lfW' = LfUnlinked(lfPack[1])
    /\ UNCHANGED <<lfNow, lfGz, lfClosed, lfNext, lfWritten, lfGone, lfLost, lfLeft>>
LfExpire(name) ==
    /\ name \in DOMAIN lfGz /\ LfOld(lfGz[name].mtime, LfRetention)
    /\ lfGz' = Restrict(lfGz, DOMAIN lfGz \ {name})
    /\ UNCHANGED <<lfNow, lfFile, lfW, lfClosed, lfPack, lfNext, lfWritten, lfGone, lfLost, lfLeft>>

-----------------------------------------------------------------------------
\* A day passes; packing a file and reopening the log take seconds.
LfTick ==
    /\ lfPack = <<>> /\ ~lfClosed
    /\ lfNow < LfTicks /\ lfNow' = lfNow + 1
    /\ UNCHANGED <<lfFile, lfGz, lfW, lfClosed, lfPack, lfNext, lfWritten, lfGone, lfLost, lfLeft>>

\* The operator deletes a file.
LfDelete(name) ==
    /\ lfLeft[2] > 0 /\ lfLeft' = [lfLeft EXCEPT ![2] = @ - 1]
    /\ name \in DOMAIN lfFile
    /\ lfGone' = lfGone \cup Range(lfFile[name].recs)
    /\ lfFile' = Restrict(lfFile, DOMAIN lfFile \ {name})
    /\ lfW' = LfUnlinked(name)
    /\ UNCHANGED <<lfNow, lfGz, lfClosed, lfPack, lfNext, lfWritten, lfLost>>

LfPackStep == (\E name \in DOMAIN lfFile : LfCompressRead(name)) \/ LfCompressWrite \/ LfCompressRemove
LfSweep == \E name \in DOMAIN lfGz : LfExpire(name)
LfNextStep ==
    \/ \E kind \in LfKinds : LfWrite(kind)
    \/ LfReopenBegin \/ LfReopenEnd \/ LfRestart \/ LfTick
    \/ LfPackStep \/ LfSweep
    \/ \E name \in DOMAIN lfFile : LfDelete(name)

LfSpec == LfInit /\ [][LfNextStep]_lfVars

-----------------------------------------------------------------------------
LfTypeOK ==
    /\ \A name \in DOMAIN lfFile \cup DOMAIN lfGz : name[1] \in LfKinds /\ name[2] <= LfDay
    /\ \A k \in LfKinds : lfW[k].linked => lfW[k].open \in DOMAIN lfFile
    /\ Len(lfWritten) = lfNext

LfKept == UNION {Range(lfFile[f].recs) : f \in DOMAIN lfFile} \cup UNION {Range(lfGz[f].recs) : f \in DOMAIN lfGz}
LfLostRecs == {l[1] : l \in lfLost}

\* A record is found on disk for as long as the retention says, whatever the
\* packing task, restarts and changes of day do meanwhile: it is in a file or an
\* archive unless an operator deleted it, no file took it, or it is old enough.
LfRetained ==
    \A r \in 1..lfNext :
        r \in LfKept \/ r \in lfGone \/ r \in LfLostRecs \/ LfOld(lfWritten[r], LfRetention)

\* Which deletions get_writer notices: a record is lost to a deleted file only
\* when that file was one of the further files of the day; the first file of the
\* day is opened anew by the next record. SIGHUP loses what is logged between the
\* two halves of the reopening.
LfHealed == \A l \in lfLost : l[2] = "reopen" \/ (l[2][1] = "log" /\ l[2][3] > 0)

\* Every file a day old is packed and removed.
LfArchived ==
    \A n \in {0, 1}, k \in LfKinds :
        []<>~(<<k, 0, n>> \in DOMAIN lfFile /\ LfOld(lfFile[<<k, 0, n>>].mtime, 1))

=============================================================================
