--------------------------- MODULE ConfigVersions ---------------------------
(***************************************************************************)
(* The maintenance calls of apigateway: versions of the configuration, their *)
(* application with snapshot and rollback, the import of a package, and the *)
(* upgrade of the software.                                                *)
(***************************************************************************)
EXTENDS Naturals, Sequences, FiniteSets

-----------------------------------------------------------------------------
(*------------------------------ ConfigApply ------------------------------*)
(***************************************************************************)
(* apigateway: versions of the configuration, their archives, and the      *)
(* import and restore of a package, which overwrites the data directory    *)
(* under the running services, restarts them and rolls back when one does  *)
(* not come up.                                                            *)
(*                                                                         *)
(* The data directory is voltage.db: its business tables, and its users    *)
(* and roles.                                                              *)
(***************************************************************************)

CONSTANTS CaConfigs,   \* contents of the business tables
          CaServices,  \* the services that are restarted
          CaCalls,     \* HTTP calls in progress at a time
          CaVersions,  \* bound: versions made
          CaCapacity,  \* archives that fit on the disk
          CaEdits      \* bound: changes made by others

ASSUME CaAssumption == CaVersions \in Nat /\ CaCapacity \in Nat /\ CaEdits \in Nat

CaTorn == "torn"       \* a database of which only a part was written
CaDown == "down"       \* a service that does not run

VARIABLES
    caData,   \* the data directory
    caVer,    \* the versions: archived data, row in the table, deleted, archive on disk
    caCur,    \* current_version_id; 0 before the first
    caBusy,   \* CONFIG_OPERATION
    caOp,     \* the calls
    caRuns,   \* the configuration each service runs with
    caEdit,   \* changes made by others so far
    caUp      \* the gateway: "up", or "boot" until initialize() is done

caVars == <<caData, caVer, caCur, caBusy, caOp, caRuns, caEdit, caUp>>

CaDirs == [cfg : CaConfigs \union {CaTorn}, users : 0 .. CaEdits]
CaNoDir == [cfg |-> CaTorn, users |-> 0]

\* A call: its step; why it makes a version; the package, the data it will
\* apply and the data before it; the version it made; whether nobody else
\* changed the data meanwhile.
CaFree == [at |-> "none", for |-> "none", pack |-> CaNoDir, before |-> CaNoDir, made |-> 0,
           snap |-> 0, clean |-> TRUE]
CaInOp(c) == caOp[c].at # "none"

CaInit ==
    /\ \E f \in CaConfigs : /\ caData = [cfg |-> f, users |-> 0]
                            /\ caRuns = [s \in CaServices |-> f]
    /\ caVer = <<>> /\ caCur = 0 /\ caBusy = FALSE /\ caOp = [c \in CaCalls |-> CaFree]
    /\ caEdit = 0 /\ caUp = "boot"

CaFilesOnDisk == Cardinality({v \in DOMAIN caVer : caVer[v].file})
CaListed(v) == v \in DOMAIN caVer /\ caVer[v].row /\ ~caVer[v].deleted
\* The call answers or is dropped, and OperationGuard is released.
CaEnds(c) == caOp' = [caOp EXCEPT ![c] = CaFree] /\ caBusy' = FALSE

----------------------------------------------------------------------------
(* create_version(): the archive, the row, the current version *)

\* The data is read, and its archive written if it fits with what is reserved.
CaWriteArchive(c) ==
    /\ caOp[c].at = "file"
    /\ \/ /\ Len(caVer) < CaVersions
          /\ CaFilesOnDisk + (IF caOp[c].for = "snap" THEN 2 ELSE 1) <= CaCapacity
          /\ caVer' = Append(caVer, [data |-> caData, row |-> FALSE, deleted |-> FALSE, file |-> TRUE])
          /\ caOp' = [caOp EXCEPT ![c].at = "row", ![c].made = Len(caVer) + 1]
          /\ UNCHANGED caBusy
       \/ CaEnds(c) /\ UNCHANGED caVer         \* no room, or the disk fails
    /\ UNCHANGED <<caData, caCur, caRuns, caEdit, caUp>>

CaInsertRow(c) ==
    /\ caOp[c].at = "row"
    /\ \/ /\ caVer' = [caVer EXCEPT ![caOp[c].made].row = TRUE]
          /\ caOp' = [caOp EXCEPT ![c].at = "current"] /\ UNCHANGED caBusy
       \/ CaEnds(c) /\ UNCHANGED caVer         \* SQLite fails
    /\ UNCHANGED <<caData, caCur, caRuns, caEdit, caUp>>

CaSetCurrent(c) ==
    /\ caOp[c].at = "current"
    /\ \/ /\ caCur' = caOp[c].made
          /\ IF caOp[c].for = "snap"
               THEN caOp' = [caOp EXCEPT ![c].at = "stage", ![c].snap = caOp[c].made] /\ UNCHANGED caBusy
               ELSE CaEnds(c)
       \/ CaEnds(c) /\ UNCHANGED caCur         \* SQLite fails
    /\ UNCHANGED <<caData, caVer, caRuns, caEdit, caUp>>

----------------------------------------------------------------------------
(* The calls *)

CaAcquire(c, op) ==
    /\ caUp = "up" /\ ~CaInOp(c) /\ ~caBusy
    /\ caBusy' = TRUE
    /\ caOp' = [caOp EXCEPT ![c] = op]

\* backup_current(): nothing is made when the current version has this content.
CaBackup(c) ==
    /\ CaAcquire(c, IF CaListed(caCur) /\ caVer[caCur].data = caData
                      THEN [CaFree EXCEPT !.at = "unchanged"]
                      ELSE [CaFree EXCEPT !.at = "file", !.for = "backup", !.before = caData])
    /\ UNCHANGED <<caData, caVer, caCur, caRuns, caEdit, caUp>>

CaUnchanged(c) ==
    /\ caOp[c].at = "unchanged"
    /\ CaEnds(c)
    /\ UNCHANGED <<caData, caVer, caCur, caRuns, caEdit, caUp>>

\* apply_import() and import_compat() of a package that validate_package() accepts.
CaImport(c) ==
    /\ \E f \in CaConfigs :
          CaAcquire(c, [CaFree EXCEPT !.at = "file", !.for = "snap", !.before = caData,
                                      !.pack = [cfg |-> f, users |-> 0]])
    /\ UNCHANGED <<caData, caVer, caCur, caRuns, caEdit, caUp>>

\* restore_version(): not the current one, and the archive must be there; an
\* archive of a torn database does not pass validate_package().
CaRestore(c, v) ==
    /\ CaListed(v) /\ v # caCur /\ caVer[v].file /\ caVer[v].data.cfg # CaTorn
    /\ CaAcquire(c, [CaFree EXCEPT !.at = "file", !.for = "snap", !.before = caData,
                                   !.pack = caVer[v].data])
    /\ UNCHANGED <<caData, caVer, caCur, caRuns, caEdit, caUp>>

\* The package is extracted aside, and takes the users of the database in use.
CaStage(c) ==
    /\ caOp[c].at = "stage"
    /\ \/ /\ caOp' = [caOp EXCEPT ![c].at = "copy", ![c].pack.users = caData.users]
          /\ UNCHANGED caBusy
       \/ CaEnds(c)
    /\ UNCHANGED <<caData, caVer, caCur, caRuns, caEdit, caUp>>

\* What a copy that fails on the way may leave.
CaPartly(dir, pack) == {dir, [dir EXCEPT !.cfg = CaTorn], pack}

CaCopy(c) ==
    /\ caOp[c].at = "copy"
    /\ \/ /\ caData' = caOp[c].pack
          /\ caOp' = [caOp EXCEPT ![c].at = "restart"]
       \/ /\ caData' \in CaPartly(caData, caOp[c].pack)
          /\ caOp' = [caOp EXCEPT ![c].at = "undo"]
    /\ UNCHANGED <<caVer, caCur, caBusy, caRuns, caEdit, caUp>>

\* Mutant: a service that did not come up is not noticed.
CaRestartsUnseen(all) ==
    /\ caRuns' \in [CaServices -> {CaDown, caData.cfg} \union {caRuns[s] : s \in CaServices}]

\* restart_core_services(): in every service that comes up the configuration is
\* the one of the directory; one that does not may run with the old or the new
\* one, or not at all.
CaRestarts(all) ==
    /\ caRuns' \in [CaServices -> {CaDown, caData.cfg} \union {caRuns[s] : s \in CaServices}]
    /\ all => \A s \in CaServices : caRuns'[s] = caData.cfg

CaRestart(c) ==
    /\ caOp[c].at = "restart"
    /\ \/ /\ caData.cfg # CaTorn /\ CaRestarts(TRUE)
          /\ caOp' = [caOp EXCEPT ![c].at = "file", ![c].for = "final"]
       \/ /\ CaRestarts(FALSE)
          /\ caOp' = [caOp EXCEPT ![c].at = "undo"]
    /\ UNCHANGED <<caData, caVer, caCur, caBusy, caEdit, caUp>>

\* rollback_snapshot(): the snapshot is extracted over the directory, and the
\* services are restarted.
CaUndo(c) ==
    /\ caOp[c].at = "undo"
    /\ \/ /\ caVer[caOp[c].snap].file
          /\ caData' = caVer[caOp[c].snap].data
          /\ caOp' = [caOp EXCEPT ![c].at = "again"] /\ UNCHANGED caBusy
       \/ caData' \in CaPartly(caData, caVer[caOp[c].snap].data) /\ CaEnds(c)
    /\ UNCHANGED <<caVer, caCur, caRuns, caEdit, caUp>>

CaRestartAgain(c) ==
    /\ caOp[c].at = "again"
    /\ \/ caData.cfg # CaTorn /\ CaRestarts(TRUE) /\ caOp' = [caOp EXCEPT ![c].at = "undone"]
       \/ CaRestarts(FALSE) /\ caOp' = [caOp EXCEPT ![c].at = "broken"]
    /\ UNCHANGED <<caData, caVer, caCur, caBusy, caEdit, caUp>>

CaAnswer(c) ==
    /\ caOp[c].at \in {"undone", "broken"}
    /\ CaEnds(c)
    /\ UNCHANGED <<caData, caVer, caCur, caRuns, caEdit, caUp>>

\* delete_version(): the archive is moved away, the row marked, the archive removed.
CaDelete(c, v) ==
    /\ CaListed(v) /\ v # caCur
    /\ CaAcquire(c, [CaFree EXCEPT !.at = "delete", !.made = v])
    /\ caVer' = [caVer EXCEPT ![v].file = FALSE]
    /\ UNCHANGED <<caData, caCur, caRuns, caEdit, caUp>>

CaMarkDeleted(c) ==
    /\ caOp[c].at = "delete"
    /\ \/ caVer' = [caVer EXCEPT ![caOp[c].made].deleted = TRUE] /\ CaEnds(c)
       \/ caVer' \in {caVer, [caVer EXCEPT ![caOp[c].made].file = TRUE]} /\ CaEnds(c)
    /\ UNCHANGED <<caData, caCur, caRuns, caEdit, caUp>>

\* The client goes away: the call is dropped where it waits, and its guard with it.
CaDropped(c) ==
    /\ CaInOp(c)
    /\ CaEnds(c)
    /\ UNCHANGED <<caData, caVer, caCur, caRuns, caEdit, caUp>>

----------------------------------------------------------------------------
(* Others *)

CaUnclean == [c \in CaCalls |-> IF CaInOp(c) THEN [caOp[c] EXCEPT !.clean = FALSE] ELSE caOp[c]]

\* A user of the gateway is changed.
CaChange ==
    /\ caEdit < CaEdits
    /\ caEdit' = caEdit + 1 /\ caOp' = CaUnclean
    /\ caData' = [caData EXCEPT !.users = caEdit + 1]
    /\ UNCHANGED <<caVer, caCur, caBusy, caRuns, caUp>>

CaCrash ==
    /\ caUp = "up"
    /\ caUp' = "boot" /\ caBusy' = FALSE /\ caOp' = [c \in CaCalls |-> CaFree]
    /\ UNCHANGED <<caData, caVer, caCur, caRuns, caEdit>>

\* initialize(): the first version, when none is listed.
CaInitialize ==
    /\ caUp = "boot"
    /\ caUp' = "up"
    /\ IF \E v \in DOMAIN caVer : CaListed(v)
         THEN UNCHANGED <<caVer, caCur>>
         ELSE \/ /\ Len(caVer) < CaVersions /\ CaFilesOnDisk < CaCapacity
                 /\ caVer' = Append(caVer, [data |-> caData, row |-> TRUE, deleted |-> FALSE, file |-> TRUE])
                 /\ caCur' = Len(caVer) + 1
              \/ UNCHANGED <<caVer, caCur>>
    /\ UNCHANGED <<caData, caBusy, caOp, caRuns, caEdit>>

CaStep(c) ==
    \/ CaWriteArchive(c) \/ CaInsertRow(c) \/ CaSetCurrent(c) \/ CaUnchanged(c) \/ CaStage(c)
    \/ CaCopy(c) \/ CaRestart(c) \/ CaUndo(c) \/ CaRestartAgain(c) \/ CaAnswer(c) \/ CaMarkDeleted(c)

CaNext ==
    \/ \E c \in CaCalls : \/ CaStep(c) \/ CaBackup(c) \/ CaImport(c) \/ CaDropped(c)
                          \/ \E v \in DOMAIN caVer : CaRestore(c, v) \/ CaDelete(c, v)
    \/ CaChange \/ CaCrash \/ CaInitialize

CaSpec == CaInit /\ [][CaNext]_caVars

----------------------------------------------------------------------------
(* Properties *)

CaTypeOK ==
    /\ caData \in CaDirs /\ caCur \in 0 .. Len(caVer) /\ caBusy \in BOOLEAN
    /\ \A v \in DOMAIN caVer : caVer[v] \in [data : CaDirs, row : BOOLEAN, deleted : BOOLEAN, file : BOOLEAN]
    /\ caRuns \in [CaServices -> CaConfigs \union {CaTorn, CaDown}]
    /\ caEdit \in 0 .. CaEdits /\ caUp \in {"up", "boot"}

\* The current version can always be exported and restored: it is listed and its
\* archive is on the disk, whatever fails or is cut short.
CaCurrentRestorable == caCur # 0 => CaListed(caCur) /\ caVer[caCur].file

\* Nobody else having written to the directory, an apply that answers success
\* has every service running the configuration of the package, and one that
\* answers that it rolled back has every service running the one of before.
CaAllOrNothing ==
    \A c \in CaCalls :
        LET op == caOp[c]
        IN  /\ op.for = "final" /\ CaInOp(c) /\ op.clean
               => caData.cfg = op.pack.cfg /\ \A s \in CaServices : caRuns[s] = op.pack.cfg
            /\ op.at = "undone" /\ op.clean
               => caData.cfg = op.before.cfg /\ \A s \in CaServices : caRuns[s] = op.before.cfg

-----------------------------------------------------------------------------
(*------------------------------ ConfigImport -----------------------------*)
(***************************************************************************)
(* The import sessions of the API gateway (config_versions.rs): a package  *)
(* is uploaded, validated and staged on disk with a row in config_imports; *)
(* a later call applies it by its id; a periodic task removes what is      *)
(* invalid, applied or expired.  The applying itself is ConfigApply; here  *)
(* it succeeds or fails.                                                   *)
(***************************************************************************)

CONSTANTS CiIds,       \* import sessions
          CiFiles,     \* bound: entries of an archive, next to MAX_ARCHIVE_FILES
          CiMaxFiles   \* MAX_ARCHIVE_FILES

ASSUME CiAssumption == CiFiles \in Nat /\ CiMaxFiles \in Nat

VARIABLES ciRow,   \* config_imports: id -> {row} or {}
          ciFile,  \* imports/<id>.zip: id -> {package} or {}
          ciBusy,  \* CONFIG_OPERATION
          ciCall,  \* the validation and the application under way
          ciUsed,  \* the package applied last
          ciSweep  \* the sessions the cleanup still has to look at

ciVars == <<ciRow, ciFile, ciBusy, ciCall, ciUsed, ciSweep>>

(* What export_current and create_archive make of a data directory of n    *)
(* files: the entries and whether their paths are enclosed, what is under  *)
(* voltage.db, what manifest.json says, the content its hash was made of   *)
(* and the content there is.                                               *)
CiExport(n) == [count |-> n + 1, enclosed |-> TRUE, db |-> "ok", manifest |-> "config",
                hashed |-> 1, content |-> 1]

(* The packages uploaded: an export, or one that differs from it in one    *)
(* respect.                                                                *)
CiPackage ==
  LET good == CiExport(1)
  IN  {[good EXCEPT !.count = n] : n \in 1..CiFiles}
      \cup {[good EXCEPT !.enclosed = FALSE]}
      \cup {[good EXCEPT !.db = d] : d \in {"none", "text", "corrupt", "broken_ref", "auth_ref"}}
      \cup {[good EXCEPT !.manifest = m] : m \in {"none", "other"}}
      \cup {[good EXCEPT !.hashed = 2]}

(* validate_archive *)
CiSafe(p)       == p.count <= CiMaxFiles /\ p.enclosed
CiStructure(p)  == p.db \notin {"none", "text"} /\ p.manifest # "none" /\ p.hashed = p.content
CiCompatible(p) == p.manifest = "config"

(* validate_database_integrity: integrity_check, then foreign_key_check    *)
(* without the rows of the tables that are never imported.                 *)
CiIntegrity(p) == p.db \in {"ok", "auth_ref"}

(* validate_package: the database is opened only when the rest passed. *)
CiValid(p) ==
  LET archive == CiSafe(p) /\ CiStructure(p) /\ CiCompatible(p)
  IN  archive /\ CiIntegrity(p)

CiNoCall == [at |-> "none"]

CiTypeOK ==
  /\ \A i \in CiIds : Cardinality(ciRow[i]) <= 1 /\ Cardinality(ciFile[i]) <= 1
  /\ ciBusy \in BOOLEAN
  /\ ciUsed \subseteq CiPackage
  /\ ciSweep \subseteq CiIds

CiInit ==
  /\ ciRow = [i \in CiIds |-> {}]
  /\ ciFile = [i \in CiIds |-> {}]
  /\ ciBusy = FALSE
  /\ ciCall = [k \in {"validate", "apply"} |-> CiNoCall]
  /\ ciUsed = {}
  /\ ciSweep = {}

-----------------------------------------------------------------------------
(* validate_import: the package is checked and written under a fresh id... *)
CiUpload ==
  /\ ciCall["validate"] = CiNoCall
  /\ \E i \in CiIds, p \in CiPackage :
       /\ ciRow[i] = {} /\ ciFile[i] = {}
       /\ ciFile' = [ciFile EXCEPT ![i] = {p}]
       /\ ciCall' = [ciCall EXCEPT !["validate"] = [at |-> "row", id |-> i, pack |-> p]]
  /\ UNCHANGED <<ciRow, ciBusy, ciUsed, ciSweep>>

(* ... and its row says what the checks found; an invalid package starts   *)
(* the cleanup at once.                                                    *)
CiStage ==
  /\ ciCall["validate"] # CiNoCall
  /\ LET q == ciCall["validate"]
     IN  /\ ciRow' = [ciRow EXCEPT ![q.id] =
              {[status |-> IF CiValid(q.pack) THEN "validated" ELSE "invalid",
                hash |-> q.pack, path |-> TRUE, expired |-> FALSE]}]
         /\ ciSweep' = IF CiValid(q.pack) THEN ciSweep ELSE CiIds
  /\ ciCall' = [ciCall EXCEPT !["validate"] = CiNoCall]
  /\ UNCHANGED <<ciFile, ciBusy, ciUsed>>

(* apply_import under the operation guard: only a validated session that   *)
(* has not expired and whose file still has the hash of the row goes on.   *)
CiBeginApply ==
  /\ ~ciBusy
  /\ \E i \in CiIds : \E r \in ciRow[i] : \E p \in ciFile[i] :
       /\ r.status = "validated" /\ ~r.expired /\ r.path
       /\ p = r.hash
       /\ ciCall' = [ciCall EXCEPT !["apply"] = [at |-> "import", id |-> i, pack |-> p]]
  /\ ciBusy' = TRUE
  /\ UNCHANGED <<ciRow, ciFile, ciUsed, ciSweep>>

(* import_compat: the package of the request itself is applied. *)
CiBeginDirect ==
  /\ ~ciBusy
  /\ \E p \in CiPackage, i \in CiIds :
       ciCall' = [ciCall EXCEPT !["apply"] = [at |-> "direct", id |-> i, pack |-> p]]
  /\ ciBusy' = TRUE
  /\ UNCHANGED <<ciRow, ciFile, ciUsed, ciSweep>>

(* apply_archive validates the package again; a session that was applied   *)
(* is marked so and the cleanup follows; one that failed can be tried      *)
(* again.                                                                  *)
CiEndApply ==
  /\ ciBusy
  /\ ciBusy' = FALSE
  /\ LET q == ciCall["apply"]
     IN  /\ ciCall' = [ciCall EXCEPT !["apply"] = CiNoCall]
         /\ \/ /\ CiValid(q.pack)
               /\ ciUsed' = {q.pack}
               /\ IF q.at = "import"
                  THEN /\ ciRow' = [ciRow EXCEPT ![q.id] = {[r EXCEPT !.status = "applied"] : r \in @}]
                       /\ ciSweep' = CiIds
                  ELSE UNCHANGED <<ciRow, ciSweep>>
            \/ UNCHANGED <<ciRow, ciUsed, ciSweep>>
  /\ UNCHANGED ciFile

(* The thirty minutes of a session are over. *)
CiExpire ==
  /\ \E i \in CiIds : \E r \in ciRow[i] :
       ~r.expired /\ ciRow' = [ciRow EXCEPT ![i] = {[r EXCEPT !.expired = TRUE]}]
  /\ UNCHANGED <<ciFile, ciBusy, ciCall, ciUsed, ciSweep>>

(* The periodic task opens the history, which cleans up. *)
CiTick ==
  /\ ciSweep = {}
  /\ ciSweep' = CiIds
  /\ UNCHANGED <<ciRow, ciFile, ciBusy, ciCall, ciUsed>>

(* cleanup_import_packages, one session: the file goes, then the path. *)
CiClean ==
  /\ \E i \in ciSweep :
       /\ ciSweep' = ciSweep \ {i}
       /\ LET go == {r \in ciRow[i] : r.path /\ (r.status # "validated" \/ r.expired)}
          IN  IF go = {} THEN UNCHANGED <<ciRow, ciFile>>
              ELSE /\ ciFile' = [ciFile EXCEPT ![i] = {}]
                   /\ ciRow' = [ciRow EXCEPT ![i] = {[r EXCEPT !.path = FALSE] : r \in go}]
  /\ UNCHANGED <<ciBusy, ciCall, ciUsed>>

CiNext == CiUpload \/ CiStage \/ CiBeginApply \/ CiBeginDirect \/ CiEndApply
          \/ CiExpire \/ CiTick \/ CiClean

CiSpec == CiInit /\ [][CiNext]_ciVars

-----------------------------------------------------------------------------
(* Whatever was applied is a package create_archive could have written for *)
(* a consistent database: no order of uploads, retries and expiry lets     *)
(* another one through, and every export passes its own validation.        *)
CiOnlySound ==
  /\ \A p \in ciUsed : p.db \in {"ok", "auth_ref"} /\ p.hashed = p.content /\ p.enclosed
  /\ \A n \in 1..(CiMaxFiles - 1) : CiValid(CiExport(n))

(* A session that apply_import would accept still has its package on disk: *)
(* the cleanup, which runs whenever anybody opens the history, never takes *)
(* it from under a session in force.                                       *)
CiStagedStays ==
  \A i \in CiIds : \A r \in ciRow[i] :
    r.status = "validated" /\ ~r.expired => ciFile[i] = {r.hash}

-----------------------------------------------------------------------------
(*-------------------------------- Upgrade --------------------------------*)
(***************************************************************************)
(* apigateway: the firmware upgrade.  A request streams an installer to    *)
(* disk and hands it to a blocking thread, which runs it in the container  *)
(* "voltageems-upgrader" and reports the outcome in a status file.  The    *)
(* state is held three times: a flag and a pid in memory, the status file, *)
(* and the container, which survives a restart of the gateway.             *)
(*                                                                         *)
(* The packages of two uploads have different names and are run through    *)
(* docker (the fallback without docker is left out).                       *)
(***************************************************************************)

CONSTANTS UgUploads,   \* upload requests
          UgRestarts   \* bound: restarts of the gateway

ASSUME UgAssumption == UgRestarts \in Nat

UgNobody == "nobody"
UgStates == {"idle", "uploading", "running", "completed", "failed", "aborted", "completed_or_restarted"}

VARIABLES
    ugCall,   \* start_upgrade(): "off", "checked", "stream" or "over"
    ugThread, \* the blocking thread of an upload: "none", "rm", "run", "wait", "tidy", "flag", "pid" or "end"
    ugPkg,    \* packages on disk
    ugBox,    \* the upload whose installer the container runs
    ugRunning, ugPid,           \* UPGRADE_RUNNING, UPGRADE_PID (is it Some)
    ugUploading, ugAbortAsked,  \* UPLOAD_IN_PROGRESS, UPLOAD_ABORT_REQUESTED
    ugFile,   \* the status of the status file
    ugAbort,  \* abort_upgrade(): "none", "stop" or "mark"
    ugPoll,   \* upgrade_status(): what it has read
    ugBoots   \* restarts so far

ugMem == <<ugRunning, ugPid, ugUploading, ugAbortAsked>>
ugVars == <<ugCall, ugThread, ugPkg, ugBox, ugMem, ugFile, ugAbort, ugPoll, ugBoots>>

UgNoPoll == [at |-> "none", stale |-> FALSE, mem |-> FALSE]
UgForget ==
    /\ ugRunning = FALSE /\ ugPid = FALSE /\ ugUploading = FALSE /\ ugAbortAsked = FALSE

UgInit ==
    /\ ugCall = [u \in UgUploads |-> "off"] /\ ugThread = [u \in UgUploads |-> "none"]
    /\ ugPkg = {} /\ ugBox = UgNobody /\ UgForget /\ ugFile = "idle" /\ ugAbort = "none"
    /\ ugPoll = UgNoPoll /\ ugBoots = 0

----------------------------------------------------------------------------
(* start_upgrade() *)

\* The flag is looked at, the packages on disk are removed, the space is
\* checked; the body of the request is still to come.
UgCheck(u) ==
    /\ ugCall[u] = "off" /\ ~ugRunning
    /\ ugPkg' = {}
    /\ ugCall' = [ugCall EXCEPT ![u] = "checked"]
    /\ UNCHANGED <<ugThread, ugBox, ugMem, ugFile, ugAbort, ugPoll, ugBoots>>

UgBegin(u) ==
    /\ ugCall[u] = "checked"
    /\ ugUploading' = TRUE /\ ugAbortAsked' = FALSE /\ ugFile' = "uploading"
    /\ \/ ugCall' = [ugCall EXCEPT ![u] = "stream"] /\ ugPkg' = ugPkg \union {u}
       \/ ugCall' = [ugCall EXCEPT ![u] = "over"] /\ UNCHANGED ugPkg     \* the file cannot be created
    /\ UNCHANGED <<ugThread, ugBox, ugRunning, ugPid, ugAbort, ugPoll, ugBoots>>

\* The abort flag is seen before a chunk; a timeout, a broken upload or a write
\* that fails ends the upload too.
UgUploadEnds(u) ==
    /\ ugCall[u] = "stream"
    /\ ugFile' = IF ugAbortAsked THEN "aborted" ELSE "idle"
    /\ ugCall' = [ugCall EXCEPT ![u] = "over"] /\ ugPkg' = ugPkg \ {u}
    /\ ugUploading' = FALSE /\ ugAbortAsked' = FALSE
    /\ UNCHANGED <<ugThread, ugBox, ugRunning, ugPid, ugAbort, ugPoll, ugBoots>>

\* The client is gone and the request with it.
UgDropped(u) ==
    /\ ugCall[u] \in {"checked", "stream"}
    /\ ugCall' = [ugCall EXCEPT ![u] = "over"]
    /\ UNCHANGED <<ugThread, ugPkg, ugBox, ugMem, ugFile, ugAbort, ugPoll, ugBoots>>

\* The last chunk: the flag is set and the thread started without looking at
\* the flag again; or the file cannot be flushed, or is empty.
UgReceived(u) ==
    /\ ugCall[u] = "stream"
    /\ ugCall' = [ugCall EXCEPT ![u] = "over"] /\ ugUploading' = FALSE
    /\ \/ /\ ugRunning' = TRUE /\ ugFile' = "running" /\ ugThread' = [ugThread EXCEPT ![u] = "rm"]
          /\ UNCHANGED ugPkg
       \/ ugPkg' = ugPkg \ {u} /\ UNCHANGED <<ugRunning, ugFile, ugThread>>
    /\ UNCHANGED <<ugBox, ugPid, ugAbortAsked, ugAbort, ugPoll, ugBoots>>

----------------------------------------------------------------------------
(* The thread and the container *)

UgGo(u, at) == ugThread' = [ugThread EXCEPT ![u] = at]

\* docker rm -f
UgRemoveBox(u) ==
    /\ ugThread[u] = "rm"
    /\ ugBox' = UgNobody /\ UgGo(u, "run")
    /\ UNCHANGED <<ugCall, ugPkg, ugMem, ugFile, ugAbort, ugPoll, ugBoots>>

\* docker run: refused when the name is taken; the installer of a package that
\* is no longer there ends at once.
UgSpawn(u) ==
    /\ ugThread[u] = "run"
    /\ \/ /\ ugPid' = TRUE /\ UgGo(u, "wait") /\ UNCHANGED ugFile
          /\ ugBox' = IF ugBox = UgNobody /\ u \in ugPkg THEN u ELSE ugBox
       \/ /\ ugFile' = "failed" /\ UgGo(u, "tidy") /\ UNCHANGED <<ugPid, ugBox>>
    /\ UNCHANGED <<ugCall, ugPkg, ugRunning, ugUploading, ugAbortAsked, ugAbort, ugPoll, ugBoots>>

UgInstalled ==
    /\ ugBox # UgNobody
    /\ ugBox' = UgNobody
    /\ UNCHANGED <<ugCall, ugThread, ugPkg, ugMem, ugFile, ugAbort, ugPoll, ugBoots>>

\* child.wait() returns.
UgExit(u) ==
    /\ ugThread[u] = "wait" /\ ugBox # u
    /\ ugFile' \in {"completed", "failed"} /\ UgGo(u, "tidy")
    /\ UNCHANGED <<ugCall, ugPkg, ugBox, ugMem, ugAbort, ugPoll, ugBoots>>

\* Every package on disk is deleted, then the flag and then the pid are cleared.
UgTidy(u) ==
    /\ ugThread[u] = "tidy"
    /\ ugPkg' = {} /\ UgGo(u, "flag")
    /\ UNCHANGED <<ugCall, ugBox, ugMem, ugFile, ugAbort, ugPoll, ugBoots>>

UgClearFlag(u) ==
    /\ ugThread[u] = "flag"
    /\ ugRunning' = FALSE /\ UgGo(u, "pid")
    /\ UNCHANGED <<ugCall, ugPkg, ugBox, ugPid, ugUploading, ugAbortAsked, ugFile, ugAbort, ugPoll, ugBoots>>

UgClearPid(u) ==
    /\ ugThread[u] = "pid"
    /\ ugPid' = FALSE /\ UgGo(u, "end")
    /\ UNCHANGED <<ugCall, ugPkg, ugBox, ugRunning, ugUploading, ugAbortAsked, ugFile, ugAbort, ugPoll, ugBoots>>

----------------------------------------------------------------------------
(* abort_upgrade() *)

UgAbortStart ==
    /\ ugAbort = "none" /\ (ugUploading \/ ugRunning \/ ugPid)
    /\ ugAbortAsked' = (ugAbortAsked \/ ugUploading)
    /\ ugPid' = FALSE
    /\ ugAbort' = IF ugRunning \/ ugPid THEN "stop" ELSE "none"
    /\ UNCHANGED <<ugCall, ugThread, ugPkg, ugBox, ugRunning, ugUploading, ugFile, ugPoll, ugBoots>>

\* docker stop and kill
UgAbortStop ==
    /\ ugAbort = "stop"
    /\ ugBox' = UgNobody /\ ugAbort' = "mark"
    /\ UNCHANGED <<ugCall, ugThread, ugPkg, ugMem, ugFile, ugPoll, ugBoots>>

UgAbortMark ==
    /\ ugAbort = "mark"
    /\ ugRunning' = FALSE /\ ugPid' = FALSE /\ ugFile' = "aborted" /\ ugAbort' = "none"
    /\ UNCHANGED <<ugCall, ugThread, ugPkg, ugBox, ugUploading, ugAbortAsked, ugPoll, ugBoots>>

----------------------------------------------------------------------------
(* upgrade_status() and the restart of the gateway *)

UgPollFile ==
    /\ ugPoll.at = "none"
    /\ ugPoll' = [UgNoPoll EXCEPT !.at = "mem", !.stale = (ugFile = "running")]
    /\ UNCHANGED <<ugCall, ugThread, ugPkg, ugBox, ugMem, ugFile, ugAbort, ugBoots>>

UgPollMem ==
    /\ ugPoll.at = "mem"
    /\ ugPoll' = [ugPoll EXCEPT !.at = "box", !.mem = ugRunning]
    /\ UNCHANGED <<ugCall, ugThread, ugPkg, ugBox, ugMem, ugFile, ugAbort, ugBoots>>

\* docker inspect, and the correction of a status that nothing backs.
UgPollAnswer ==
    /\ ugPoll.at = "box"
    /\ \E alive \in {ugBox # UgNobody, FALSE} :       \* inspect may time out
           ugFile' = IF ugPoll.stale /\ ~ugPoll.mem /\ ~alive
                     THEN "completed_or_restarted" ELSE ugFile
    /\ ugPoll' = UgNoPoll
    /\ UNCHANGED <<ugCall, ugThread, ugPkg, ugBox, ugMem, ugAbort, ugBoots>>

\* The installer restarts the gateway, or it crashes; reconcile_upgrade_status_on_startup().
UgRestart ==
    /\ ugBoots < UgRestarts
    /\ ugBoots' = ugBoots + 1
    /\ ugCall' = [u \in UgUploads |-> IF ugCall[u] = "off" THEN "off" ELSE "over"]
    /\ ugThread' = [u \in UgUploads |-> IF ugThread[u] = "none" THEN "none" ELSE "end"]
    /\ ugRunning' = FALSE /\ ugPid' = FALSE /\ ugUploading' = FALSE /\ ugAbortAsked' = FALSE
    /\ ugAbort' = "none" /\ ugPoll' = UgNoPoll
    /\ ugFile' = IF ugFile = "running" THEN "completed_or_restarted" ELSE ugFile
    /\ UNCHANGED <<ugPkg, ugBox>>

UgWork(u) ==
    UgRemoveBox(u) \/ UgSpawn(u) \/ UgExit(u) \/ UgTidy(u) \/ UgClearFlag(u) \/ UgClearPid(u)

UgNext ==
    \/ \E u \in UgUploads : UgCheck(u) \/ UgBegin(u) \/ UgUploadEnds(u) \/ UgDropped(u)
                            \/ UgReceived(u) \/ UgWork(u)
    \/ UgInstalled \/ UgAbortStart \/ UgAbortStop \/ UgAbortMark
    \/ UgPollFile \/ UgPollMem \/ UgPollAnswer \/ UgRestart

UgSpec == UgInit /\ [][UgNext]_ugVars

----------------------------------------------------------------------------
(* Properties *)

UgTypeOK ==
    /\ ugCall \in [UgUploads -> {"off", "checked", "stream", "over"}]
    /\ ugThread \in [UgUploads -> {"none", "rm", "run", "wait", "tidy", "flag", "pid", "end"}]
    /\ ugPkg \subseteq UgUploads /\ ugBox \in UgUploads \union {UgNobody}
    /\ ugRunning \in BOOLEAN /\ ugPid \in BOOLEAN
    /\ ugUploading \in BOOLEAN /\ ugAbortAsked \in BOOLEAN /\ ugFile \in UgStates
    /\ ugAbort \in {"none", "stop", "mark"} /\ ugBoots \in 0 .. UgRestarts
    /\ ugPoll \in [at : {"none", "mem", "box"}, stale : BOOLEAN, mem : BOOLEAN]

\* UPGRADE_RUNNING, which refuses every further upload, is set only while a thread
\* lives that will clear it: no failure, abort or restart leaves it set for good.
UgFlagReleased ==
    ugRunning => \E u \in UgUploads : ugThread[u] \in {"rm", "run", "wait", "tidy", "flag"}

\* The status file says "running" only while a thread lives that will still report.
UgRunningReported ==
    ugFile = "running" => \E u \in UgUploads : ugThread[u] \in {"rm", "run", "wait"}

\* A "running" status is followed by an outcome.
UgStatusSettles == []<>(ugFile # "running")

-----------------------------------------------------------------------------
\* What maintenance leaves behind, whatever fails, is cut short or restarted: the current
\* version can be restored, an apply is all or nothing, what was applied from a package is what
\* a consistent database would have been archived as, a staged package stays while it may be
\* applied, and the flag and the status of an upgrade are set only while a thread lives that
\* will still clear and settle them.
MaintenanceSound ==
    /\ CaCurrentRestorable /\ CaAllOrNothing /\ CiOnlySound /\ CiStagedStays
    /\ UgFlagReleased /\ UgRunningReported

=============================================================================
