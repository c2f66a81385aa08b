----------------------------- MODULE ShmDispatch -----------------------------
(***************************************************************************)
(* How modsrv keeps its writer of the shared-memory file (SHM) attached to *)
(* the file comsrv owns.  comsrv recreates the file in place when it       *)
(* starts and renames a new one over it when a channel is migrated; modsrv *)
(* dispatches actions through an ActionWriter it opened earlier, notices a *)
(* recreation by the generation in the header and a rename by the inode of *)
(* the path, and has a rebuild task reopen the writer.                     *)
(*                                                                         *)
(* A layout stands for the point counts of the channels (its hash is in    *)
(* the header); a generation is fresh for every file (seeded from clock,   *)
(* process and address).  The values in the slots are in PointSlot.        *)
(***************************************************************************)
EXTENDS Naturals

CONSTANTS Dispatchers,  \* tasks of modsrv that dispatch actions
          Layouts,      \* point counts the database may have
          Empty,        \* the layout used when the database cannot be read
          MaxRetries,   \* retries of the rebuild task
          MaxFiles,     \* bound: files comsrv creates or recreates
          MaxEdits      \* bound: changes of the point tables

ASSUME LayoutsAssumption == Empty \in Layouts
ASSUME RetriesAssumption == MaxRetries \in Nat
ASSUME BoundsAssumption == MaxFiles \in Nat /\ MaxEdits \in Nat

Inodes == 1 .. MaxFiles

VARIABLES
    db,        \* SQLite: the layout of the point tables
    edits,     \* changes of db so far
    made,      \* files created so far; the last generation
    canon,     \* inode at the canonical path, 0 when there is none
    file,      \* the inodes: header stage, generation and layout
    comsrv,    \* what comsrv is doing
    own,       \* inode comsrv has mapped
    counts,    \* point counts comsrv has read
    mod,       \* what modsrv's main() is doing
    writer,    \* ShmDispatch.writer: inode and layout, inode 0 when None
    expected,  \* ShmDispatch.expected_generation
    notifier,  \* ShmDispatch.notifier is set
    permit,    \* rebuild_trigger holds a permit
    rebuild,   \* the rebuild task
    retries,   \* its retry_count
    known,     \* point counts main() or the rebuild task has read
    opened,    \* the writer main() or the rebuild task has opened but not yet set
    baseline,  \* the inode watcher's last_inode, 0 when None
    task,      \* the dispatchers: step, writer guard, expected generation, and as
               \* history whether the write was aligned and whether guard and
               \* generation are not of one intact file
    hole       \* history: why the writer may stay unusable, of Holes

shmVars == <<db, edits, made, canon, file, comsrv, own, counts>>
modVars == <<mod, notifier, baseline>>
writerVars == <<writer, expected>>
rebuildVars == <<permit, rebuild, retries, known, opened>>
vars == <<shmVars, modVars, writerVars, rebuildVars, task, hole>>

NoWriter == [inode |-> 0, layout |-> Empty]
Blank == [stage |-> "none", gen |-> 0, layout |-> Empty]
Idle == [at |-> "idle", guard |-> NoWriter, expected |-> 0, aligned |-> TRUE, mixed |-> FALSE]

\* Ways the code leaves modsrv without a usable writer: no writer at boot; the
\* rebuild task gave up; the watcher took its baseline after a rename it should
\* have noticed; the file was recreated between open() and set_writer().
Holes == {"noboot", "gaveup", "missed", "raced"}

Init ==
    /\ db \in Layouts \ {Empty} /\ edits = 0
    /\ made = 0 /\ canon = 0 /\ file = [i \in Inodes |-> Blank]
    /\ comsrv = "down" /\ own = 0 /\ counts = Empty
    /\ mod = "down"
    /\ writer = NoWriter /\ expected = 0 /\ notifier = FALSE
    /\ permit = FALSE /\ rebuild = "wait" /\ retries = 0 /\ known = Empty /\ opened = NoWriter
    /\ baseline = 0
    /\ task = [d \in Dispatchers |-> Idle]
    /\ hole = {}

-----------------------------------------------------------------------------
(* comsrv *)

\* A point table is edited through the API or synchronised from the files.
EditPoints ==
    /\ edits < MaxEdits
    /\ \E l \in Layouts \ {Empty, db} : db' = l
    /\ edits' = edits + 1
    /\ UNCHANGED <<made, canon, file, comsrv, own, counts, modVars, writerVars, rebuildVars, task, hole>>

\* UnifiedWriter::create on the canonical path: the file is truncated in place, and
\* created when there is none.  Reading the point counts may fail.
BeginCreate ==
    /\ comsrv = "down" /\ made < MaxFiles
    /\ counts' \in {db, Empty}
    /\ LET i == IF canon = 0 THEN made + 1 ELSE canon IN
          /\ canon' = i /\ own' = i
          /\ file' = [file EXCEPT ![i] = [stage |-> "zero", gen |-> 0, layout |-> Empty]]
    /\ made' = made + 1
    /\ comsrv' = "header"
    /\ UNCHANGED <<db, edits, modVars, writerVars, rebuildVars, task, hole>>

\* Magic, version, slot count and layout hash.
WriteHeader ==
    /\ comsrv = "header"
    /\ file' = [file EXCEPT ![own].stage = "header", ![own].layout = counts]
    /\ comsrv' = "seed"
    /\ UNCHANGED <<db, edits, made, canon, own, counts, modVars, writerVars, rebuildVars, task, hole>>

\* Mutant: a recreated file starts with the same generation.
SeedGenerationConstant ==
    /\ comsrv = "seed"
    /\ file' = [file EXCEPT ![own].gen = 1, ![own].stage = "ready"]
    /\ comsrv' = "up" /\ counts' = Empty
    /\ UNCHANGED <<db, edits, made, canon, own, modVars, writerVars, rebuildVars, task, hole>>

\* The generation, then the unwritten slots.
SeedGeneration ==
    /\ comsrv = "seed"
    /\ file' = [file EXCEPT ![own].gen = made, ![own].stage = "ready"]
    /\ comsrv' = "up" /\ counts' = Empty
    /\ UNCHANGED <<db, edits, made, canon, own, modVars, writerVars, rebuildVars, task, hole>>

\* The directory is missing or there are too many slots: comsrv runs without SHM
\* and the file is not touched.
CreateRefused ==
    /\ comsrv = "down"
    /\ comsrv' = "noshm"
    /\ UNCHANGED <<db, edits, made, canon, file, own, counts, modVars, writerVars, rebuildVars, task, hole>>

\* create() fails after the truncation.
CreateFails ==
    /\ comsrv = "header"
    /\ comsrv' = "noshm" /\ counts' = Empty
    /\ UNCHANGED <<db, edits, made, canon, file, own, modVars, writerVars, rebuildVars, task, hole>>

\* change_channel_id, rebuild_via_swap: a complete new file is renamed over the
\* canonical path and mapped; reopening it may fail.
Swap ==
    /\ comsrv = "up" /\ made < MaxFiles
    /\ LET i == made + 1 IN
          /\ canon' = i
          /\ own' \in {i, own}
          /\ file' = [file EXCEPT ![i] = [stage |-> "ready", gen |-> i, layout |-> db]]
    /\ made' = made + 1
    /\ UNCHANGED <<db, edits, comsrv, counts, modVars, writerVars, rebuildVars, task, hole>>

ComsrvStops ==
    /\ comsrv # "down" /\ made < MaxFiles
    /\ comsrv' = "down" /\ counts' = Empty
    /\ UNCHANGED <<db, edits, made, canon, file, own, modVars, writerVars, rebuildVars, task, hole>>

-----------------------------------------------------------------------------
(* modsrv: main() and the background tasks.  Nothing here survives the         *)
(* process and comsrv does not depend on it, so one life of modsrv that begins *)
(* at any time stands for all.                                                 *)

\* open_existing(): the header of the canonical file is complete and its layout
\* hash is the one of the point counts l.
CanOpen(l) == canon # 0 /\ file[canon].stage \in {"header", "ready"} /\ file[canon].layout = l

Gen(w) == file[w.inode].gen

\* load_from_db(), and the empty layout when it fails
LoadCounts == known' \in {db, Empty}

Boot ==
    /\ mod = "down"
    /\ LoadCounts
    /\ mod' = "open"
    /\ UNCHANGED <<shmVars, notifier, baseline, writerVars, permit, rebuild, retries, opened, task, hole>>

\* The retry loop of main() finds the file and the ActionWriter opens.
BootOpen ==
    /\ mod = "open"
    /\ CanOpen(known)
    /\ opened' = [inode |-> canon, layout |-> known]
    /\ mod' = "set" /\ known' = Empty
    /\ UNCHANGED <<shmVars, notifier, baseline, writerVars, permit, rebuild, retries, task, hole>>

\* It does not, ten times, or the ActionWriter fails after the reader.
BootGivesUp ==
    /\ mod = "open"
    /\ mod' = "watch" /\ known' = Empty
    /\ hole' = hole \cup {"noboot"}
    /\ UNCHANGED <<shmVars, notifier, baseline, writerVars, permit, rebuild, retries, opened, task>>

\* set_writer(): expected_generation, then the writer.
SetWriter ==
    /\ expected' = Gen(opened)
    /\ writer' = opened
    /\ hole' = (hole \ {"noboot", "gaveup", "raced"})
                 \cup IF file[opened.inode].layout = opened.layout /\ Gen(opened) # 0 THEN {} ELSE {"raced"}
    /\ opened' = NoWriter

\* set_writer() and set_notifier()
BootSet ==
    /\ mod = "set"
    /\ SetWriter
    /\ notifier' = TRUE
    /\ mod' = "watch"
    /\ UNCHANGED <<shmVars, baseline, permit, rebuild, retries, known, task>>

\* The watcher task starts: its baseline is the inode it finds now.
TakeBaseline ==
    /\ mod = "watch"
    /\ baseline' = canon
    /\ hole' = hole \cup IF {writer.inode, opened.inode} \subseteq {0, canon} THEN {} ELSE {"missed"}
    /\ mod' = "up"
    /\ UNCHANGED <<shmVars, notifier, writerVars, rebuildVars, task>>

\* Mutant: a change is remembered and nobody is told.
WatchTickSilent ==
    /\ mod = "up" /\ canon # 0 /\ baseline # canon
    /\ baseline' = canon
    /\ UNCHANGED <<shmVars, mod, notifier, writerVars, rebuildVars, task, hole>>

\* The inode watcher, every 5 s: a change from a known inode fires the trigger, the
\* first sight of a file is only remembered.
WatchTick ==
    /\ mod = "up" /\ canon # 0 /\ baseline # canon
    /\ baseline' = canon
    /\ permit' = (permit \/ baseline # 0)
    /\ hole' = hole \ IF baseline # 0 THEN {"missed"} ELSE {}
    /\ UNCHANGED <<shmVars, mod, notifier, writerVars, rebuild, retries, known, opened, task>>

\* The rebuild task takes the permit and reads the point counts.
RebuildWakes ==
    /\ mod \in {"watch", "up"} /\ rebuild = "wait" /\ permit
    /\ permit' = FALSE
    /\ LoadCounts
    /\ rebuild' = "open"
    /\ UNCHANGED <<shmVars, modVars, writerVars, retries, opened, task, hole>>

\* ActionWriter::open finds the layout it was given.
RebuildOpens ==
    /\ rebuild = "open"
    /\ CanOpen(known)
    /\ opened' = [inode |-> canon, layout |-> known]
    /\ rebuild' = "set" /\ known' = Empty
    /\ UNCHANGED <<shmVars, modVars, writerVars, permit, retries, task, hole>>

\* It does not, or the file cannot be mapped: sleep and begin again.
RebuildRetries ==
    /\ rebuild = "open" /\ retries < MaxRetries
    /\ retries' = retries + 1
    /\ LoadCounts
    /\ UNCHANGED <<shmVars, modVars, writerVars, permit, rebuild, opened, task, hole>>

\* "Will retry on next generation mismatch."
RebuildGivesUp ==
    /\ rebuild = "open" /\ retries = MaxRetries
    /\ rebuild' = "wait"
    /\ retries' = 0 /\ known' = Empty
    /\ hole' = hole \cup {"gaveup"}
    /\ UNCHANGED <<shmVars, modVars, writerVars, permit, opened, task>>

RebuildSets ==
    /\ rebuild = "set"
    /\ SetWriter
    /\ rebuild' = "wait" /\ retries' = 0
    /\ UNCHANGED <<shmVars, modVars, permit, known, task>>

-----------------------------------------------------------------------------
(* dispatch() *)

At(d, l) == mod \in {"watch", "up"} /\ task[d].at = l

\* The dispatch returns; what it reports is used by the callers.
Return(d) == task' = [task EXCEPT ![d] = Idle]

\* writer.store(None), rebuild_trigger.notify_one()
DropWriter == writer' = NoWriter /\ permit' = TRUE

\* writer.load(): None is reported as NoWriter, and nothing else is done.
LoadWriter(d) ==
    /\ At(d, "idle") /\ writer # NoWriter
    /\ task' = [task EXCEPT ![d] = [Idle EXCEPT !.at = "check", !.guard = writer]]
    /\ UNCHANGED <<shmVars, modVars, writerVars, rebuildVars, hole>>

Mismatch(d, exp) == exp # 0 /\ Gen(task[d].guard) # exp

\* The generation pre-check.
CheckPasses(d) ==
    /\ At(d, "check") /\ ~Mismatch(d, expected)
    /\ task' = [task EXCEPT ![d].at = "write", ![d].expected = expected, 
                            ![d].mixed = "raced" \in hole \/ writer # task[d].guard]
    /\ UNCHANGED <<shmVars, modVars, writerVars, rebuildVars, hole>>

CheckFails(d) ==
    /\ At(d, "check") /\ Mismatch(d, expected)
    /\ DropWriter
    /\ Return(d)
    /\ UNCHANGED <<shmVars, modVars, expected, rebuild, retries, known, opened, hole>>

\* set_action(): the slot is found by the writer's layout and written in whatever
\* the mapped file has become.
Write(d) ==
    /\ At(d, "write")
    /\ task' = [task EXCEPT ![d].at = "recheck",
                            ![d].aligned = (file[task[d].guard.inode].layout = task[d].guard.layout)]
    /\ UNCHANGED <<shmVars, modVars, writerVars, rebuildVars, hole>>

\* The target has no slot.
WriteMisses(d) ==
    /\ At(d, "write")
    /\ Return(d)
    /\ UNCHANGED <<shmVars, modVars, writerVars, rebuildVars, hole>>

\* Mutant: no second look at the generation.
RecheckPassesAlways(d) ==
    /\ At(d, "recheck")
    /\ task' = [task EXCEPT ![d].at = "notify"]
    /\ UNCHANGED <<shmVars, modVars, writerVars, rebuildVars, hole>>

\* The generation re-check after the write.
RecheckPasses(d) ==
    /\ At(d, "recheck") /\ ~Mismatch(d, task[d].expected)
    /\ task' = [task EXCEPT ![d].at = "notify"]
    /\ UNCHANGED <<shmVars, modVars, writerVars, rebuildVars, hole>>

\* Mutant: the writer is dropped and nobody is told.
RecheckFailsSilent(d) ==
    /\ At(d, "recheck") /\ Mismatch(d, task[d].expected)
    /\ writer' = NoWriter
    /\ Return(d)
    /\ UNCHANGED <<shmVars, modVars, expected, rebuildVars, hole>>

RecheckFails(d) ==
    /\ At(d, "recheck") /\ Mismatch(d, task[d].expected)
    /\ DropWriter
    /\ Return(d)
    /\ UNCHANGED <<shmVars, modVars, expected, rebuild, retries, known, opened, hole>>

\* The notification over the socket, if a notifier is set: Delivered or ShmOnly.
Notify(d) ==
    /\ At(d, "notify")
    /\ Return(d)
    /\ UNCHANGED <<shmVars, modVars, writerVars, rebuildVars, hole>>

-----------------------------------------------------------------------------
Comsrv == BeginCreate \/ WriteHeader \/ SeedGeneration \/ CreateRefused \/ CreateFails

Modsrv == BootOpen \/ BootGivesUp \/ BootSet \/ TakeBaseline

Rebuild == RebuildWakes \/ RebuildOpens \/ RebuildRetries \/ RebuildGivesUp \/ RebuildSets

Dispatch(d) ==
    \/ LoadWriter(d) \/ CheckPasses(d) \/ CheckFails(d)
    \/ Write(d) \/ WriteMisses(d) \/ RecheckPasses(d) \/ RecheckFails(d) \/ Notify(d)

Next ==
    \/ EditPoints \/ Swap \/ ComsrvStops \/ Comsrv
    \/ Boot \/ Modsrv \/ WatchTick \/ Rebuild
    \/ \E d \in Dispatchers : Dispatch(d)

Spec == Init /\ [][Next]_vars

\* Processes that were started go on, are started again by their supervisor, and
\* rules keep dispatching.
FairSpec ==
    /\ Spec
    /\ WF_vars(Comsrv) /\ WF_vars(Boot) /\ WF_vars(Modsrv)
    /\ WF_vars(WatchTick) /\ WF_vars(Rebuild)
    /\ \A d \in Dispatchers : WF_vars(Dispatch(d))

-----------------------------------------------------------------------------
(* Properties *)

Handles == [inode : 0 .. MaxFiles, layout : Layouts]
Files == [stage : {"none", "zero", "header", "ready"}, gen : 0 .. MaxFiles, layout : Layouts]
Tasks == [at : {"idle", "check", "write", "recheck", "notify"}, guard : Handles, expected : 0 .. MaxFiles,
          aligned : BOOLEAN, mixed : BOOLEAN]

\* The file, the handles of both processes and the tasks of modsrv keep their types:
\* a handle is of a file that exists and the rebuild task stays within its retries.
TypeOK ==
    /\ db \in Layouts /\ edits \in 0 .. MaxEdits /\ made \in 0 .. MaxFiles
    /\ canon \in 0 .. made /\ own \in 0 .. made /\ counts \in Layouts
    /\ file \in [Inodes -> Files]
    /\ comsrv \in {"down", "header", "seed", "up", "noshm"}
    /\ mod \in {"down", "open", "set", "watch", "up"}
    /\ writer \in Handles /\ expected \in 0 .. MaxFiles /\ notifier \in BOOLEAN
    /\ permit \in BOOLEAN /\ rebuild \in {"wait", "open", "set"} /\ retries \in 0 .. MaxRetries
    /\ known \in Layouts /\ opened \in Handles /\ baseline \in 0 .. MaxFiles
    /\ task \in [Dispatchers -> Tasks]
    /\ hole \subseteq Holes

\* The same when writer and expected generation belong together: set_writer() did
\* not run between the load of the writer and the look at the generation, and the
\* file was not recreated between open() and set_writer().
AlignedUnlessMixed ==
    \A d \in Dispatchers : task[d].at = "notify" => task[d].aligned \/ task[d].mixed

\* A writer that was dropped is being reopened, unless the rebuild task gave up.
DroppedIsReopened ==
    mod \in {"watch", "up"} /\ writer = NoWriter =>
        permit \/ rebuild # "wait" \/ hole \cap {"noboot", "gaveup"} # {}

\* A writer of a file that was renamed away does not stay: the watcher will see the
\* change or the rebuild task is on its way.
StaleIsNoticed ==
    mod = "up" /\ writer.inode \notin {0, canon} =>
        baseline # canon \/ permit \/ rebuild # "wait" \/ hole \cap {"missed", "gaveup"} # {}

\* The writer is attached to the current file.
Attached == canon # 0 /\ writer.inode = canon /\ file[canon].layout = writer.layout /\ expected = file[canon].gen

\* comsrv runs with the file it maps, made from the current point tables.
Settled == comsrv = "up" /\ own = canon /\ file[canon].layout = db

\* The writer is attached again and again while comsrv runs undisturbed, except
\* for the named holes.
Reattaches == []<>(Attached \/ ~Settled \/ hole # {})

=============================================================================
