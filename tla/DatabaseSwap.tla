---------------------------- MODULE DatabaseSwap ----------------------------
(***************************************************************************)
(* The files beside kavynex.db while one database is put in the place of   *)
(* another: a staged import applied at the next launch, a restore from a   *)
(* backup, the recovery of either after a crash, and the opening of the    *)
(* pool that follows (services/db_backup/{import,restore}.rs,              *)
(* services/database.rs, the order of lib.rs's setup()).                   *)
(*                                                                         *)
(* Every rename, removal and marker write is a step of its own, so a crash *)
(* may fall between any two of them.  A database's contents are abstracted *)
(* to an id; `whole` says whether the file holds its last transactions or  *)
(* they are still in a write-ahead log of the same id.                     *)
(***************************************************************************)
EXTENDS Integers, FiniteSets

CONSTANTS MaxId,       \* how many different databases the user may have
          TopId,       \* the empty ones created after a loss are numbered past
          Budgets      \* how often what may go wrong does so in one behaviour

ASSUME BoundsAssumption ==
  /\ MaxId \in Nat \ {0} /\ TopId \in Nat /\ MaxId < TopId
  /\ Budgets \subseteq [crashes : Nat,  \* kills in a launch or a restore
                        faults  : Nat,  \* renames, removals, writes refused
                        damages : Nat,  \* of the closed database, or its loss
                        imports : Nat]  \* imports and undos the user stages

VARIABLES
  file,           \* the database in each slot beside kavynex.db
  log,            \* the database whose log lies in each log slot, 0 for none
  displaced,      \* databases kept as kavynex.db.displaced-*
  displacedLogs,  \* logs kept beside those
  marker,         \* kavynex.db.import-applying is on disk
  damaged,        \* databases that fail to open
  pc,             \* where the process is
  owed,           \* history: libraries the app may not lose
  spare,          \* history: the library the last completed import replaced
  live,           \* history: the library last opened
  leftLog,        \* history: the undo copy's log whose removal was refused
  limits,         \* which of Budgets this behaviour has
  ids, crashes, faults, damages, imports

disk   == <<file, log, displaced, displacedLogs, marker>>
ghost  == <<owed, spare, live, leftLog>>
budget == <<limits, ids, crashes, damages, imports>>
vars   == <<disk, damaged, pc, ghost, budget, faults>>

FileSlots == {"db", "staged", "preImport", "restorePartial", "restoreTmp",
              "corruptTmp", "corrupt", "corrupt1", "bak"}
LogSlots  == {"wal", "preWal", "corruptWal"}
Database  == [id : 0..TopId, whole : BOOLEAN]
None      == [id |-> 0, whole |-> TRUE]

ResumeSteps  == {"resume"}
ApplySteps   == {"apply", "displace", "displaceLog", "recover", "recoverLog",
                 "dropUndoLog", "aside", "asideLog", "unasideNoLog", "marker",
                 "unaside", "unasideLog", "dropLogs", "swap", "rollback",
                 "rollbackLog", "clearMarker", "open"}
RestoreSteps == {"stage", "evict", "evictDb", "rotate", "promote", "keepLog",
                 "restoreSwap"}
Steps == ResumeSteps \cup ApplySteps \cup RestoreSteps
PCs   == Steps \cup {"off", "session", "recovery"}

TypeOK ==
  /\ file \in [FileSlots -> Database]
  /\ log \in [LogSlots -> 0..TopId]
  /\ displaced \in SUBSET Database /\ displacedLogs \in SUBSET (0..TopId)
  /\ marker \in BOOLEAN
  /\ damaged \in SUBSET (1..TopId)
  /\ pc \in PCs
  /\ owed \in SUBSET (1..TopId) /\ spare \in 0..TopId /\ live \in 0..TopId
  /\ leftLog \in 0..TopId
  /\ limits \in Budgets /\ ids \in 0..TopId
  /\ crashes \in 0..limits.crashes /\ faults \in 0..limits.faults
  /\ damages \in 0..limits.damages /\ imports \in 0..limits.imports

Exists(s)    == file[s].id # 0
HasLog(l)    == log[l] # 0
Rename(a, b) == [file EXCEPT ![b] = file[a], ![a] = None]
Remove(s)    == [file EXCEPT ![s] = None]
RenameLog(a, b) == [log EXCEPT ![b] = log[a], ![a] = 0]
RemoveLog(l) == [log EXCEPT ![l] = 0]
Goto(p)      == pc' = p
\* A file-system call either succeeds or is refused, within the budget.
Succeed == UNCHANGED faults
Refused == faults < limits.faults /\ faults' = faults + 1

Init ==
  /\ file = [s \in FileSlots |-> None] /\ log = [l \in LogSlots |-> 0]
  /\ displaced = {} /\ displacedLogs = {} /\ marker = FALSE
  /\ damaged = {} /\ pc = "off"
  /\ owed = {} /\ spare = 0 /\ live = 0 /\ leftLog = 0
  /\ limits \in Budgets
  /\ ids = 0 /\ crashes = 0 /\ faults = 0 /\ damages = 0 /\ imports = 0

(***************************************************************************)
(* Launch, and the two recoveries that run before the pool opens.          *)
(***************************************************************************)
Launch ==
  /\ pc = "off" /\ Goto("resume")
  /\ UNCHANGED <<disk, damaged, ghost, budget, faults>>

NothingToResume ==
  /\ pc = "resume" /\ (Exists("db") \/ ~Exists("restoreTmp"))
  /\ Goto("apply")
  /\ UNCHANGED <<disk, damaged, ghost, budget, faults>>

\* Mutant: the log is left under the live name.
KeepsLiveLog(moved, stopped) == Succeed /\ Goto(moved) /\ log' = RemoveLog("corruptWal")

\* set_aside_corrupt_wal: the log is moved; failing that, deleted; failing
\* both, the caller stops.  An older log set aside is removed first, best effort.
SetAsideCorruptLog(moved, stopped) ==
  LET cleared == RemoveLog("corruptWal") IN
  \/ /\ Succeed /\ Goto(moved) /\ log' = RenameLog("wal", "corruptWal")
  \/ /\ ~HasLog("wal") /\ HasLog("corruptWal") /\ Refused
     /\ Goto(moved) /\ UNCHANGED log
  \/ /\ HasLog("wal") /\ Refused
     /\ Goto(moved) /\ log' = [cleared EXCEPT !["wal"] = 0]
  \/ /\ HasLog("wal") /\ faults + 2 <= limits.faults /\ faults' = faults + 2
     /\ Goto(stopped) /\ log' = cleared

\* Mutant: the resume waits for a log nobody moves.
ResumeWaits ==
  /\ pc = "resume" /\ ~Exists("db") /\ Exists("restoreTmp") /\ HasLog("wal")
  /\ UNCHANGED vars

ResumeLog ==
  /\ pc = "resume" /\ ~Exists("db") /\ Exists("restoreTmp") /\ HasLog("wal")
  /\ SetAsideCorruptLog("resume", "apply")
  /\ UNCHANGED <<file, displaced, displacedLogs, marker, damaged, ghost, budget>>

ResumeRestore ==
  /\ pc = "resume" /\ ~Exists("db") /\ Exists("restoreTmp") /\ ~HasLog("wal")
  /\ \/ Succeed /\ file' = Rename("restoreTmp", "db")
     \/ Refused /\ UNCHANGED file
  /\ Goto("apply")
  /\ UNCHANGED <<log, displaced, displacedLogs, marker, damaged, ghost, budget>>

(***************************************************************************)
(* apply_pending_database_import.                                          *)
(***************************************************************************)
SwapDied == marker /\ Exists("preImport")

NothingStaged ==
  /\ pc = "apply" /\ ~Exists("staged") /\ ~SwapDied
  /\ Goto("open")
  /\ UNCHANGED <<disk, damaged, ghost, budget, faults>>

\* The marker and the snapshot say an earlier swap died: what is at the
\* database path is displaced, whether or not the staged file survived.
FindDeadSwap ==
  /\ pc = "apply" /\ SwapDied
  /\ Goto("displace")
  /\ UNCHANGED <<disk, damaged, ghost, budget, faults>>

\* An ordinary import consumes the previous undo copy, and then its log: two
\* removals, either of which may be refused, and neither stops the import.
DropPreviousUndo ==
  /\ pc = "apply" /\ Exists("staged") /\ ~SwapDied /\ Exists("db")
  /\ Goto("dropUndoLog")
  /\ \/ Succeed /\ file' = Remove("preImport")
     \/ Exists("preImport") /\ Refused /\ UNCHANGED file
  /\ spare' = 0
  /\ UNCHANGED <<log, displaced, displacedLogs, marker, damaged, owed, live,
                 leftLog, budget>>

\* Mutant: the previous undo copy's log is left where it lies.
LeavesUndoLog ==
  /\ pc = "dropUndoLog" /\ Goto("aside") /\ Succeed
  /\ UNCHANGED <<disk, damaged, ghost, budget>>

DropPreviousUndoLog ==
  /\ pc = "dropUndoLog" /\ Goto("aside")
  /\ \/ Succeed /\ log' = RemoveLog("preWal") /\ UNCHANGED leftLog
     \/ HasLog("preWal") /\ Refused /\ UNCHANGED log /\ leftLog' = log["preWal"]
  /\ UNCHANGED <<file, displaced, displacedLogs, marker, damaged, owed, spare, live,
                 budget>>

\* Mutants: the undo copy is dropped although nothing replaces it; a launch
\* that finds no database gives the import up.
DropsUndoAlways ==
  /\ pc = "apply" /\ Exists("staged") /\ ~SwapDied /\ ~Exists("db")
  /\ file' = Remove("preImport") /\ Goto("dropLogs")
  /\ UNCHANGED <<log, displaced, displacedLogs, marker, damaged, ghost, budget, faults>>

GivesUpWithoutDatabase ==
  /\ pc = "apply" /\ Exists("staged") /\ ~SwapDied /\ ~Exists("db")
  /\ Goto("open")
  /\ UNCHANGED <<disk, damaged, ghost, budget, faults>>

NothingToSetAside ==
  /\ pc = "apply" /\ Exists("staged") /\ ~SwapDied /\ ~Exists("db")
  /\ Goto("dropLogs")
  /\ UNCHANGED <<disk, damaged, ghost, budget, faults>>

AfterDisplace == IF Exists("staged") THEN "dropLogs" ELSE "recover"

\* Mutant: the file found after a dead swap is deleted, not displaced.
DeletesFoundDatabase ==
  /\ pc = "displace" /\ Goto("displaceLog") /\ file' = Remove("db")
  /\ UNCHANGED <<log, displaced, displacedLogs, marker, damaged, ghost, budget, faults>>

DisplaceDatabase ==
  /\ pc = "displace"
  /\ IF ~Exists("db")
     THEN Succeed /\ Goto("displaceLog") /\ UNCHANGED <<file, displaced>>
     ELSE \/ /\ Succeed /\ Goto("displaceLog")
             /\ displaced' = displaced \cup {file["db"]} /\ file' = Remove("db")
          \/ /\ Refused /\ Goto("open") /\ UNCHANGED <<file, displaced>>
  /\ UNCHANGED <<log, displacedLogs, marker, damaged, ghost, budget>>

DisplaceLog ==
  /\ pc = "displaceLog"
  /\ IF ~HasLog("wal")
     THEN Succeed /\ Goto(AfterDisplace) /\ UNCHANGED <<log, displacedLogs>>
     ELSE \/ /\ Succeed /\ Goto(AfterDisplace)
             /\ displacedLogs' = displacedLogs \cup {log["wal"]}
             /\ log' = RemoveLog("wal")
          \/ Refused /\ Goto("open") /\ UNCHANGED <<log, displacedLogs>>
  /\ UNCHANGED <<file, displaced, marker, damaged, ghost, budget>>

RecoverStranded ==
  /\ pc = "recover"
  /\ \/ /\ Succeed /\ Goto("recoverLog")
        /\ file' = Rename("preImport", "db") /\ spare' = 0
     \/ Refused /\ Goto("open") /\ UNCHANGED <<file, spare>>
  /\ UNCHANGED <<log, displaced, displacedLogs, marker, damaged, owed, live, leftLog,
                 budget>>

\* A log that cannot follow its database stays beside the snapshot's name.
MoveLogBack(p, next) ==
  /\ pc = p
  /\ IF ~HasLog("preWal") THEN Succeed /\ UNCHANGED log
     ELSE \/ Succeed /\ log' = RenameLog("preWal", "wal")
          \/ Refused /\ UNCHANGED log
  /\ Goto(next)
  /\ UNCHANGED <<file, displaced, displacedLogs, marker, damaged, ghost, budget>>

RecoverLog == MoveLogBack("recoverLog", "clearMarker")

SetAside ==
  /\ pc = "aside"
  /\ \/ Succeed /\ Goto("asideLog") /\ file' = Rename("db", "preImport")
     \/ Refused /\ Goto("open") /\ UNCHANGED file
  /\ UNCHANGED <<log, displaced, displacedLogs, marker, damaged, ghost, budget>>

\* Mutant: a log that could not be moved does not stop the import.
IgnoresUnmovedLog ==
  /\ pc = "asideLog" /\ Goto("marker")
  /\ \/ Succeed /\ log' = RenameLog("wal", "preWal")
     \/ HasLog("wal") /\ Refused /\ UNCHANGED log
  /\ UNCHANGED <<file, displaced, displacedLogs, marker, damaged, ghost, budget>>

SetAsideLog ==
  /\ pc = "asideLog"
  /\ IF ~HasLog("wal") THEN Succeed /\ Goto("marker") /\ UNCHANGED log
     ELSE \/ Succeed /\ Goto("marker") /\ log' = RenameLog("wal", "preWal")
          \/ Refused /\ Goto("unasideNoLog") /\ UNCHANGED log
  /\ UNCHANGED <<file, displaced, displacedLogs, marker, damaged, ghost, budget>>

WriteMarker ==
  /\ pc = "marker"
  /\ \/ Succeed /\ Goto("dropLogs") /\ marker' = TRUE
     \/ Refused /\ Goto("unaside") /\ UNCHANGED marker
  /\ UNCHANGED <<file, log, displaced, displacedLogs, damaged, ghost, budget>>

\* The rollbacks rename the snapshot back to the database path.
PutBack(p, done, failed) ==
  /\ pc = p
  /\ \/ /\ Exists("preImport") /\ Succeed /\ Goto(done)
        /\ file' = Rename("preImport", "db")
     \/ /\ IF Exists("preImport") THEN Refused ELSE Succeed
        /\ Goto(failed) /\ UNCHANGED file
  /\ UNCHANGED <<log, displaced, displacedLogs, marker, damaged, ghost, budget>>

RollBackUnmovedLog == PutBack("unasideNoLog", "open", "open")
\* Mutant: the database is put back without its log.
PutsBackWithoutLog == PutBack("unaside", "open", "open")
RollBackUnmarked   == PutBack("unaside", "unasideLog", "open")
RollBackUnmarkedLog == MoveLogBack("unasideLog", "open")
RollBackSwap       == PutBack("rollback", "rollbackLog", "open")
RollBackSwapLog    == MoveLogBack("rollbackLog", "clearMarker")

\* What is left under the live name is removed, best effort.
DropLiveLog ==
  /\ pc = "dropLogs" /\ Goto("swap")
  /\ \/ Succeed /\ log' = RemoveLog("wal")
     \/ HasLog("wal") /\ Refused /\ UNCHANGED log
  /\ UNCHANGED <<file, displaced, displacedLogs, marker, damaged, ghost, budget>>

\* The library in use until now becomes the undo copy the app promises.
SwapIn ==
  /\ pc = "swap"
  /\ \/ /\ Succeed /\ Goto("clearMarker")
        /\ file' = Rename("staged", "db")
        /\ spare' = IF live \in owed THEN live ELSE 0
        /\ owed' = (owed \ {live}) \cup {file["staged"].id}
        /\ live' = file["staged"].id
     \/ Refused /\ Goto("rollback") /\ UNCHANGED <<file, owed, spare, live>>
  /\ UNCHANGED <<log, displaced, displacedLogs, marker, damaged, leftLog, budget>>

\* After five refused attempts the marker stays.
ClearMarker ==
  /\ pc = "clearMarker" /\ Goto("open")
  /\ \/ Succeed /\ marker' = FALSE
     \/ marker /\ Refused /\ UNCHANGED marker
  /\ UNCHANGED <<file, log, displaced, displacedLogs, damaged, ghost, budget>>

(***************************************************************************)
(* The pool opens, or refuses to.                                          *)
(***************************************************************************)
OpenDatabase ==
  /\ pc = "open" /\ Exists("db") /\ file["db"].id \notin damaged
  /\ Goto("session")
  /\ live' = file["db"].id /\ owed' = owed \cup {live'}
  /\ UNCHANGED <<disk, damaged, spare, leftLog, budget, faults>>

RefuseDamaged ==
  /\ pc = "open" /\ file["db"].id \in damaged
  /\ Goto("recovery")
  /\ UNCHANGED <<disk, damaged, ghost, budget, faults>>

RefuseMissing ==
  /\ pc = "open" /\ ~Exists("db") /\ Exists("bak")
  /\ Goto("recovery")
  /\ UNCHANGED <<disk, damaged, ghost, budget, faults>>

\* create_if_missing; SQLite drops a log found beside an empty file.
CreateEmpty ==
  /\ ids < TopId /\ ids' = ids + 1
  /\ file' = [file EXCEPT !["db"] = [id |-> ids', whole |-> TRUE], !["bak"] = None]
  /\ log' = RemoveLog("wal")
  /\ live' = ids' /\ owed' = owed \cup {ids'}
  /\ Goto("session")
  /\ UNCHANGED <<displaced, displacedLogs, marker, damaged, spare, leftLog,
                 crashes, damages, imports, faults, limits>>

FirstRun == pc = "open" /\ ~Exists("db") /\ ~Exists("bak") /\ CreateEmpty

\* start_with_empty_database: the backups leave for set-aside-backups/.
StartEmpty == pc = "recovery" /\ ~Exists("db") /\ CreateEmpty

(***************************************************************************)
(* The session, and the commands that stage an import.                     *)
(***************************************************************************)
Use ==
  /\ pc = "session" /\ ids < MaxId /\ ids' = ids + 1
  /\ file' = [file EXCEPT !["db"] = [id |-> ids', whole |-> FALSE]]
  /\ log' = [log EXCEPT !["wal"] = ids']
  /\ live' = ids' /\ owed' = (owed \ {live}) \cup {ids'}
  /\ UNCHANGED <<displaced, displacedLogs, marker, damaged, pc, spare, leftLog,
                 crashes, damages, imports, faults, limits>>

\* VACUUM INTO reads through the log, so the copy is whole.
Backup ==
  /\ pc = "session" /\ file["bak"].id # live
  /\ file' = [file EXCEPT !["bak"] = [id |-> live, whole |-> TRUE]]
  /\ UNCHANGED <<log, displaced, displacedLogs, marker, damaged, pc, ghost,
                 budget, faults>>

Folded(slot, f) == [f EXCEPT ![slot].whole = TRUE]

\* checkpoint_live_database is best effort, and not run without a pool.
StageImport ==
  /\ pc \in {"session", "recovery"} /\ imports < limits.imports /\ ids < MaxId
  /\ ids' = ids + 1 /\ imports' = imports + 1
  /\ \E fold \in {pc = "session", FALSE} :
       /\ log' = IF fold THEN RemoveLog("wal") ELSE log
       /\ LET f == IF fold THEN Folded("db", file) ELSE file IN
          \/ /\ Succeed
             /\ file' = [f EXCEPT !["staged"] = [id |-> ids', whole |-> TRUE]]
          \/ Refused /\ file' = [f EXCEPT !["staged"] = None]
  /\ UNCHANGED <<displaced, displacedLogs, marker, damaged, pc, ghost,
                 crashes, damages, limits>>

UndoCanBeStaged ==
  /\ pc \in {"session", "recovery"} /\ imports < limits.imports
  /\ Exists("preImport") /\ file["preImport"].id \notin damaged

OwnLogBesideUndo == log["preWal"] \in {0, file["preImport"].id}

\* The undo copy is opened in place, which folds its log into it.
StageUndo ==
  /\ UndoCanBeStaged /\ OwnLogBesideUndo
  /\ imports' = imports + 1
  /\ log' = RemoveLog("preWal")
  /\ LET copy == IF log["preWal"] = file["preImport"].id
                 THEN Folded("preImport", file) ELSE file IN
     \/ Succeed /\ file' = [copy EXCEPT !["staged"] = copy["preImport"]]
     \/ Refused /\ file' = [copy EXCEPT !["staged"] = None]
  /\ UNCHANGED <<displaced, displacedLogs, marker, damaged, pc, ghost,
                 ids, crashes, damages, limits>>

\* Opened with another database's log beside it, the undo copy is a mixture of
\* the two: a database of its own, which the validation passes or refuses.
StageMixedUndo ==
  /\ UndoCanBeStaged /\ ~OwnLogBesideUndo /\ ids < MaxId
  /\ ids' = ids + 1 /\ imports' = imports + 1
  /\ log' = RemoveLog("preWal")
  /\ LET mixed == [id |-> ids', whole |-> TRUE]
         f     == [file EXCEPT !["preImport"] = mixed] IN
     \/ Succeed /\ file' \in {f, [f EXCEPT !["staged"] = mixed]}
     \/ Refused /\ file' = [f EXCEPT !["staged"] = None]
  /\ spare' = IF spare = file["preImport"].id THEN 0 ELSE spare
  /\ UNCHANGED <<displaced, displacedLogs, marker, damaged, pc, owed, live, leftLog,
                 crashes, damages, limits>>

\* The exit checkpoint has five seconds; a kill does not run it at all.
Quit(fold) ==
  /\ pc \in {"session", "recovery"} /\ (fold => pc = "session")
  /\ Goto("off")
  /\ file' = IF fold THEN Folded("db", file) ELSE file
  /\ log' = IF fold THEN RemoveLog("wal") ELSE log
  /\ UNCHANGED <<displaced, displacedLogs, marker, damaged, ghost, budget, faults>>

(***************************************************************************)
(* restore_database_from_backup, offered once the pool refused to open.    *)
(***************************************************************************)
\* The snapshot is copied and prepared under a name nothing resumes.
CopySnapshot ==
  /\ pc = "recovery" /\ Exists("bak")
  /\ LET f == [file EXCEPT !["restoreTmp"] = None] IN
     \/ /\ Succeed /\ Goto("stage")
        /\ file' = [f EXCEPT !["restorePartial"] = f["bak"]]
     \/ /\ Refused /\ UNCHANGED pc
        /\ file' = [f EXCEPT !["restorePartial"] = None]
  /\ UNCHANGED <<log, displaced, displacedLogs, marker, damaged, ghost, budget>>

StageSnapshot ==
  /\ pc = "stage"
  /\ \/ Succeed /\ Goto("evict") /\ file' = Rename("restorePartial", "restoreTmp")
     \/ Refused /\ Goto("recovery") /\ UNCHANGED file
  /\ UNCHANGED <<log, displaced, displacedLogs, marker, damaged, ghost, budget>>

\* Mutant: the damaged database is deleted instead of set aside.
DeletesDamaged ==
  /\ pc = "evictDb" /\ Succeed /\ Goto("keepLog") /\ file' = Remove("db")
  /\ UNCHANGED <<log, displaced, displacedLogs, marker, damaged, ghost, budget>>

\* What an earlier restore left under the scratch name makes room.
ClearScratch ==
  /\ pc = "evict"
  /\ IF ~Exists("db") THEN Succeed /\ Goto("keepLog") /\ UNCHANGED file
     ELSE /\ Goto("evictDb")
          /\ \/ Succeed /\ file' = Remove("corruptTmp")
             \/ Exists("corruptTmp") /\ Refused /\ UNCHANGED file
  /\ UNCHANGED <<log, displaced, displacedLogs, marker, damaged, ghost, budget>>

EvictCorrupt ==
  /\ pc = "evictDb"
  /\ \/ Succeed /\ Goto("rotate") /\ file' = Rename("db", "corruptTmp")
     \/ Refused /\ Goto("recovery") /\ file' = Remove("restoreTmp")
  /\ UNCHANGED <<log, displaced, displacedLogs, marker, damaged, ghost, budget>>

\* One rotated generation stands for CORRUPT_ROTATED_GENERATIONS.  A rotation
\* that stops short leaves the scratch name to the database set aside.
RotateCorrupt ==
  /\ pc = "rotate"
  /\ IF ~Exists("corrupt") THEN Succeed /\ Goto("promote") /\ UNCHANGED file
     ELSE \/ Succeed /\ Goto("promote") /\ file' = Rename("corrupt", "corrupt1")
          \/ Refused /\ Goto("keepLog") /\ UNCHANGED file
  /\ UNCHANGED <<log, displaced, displacedLogs, marker, damaged, ghost, budget>>

PromoteCorrupt ==
  /\ pc = "promote" /\ Goto("keepLog")
  /\ \/ Succeed /\ file' = Rename("corruptTmp", "corrupt")
     \/ Refused /\ UNCHANGED file
  /\ UNCHANGED <<log, displaced, displacedLogs, marker, damaged, ghost, budget>>

KeepCorruptLog ==
  /\ pc = "keepLog"
  /\ SetAsideCorruptLog("restoreSwap", "recovery")
  /\ UNCHANGED <<file, displaced, displacedLogs, marker, damaged, ghost, budget>>

\* Mutant: the snapshot is copied into place and its staging file left.
LeavesSnapshotStaged ==
  /\ pc = "restoreSwap" /\ Succeed /\ Goto("open")
  /\ file' = [file EXCEPT !["db"] = file["restoreTmp"]]
  /\ UNCHANGED <<log, displaced, displacedLogs, marker, damaged, ghost, budget>>

SwapInSnapshot ==
  /\ pc = "restoreSwap"
  /\ \/ Succeed /\ Goto("open") /\ file' = Rename("restoreTmp", "db")
     \/ Refused /\ Goto("recovery") /\ UNCHANGED file
  /\ UNCHANGED <<log, displaced, displacedLogs, marker, damaged, ghost, budget>>

(***************************************************************************)
(* What happens to the program.                                            *)
(***************************************************************************)
Crash ==
  /\ pc \in Steps /\ crashes < limits.crashes
  /\ crashes' = crashes + 1 /\ Goto("off")
  /\ UNCHANGED <<disk, damaged, ghost, ids, damages, imports, faults, limits>>

\* A closed database is damaged: its id changes with its contents.
Damage ==
  /\ pc = "off" /\ Exists("db") /\ file["db"].id \notin damaged
  /\ damages < limits.damages /\ ids < MaxId
  /\ damages' = damages + 1 /\ ids' = ids + 1
  /\ damaged' = damaged \cup {ids'}
  /\ file' = [file EXCEPT !["db"].id = ids']
  /\ log' = IF log["wal"] = file["db"].id THEN [log EXCEPT !["wal"] = ids'] ELSE log
  /\ owed' = owed \ {file["db"].id}
  /\ UNCHANGED <<displaced, displacedLogs, marker, pc, spare, live, leftLog, crashes,
                 imports, faults, limits>>

\* An antivirus takes the file away, its log with it.
Quarantine ==
  /\ pc = "off" /\ Exists("db") /\ file["db"].id \notin damaged
  /\ damages < limits.damages
  /\ damages' = damages + 1
  /\ file' = Remove("db") /\ log' = RemoveLog("wal")
  /\ owed' = owed \ {file["db"].id}
  /\ UNCHANGED <<displaced, displacedLogs, marker, damaged, pc, spare, live,
                 leftLog, ids, crashes, imports, faults, limits>>

Resume == NothingToResume \/ ResumeLog \/ ResumeRestore
Apply  == \/ NothingStaged \/ FindDeadSwap \/ NothingToSetAside
          \/ DropPreviousUndo \/ DropPreviousUndoLog
          \/ DisplaceDatabase \/ DisplaceLog \/ RecoverStranded \/ RecoverLog
          \/ SetAside \/ SetAsideLog \/ WriteMarker
          \/ RollBackUnmovedLog \/ RollBackUnmarked \/ RollBackUnmarkedLog
          \/ DropLiveLog \/ SwapIn \/ RollBackSwap \/ RollBackSwapLog \/ ClearMarker
Open   == OpenDatabase \/ RefuseDamaged \/ RefuseMissing \/ FirstRun
User   == Use \/ Backup \/ StageImport \/ StageUndo \/ StageMixedUndo
          \/ StartEmpty \/ CopySnapshot
          \/ \E fold \in BOOLEAN : Quit(fold)
Restore == \/ StageSnapshot \/ ClearScratch \/ EvictCorrupt \/ RotateCorrupt
           \/ PromoteCorrupt \/ KeepCorruptLog \/ SwapInSnapshot
World  == Crash \/ Damage \/ Quarantine

Next == Launch \/ Resume \/ Apply \/ Open \/ User \/ Restore \/ World

Spec == Init /\ [][Next]_vars

\* The process runs what it started; nothing forces the user, or a crash.
FairSpec == Spec /\ WF_vars(Resume \/ Apply \/ Open \/ Restore)

(***************************************************************************)
(* Properties.                                                             *)
(***************************************************************************)
\* No launch, however it is interrupted, loses the only file of a library
\* the app still owes: it is at the database path, in the undo copy, or
\* set aside as displaced, whatever a recovery took those files to be.
LibraryFileKept ==
  \A v \in owed : \/ v \in {file["db"].id, file["preImport"].id}
                  \/ \E d \in displaced : d.id = v

\* Once an import is in use, the library it replaced is still there to undo
\* to, unless a later recovery displaced it.  (When the database vanished
\* between two imports, the roll-back of the second brings it back instead.)
UndoFileKept ==
  damages = 0 /\ pc = "session" /\ spare # 0 =>
    file["preImport"].id = spare \/ \E d \in displaced : d.id = spare

\* An undo copy opens with every transaction of the library it was: its file
\* holds them, or its log lies under the name SQLite reads beside it.
UndoCopyOpensWhole ==
  pc = "session" /\ spare # 0 /\ file["preImport"].id = spare =>
    file["preImport"].whole \/ log["preWal"] = spare

\* The undo the app promises after an import: its copy is there, and opens
\* with its last transactions unless a crash fell between the renames of the
\* database and of its log.
UndoKept == UndoFileKept /\ (crashes = 0 => UndoCopyOpensWhole)

\* A database the app opens has its own last transactions, in the file or in
\* the log beside it.
OpensWhole ==
  crashes = 0 /\ pc = "session" => file["db"].whole \/ log["wal"] = live

\* SQLite checks a log against its own header and would replay one left by
\* another database: none is ever beside the database the app opens, and
\* beside the undo copy it may stage at most the log of the undo copy before,
\* whose removal the system refused.
NoForeignLog ==
  crashes = 0 /\ pc = "session" =>
    /\ log["wal"] \in {0, file["db"].id}
    /\ Exists("preImport") => log["preWal"] \in {0, file["preImport"].id, leftLog}

\* A database and its log are never separated, nor mixed with another's
\* (move_wal_with, set_aside_corrupt_wal, the removal of the live log).
LogsStay == OpensWhole /\ NoForeignLog

\* The recoveries of a launch tell apart what the names on disk mean: an
\* empty library is never started while one the app owes lies in the undo
\* copy, and a snapshot is put in place only for a restore that was
\* interrupted, never over a library an interrupted import set aside.
RecoveryTellsApart ==
  [][/\ ~Exists("db")
     /\ \/ pc = "open" /\ pc' = "session"
        \/ pc = "resume" /\ file'["db"].id # 0
     => file["preImport"].id \notin owed]_vars

OnDisk(d) == (\E s \in FileSlots : file[s].id = d) \/ (\E f \in displaced : f.id = d)

\* What may take a damaged database's only file: an import, which it was the
\* undo copy for; a rotation, whose oldest generation it was; and a restore
\* that finds it under the scratch name, where only a crash or a refused
\* rename of an earlier restore leaves it.
Superseded(d) ==
  \/ pc \in {"apply", "aside"} /\ Exists("staged") /\ file["preImport"].id = d
  \/ pc = "rotate" /\ file["corrupt1"].id = d /\ Exists("corrupt")
  \/ pc \in {"evict", "evictDb"} /\ file["corruptTmp"].id = d /\ crashes + faults > 0

\* A damaged database is kept for inspection, whatever interrupts, refuses or
\* repeats the restore that sets it aside, until it is superseded.
DamagedKept == [][\A d \in damaged : OnDisk(d) => OnDisk(d)' \/ Superseded(d)]_vars

\* Every launch comes to a usable library or to the recovery prompt.
LaunchEnds == pc = "resume" ~> pc \in {"session", "recovery", "off"}
=============================================================================
