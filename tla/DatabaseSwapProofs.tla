------------------------- MODULE DatabaseSwapProofs -------------------------
(***************************************************************************)
(* Why putting one database in the place of another loses neither a        *)
(* library the app owes nor the transactions in a log, for any number of   *)
(* databases, imports and undos, when no more than one renaming, removal   *)
(* or write is refused; and why it keeps what was damaged, however many    *)
(* are.                                                                    *)
(***************************************************************************)
EXTENDS DatabaseSwap, TLAPS

USE BoundsAssumption

OneRefusal  == \A b \in Budgets : b.faults <= 1
\* Either every launch runs to its end, or nothing but its interruption
\* happens to it.
CalmBudgets == \A b \in Budgets :
                 b.faults <= 1 /\ (b.crashes = 0 \/ (b.faults = 0 /\ b.damages = 0))

Displaced(v)   == \E d \in displaced : d.id = v
Undisturbed    == limits.faults = 0 /\ limits.damages = 0
Calm           == crashes = 0 \/ Undisturbed
NoMoreRefusals == faults = limits.faults

\* Ids grow, and no library the app owes, or is about to put in place, is
\* known to be damaged.
Numbered ==
  /\ \A s \in FileSlots : file[s].id <= ids
  /\ owed \subseteq 1..ids
  /\ \A v \in damaged : v <= ids /\ v \notin owed /\ v # file["staged"].id
  /\ damages = 0 => damaged = {}

Resting  == {"off", "resume", "apply"}
Swapping == {"asideLog", "marker", "dropLogs", "swap", "unasideNoLog", "unaside", "rollback"}
SettledSteps == {"recoverLog", "unasideLog", "rollbackLog", "clearMarker", "open",
                 "session", "recovery", "stage", "evict", "evictDb", "rotate", "promote",
                 "keepLog", "restoreSwap"}

\* Which files the steps of a swap or a restore find.
OnItsWay ==
  /\ pc \in {"dropUndoLog", "aside"} => Exists("db") /\ Exists("staged")
  /\ pc \in Swapping => ~Exists("db") /\ Exists("staged")
  /\ pc \in {"asideLog", "marker", "unasideNoLog", "unaside"} => Exists("preImport")
  /\ pc \in {"displace", "displaceLog", "recover"} => Exists("preImport") /\ marker
  /\ pc \in {"displaceLog", "recover", "rotate", "promote", "keepLog",
             "restoreSwap"} => ~Exists("db")
  /\ pc = "session" => Exists("db") /\ live = file["db"].id
  /\ pc \in {"recovery", "stage", "evict",
             "evictDb"} =>
       ~Exists("db") \/ file["db"].id \in damaged

\* The library the app owes, beside those displaced, is the last one opened:
\* at the database path, or in the undo copy while that path is empty.
Kept ==
  /\ \A v \in owed : v = live \/ Displaced(v)
  /\ live \in owed =>
       \/ Displaced(live)
       \/ live = IF Exists("db") THEN file["db"].id ELSE file["preImport"].id

\* What is left of a swap that was refused, or of its marker, is never met by
\* a second refusal.
RefusedOnce ==
  /\ pc \in {"displace", "displaceLog", "recover", "recoverLog", "unasideNoLog", "unaside",
             "unasideLog", "rollback", "rollbackLog"} => NoMoreRefusals
  /\ marker => NoMoreRefusals \/ pc \in {"dropLogs", "swap", "clearMarker"}

\* A launch that was killed between the renames: the next one goes on.
HalfSwapped == Undisturbed /\ Exists("preImport") /\ (Exists("staged") \/ marker)

\* Outside of a swap no library the app owes is in the undo copy only.
Settled == Exists("db") \/ live \notin owed \/ Displaced(live)
Opening ==
  /\ pc \in SettledSteps => Settled
  /\ pc \in Resting => Settled \/ HalfSwapped

\* Until something damages the database there is nothing to recover from, and
\* the undo copy the app promises is there.
Fresh == live = 0 /\ spare = 0 /\ \A s \in FileSlots : ~Exists(s)
Undamaged ==
  damages = 0 =>
    /\ pc \notin {"recovery", "stage", "evict", "evictDb", "rotate", "promote", "keepLog",
                  "restoreSwap"}
    /\ ~Exists("restoreTmp")
    /\ pc \in SettledSteps => Exists("db") \/ Fresh
    /\ pc \in Resting => Exists("db") \/ Fresh \/ HalfSwapped
    /\ pc \in {"dropLogs", "swap", "rollback"} => Exists("preImport")
    /\ spare # 0 => file["preImport"].id = spare \/ Displaced(spare)
    /\ pc \in {"dropUndoLog", "aside", "asideLog", "marker", "unasideNoLog", "unaside",
               "rollback"} => spare = 0
    /\ pc \in {"dropLogs", "swap"} => spare = 0 \/ NoMoreRefusals

Safe == Kept /\ RefusedOnce /\ Opening /\ Undamaged

Shape == TypeOK /\ Numbered /\ OnItsWay

(***************************************************************************)
(* Slots and renames.                                                      *)
(***************************************************************************)
LEMMA Slots ==
  /\ \A s \in {"db", "staged", "preImport", "restorePartial", "restoreTmp", "corruptTmp",
               "corrupt", "corrupt1", "bak"} : s \in FileSlots
  /\ \A l \in {"wal", "preWal", "corruptWal"} : l \in LogSlots
  /\ None \in Database /\ None.id = 0 /\ None.whole
BY DEF FileSlots, LogSlots, None, Database

LEMMA Renamed ==
  ASSUME file \in [FileSlots -> Database], NEW a \in FileSlots, NEW b \in FileSlots, a # b
  PROVE  /\ Rename(a, b) \in [FileSlots -> Database]
         /\ Rename(a, b)[b] = file[a] /\ Rename(a, b)[a] = None
         /\ \A s \in FileSlots \ {a, b} : Rename(a, b)[s] = file[s]
BY Slots DEF Rename

LEMMA Removed ==
  ASSUME file \in [FileSlots -> Database], NEW a \in FileSlots
  PROVE  /\ Remove(a) \in [FileSlots -> Database] /\ Remove(a)[a] = None
         /\ \A s \in FileSlots \ {a} : Remove(a)[s] = file[s]
BY Slots DEF Remove

LEMMA Logs ==
  ASSUME log \in [LogSlots -> 0..TopId], NEW a \in LogSlots, NEW b \in LogSlots, a # b
  PROVE  /\ RenameLog(a, b) \in [LogSlots -> 0..TopId] /\ RenameLog(a, b)[b] = log[a]
         /\ RenameLog(a, b)[a] = 0
         /\ \A l \in LogSlots \ {a, b} : RenameLog(a, b)[l] = log[l]
         /\ RemoveLog(a) \in [LogSlots -> 0..TopId] /\ RemoveLog(a)[a] = 0
         /\ \A l \in LogSlots \ {a} : RemoveLog(a)[l] = log[l]
BY DEF RenameLog, RemoveLog

LEMMA Budgeted ==
  ASSUME TypeOK
  PROVE  /\ limits.crashes \in Nat /\ limits.faults \in Nat
         /\ limits.damages \in Nat /\ limits.imports \in Nat
BY DEF TypeOK

LEMMA Counted ==
  ASSUME TypeOK, faults' = faults \/ (faults < limits.faults /\ faults' = faults + 1)
  PROVE  faults' \in 0..limits.faults
BY Budgeted DEF TypeOK

(***************************************************************************)
(* The shape of the disk.                                                  *)
(***************************************************************************)
\* Steps that touch neither a database nor a log.
QuietStep ==
  \/ Launch \/ NothingToResume \/ NothingStaged \/ FindDeadSwap \/ NothingToSetAside
  \/ WriteMarker \/ ClearMarker \/ RefuseDamaged \/ RefuseMissing \/ Crash

LEMMA Quiet ==
  ASSUME QuietStep
  PROVE  UNCHANGED <<file, log, displaced, displacedLogs, damaged, owed, spare, live, leftLog,
                     limits, ids, damages, imports>>
BY DEF QuietStep, Launch, NothingToResume, NothingStaged, FindDeadSwap, NothingToSetAside,
   WriteMarker, ClearMarker, RefuseDamaged, RefuseMissing, Crash, disk, ghost, budget

LEMMA QuietCounts ==
  ASSUME TypeOK, QuietStep
  PROVE  /\ marker' \in BOOLEAN /\ pc' \in PCs
         /\ crashes' \in 0..limits.crashes /\ faults' \in 0..limits.faults
<1>1. marker' \in BOOLEAN
  BY DEF TypeOK, QuietStep, Launch, NothingToResume, NothingStaged, FindDeadSwap,
     NothingToSetAside, WriteMarker, ClearMarker, RefuseDamaged, RefuseMissing, Crash, disk
<1>2. pc' \in PCs
  BY DEF QuietStep, Launch, NothingToResume, NothingStaged, FindDeadSwap,
     NothingToSetAside, WriteMarker, ClearMarker, RefuseDamaged, RefuseMissing, Crash,
     Goto, PCs, Steps, ResumeSteps, ApplySteps
<1>3. crashes' = crashes \/ (crashes < limits.crashes /\ crashes' = crashes + 1)
  BY DEF QuietStep, Launch, NothingToResume, NothingStaged, FindDeadSwap,
     NothingToSetAside, WriteMarker, ClearMarker, RefuseDamaged, RefuseMissing, Crash, budget
<1>4. faults' = faults \/ (faults < limits.faults /\ faults' = faults + 1)
  BY DEF QuietStep, Launch, NothingToResume, NothingStaged, FindDeadSwap,
     NothingToSetAside, WriteMarker, ClearMarker, RefuseDamaged, RefuseMissing, Crash, Succeed,
     Refused
<1> QED
  BY <1>1, <1>2, <1>3, <1>4, Budgeted DEF TypeOK

LEMMA ShapeQuiet ==
  ASSUME Shape, QuietStep
  PROVE  Shape'
<1>1. TypeOK'
  BY Quiet, QuietCounts DEF Shape, TypeOK
<1>2. Numbered'
  BY Quiet DEF Shape, Numbered
<1>3. OnItsWay'
  BY Quiet DEF QuietStep, Shape, OnItsWay, Launch, NothingToResume, NothingStaged, FindDeadSwap,
     NothingToSetAside, WriteMarker, ClearMarker, RefuseDamaged, RefuseMissing, Crash,
     disk, Exists, Goto, Swapping, SwapDied
<1> QED
  BY Quiet, <1>1, <1>2, <1>3 DEF Shape

\* Steps that move or remove a log.
LogStep ==
  \/ ResumeLog \/ DisplaceLog \/ RecoverLog \/ SetAsideLog \/ RollBackUnmarkedLog
  \/ DropLiveLog \/ RollBackSwapLog \/ KeepCorruptLog \/ DropPreviousUndoLog

LEMMA LogOnly ==
  ASSUME LogStep
  PROVE  UNCHANGED <<file, displaced, marker, damaged, owed, spare, live, limits, ids, crashes,
                     damages, imports>>
BY DEF LogStep, ResumeLog, DisplaceLog, RecoverLog, SetAsideLog, RollBackUnmarkedLog,
   DropLiveLog, RollBackSwapLog, KeepCorruptLog, DropPreviousUndoLog, MoveLogBack, ghost, budget

LEMMA LogCounts ==
  ASSUME Shape, LogStep
  PROVE  /\ log' \in [LogSlots -> 0..TopId] /\ displacedLogs' \subseteq 0..TopId
         /\ leftLog' \in 0..TopId /\ pc' \in PCs /\ faults' \in 0..limits.faults
<1>0. log \in [LogSlots -> 0..TopId]
  BY DEF Shape, TypeOK
<1>1. log' \in [LogSlots -> 0..TopId]
  <2>1. CASE ResumeLog \/ KeepCorruptLog
    BY <1>0, <2>1, Slots, Logs DEF ResumeLog, KeepCorruptLog, SetAsideCorruptLog
  <2>2. CASE RecoverLog \/ RollBackUnmarkedLog \/ RollBackSwapLog
    BY <1>0, <2>2, Slots, Logs DEF RecoverLog, RollBackUnmarkedLog, RollBackSwapLog, MoveLogBack
  <2>3. CASE DisplaceLog \/ SetAsideLog \/ DropLiveLog \/ DropPreviousUndoLog
    BY <1>0, <2>3, Slots, Logs DEF DisplaceLog, SetAsideLog, DropLiveLog, DropPreviousUndoLog
  <2> QED
    BY <2>1, <2>2, <2>3 DEF LogStep
<1>2. displacedLogs' \subseteq 0..TopId
  <2>1. displacedLogs' = displacedLogs \/ displacedLogs' = displacedLogs \cup {log["wal"]}
    BY DEF LogStep, ResumeLog, DisplaceLog, RecoverLog, SetAsideLog, RollBackUnmarkedLog,
       DropLiveLog, RollBackSwapLog, KeepCorruptLog, DropPreviousUndoLog, MoveLogBack
  <2>2. log["wal"] \in 0..TopId
    BY <1>0, Slots
  <2> QED
    BY <2>1, <2>2 DEF Shape, TypeOK
<1>3. pc' \in PCs
  BY DEF LogStep, ResumeLog, DisplaceLog, RecoverLog, SetAsideLog, RollBackUnmarkedLog,
     DropLiveLog, RollBackSwapLog, KeepCorruptLog, DropPreviousUndoLog, MoveLogBack,
     SetAsideCorruptLog, Goto,
     AfterDisplace, PCs, Steps, ResumeSteps, ApplySteps, RestoreSteps
<1>4. faults' \in 0..limits.faults
  <2>1. \/ faults' = faults
        \/ faults < limits.faults /\ faults' = faults + 1
        \/ faults + 2 <= limits.faults /\ faults' = faults + 2
    BY DEF LogStep, ResumeLog, DisplaceLog, RecoverLog, SetAsideLog, RollBackUnmarkedLog,
       DropLiveLog, RollBackSwapLog, KeepCorruptLog, DropPreviousUndoLog, MoveLogBack,
       SetAsideCorruptLog, Succeed, Refused
  <2> QED
    BY <2>1, Budgeted DEF Shape, TypeOK
<1>5. leftLog' \in 0..TopId
  <2>1. leftLog' \in {leftLog, log["preWal"]}
    BY DEF LogStep, ResumeLog, DisplaceLog, RecoverLog, SetAsideLog, RollBackUnmarkedLog,
       DropLiveLog, RollBackSwapLog, KeepCorruptLog, DropPreviousUndoLog, MoveLogBack, ghost
  <2> QED
    BY <1>0, <2>1, Slots DEF Shape, TypeOK
<1> QED
  BY <1>1, <1>2, <1>3, <1>4, <1>5

LEMMA ShapeLog ==
  ASSUME Shape, LogStep
  PROVE  Shape'
<1>1. TypeOK'
  BY LogOnly, LogCounts DEF Shape, TypeOK
<1>2. Numbered'
  BY LogOnly DEF Shape, Numbered
<1>3. OnItsWay'
  BY LogOnly DEF LogStep, Shape, OnItsWay, ResumeLog, DisplaceLog, RecoverLog, SetAsideLog,
     RollBackUnmarkedLog, DropLiveLog, RollBackSwapLog, KeepCorruptLog, DropPreviousUndoLog,
     MoveLogBack,
     SetAsideCorruptLog, AfterDisplace, Exists, Goto, Swapping
<1> QED
  BY LogOnly, <1>1, <1>2, <1>3 DEF Shape

\* Steps that move or remove a database.
FileStep ==
  \/ ResumeRestore \/ DropPreviousUndo \/ DisplaceDatabase \/ RecoverStranded \/ SetAside
  \/ RollBackUnmovedLog \/ RollBackUnmarked \/ RollBackSwap \/ SwapIn
  \/ CopySnapshot \/ StageSnapshot \/ ClearScratch \/ EvictCorrupt \/ RotateCorrupt
  \/ PromoteCorrupt \/ SwapInSnapshot

LEMMA FileOnly ==
  ASSUME FileStep
  PROVE  /\ UNCHANGED <<log, displacedLogs, marker, damaged, leftLog, limits, ids, crashes,
                          damages, imports>>
         /\ faults' = faults \/ (faults < limits.faults /\ faults' = faults + 1)
         /\ pc' \in PCs
<1>1. UNCHANGED <<log, displacedLogs, marker, damaged, leftLog, limits, ids, crashes, damages,
                 imports>>
  BY DEF FileStep, ResumeRestore, DropPreviousUndo, DisplaceDatabase, RecoverStranded, SetAside,
     RollBackUnmovedLog, RollBackUnmarked, RollBackSwap, SwapIn, CopySnapshot, StageSnapshot,
     ClearScratch, EvictCorrupt, RotateCorrupt, PromoteCorrupt, SwapInSnapshot, PutBack, ghost,
     budget
<1>2. faults' = faults \/ (faults < limits.faults /\ faults' = faults + 1)
  BY DEF FileStep, ResumeRestore, DropPreviousUndo, DisplaceDatabase, RecoverStranded, SetAside,
     RollBackUnmovedLog, RollBackUnmarked, RollBackSwap, SwapIn, CopySnapshot, StageSnapshot,
     ClearScratch, EvictCorrupt, RotateCorrupt, PromoteCorrupt, SwapInSnapshot, PutBack,
     Succeed, Refused
<1>3. pc' \in PCs
  BY DEF FileStep, ResumeRestore, DropPreviousUndo, DisplaceDatabase, RecoverStranded, SetAside,
     RollBackUnmovedLog, RollBackUnmarked, RollBackSwap, SwapIn, CopySnapshot, StageSnapshot,
     ClearScratch, EvictCorrupt, RotateCorrupt, PromoteCorrupt, SwapInSnapshot, PutBack, Goto,
     PCs, Steps, ResumeSteps, ApplySteps, RestoreSteps
<1> QED
  BY <1>1, <1>2, <1>3

\* Whatever is moved, each slot then holds what some slot held, or nothing.
Moved(f) ==
  /\ f \in [FileSlots -> Database]
  /\ \A s \in FileSlots : f[s] = None \/ \E t \in FileSlots : f[s] = file[t]
  /\ f["staged"] \in {file["staged"], None}

LEMMA Moves ==
  ASSUME TypeOK
  PROVE  /\ Moved(file)
         /\ \A a \in FileSlots, b \in FileSlots \ {"staged"} : a # b => Moved(Rename(a, b))
         /\ \A a \in FileSlots : Moved(Remove(a))
<1>1. file \in [FileSlots -> Database]
  BY DEF TypeOK
<1>2. Moved(file)
  BY <1>1 DEF Moved
<1>3. ASSUME NEW a \in FileSlots, NEW b \in FileSlots \ {"staged"}, a # b
      PROVE  Moved(Rename(a, b))
  <2>1. /\ Rename(a, b) \in [FileSlots -> Database]
        /\ Rename(a, b)[b] = file[a] /\ Rename(a, b)[a] = None
        /\ \A s \in FileSlots \ {a, b} : Rename(a, b)[s] = file[s]
    BY <1>1, <1>3, Renamed
  <2>2. \A s \in FileSlots : Rename(a, b)[s] = None \/ \E t \in FileSlots : Rename(a,
  b)[s] = file[t]
    BY <2>1
  <2>3. Rename(a, b)["staged"] \in {file["staged"], None}
    BY <1>3, <2>1, Slots
  <2> QED
    BY <2>1, <2>2, <2>3 DEF Moved
<1>4. ASSUME NEW a \in FileSlots
      PROVE  Moved(Remove(a))
  BY <1>1, Removed, Slots DEF Moved
<1> QED
  BY <1>2, <1>3, <1>4

LEMMA FilesMove ==
  ASSUME TypeOK, FileStep
  PROVE  Moved(file')
<1>1. file \in [FileSlots -> Database] /\ None \in Database
  BY Slots DEF TypeOK
<1>2. CASE ResumeRestore \/ DropPreviousUndo \/ DisplaceDatabase \/ RecoverStranded \/ SetAside
  BY <1>2, Moves, Slots DEF ResumeRestore, DropPreviousUndo, DisplaceDatabase, RecoverStranded,
     SetAside
<1>3. CASE RollBackUnmovedLog \/ RollBackUnmarked \/ RollBackSwap \/ SwapIn
  BY <1>3, Moves, Slots DEF RollBackUnmovedLog, RollBackUnmarked, RollBackSwap, SwapIn, PutBack
<1>4. CASE StageSnapshot \/ SwapInSnapshot
  BY <1>4, Moves, Slots DEF StageSnapshot, SwapInSnapshot
<1>5. CASE CopySnapshot
  BY <1>1, <1>5, Slots DEF CopySnapshot, Moved
<1>6. CASE ClearScratch \/ EvictCorrupt \/ RotateCorrupt \/ PromoteCorrupt
  BY <1>6, Moves, Slots DEF ClearScratch, EvictCorrupt, RotateCorrupt, PromoteCorrupt
<1> QED
  BY <1>2, <1>3, <1>4, <1>5, <1>6 DEF FileStep

\* A swap puts in use a library that is whole and known to nobody as damaged.
LEMMA FileGhosts ==
  ASSUME Shape, FileStep
  PROVE  /\ owed' \subseteq owed \cup {file["staged"].id}
         /\ owed' \subseteq 1..ids /\ spare' \in 0..TopId /\ live' \in 0..TopId
         /\ displaced' \subseteq Database
         /\ log' \in [LogSlots -> 0..TopId]
<1>1. file["staged"] \in Database /\ file["db"] \in Database
  BY Slots DEF Shape, TypeOK
<1>2. CASE SwapIn
  <2>1. file["staged"].id \in 1..ids
    BY <1>1, <1>2, Slots DEF Shape, Numbered, OnItsWay, Swapping, SwapIn, Exists, Database, TypeOK
  <2>2. /\ owed' = owed \/ owed' = (owed \ {live}) \cup {file["staged"].id}
        /\ spare' \in {spare, live, 0} /\ live' \in {live, file["staged"].id}
        /\ UNCHANGED <<displaced, log>>
    BY <1>2 DEF SwapIn, ghost
  <2>3. file["staged"].id \in 0..TopId
    BY <1>1 DEF Database
  <2>4. owed' \subseteq 1..ids /\ owed' \subseteq owed \cup {file["staged"].id}
    BY <2>1, <2>2 DEF Shape, Numbered
  <2>5. spare' \in 0..TopId /\ live' \in 0..TopId
    BY <2>2, <2>3 DEF Shape, TypeOK
  <2> QED
    BY <2>2, <2>4, <2>5 DEF Shape, TypeOK
<1>3. CASE ~SwapIn
  <2>1. UNCHANGED <<owed, live>> /\ spare' \in {spare, 0}
    BY <1>3 DEF FileStep, ResumeRestore, DropPreviousUndo, DisplaceDatabase, RecoverStranded,
       SetAside, RollBackUnmovedLog, RollBackUnmarked, RollBackSwap, SwapIn, CopySnapshot,
       StageSnapshot, ClearScratch, EvictCorrupt, RotateCorrupt, PromoteCorrupt, SwapInSnapshot,
       PutBack, ghost
  <2>2. displaced' \in {displaced, displaced \cup {file["db"]}}
    BY <1>3 DEF FileStep, ResumeRestore, DropPreviousUndo, DisplaceDatabase, RecoverStranded,
       SetAside, RollBackUnmovedLog, RollBackUnmarked, RollBackSwap, SwapIn, CopySnapshot,
       StageSnapshot, ClearScratch, EvictCorrupt, RotateCorrupt, PromoteCorrupt, SwapInSnapshot,
       PutBack
  <2> QED
    BY <1>1, <2>1, <2>2, FileOnly DEF Shape, TypeOK, Numbered
<1> QED
  BY <1>2, <1>3

LEMMA ShapeFiles ==
  ASSUME Shape, FileStep
  PROVE  Shape'
<1>1. TypeOK'
  <2>1. faults' \in 0..limits.faults
    BY FileOnly, Counted DEF Shape
  <2>2. owed' \subseteq 1..TopId
    BY FileGhosts DEF Shape, TypeOK
  <2>3. file' \in [FileSlots -> Database]
    BY FilesMove DEF Shape, Moved
  <2> QED
    BY <2>1, <2>2, <2>3, FileOnly, FileGhosts DEF Shape, TypeOK
<1>2. Numbered'
  <2>1. Moved(file') /\ ids \in 0..TopId
    BY FilesMove DEF Shape, TypeOK
  <2>2. \A s \in FileSlots : file'[s].id <= ids
    BY <2>1, Slots DEF Shape, Numbered, Moved
  <2>3. \A v \in damaged : v <= ids /\ v \notin owed' /\ v # file'["staged"].id
    BY <2>1, FileGhosts, Slots DEF Shape, TypeOK, Numbered, Moved
  <2> QED
    BY <2>2, <2>3, FileOnly, FileGhosts DEF Shape, Numbered
<1>3. file \in [FileSlots -> Database]
  BY DEF Shape, TypeOK
<1>4. OnItsWay'
  <2>1. CASE DropPreviousUndo \/ DisplaceDatabase
    BY <1>3, <2>1, Removed, Slots DEF Shape, OnItsWay, DropPreviousUndo, DisplaceDatabase, Exists,
       Goto, Swapping, SwapDied
  <2>6. CASE ResumeRestore \/ RecoverStranded \/ SetAside
    BY <1>3, <2>6, Renamed, Slots DEF Shape, OnItsWay, ResumeRestore, RecoverStranded, SetAside,
       Exists, Goto, Swapping
  <2>2. CASE RollBackUnmovedLog \/ RollBackUnmarked \/ RollBackSwap \/ SwapIn
    BY <1>3, <2>2, Renamed, Slots DEF Shape, OnItsWay, RollBackUnmovedLog, RollBackUnmarked,
       RollBackSwap, SwapIn, PutBack, Exists, Goto, Swapping
  <2>3. CASE StageSnapshot \/ SwapInSnapshot
    BY <1>3, <2>3, Renamed, Slots DEF Shape, OnItsWay, StageSnapshot, SwapInSnapshot, Exists,
       Goto, Swapping
  <2>4. CASE CopySnapshot
    BY <1>3, <2>4, Slots DEF Shape, OnItsWay, CopySnapshot, Exists, Goto, Swapping
  <2>7. CASE ClearScratch
    BY <1>3, <2>7, Removed, Slots DEF Shape, OnItsWay, ClearScratch, Exists, Goto, Swapping
  <2>8. CASE EvictCorrupt
    BY <1>3, <2>8, Renamed, Removed, Slots DEF Shape, OnItsWay, EvictCorrupt, Exists, Goto,
       Swapping
  <2>5. CASE RotateCorrupt \/ PromoteCorrupt
    BY <1>3, <2>5, Renamed, Slots DEF Shape, OnItsWay, RotateCorrupt, PromoteCorrupt, Exists,
       Goto, Swapping
  <2> QED
    BY <2>1, <2>2, <2>3, <2>4, <2>5, <2>6, <2>7, <2>8 DEF FileStep
<1> QED
  BY FileOnly, <1>1, <1>2, <1>4 DEF Shape

(***************************************************************************)
(* The session, and what happens to a closed database.                     *)
(***************************************************************************)
LEMMA Folding ==
  ASSUME file \in [FileSlots -> Database], NEW s \in FileSlots
  PROVE  /\ Folded(s, file) \in [FileSlots -> Database] /\ Folded(s, file)[s].whole
         /\ \A t \in FileSlots : Folded(s, file)[t].id = file[t].id
         /\ \A t \in FileSlots \ {s} : Folded(s, file)[t] = file[t]
<1>1. [file[s] EXCEPT !.whole = TRUE] \in Database /\ [file[s] EXCEPT !.whole = TRUE].id = file[s].id
      /\ [file[s] EXCEPT !.whole = TRUE].whole
  BY DEF Database
<1>2. Folded(s, file) = [file EXCEPT ![s] = [file[s] EXCEPT !.whole = TRUE]]
  BY DEF Folded
<1> QED
  BY <1>1, <1>2

LEMMA ShapeOpen ==
  ASSUME Shape, OpenDatabase
  PROVE  Shape'
<1>1. /\ UNCHANGED <<file, log, displaced, displacedLogs, marker, damaged, spare, leftLog,
                     limits, ids,
                     crashes, faults, damages, imports>>
      /\ pc' = "session" /\ live' = file["db"].id /\ owed' = owed \cup {file["db"].id}
      /\ Exists("db") /\ file["db"].id \notin damaged
  BY DEF OpenDatabase, disk, budget, Goto
<1>2. file["db"].id \in 1..ids /\ file["db"].id \in 1..TopId
  BY <1>1, Slots DEF Shape, TypeOK, Numbered, Exists, Database
<1>3. TypeOK'
  <2>1. owed' \subseteq 1..TopId
    BY <1>1, <1>2 DEF Shape, TypeOK
  <2>2. live' \in 0..TopId
    BY <1>1, <1>2
  <2>3. pc' \in PCs
    BY <1>1 DEF PCs
  <2> QED
    BY <1>1, <2>1, <2>2, <2>3 DEF Shape, TypeOK
<1>4. Numbered' /\ OnItsWay'
  BY <1>1, <1>2 DEF Shape, Numbered, OnItsWay, Swapping, Exists
<1> QED
  BY <1>1, <1>3, <1>4 DEF Shape

LEMMA ShapeEmpty ==
  ASSUME Shape, CreateEmpty
  PROVE  Shape'
<1>1. /\ UNCHANGED <<displaced, displacedLogs, marker, damaged, spare, leftLog, crashes,
                     damages, imports,
                     faults, limits>>
      /\ ids < TopId /\ ids' = ids + 1 /\ live' = ids' /\ owed' = owed \cup {ids'}
      /\ log' = RemoveLog("wal") /\ pc' = "session"
      /\ file' = [file EXCEPT !["db"] = [id |-> ids', whole |-> TRUE], !["bak"] = None]
  BY DEF CreateEmpty, Goto
<1>2. ids \in Nat /\ [id |-> ids', whole |-> TRUE] \in Database
  BY <1>1 DEF Shape, TypeOK, Database
<1>3. /\ file' \in [FileSlots -> Database] /\ file'["db"].id = ids'
      /\ \A s \in FileSlots \ {"db", "bak"} : file'[s] = file[s]
      /\ file'["bak"].id = 0
  BY <1>1, <1>2, Slots DEF Shape, TypeOK
<1>4. log' \in [LogSlots -> 0..TopId]
  BY <1>1, Logs, Slots DEF Shape, TypeOK
<1>5. TypeOK'
  <2>1. /\ ids' \in 0..TopId /\ ids' \in 1..TopId /\ pc' \in PCs
    BY <1>1, <1>2 DEF PCs
  <2>2. owed' \subseteq 1..TopId
    BY <1>1, <2>1 DEF Shape, TypeOK
  <2> QED
    BY <1>1, <1>3, <1>4, <2>1, <2>2 DEF Shape, TypeOK
<1>6. Numbered'
  BY <1>1, <1>2, <1>3, Slots DEF Shape, TypeOK, Numbered, Database
<1>7. OnItsWay'
  <2>1. ids' # 0
    BY <1>1, <1>2
  <2> QED
    BY <1>1, <1>3, <2>1 DEF OnItsWay, Swapping, Exists
<1> QED
  BY <1>1, <1>5, <1>6, <1>7 DEF Shape

LEMMA ShapeUse ==
  ASSUME Shape, Use
  PROVE  Shape'
<1>1. /\ UNCHANGED <<displaced, displacedLogs, marker, damaged, spare, leftLog, crashes,
                     damages, imports,
                     faults, limits, pc>>
      /\ ids < MaxId /\ ids' = ids + 1 /\ live' = ids' /\ owed' = (owed \ {live}) \cup {ids'}
      /\ log' = [log EXCEPT !["wal"] = ids'] /\ pc = "session"
      /\ file' = [file EXCEPT !["db"] = [id |-> ids', whole |-> FALSE]]
  BY DEF Use
<1>2. ids \in Nat /\ ids' \in 0..TopId /\ [id |-> ids', whole |-> FALSE] \in Database
  BY <1>1 DEF Shape, TypeOK, Database
<1>3. /\ file' \in [FileSlots -> Database] /\ file'["db"].id = ids'
      /\ \A s \in FileSlots \ {"db"} : file'[s] = file[s]
  BY <1>1, <1>2, Slots DEF Shape, TypeOK
<1>4. log' \in [LogSlots -> 0..TopId]
  BY <1>1, <1>2, Slots DEF Shape, TypeOK
<1>5. TypeOK'
  BY <1>1, <1>2, <1>3, <1>4 DEF Shape, TypeOK
<1>6. Numbered'
  BY <1>1, <1>2, <1>3, Slots DEF Shape, TypeOK, Numbered, Database
<1>7. OnItsWay'
  BY <1>1, <1>2, <1>3 DEF OnItsWay, Swapping, Exists
<1> QED
  BY <1>1, <1>5, <1>6, <1>7 DEF Shape

LEMMA ShapeBackup ==
  ASSUME Shape, Backup
  PROVE  Shape'
<1>1. /\ UNCHANGED <<log, displaced, displacedLogs, marker, damaged, pc, owed, spare, live,
                     leftLog, limits,
                     ids, crashes, damages, imports, faults>>
      /\ file' = [file EXCEPT !["bak"] = [id |-> live, whole |-> TRUE]] /\ pc = "session"
  BY DEF Backup, ghost, budget
<1>2. live <= ids /\ [id |-> live, whole |-> TRUE] \in Database
  BY <1>1, Slots DEF Shape, TypeOK, OnItsWay, Numbered, Database
<1>3. /\ file' \in [FileSlots -> Database] /\ file'["bak"].id = live
      /\ \A s \in FileSlots \ {"bak"} : file'[s] = file[s]
  BY <1>1, <1>2, Slots DEF Shape, TypeOK
<1>4. TypeOK' /\ OnItsWay'
  BY <1>1, <1>3, Slots DEF Shape, TypeOK, OnItsWay, Swapping, Exists
<1>5. Numbered'
  BY <1>1, <1>2, <1>3, Slots DEF Shape, Numbered
<1> QED
  BY <1>1, <1>4, <1>5 DEF Shape

\* What staging leaves: every database is where it was, folded or not.
Staged(f) ==
  /\ file' \in [FileSlots -> Database]
  /\ \A s \in FileSlots \ {"staged"} : file'[s].id = file[s].id
  /\ \A s \in FileSlots \ {"staged", f} : file'[s] = file[s]

LEMMA ImportStaged ==
  ASSUME Shape, StageImport
  PROVE  Staged("db") /\ file'["staged"].id \in {0, ids'}
<1>1. PICK fold \in {pc = "session", FALSE} :
        \E f \in {Folded("db", file), file}, d \in {[id |-> ids', whole |-> TRUE], None} :
           file' = [f EXCEPT !["staged"] = d]
  BY DEF StageImport
<1>2. [id |-> ids', whole |-> TRUE] \in Database
  BY DEF StageImport, Shape, TypeOK, Database
<1>3. PICK f \in {Folded("db", file), file}, d \in {[id |-> ids', whole |-> TRUE], None} :
           file' = [f EXCEPT !["staged"] = d]
  BY <1>1
<1>4. /\ f \in [FileSlots -> Database] /\ \A s \in FileSlots : f[s].id = file[s].id
      /\ \A s \in FileSlots \ {"db"} : f[s] = file[s]
  BY <1>3, Folding, Slots DEF Shape, TypeOK
<1>5. d \in Database /\ d.id \in {0, ids'}
  <2>1. CASE d = [id |-> ids', whole |-> TRUE]
    BY <1>2, <2>1
  <2>2. CASE d = None
    BY <2>2, Slots
  <2> QED
    BY <1>3, <2>1, <2>2
<1> QED
  BY <1>3, <1>4, <1>5, Slots DEF Staged

LEMMA UndoStaged ==
  ASSUME Shape, StageUndo
  PROVE  Staged("preImport") /\ file'["staged"].id \in {0, file["preImport"].id}
<1>1. PICK f \in {Folded("preImport", file), file} :
        file' \in {[f EXCEPT !["staged"] = f["preImport"]], [f EXCEPT !["staged"] = None]}
  BY DEF StageUndo
<1>2. /\ f \in [FileSlots -> Database] /\ \A s \in FileSlots : f[s].id = file[s].id
      /\ \A s \in FileSlots \ {"preImport"} : f[s] = file[s]
  BY <1>1, Folding, Slots DEF Shape, TypeOK
<1> QED
  BY <1>1, <1>2, Slots DEF Staged

LEMMA ShapeStage ==
  ASSUME Shape, StageImport \/ StageUndo
  PROVE  Shape'
<1>1. /\ UNCHANGED <<displaced, displacedLogs, marker, damaged, pc, owed, spare, live, leftLog,
                     limits,
                     crashes, damages>>
      /\ pc \in {"session", "recovery"} /\ imports < limits.imports /\ imports' = imports + 1
      /\ faults' = faults \/ (faults < limits.faults /\ faults' = faults + 1)
  BY DEF StageImport, StageUndo, UndoCanBeStaged, ghost, Succeed, Refused
<1>2. /\ ids' = ids \/ (ids < MaxId /\ ids' = ids + 1)
      /\ StageImport => ids' = ids + 1
  BY DEF StageImport, StageUndo
<1>3. log' \in [LogSlots -> 0..TopId]
  BY Logs, Slots DEF StageImport, StageUndo, Shape, TypeOK
<1>4. /\ file' \in [FileSlots -> Database]
      /\ \A s \in FileSlots \ {"staged"} : file'[s].id = file[s].id
  BY ImportStaged, UndoStaged DEF Staged
<1>5. /\ file'["staged"].id \in 0..ids'
      /\ file'["staged"].id \notin damaged \/ file'["staged"].id = 0
  <2>1. CASE StageImport
    BY <1>2, <2>1, ImportStaged DEF Shape, TypeOK, Numbered
  <2>2. CASE StageUndo
    <3>1. file["preImport"].id \in 0..ids /\ file["preImport"].id \notin damaged /\ ids' = ids
      BY <2>2, Slots DEF StageUndo, UndoCanBeStaged, Shape, TypeOK, Numbered, Database
    <3> QED
      BY <2>2, <3>1, UndoStaged DEF Shape, TypeOK
  <2> QED
    BY <2>1, <2>2
<1>6. TypeOK'
  <2>1. faults' \in 0..limits.faults /\ imports' \in 0..limits.imports /\ ids' \in 0..TopId
    BY <1>1, <1>2, Counted, Budgeted DEF Shape, TypeOK
  <2> QED
    BY <1>1, <1>3, <1>4, <2>1 DEF Shape, TypeOK
<1>7. Numbered'
  <2>1. \A v \in damaged : v # 0
    BY DEF Shape, TypeOK
  <2>2. \A s \in FileSlots : file'[s].id <= ids'
    BY <1>2, <1>4, <1>5, Slots DEF Shape, TypeOK, Numbered, Database
  <2>3. owed' \subseteq 1..ids'
    BY <1>1, <1>2 DEF Shape, TypeOK, Numbered
  <2> QED
    BY <1>1, <1>2, <1>5, <2>1, <2>2, <2>3 DEF Shape, TypeOK, Numbered
<1>8. OnItsWay'
  BY <1>1, <1>4, Slots DEF Shape, OnItsWay, Swapping, Exists
<1> QED
  BY <1>1, <1>6, <1>7, <1>8 DEF Shape

\* A mixture of two databases is a third one.
LEMMA MixedStaged ==
  ASSUME Shape, StageMixedUndo
  PROVE  /\ file' \in [FileSlots -> Database] /\ file'["preImport"].id = ids'
         /\ file'["staged"] = file["staged"] \/ file'["staged"].id \in {0, ids'}
         /\ \A s \in FileSlots \ {"staged", "preImport"} : file'[s] = file[s]
         /\ ids \in Nat /\ ids < MaxId /\ ids' = ids + 1 /\ ids' \in 1..TopId
<1>1. ids \in Nat /\ ids < MaxId /\ ids' = ids + 1 /\ ids' \in 1..TopId
  BY DEF StageMixedUndo, Shape, TypeOK
<1>2. [id |-> ids', whole |-> TRUE] \in Database /\ None \in Database /\ None.id = 0
  BY <1>1, Slots DEF Database
<1>3. PICK mixed : mixed = [id |-> ids', whole |-> TRUE]
  OBVIOUS
<1>4. PICK f : f = [file EXCEPT !["preImport"] = mixed]
  OBVIOUS
<1>5. file' \in {f, [f EXCEPT !["staged"] = mixed], [f EXCEPT !["staged"] = None]}
  BY <1>3, <1>4 DEF StageMixedUndo
<1>6. /\ f \in [FileSlots -> Database] /\ f["preImport"] = mixed /\ mixed.id = ids'
      /\ \A s \in FileSlots \ {"preImport"} : f[s] = file[s]
  BY <1>2, <1>3, <1>4, Slots DEF Shape, TypeOK
<1>7. mixed \in Database
  BY <1>2, <1>3
<1> QED
  BY <1>1, <1>2, <1>5, <1>6, <1>7, Slots

LEMMA ShapeMixed ==
  ASSUME Shape, StageMixedUndo
  PROVE  Shape'
<1>1. /\ UNCHANGED <<displaced, displacedLogs, marker, damaged, pc, owed, live, leftLog, limits,
                     crashes, damages>>
      /\ pc \in {"session", "recovery"} /\ imports < limits.imports /\ imports' = imports + 1
      /\ faults' = faults \/ (faults < limits.faults /\ faults' = faults + 1)
      /\ log' = RemoveLog("preWal") /\ spare' \in {0, spare}
  BY DEF StageMixedUndo, UndoCanBeStaged, Succeed, Refused
<1>2. log' \in [LogSlots -> 0..TopId]
  BY <1>1, Logs, Slots DEF Shape, TypeOK
<1>3. TypeOK'
  <2>1. faults' \in 0..limits.faults /\ imports' \in 0..limits.imports /\ ids' \in 0..TopId
    BY <1>1, MixedStaged, Counted, Budgeted DEF Shape, TypeOK
  <2> QED
    BY <1>1, <1>2, <2>1, MixedStaged DEF Shape, TypeOK
<1>4. Numbered'
  <2>1. \A s \in FileSlots : file[s].id \in Int
    BY DEF Shape, TypeOK, Database
  <2>2. \A s \in FileSlots : file'[s].id <= ids'
    BY <2>1, MixedStaged, Slots DEF Shape, Numbered
  <2>3. owed' \subseteq 1..ids'
    BY <1>1, MixedStaged DEF Shape, Numbered
  <2>4. \A v \in damaged : v # 0 /\ v # ids' /\ v <= ids'
    BY MixedStaged DEF Shape, TypeOK, Numbered
  <2> QED
    BY <1>1, <2>2, <2>3, <2>4, MixedStaged DEF Shape, Numbered
<1>5. OnItsWay'
  BY <1>1, MixedStaged, Slots DEF Shape, OnItsWay, Swapping, Exists
<1> QED
  BY <1>1, <1>3, <1>4, <1>5 DEF Shape

LEMMA ShapeQuit ==
  ASSUME Shape, NEW fold \in BOOLEAN, Quit(fold)
  PROVE  Shape'
<1>1. /\ UNCHANGED <<displaced, displacedLogs, marker, damaged, owed, spare, live, leftLog,
                     limits, ids,
                     crashes, faults, damages, imports>>
      /\ pc' = "off" /\ file' \in {Folded("db", file), file}
      /\ log' \in {RemoveLog("wal"), log}
  BY DEF Quit, ghost, budget, Goto
<1>2. /\ file' \in [FileSlots -> Database] /\ \A s \in FileSlots : file'[s].id = file[s].id
  BY <1>1, Folding, Slots DEF Shape, TypeOK
<1>3. TypeOK'
  <2>1. log' \in [LogSlots -> 0..TopId] /\ pc' \in PCs
    BY <1>1, Logs, Slots DEF Shape, TypeOK, PCs
  <2> QED
    BY <1>1, <1>2, <2>1 DEF Shape, TypeOK
<1>4. Numbered' /\ OnItsWay'
  BY <1>1, <1>2, Slots DEF Shape, Numbered, OnItsWay, Swapping
<1> QED
  BY <1>1, <1>3, <1>4 DEF Shape

LEMMA ShapeHarm ==
  ASSUME Shape, Damage \/ Quarantine
  PROVE  Shape'
<1>1. /\ UNCHANGED <<displaced, displacedLogs, marker, pc, spare, live, leftLog, limits,
                     crashes, faults,
                     imports>>
      /\ pc = "off" /\ damages < limits.damages /\ damages' = damages + 1
      /\ owed' = owed \ {file["db"].id}
  BY DEF Damage, Quarantine
<1>2. damages' \in 0..limits.damages /\ damages' # 0
  BY <1>1, Budgeted DEF Shape, TypeOK
<1>3. CASE Damage
  <2>1. /\ ids < MaxId /\ ids' = ids + 1 /\ damaged' = damaged \cup {ids'}
        /\ file' = [file EXCEPT !["db"].id = ids']
        /\ log' \in {log, [log EXCEPT !["wal"] = ids']}
    BY <1>3 DEF Damage
  <2>2. ids \in Nat /\ ids' \in 1..TopId
    BY <2>1 DEF Shape, TypeOK
  <2>3. [file["db"] EXCEPT !.id = ids'] \in Database /\ [file["db"] EXCEPT !.id = ids'].id = ids'
    BY <2>2, Slots DEF Shape, TypeOK, Database
  <2>4. file' = [file EXCEPT !["db"] = [file["db"] EXCEPT !.id = ids']]
    BY <2>1
  <2>5. /\ file' \in [FileSlots -> Database] /\ file'["db"].id = ids'
        /\ \A s \in FileSlots \ {"db"} : file'[s] = file[s]
    BY <2>3, <2>4, Slots DEF Shape, TypeOK
  <2>6. TypeOK'
    <3>1. log' \in [LogSlots -> 0..TopId]
      BY <2>1, <2>2, Slots DEF Shape, TypeOK
    <3>2. damaged' \subseteq 1..TopId /\ owed' \subseteq 1..TopId
      BY <1>1, <2>1, <2>2 DEF Shape, TypeOK
    <3> QED
      BY <1>1, <1>2, <2>2, <2>5, <3>1, <3>2 DEF Shape, TypeOK
  <2>7. Numbered'
    <3>1. \A s \in FileSlots : file[s].id \in Int
      BY DEF Shape, TypeOK, Database
    <3>2. \A s \in FileSlots : file'[s].id <= ids'
      BY <2>1, <2>2, <2>5, <3>1 DEF Shape, Numbered
    <3>3. owed' \subseteq 1..ids' /\ ids' \notin owed'
      BY <1>1, <2>1, <2>2 DEF Shape, Numbered
    <3>4. file'["staged"].id = file["staged"].id /\ file["staged"].id # ids'
      BY <2>1, <2>2, <2>5, <3>1, Slots DEF Shape, Numbered
    <3>5. \A v \in damaged' : v <= ids' /\ v \notin owed' /\ v # file'["staged"].id
      BY <1>1, <2>1, <2>2, <3>3, <3>4 DEF Shape, TypeOK, Numbered
    <3> QED
      BY <1>2, <3>2, <3>3, <3>5 DEF Numbered
  <2>8. OnItsWay'
    BY <1>1 DEF OnItsWay, Swapping
  <2> QED
    BY <1>1, <2>6, <2>7, <2>8 DEF Shape
<1>4. CASE Quarantine
  <2>1. file' = Remove("db") /\ log' = RemoveLog("wal") /\ UNCHANGED <<damaged, ids>>
    BY <1>4 DEF Quarantine
  <2>2. Moved(file') /\ log' \in [LogSlots -> 0..TopId]
    BY <2>1, Moves, Logs, Slots DEF Shape, TypeOK
  <2>3. TypeOK'
    BY <1>1, <1>2, <2>1, <2>2 DEF Shape, TypeOK, Moved
  <2>4. Numbered'
    <3>1. \A s \in FileSlots : file'[s].id <= ids
      BY <2>2, Slots DEF Shape, TypeOK, Numbered, Moved
    <3>2. \A v \in damaged : v # 0 /\ v # file'["staged"].id
      BY <2>2, Slots DEF Shape, TypeOK, Numbered, Moved
    <3> QED
      BY <1>1, <1>2, <2>1, <3>1, <3>2 DEF Shape, Numbered
  <2>5. OnItsWay'
    BY <1>1 DEF OnItsWay, Swapping
  <2> QED
    BY <1>1, <2>1, <2>3, <2>4, <2>5 DEF Shape
<1> QED
  BY <1>3, <1>4

LEMMA ShapeInit == Init => Shape
<1> SUFFICES ASSUME Init PROVE Shape
  OBVIOUS
<1>1. limits \in Budgets
  BY DEF Init
<1>2. \A s \in FileSlots : file[s] = None
  BY DEF Init
<1>3. file \in [FileSlots -> Database] /\ log \in [LogSlots -> 0..TopId]
  BY Slots DEF Init
<1>4. TypeOK
  <2>1. /\ 0 \in 0..limits.crashes /\ 0 \in 0..limits.faults
        /\ 0 \in 0..limits.damages /\ 0 \in 0..limits.imports
    BY <1>1
  <2>2. /\ displaced = {} /\ displacedLogs = {} /\ damaged = {} /\ owed = {}
        /\ marker \in BOOLEAN
    BY DEF Init
  <2>3. /\ pc \in PCs /\ spare \in 0..TopId /\ live \in 0..TopId /\ leftLog \in 0..TopId
        /\ ids \in 0..TopId
    BY DEF Init, PCs
  <2>4. /\ crashes \in 0..limits.crashes /\ faults \in 0..limits.faults
        /\ damages \in 0..limits.damages /\ imports \in 0..limits.imports
    BY <2>1 DEF Init
  <2> QED
    BY <1>1, <1>3, <2>2, <2>3, <2>4 DEF TypeOK
<1>5. Numbered
  BY <1>2, Slots DEF Init, Numbered
<1>6. OnItsWay
  BY DEF Init, OnItsWay, Swapping
<1> QED
  BY <1>1, <1>4, <1>5, <1>6 DEF Shape

LEMMA ShapeNext == Shape /\ [Next]_vars => Shape'
<1> SUFFICES ASSUME Shape, [Next]_vars PROVE Shape'
  OBVIOUS
<1>1. CASE Launch \/ Resume \/ Apply
  BY <1>1, ShapeQuiet, ShapeLog, ShapeFiles DEF Resume, Apply, QuietStep, LogStep, FileStep
<1>2. CASE Open \/ Restore
  BY <1>2, ShapeQuiet, ShapeLog, ShapeFiles, ShapeOpen, ShapeEmpty
     DEF Open, Restore, QuietStep, LogStep, FileStep, FirstRun
<1>3. CASE User
  BY <1>3, ShapeUse, ShapeBackup, ShapeStage, ShapeMixed, ShapeEmpty, ShapeFiles, ShapeQuit
     DEF User, FileStep, StartEmpty
<1>4. CASE World
  BY <1>4, ShapeQuiet, ShapeHarm DEF World, QuietStep
<1>5. CASE UNCHANGED vars
  <2>1. UNCHANGED <<file, log, displaced, displacedLogs, marker, damaged, pc, owed, spare, live,
                    leftLog, limits, ids, crashes, damages, imports, faults>>
    BY <1>5 DEF vars, disk, ghost, budget
  <2> QED
    BY <2>1 DEF Shape, TypeOK, Numbered, OnItsWay, Exists
<1> QED
  BY <1>1, <1>2, <1>3, <1>4, <1>5 DEF Next

(***************************************************************************)
(* Where the library is.                                                   *)
(***************************************************************************)
Bounded == Shape /\ limits.faults <= 1

USE DEF Bounded

\* With a budget of one, a refusal is the last.
LEMMA LastRefusal ==
  ASSUME Bounded
  PROVE  /\ limits.faults \in {0, 1} /\ faults \in 0..limits.faults
         /\ Refused => faults' = limits.faults /\ ~NoMoreRefusals
         /\ Undisturbed => NoMoreRefusals /\ damages = 0
BY Budgeted DEF Shape, TypeOK, Refused, NoMoreRefusals, Undisturbed

LEMMA LogRefusals ==
  ASSUME Bounded, LogStep
  PROVE  faults' = faults \/ (faults < limits.faults /\ faults' = faults + 1)
<1>1. ~(faults + 2 <= limits.faults)
  BY LastRefusal
<1> QED
  BY <1>1 DEF LogStep, ResumeLog, DisplaceLog, RecoverLog, SetAsideLog, RollBackUnmarkedLog,
     DropLiveLog, RollBackSwapLog, KeepCorruptLog, DropPreviousUndoLog, MoveLogBack,
     SetAsideCorruptLog, Succeed, Refused

LEMMA SafeQuiet ==
  ASSUME Bounded, Calm, Safe, QuietStep, Calm'
  PROVE  Safe'
<1>1. /\ Kept' /\ Settled' = Settled /\ Fresh' = Fresh /\ Undisturbed' = Undisturbed
      /\ \A v : Displaced(v)' = Displaced(v)
  BY Quiet DEF Safe, Kept, Displaced, Exists, Settled, Fresh, Undisturbed
<1>2. RefusedOnce /\ (Undisturbed => NoMoreRefusals)
  BY LastRefusal DEF Safe
<1>3. RefusedOnce'
  <2>1. CASE WriteMarker \/ ClearMarker
    BY <1>2, <2>1, Quiet, LastRefusal DEF RefusedOnce, WriteMarker, ClearMarker, Goto, Succeed,
       NoMoreRefusals
  <2>2. CASE Crash
    <3>1. Undisturbed
      BY <1>1, <2>2 DEF Crash, Calm, Shape, TypeOK
    <3> QED
      BY <1>2, <2>2, <3>1, Quiet DEF RefusedOnce, Crash, Goto, NoMoreRefusals, disk
  <2>3. CASE \/ Launch \/ NothingToResume \/ NothingStaged \/ FindDeadSwap
             \/ NothingToSetAside \/ RefuseDamaged \/ RefuseMissing
    BY <1>2, <2>3, Quiet DEF RefusedOnce, Launch, NothingToResume, NothingStaged, FindDeadSwap,
       NothingToSetAside, RefuseDamaged, RefuseMissing, Goto, SwapDied, NoMoreRefusals, disk
  <2> QED
    BY <2>1, <2>2, <2>3 DEF QuietStep
<1>4. HalfSwapped => HalfSwapped' \/ WriteMarker \/ ClearMarker
  BY Quiet, <1>1 DEF HalfSwapped, Exists, QuietStep, Launch, NothingToResume, NothingStaged,
     FindDeadSwap, NothingToSetAside, RefuseDamaged, RefuseMissing, Crash, disk
<1>5. Opening /\ Undamaged /\ OnItsWay
  BY DEF Safe, Shape
<1>6. Opening'
  <2>1. CASE \/ NothingStaged \/ FindDeadSwap \/ NothingToSetAside \/ Launch
             \/ NothingToResume \/ RefuseDamaged \/ RefuseMissing
    BY <1>1, <1>4, <1>5, <2>1 DEF Opening, NothingStaged, FindDeadSwap, NothingToSetAside, Launch,
       NothingToResume, RefuseDamaged, RefuseMissing, Goto, Resting, SettledSteps, SwapDied,
       HalfSwapped, WriteMarker, ClearMarker
  <2>2. CASE WriteMarker \/ ClearMarker
    BY <1>1, <1>5, <2>2 DEF Opening, WriteMarker, ClearMarker, Goto, Resting, SettledSteps
  <2>3. CASE Crash
    <3>1. Undisturbed /\ damages = 0 /\ pc' = "off" /\ pc \in Steps /\ marker' = marker
      BY <1>1, <2>3, LastRefusal DEF Crash, Calm, Shape, TypeOK, Goto, disk
    <3>2. Settled \/ HalfSwapped
      BY <1>5, <3>1 DEF Opening, Undamaged, OnItsWay, Steps, ResumeSteps, ApplySteps,
         RestoreSteps, Resting, SettledSteps, Swapping, Settled, HalfSwapped
    <3> QED
      BY Quiet, <1>1, <3>1, <3>2 DEF Opening, Resting, SettledSteps, HalfSwapped, Exists
  <2> QED
    BY <2>1, <2>2, <2>3 DEF QuietStep
<1>7. Undamaged'
  <2>1. CASE NothingStaged \/ FindDeadSwap \/ NothingToSetAside \/ Launch \/ NothingToResume
    BY <1>1, <1>2, <1>4, <1>5, <2>1, Quiet, Slots DEF Undamaged, NothingStaged, FindDeadSwap,
       NothingToSetAside, Launch, NothingToResume, Goto, Resting, SettledSteps, SwapDied,
       HalfSwapped, WriteMarker, ClearMarker, Exists, Fresh, NoMoreRefusals
  <2>2. CASE RefuseDamaged \/ RefuseMissing
    BY <1>5, <2>2, Quiet, Slots DEF Undamaged, RefuseDamaged, RefuseMissing, SettledSteps, Fresh,
       Exists, Shape, Numbered
  <2>3. CASE WriteMarker \/ ClearMarker
    BY <1>1, <1>5, <2>3, Quiet DEF Undamaged, OnItsWay, WriteMarker, ClearMarker, Goto, Resting,
       SettledSteps, Exists
  <2>4. CASE Crash
    <3>1. Undisturbed /\ damages = 0 /\ pc' = "off" /\ pc \in Steps /\ marker' = marker
      BY <1>1, <2>4, LastRefusal DEF Crash, Calm, Shape, TypeOK, Goto, disk
    <3>2. Exists("db") \/ Fresh \/ HalfSwapped
      BY <1>5, <3>1 DEF Undamaged, OnItsWay, Steps, ResumeSteps, ApplySteps,
         RestoreSteps, Resting, SettledSteps, Swapping, HalfSwapped
    <3> QED
      BY Quiet, <1>1, <1>5, <3>1, <3>2 DEF Undamaged, Resting, SettledSteps, HalfSwapped, Exists
  <2> QED
    BY <2>1, <2>2, <2>3, <2>4 DEF QuietStep
<1> QED
  BY <1>1, <1>3, <1>6, <1>7 DEF Safe

LEMMA SafeLog ==
  ASSUME Bounded, Safe, LogStep
  PROVE  Safe'
<1>1. /\ Kept' /\ Settled' = Settled /\ Fresh' = Fresh /\ Undisturbed' = Undisturbed
      /\ HalfSwapped' = HalfSwapped /\ \A v : Displaced(v)' = Displaced(v)
  BY LogOnly DEF Safe, Kept, Displaced, Exists, Settled, Fresh, Undisturbed, HalfSwapped
<1>2. /\ NoMoreRefusals => NoMoreRefusals' /\ ~Refused
      /\ Refused => NoMoreRefusals'
      /\ ~(faults + 2 <= limits.faults)
  <2>1. faults' = faults \/ (faults < limits.faults /\ faults' = faults + 1)
    BY LogRefusals
  <2> QED
    BY <2>1, LogOnly, LastRefusal DEF NoMoreRefusals, Refused
<1>3. OnItsWay /\ RefusedOnce /\ Opening /\ Undamaged
  BY DEF Shape, Safe
<1>4. CASE ResumeLog \/ KeepCorruptLog
  <2>1. \/ pc = "resume" /\ pc' \in {"resume", "apply"}
        \/ pc = "keepLog" /\ pc' = "restoreSwap"
    BY <1>2, <1>4 DEF ResumeLog, KeepCorruptLog, SetAsideCorruptLog, Goto
  <2>2. RefusedOnce' /\ Opening'
    BY <1>1, <1>2, <1>3, <2>1, LogOnly DEF RefusedOnce, Opening, Resting, SettledSteps
  <2>3. Undamaged'
    BY <1>1, <1>3, <2>1, LogOnly DEF Undamaged, Resting, SettledSteps, Exists
  <2> QED
    BY <1>1, <2>2, <2>3 DEF Safe
<1>5. CASE DisplaceLog \/ RecoverLog \/ RollBackUnmarkedLog \/ RollBackSwapLog
  <2>1. \/ pc = "displaceLog" /\ pc' \in {"dropLogs", "recover"}
        \/ pc \in {"recoverLog", "rollbackLog"} /\ pc' = "clearMarker"
        \/ pc = "unasideLog" /\ pc' = "open"
    BY <1>2, <1>3, <1>5 DEF DisplaceLog, RecoverLog, RollBackUnmarkedLog, RollBackSwapLog,
       MoveLogBack, AfterDisplace, Goto, RefusedOnce
  <2>2. RefusedOnce' /\ Opening'
    BY <1>1, <1>2, <1>3, <2>1, LogOnly DEF RefusedOnce, Opening, Resting, SettledSteps
  <2>3. Undamaged'
    BY <1>1, <1>2, <1>3, <2>1, LogOnly DEF Undamaged, Resting, SettledSteps, Exists, OnItsWay,
       RefusedOnce
  <2> QED
    BY <1>1, <2>2, <2>3 DEF Safe
<1>6. CASE SetAsideLog \/ DropLiveLog \/ DropPreviousUndoLog
  <2>1. \/ pc = "dropUndoLog" /\ pc' = "aside"
        \/ pc = "asideLog" /\ pc' = "marker"
        \/ pc = "asideLog" /\ pc' = "unasideNoLog" /\ NoMoreRefusals'
        \/ pc = "dropLogs" /\ pc' = "swap"
    BY <1>2, <1>6 DEF SetAsideLog, DropLiveLog, DropPreviousUndoLog, Goto
  <2>2. RefusedOnce' /\ Opening'
    BY <1>1, <1>2, <1>3, <2>1, LogOnly DEF RefusedOnce, Opening, Resting, SettledSteps
  <2>3. Undamaged'
    BY <1>1, <1>2, <1>3, <2>1, LogOnly DEF Undamaged, Resting, SettledSteps, Exists
  <2> QED
    BY <1>1, <2>2, <2>3 DEF Safe
<1> QED
  BY <1>4, <1>5, <1>6 DEF LogStep

\* What a step that moves files has to show of the others.
LEMMA AlsoSafe ==
  ASSUME Bounded, Safe, FileStep
  PROVE  /\ RefusedOnce /\ Opening /\ Undamaged /\ OnItsWay /\ Kept
         /\ file \in [FileSlots -> Database] /\ Undisturbed' = Undisturbed
         /\ Undisturbed => NoMoreRefusals /\ damages = 0
         /\ NoMoreRefusals => NoMoreRefusals' /\ ~Refused
         /\ Refused => NoMoreRefusals'
         /\ UNCHANGED <<marker, damages, limits, damaged>>
         /\ damages = 0 => damaged = {}
<1>1. faults' = faults \/ (faults < limits.faults /\ faults' = faults + 1)
  BY FileOnly
<1>2. UNCHANGED <<marker, damages, limits, damaged>>
  BY FileOnly
<1> QED
  BY <1>1, <1>2, LastRefusal DEF NoMoreRefusals, Refused, Shape, TypeOK, Safe, Undisturbed,
     Numbered

LEMMA SafeResume ==
  ASSUME Bounded, Safe, ResumeRestore
  PROVE  Safe'
<1>1. /\ pc = "resume" /\ pc' = "apply" /\ ~Exists("db") /\ Exists("restoreTmp")
      /\ UNCHANGED <<displaced, owed, spare, live>>
      /\ file' = file \/ file' = Rename("restoreTmp", "db")
  BY DEF ResumeRestore, Goto, ghost
<1>2. damages # 0 /\ damages' # 0 /\ FileStep
  BY <1>1, AlsoSafe DEF Undamaged, FileStep
<1>3. live \notin owed \/ Displaced(live)
  BY <1>1, <1>2, AlsoSafe DEF Opening, Settled, Resting, HalfSwapped
<1>4. Kept' /\ Opening'
  BY <1>1, <1>2, <1>3, AlsoSafe DEF Kept, Opening, Settled, Displaced, Resting, SettledSteps
<1>5. RefusedOnce'
  BY <1>1, <1>2, AlsoSafe DEF RefusedOnce
<1>6. Undamaged'
  BY <1>2 DEF Undamaged
<1> QED
  BY <1>4, <1>5, <1>6 DEF Safe

LEMMA SafeDropUndo ==
  ASSUME Bounded, Safe, DropPreviousUndo
  PROVE  Safe'
<1>1. /\ pc = "apply" /\ pc' = "dropUndoLog" /\ Exists("db") /\ spare' = 0
      /\ UNCHANGED <<displaced, owed, live>> /\ file' \in {file, Remove("preImport")}
      /\ FileStep
  BY DEF DropPreviousUndo, Goto, FileStep
<1>2. file'["db"] = file["db"] /\ file'["restoreTmp"] = file["restoreTmp"]
  BY <1>1, AlsoSafe, Removed, Slots
<1>3. Kept' /\ Opening'
  BY <1>1, <1>2, AlsoSafe DEF Kept, Opening, Displaced, Resting, SettledSteps, Exists
<1>4. RefusedOnce'
  BY <1>1, AlsoSafe DEF RefusedOnce
<1>5. Undamaged'
  BY <1>1, <1>2, AlsoSafe DEF Undamaged, Resting, SettledSteps, Exists
<1> QED
  BY <1>3, <1>4, <1>5 DEF Safe

LEMMA SafeDisplace ==
  ASSUME Bounded, Safe, DisplaceDatabase
  PROVE  Safe'
<1>1. /\ pc = "displace" /\ pc' = "displaceLog" /\ UNCHANGED <<owed, live, spare>>
      /\ \/ ~Exists("db") /\ UNCHANGED <<file, displaced>>
         \/ displaced' = displaced \cup {file["db"]} /\ file' = Remove("db") /\ Exists("db")
      /\ FileStep
  BY AlsoSafe DEF DisplaceDatabase, Goto, FileStep, RefusedOnce, ghost
<1>2. \A s \in FileSlots : file'[s] = file[s] \/ (s = "db" /\ file'[s].id = 0)
  BY <1>1, AlsoSafe, Removed, Slots
<1>3. \A v : Displaced(v) => Displaced(v)'
  BY <1>1 DEF Displaced
<1>4. file'["db"].id = 0 /\ (Exists("db") => \E d \in displaced' : d.id = file["db"].id)
  <2>1. file'["db"].id = 0
    BY <1>1, AlsoSafe, Removed, Slots DEF Exists
  <2>2. Exists("db") => file["db"] \in displaced'
    BY <1>1
  <2> QED
    BY <2>1, <2>2
<1>5. file'["preImport"] = file["preImport"] /\ file'["restoreTmp"] = file["restoreTmp"]
  BY <1>2, Slots
<1>6. Kept'
  BY <1>1, <1>3, <1>4, <1>5, AlsoSafe DEF Kept, Exists, Displaced
<1>7. RefusedOnce' /\ Opening'
  BY <1>1, AlsoSafe DEF RefusedOnce, Opening, Resting, SettledSteps
<1>8. Undamaged'
  BY <1>1, <1>3, <1>5, AlsoSafe DEF Undamaged, Resting, SettledSteps, Exists
<1> QED
  BY <1>6, <1>7, <1>8 DEF Safe

\* Putting the undo copy back: the recovery of a dead swap and the rollbacks.
LEMMA SafePutBack ==
  ASSUME Bounded, Safe,
         RecoverStranded \/ RollBackUnmovedLog \/ RollBackUnmarked \/ RollBackSwap
  PROVE  Safe'
<1>0. FileStep
  BY DEF FileStep
<1>1. /\ ~Exists("db") /\ NoMoreRefusals /\ NoMoreRefusals' /\ ~Refused
      /\ UNCHANGED <<displaced, owed, live>>
  BY <1>0, AlsoSafe DEF RecoverStranded, RollBackUnmovedLog, RollBackUnmarked, RollBackSwap,
     PutBack, RefusedOnce, OnItsWay, Swapping, ghost
<1>2. CASE file' = Rename("preImport", "db") /\ Exists("preImport")
  <2>1. /\ file'["db"] = file["preImport"] /\ file'["preImport"].id = 0
        /\ file'["restoreTmp"] = file["restoreTmp"]
    BY <1>2, <1>0, AlsoSafe, Renamed, Slots
  <2>2. Kept' /\ Settled'
    BY <1>1, <1>2, <2>1, <1>0, AlsoSafe DEF Kept, Settled, Exists, Displaced
  <2>3. pc' \in {"recoverLog", "open", "unasideLog", "rollbackLog"}
    BY <1>1 DEF RecoverStranded, RollBackUnmovedLog, RollBackUnmarked, RollBackSwap, PutBack, Goto
  <2>4. damages = 0 => spare' = 0
    BY <1>0, <1>1, AlsoSafe DEF RecoverStranded, RollBackUnmovedLog, RollBackUnmarked,
       RollBackSwap, PutBack, ghost, Undamaged
  <2>5. RefusedOnce' /\ Opening'
    BY <1>1, <2>2, <2>3 DEF RefusedOnce, Opening, Resting, SettledSteps
  <2>6. Undamaged'
    BY <1>0, <1>2, <2>1, <2>3, <2>4, AlsoSafe DEF Undamaged, Resting, SettledSteps, Exists
  <2> QED
    BY <2>2, <2>5, <2>6 DEF Safe
<1>3. CASE ~(file' = Rename("preImport", "db") /\ Exists("preImport"))
  <2>1. /\ RollBackSwap /\ ~Exists("preImport") /\ pc' = "open" /\ UNCHANGED <<file, spare>>
        /\ pc = "rollback"
    BY <1>0, <1>1, <1>3, AlsoSafe DEF RecoverStranded, RollBackUnmovedLog, RollBackUnmarked,
       RollBackSwap, PutBack, Goto, OnItsWay, ghost
  <2>2. live \notin owed \/ Displaced(live)
    BY <1>1, <2>1, <1>0, AlsoSafe DEF Kept, Exists, Shape, TypeOK
  <2>3. Kept' /\ Opening'
    BY <1>1, <2>1, <2>2, <1>0, AlsoSafe DEF Kept, Opening, Settled, Exists, Displaced, Resting,
       SettledSteps
  <2>4. damages # 0
    BY <2>1, <1>0, AlsoSafe DEF Undamaged
  <2>5. RefusedOnce' /\ Undamaged'
    BY <1>0, <1>1, <2>1, <2>4, AlsoSafe DEF RefusedOnce, Undamaged
  <2> QED
    BY <2>3, <2>5 DEF Safe
<1> QED
  BY <1>2, <1>3

LEMMA SafeSetAside ==
  ASSUME Bounded, Safe, SetAside
  PROVE  Safe'
<1>1. /\ pc = "aside" /\ UNCHANGED <<displaced, owed, spare, live>> /\ FileStep
      /\ Exists("db")
  BY AlsoSafe DEF SetAside, FileStep, ghost, OnItsWay
<1>2. CASE file' = Rename("db", "preImport") /\ pc' = "asideLog" /\ faults' = faults
  <2>1. /\ file'["db"].id = 0 /\ file'["preImport"] = file["db"]
        /\ file'["restoreTmp"] = file["restoreTmp"]
    BY <1>1, <1>2, AlsoSafe, Renamed, Slots
  <2>2. Kept'
    BY <1>1, <2>1, AlsoSafe DEF Kept, Exists, Displaced
  <2>3. RefusedOnce' /\ Opening'
    BY <1>1, <1>2, AlsoSafe DEF RefusedOnce, Opening, Resting, SettledSteps, NoMoreRefusals
  <2>4. Undamaged'
    BY <1>1, <1>2, <2>1, AlsoSafe DEF Undamaged, Resting, SettledSteps, Exists
  <2> QED
    BY <2>2, <2>3, <2>4 DEF Safe
<1>3. CASE file' = file /\ pc' = "open" /\ Refused
  <2>1. Kept' /\ Opening'
    BY <1>1, <1>3, AlsoSafe DEF Kept, Opening, Settled, Exists, Displaced, Resting
  <2>2. RefusedOnce' /\ Undamaged'
    BY <1>1, <1>3, AlsoSafe DEF RefusedOnce, Undamaged, Resting, SettledSteps, Exists, Displaced
  <2> QED
    BY <2>1, <2>2 DEF Safe
<1> QED
  BY <1>2, <1>3 DEF SetAside, Goto, Succeed

LEMMA SafeSwapIn ==
  ASSUME Bounded, Safe, SwapIn
  PROVE  Safe'
<1>1. pc = "swap" /\ UNCHANGED displaced /\ FileStep /\ ~Exists("db") /\ Exists("staged")
  BY AlsoSafe DEF SwapIn, FileStep, OnItsWay, Swapping
<1>2. CASE /\ file' = Rename("staged", "db") /\ pc' = "clearMarker" /\ faults' = faults
           /\ spare' = IF live \in owed THEN live ELSE 0
           /\ owed' = (owed \ {live}) \cup {file["staged"].id}
           /\ live' = file["staged"].id
  <2>1. /\ file'["db"] = file["staged"] /\ file'["preImport"] = file["preImport"]
        /\ file'["restoreTmp"] = file["restoreTmp"]
    BY <1>1, <1>2, AlsoSafe, Renamed, Slots
  <2>2. Kept'
    BY <1>1, <1>2, <2>1, AlsoSafe DEF Kept, Exists, Displaced
  <2>3. RefusedOnce' /\ Opening'
    BY <1>1, <1>2, <2>1, AlsoSafe DEF RefusedOnce, Opening, Settled, Exists, Resting,
       SettledSteps,
       NoMoreRefusals
  <2>4. live \in owed => Displaced(live) \/ live = file["preImport"].id
    BY <1>1, AlsoSafe DEF Kept
  <2>5. Undamaged'
    BY <1>1, <1>2, <2>1, <2>4, AlsoSafe DEF Undamaged, Resting, SettledSteps, Exists, Displaced
  <2> QED
    BY <2>2, <2>3, <2>5 DEF Safe
<1>3. CASE file' = file /\ pc' = "rollback" /\ Refused /\ UNCHANGED <<owed, spare, live>>
  <2>1. Kept' /\ Opening'
    BY <1>1, <1>3, AlsoSafe DEF Kept, Opening, Exists, Displaced, Resting, SettledSteps
  <2>2. RefusedOnce' /\ Undamaged'
    BY <1>1, <1>3, AlsoSafe DEF RefusedOnce, Undamaged, Resting, SettledSteps, Exists, Displaced
  <2> QED
    BY <2>1, <2>2 DEF Safe
<1> QED
  BY <1>2, <1>3 DEF SwapIn, Goto, Succeed, ghost

\* The restore: it starts from a refused database, damaged or missing.
LEMMA SafeRestore ==
  ASSUME Bounded, Safe,
         \/ CopySnapshot \/ StageSnapshot \/ ClearScratch \/ EvictCorrupt \/ RotateCorrupt
         \/ PromoteCorrupt \/ SwapInSnapshot
  PROVE  Safe'
<1>1. /\ pc \in {"recovery", "stage", "evict", "evictDb", "rotate", "promote", "restoreSwap"}
      /\ pc' \in {"recovery", "stage", "evict", "evictDb", "rotate", "promote", "keepLog", "open"}
      /\ UNCHANGED <<displaced, owed, spare, live>> /\ FileStep
  BY DEF CopySnapshot, StageSnapshot, ClearScratch, EvictCorrupt, RotateCorrupt, PromoteCorrupt,
     SwapInSnapshot, FileStep, Goto, ghost
<1>2. damages # 0 /\ damages' # 0 /\ ~Undisturbed
  BY <1>1, AlsoSafe DEF Undamaged
<1>3. file'["preImport"] = file["preImport"]
  <2>1. CASE CopySnapshot \/ ClearScratch \/ EvictCorrupt \/ RotateCorrupt \/ PromoteCorrupt
    BY <1>1, <2>1, AlsoSafe, Renamed, Removed, Slots DEF CopySnapshot, ClearScratch,
       EvictCorrupt, RotateCorrupt, PromoteCorrupt
  <2>2. CASE StageSnapshot \/ SwapInSnapshot
    BY <1>1, <2>2, AlsoSafe, Renamed, Slots DEF StageSnapshot, SwapInSnapshot
  <2> QED
    BY <2>1, <2>2
<1>4. live \in owed => Displaced(live)
  <2>1. ~Exists("db") \/ file["db"].id \in damaged
    BY <1>1, AlsoSafe DEF OnItsWay
  <2>2. Settled
    BY <1>1, AlsoSafe DEF Opening, SettledSteps
  <2> QED
    BY <2>1, <2>2, AlsoSafe, <1>1 DEF Kept, Settled, Shape, Numbered
<1>5. Kept' /\ Opening'
  BY <1>1, <1>4, AlsoSafe DEF Kept, Opening, Settled, Displaced, Resting
<1>6. RefusedOnce'
  BY <1>1, AlsoSafe DEF RefusedOnce
<1>7. Undamaged'
  BY <1>2 DEF Undamaged
<1> QED
  BY <1>5, <1>6, <1>7 DEF Safe

LEMMA SafeOpen ==
  ASSUME Bounded, Safe, OpenDatabase
  PROVE  Safe'
<1>1. /\ UNCHANGED <<file, displaced, marker, spare, limits, faults, damages>>
      /\ pc = "open" /\ pc' = "session" /\ live' = file["db"].id
      /\ owed' = owed \cup {file["db"].id} /\ Exists("db")
  BY DEF OpenDatabase, disk, budget, Goto
<1>2. Kept' /\ Opening'
  BY <1>1 DEF Safe, Kept, Opening, Settled, Exists, Displaced, Resting
<1>3. RefusedOnce' /\ Undamaged'
  BY <1>1 DEF Safe, RefusedOnce, NoMoreRefusals, Undamaged, Resting, SettledSteps, Exists,
     Displaced
<1> QED
  BY <1>2, <1>3 DEF Safe

\* An empty library is only made where none is owed.
LEMMA SafeEmpty ==
  ASSUME Bounded, Safe, FirstRun \/ StartEmpty
  PROVE  Safe'
<1>1. /\ UNCHANGED <<displaced, marker, spare, limits, faults, damages>>
      /\ ids' = ids + 1 /\ live' = ids' /\ owed' = owed \cup {ids'}
      /\ pc \in {"open", "recovery"} /\ pc' = "session" /\ ~Exists("db")
      /\ file' = [file EXCEPT !["db"] = [id |-> ids', whole |-> TRUE], !["bak"] = None]
  BY DEF FirstRun, StartEmpty, CreateEmpty, Goto
<1>2. /\ file'["db"].id = ids' /\ file'["preImport"] = file["preImport"] /\ ids' # 0
      /\ file'["restoreTmp"] = file["restoreTmp"]
  BY <1>1, Slots DEF Shape, TypeOK
<1>3. live \notin owed \/ Displaced(live)
  BY <1>1 DEF Safe, Opening, Settled, SettledSteps
<1>4. Kept' /\ Opening'
  BY <1>1, <1>2, <1>3 DEF Safe, Kept, Opening, Settled, Exists, Displaced, Resting
<1>5. RefusedOnce' /\ Undamaged'
  BY <1>1, <1>2 DEF Safe, RefusedOnce, NoMoreRefusals, Undamaged, Resting, SettledSteps, Exists,
     Displaced
<1> QED
  BY <1>4, <1>5 DEF Safe

LEMMA SafeUse ==
  ASSUME Bounded, Safe, Use
  PROVE  Safe'
<1>1. /\ UNCHANGED <<displaced, marker, spare, limits, faults, damages, pc>>
      /\ ids' = ids + 1 /\ live' = ids' /\ owed' = (owed \ {live}) \cup {ids'} /\ pc = "session"
      /\ file' = [file EXCEPT !["db"] = [id |-> ids', whole |-> FALSE]]
  BY DEF Use
<1>2. /\ file'["db"].id = ids' /\ file'["preImport"] = file["preImport"] /\ ids' # 0
      /\ file'["restoreTmp"] = file["restoreTmp"]
  BY <1>1, Slots DEF Shape, TypeOK
<1>3. Kept' /\ Opening'
  BY <1>1, <1>2 DEF Safe, Kept, Opening, Settled, Exists, Displaced, Resting
<1>4. RefusedOnce' /\ Undamaged'
  BY <1>1, <1>2 DEF Safe, RefusedOnce, NoMoreRefusals, Undamaged, Resting, SettledSteps, Exists,
     Displaced
<1> QED
  BY <1>3, <1>4 DEF Safe

\* Copies are made beside what is there: the database stays where it is.
LEMMA SafeBeside ==
  ASSUME Bounded, Safe, UNCHANGED <<displaced, marker, damages, limits, owed, spare, live>>,
         faults' = faults \/ (faults < limits.faults /\ faults' = faults + 1),
         pc \in {"session", "recovery"}, pc' \in {pc, "off"},
         \A s \in {"db", "preImport", "restoreTmp"} : file'[s].id = file[s].id
  PROVE  Safe'
<1>1. NoMoreRefusals => NoMoreRefusals'
  BY LastRefusal DEF NoMoreRefusals
<1>2. Kept' /\ Opening'
  BY DEF Safe, Kept, Opening, Settled, Exists, Displaced, Resting, SettledSteps
<1>3. RefusedOnce'
  BY <1>1 DEF Safe, RefusedOnce
<1>4. pc = "session" => Exists("db")
  BY DEF Shape, OnItsWay
<1>5. Undamaged'
  BY <1>4 DEF Safe, Undamaged, Resting, SettledSteps, Exists, Displaced
<1> QED
  BY <1>2, <1>3, <1>5 DEF Safe

LEMMA SafeSession ==
  ASSUME Bounded, Safe, Backup \/ StageImport \/ StageUndo \/ \E fold \in BOOLEAN : Quit(fold)
  PROVE  Safe'
<1>1. /\ UNCHANGED <<displaced, marker, damages, limits, owed, spare, live>>
      /\ faults' = faults \/ (faults < limits.faults /\ faults' = faults + 1)
      /\ pc \in {"session", "recovery"} /\ pc' \in {pc, "off"}
  BY DEF Backup, StageImport, StageUndo, UndoCanBeStaged, Quit, ghost, budget, Succeed, Refused,
     Goto
<1>2. \A s \in {"db", "preImport", "restoreTmp"} : file'[s].id = file[s].id
  <2>1. CASE Backup
    BY <2>1, Slots DEF Backup, Shape, TypeOK
  <2>2. CASE StageImport \/ StageUndo
    BY <2>2, ImportStaged, UndoStaged, Slots DEF Staged
  <2>3. CASE \E fold \in BOOLEAN : Quit(fold)
    BY <2>3, Folding, Slots DEF Quit, Shape, TypeOK
  <2> QED
    BY <2>1, <2>2, <2>3
<1> QED
  BY <1>1, <1>2, SafeBeside

\* A copy that another log spoilt was nobody's only one.
LEMMA SafeMixed ==
  ASSUME Bounded, Safe, StageMixedUndo
  PROVE  Safe'
<1>1. /\ UNCHANGED <<displaced, marker, damages, limits, owed, live, pc>>
      /\ faults' = faults \/ (faults < limits.faults /\ faults' = faults + 1)
      /\ pc \in {"session", "recovery"} /\ Exists("preImport")
      /\ spare' = IF spare = file["preImport"].id THEN 0 ELSE spare
  BY DEF StageMixedUndo, UndoCanBeStaged, Succeed, Refused
<1>2. file'["db"] = file["db"] /\ file'["restoreTmp"] = file["restoreTmp"]
  BY MixedStaged, Slots
<1>3. NoMoreRefusals => NoMoreRefusals'
  BY <1>1, LastRefusal DEF NoMoreRefusals
<1>4. Kept'
  <2>1. Settled
    BY <1>1 DEF Safe, Opening, SettledSteps
  <2> QED
    BY <1>1, <1>2, <2>1 DEF Safe, Kept, Settled, Exists, Displaced
<1>5. RefusedOnce' /\ Opening'
  BY <1>1, <1>2, <1>3 DEF Safe, RefusedOnce, Opening, Settled, Exists, Displaced, Resting,
     SettledSteps
<1>6. pc = "session" => Exists("db")
  BY DEF Shape, OnItsWay
<1>7. Undamaged'
  BY <1>1, <1>2, <1>6 DEF Safe, Undamaged, Resting, SettledSteps, Exists, Displaced
<1> QED
  BY <1>4, <1>5, <1>7 DEF Safe

LEMMA SafeHarm ==
  ASSUME Bounded, Safe, Damage \/ Quarantine
  PROVE  Safe'
<1>1. /\ UNCHANGED <<displaced, marker, pc, spare, live, leftLog, limits, faults>>
      /\ pc = "off" /\ damages < limits.damages /\ damages' = damages + 1
      /\ owed' = owed \ {file["db"].id} /\ Exists("db")
  BY DEF Damage, Quarantine
<1>2. damages' # 0 /\ ~Undisturbed
  BY <1>1, LastRefusal DEF Shape, TypeOK, Undisturbed
<1>3. live \in owed' => Displaced(live)
  BY <1>1 DEF Safe, Kept
<1>4. Kept' /\ Opening'
  BY <1>1, <1>3 DEF Safe, Kept, Opening, Settled, Displaced, Resting, SettledSteps
<1>5. RefusedOnce' /\ Undamaged'
  BY <1>1, <1>2 DEF Safe, RefusedOnce, NoMoreRefusals, Undamaged
<1> QED
  BY <1>4, <1>5 DEF Safe

SafeInv == Bounded /\ (Calm => Safe)

LEMMA SafeInit == OneRefusal /\ Init => SafeInv
<1> SUFFICES ASSUME OneRefusal, Init PROVE SafeInv
  OBVIOUS
<1>1. /\ owed = {} /\ pc = "off" /\ marker = FALSE /\ live = 0 /\ spare = 0
      /\ \A s \in FileSlots : file[s] = None
  BY DEF Init
<1>2. Fresh
  BY <1>1, Slots DEF Fresh, Exists
<1>3. Kept /\ RefusedOnce /\ Opening
  BY <1>1 DEF Kept, RefusedOnce, Opening, Settled, SettledSteps
<1>4. Undamaged
  BY <1>1, <1>2, Slots DEF Undamaged, Fresh, SettledSteps
<1>5. limits.faults <= 1
  BY DEF Init, OneRefusal
<1> QED
  BY <1>3, <1>4, <1>5, ShapeInit DEF SafeInv, Safe

LEMMA LimitsStay ==
  ASSUME [Next]_vars
  PROVE  limits' = limits /\ crashes' \in {crashes, crashes + 1}
<1>1. CASE Next
  <2>1. CASE QuietStep
    BY <2>1, Quiet DEF QuietStep, Launch, NothingToResume, NothingStaged, FindDeadSwap,
       NothingToSetAside, WriteMarker, ClearMarker, RefuseDamaged, RefuseMissing, Crash, budget
  <2>2. CASE LogStep \/ FileStep
    BY <2>2, LogOnly, FileOnly
  <2>3. CASE ~(QuietStep \/ LogStep \/ FileStep)
    BY <1>1, <2>3 DEF Next, Resume, Apply, Open, User, Restore, World, QuietStep, LogStep,
       FileStep,
       OpenDatabase, FirstRun, StartEmpty, CreateEmpty, Use, Backup, StageImport, StageUndo,
       StageMixedUndo, Quit, Damage, Quarantine, budget
  <2> QED
    BY <2>1, <2>2, <2>3
<1>2. CASE UNCHANGED vars
  BY <1>2 DEF vars, budget
<1> QED
  BY <1>1, <1>2

LEMMA SafeNext == SafeInv /\ [Next]_vars => SafeInv'
<1> SUFFICES ASSUME SafeInv, [Next]_vars, Calm' PROVE Safe'
  BY ShapeNext, LimitsStay DEF SafeInv
<1>1. Bounded
  BY DEF SafeInv
<1>2. Calm
  BY <1>1, LimitsStay DEF Calm, Undisturbed, Shape, TypeOK
<1>3. Safe
  BY <1>2 DEF SafeInv
<1>4. CASE Launch \/ Resume
  BY <1>1, <1>2, <1>3, <1>4, SafeQuiet, SafeLog, SafeResume DEF Resume, QuietStep, LogStep
<1>5. CASE Apply
  BY <1>1, <1>2, <1>3, <1>5, SafeQuiet, SafeLog, SafeDropUndo, SafeDisplace, SafePutBack,
     SafeSetAside, SafeSwapIn DEF Apply, QuietStep, LogStep
<1>6. CASE Open \/ Restore
  BY <1>1, <1>2, <1>3, <1>6, SafeQuiet, SafeLog, SafeOpen, SafeEmpty, SafeRestore
     DEF Open, Restore, QuietStep, LogStep
<1>7. CASE User
  BY <1>1, <1>3, <1>7, SafeUse, SafeSession, SafeMixed, SafeEmpty, SafeRestore DEF User
<1>8. CASE World
  BY <1>1, <1>2, <1>3, <1>8, SafeQuiet, SafeHarm DEF World, QuietStep
<1>9. CASE UNCHANGED vars
  <2>1. UNCHANGED <<file, log, displaced, displacedLogs, marker, damaged, pc, owed, spare, live,
                    limits, ids, crashes, damages, imports, faults>>
    BY <1>9 DEF vars, disk, ghost, budget
  <2>2. Kept' /\ RefusedOnce' /\ Opening'
    BY <1>3, <2>1 DEF Safe, Kept, RefusedOnce, Opening, Settled, HalfSwapped, Undisturbed,
       NoMoreRefusals,
       Exists, Displaced
  <2>3. Undamaged'
    BY <1>3, <2>1 DEF Safe, Undamaged, HalfSwapped, Undisturbed, NoMoreRefusals, Fresh, Exists,
       Displaced
  <2> QED
    BY <2>2, <2>3 DEF Safe
<1> QED
  BY <1>4, <1>5, <1>6, <1>7, <1>8, <1>9 DEF Next

(***************************************************************************)
(* Where the logs are.                                                     *)
(***************************************************************************)
\* The log in slot l, if any, is of the database in slot s, and is there when
\* that database needs it.
Own(s, l) ==
  /\ log[l] \in {0, file[s].id}
  /\ file[s].whole \/ log[l] = file[s].id

\* Between two renames a database lies under one name and its log under
\* another; otherwise each has its own beside it.
FirstMoved == {"asideLog", "unasideNoLog"}
BackFirst  == {"recoverLog", "unasideLog", "rollbackLog"}
LeftBehind == {"displaceLog", "rotate", "promote", "keepLog"}

Dropping   == {"dropUndoLog", "aside"}

\* Steps that only a refused call, or a launch cut short, leads to, and those
\* a swap takes under its marker.
Returning == {"displace", "displaceLog", "recover", "recoverLog", "unasideNoLog", "unaside",
              "unasideLog", "rollback", "rollbackLog"}
Marked == {"dropLogs", "swap", "clearMarker"}

\* The refusal that leaves the previous undo copy, or its log, behind is the
\* only one: what follows goes through, and leaves no marker.
LeftOnce ==
  /\ leftLog # 0 => /\ NoMoreRefusals /\ pc \notin Returning
                    /\ marker => pc \in Marked
  /\ pc \in Dropping /\ Exists("preImport") => NoMoreRefusals

\* The undo copy has its own log beside it, or the one that was left behind.
OwnUndo ==
  /\ log["preWal"] \in {0, file["preImport"].id, leftLog}
  /\ file["preImport"].whole \/ log["preWal"] = file["preImport"].id

LogsBeside ==
  /\ \A s \in {"staged", "bak", "restorePartial", "restoreTmp"} : file[s].whole
  /\ pc = "aside" => log["preWal"] \in {0, leftLog}
  /\ pc \in FirstMoved => Own("preImport", "wal") /\ log["preWal"] \in {0, leftLog}
  /\ pc \in BackFirst => Own("db", "preWal") /\ log["wal"] = 0 /\ ~Exists("preImport")
  /\ pc \notin FirstMoved \cup BackFirst \cup Dropping => OwnUndo
  /\ pc \notin FirstMoved \cup BackFirst \cup LeftBehind => Own("db", "wal")

LEMMA Beside ==
  ASSUME SafeInv, crashes = 0
  PROVE  /\ RefusedOnce /\ OnItsWay /\ (NoMoreRefusals => ~Refused)
         /\ ~(faults + 2 <= limits.faults)
         /\ file \in [FileSlots -> Database] /\ log \in [LogSlots -> 0..TopId]
BY LastRefusal DEF SafeInv, Calm, Safe, Shape, TypeOK

\* A budget spent stays spent.
LEMMA SpentStays ==
  ASSUME Bounded, limits' = limits,
         faults' = faults \/ (faults < limits.faults /\ faults' = faults + 1)
  PROVE  /\ NoMoreRefusals => NoMoreRefusals' /\ ~Refused
         /\ Refused => NoMoreRefusals'
BY LastRefusal DEF NoMoreRefusals, Refused

LEMMA LeftQuiet ==
  ASSUME SafeInv, crashes = 0, LeftOnce, QuietStep, crashes' = 0
  PROVE  LeftOnce'
<1>1. ~Crash
  BY DEF Crash
<1>2. /\ UNCHANGED <<file, leftLog, limits>>
      /\ NoMoreRefusals => NoMoreRefusals' /\ ~Refused
  <2>1. faults' = faults \/ (faults < limits.faults /\ faults' = faults + 1)
    BY DEF QuietStep, Launch, NothingToResume, NothingStaged, FindDeadSwap, NothingToSetAside,
       WriteMarker, ClearMarker, RefuseDamaged, RefuseMissing, Crash, Succeed, Refused
  <2> QED
    BY <2>1, Quiet, SpentStays DEF SafeInv
<1>3. pc' \notin Dropping
  BY <1>1 DEF QuietStep, Launch, NothingToResume, NothingStaged, FindDeadSwap, NothingToSetAside,
     WriteMarker, ClearMarker, RefuseDamaged, RefuseMissing, Goto, Dropping
<1>4. CASE WriteMarker \/ ClearMarker
  BY <1>2, <1>3, <1>4 DEF LeftOnce, WriteMarker, ClearMarker, Goto, Returning, Marked
<1>5. CASE ~(WriteMarker \/ ClearMarker)
  <2>1. /\ marker' = marker /\ pc \in {"off", "resume", "apply", "open"}
        /\ pc' \in {"resume", "apply", "open", "displace", "dropLogs", "recovery"}
        /\ pc' = "displace" => marker
    BY <1>1, <1>5 DEF QuietStep, Launch, NothingToResume, NothingStaged, FindDeadSwap,
       NothingToSetAside, RefuseDamaged, RefuseMissing, Goto, SwapDied, disk
  <2> QED
    BY <1>2, <1>3, <2>1 DEF LeftOnce, Returning, Marked
<1> QED
  BY <1>4, <1>5

LEMMA LeftLog ==
  ASSUME SafeInv, crashes = 0, LeftOnce, LogStep
  PROVE  LeftOnce'
<1>1. /\ UNCHANGED <<file, limits, marker>>
      /\ NoMoreRefusals => NoMoreRefusals' /\ ~Refused
      /\ Refused => NoMoreRefusals'
  BY LogOnly, LogRefusals, SpentStays DEF SafeInv
<1>2. CASE DropPreviousUndoLog
  <2>1. pc = "dropUndoLog" /\ pc' = "aside"
    BY <1>2 DEF DropPreviousUndoLog, Goto
  <2>2. marker => NoMoreRefusals
    BY <2>1, Beside DEF RefusedOnce
  <2>3. CASE leftLog' = leftLog
    BY <1>1, <2>1, <2>3 DEF LeftOnce, Exists, Dropping, Returning, Marked
  <2>4. CASE Refused
    BY <1>1, <2>1, <2>2, <2>4 DEF LeftOnce, Exists, Dropping, Returning, Marked
  <2> QED
    BY <1>2, <2>3, <2>4 DEF DropPreviousUndoLog
<1>3. CASE ~DropPreviousUndoLog
  <2>1. UNCHANGED leftLog
    BY <1>3 DEF LogStep, ResumeLog, DisplaceLog, RecoverLog, SetAsideLog, RollBackUnmarkedLog,
       DropLiveLog, RollBackSwapLog, KeepCorruptLog, MoveLogBack, ghost
  <2>2. CASE ResumeLog \/ KeepCorruptLog
    BY <1>1, <2>1, <2>2, Beside DEF LeftOnce, ResumeLog, KeepCorruptLog, SetAsideCorruptLog, Goto,
       Dropping, Returning, Marked
  <2>3. CASE SetAsideLog \/ DropLiveLog
    BY <1>1, <2>1, <2>3 DEF LeftOnce, SetAsideLog, DropLiveLog, Goto, Dropping, Returning, Marked
  <2>4. CASE DisplaceLog \/ RecoverLog \/ RollBackUnmarkedLog \/ RollBackSwapLog
    <3>1. pc \in Returning /\ pc' \notin Dropping
      BY <2>4 DEF DisplaceLog, RecoverLog, RollBackUnmarkedLog, RollBackSwapLog, MoveLogBack,
         AfterDisplace, Goto, Returning, Dropping
    <3> QED
      BY <2>1, <3>1 DEF LeftOnce
  <2> QED
    BY <1>3, <2>2, <2>3, <2>4 DEF LogStep
<1> QED
  BY <1>2, <1>3

LEMMA LeftFiles ==
  ASSUME SafeInv, crashes = 0, LeftOnce, FileStep
  PROVE  LeftOnce'
<1>1. /\ UNCHANGED <<limits, marker, leftLog>>
      /\ NoMoreRefusals => NoMoreRefusals' /\ ~Refused
      /\ Refused => NoMoreRefusals'
  BY FileOnly, SpentStays DEF SafeInv
<1>2. CASE DropPreviousUndo
  <2>1. /\ pc = "apply" /\ pc' = "dropUndoLog"
        /\ Refused \/ file' = Remove("preImport")
    BY <1>2 DEF DropPreviousUndo, Goto
  <2>2. Refused \/ file'["preImport"].id = 0
    BY <2>1, Beside, Removed, Slots
  <2> QED
    BY <1>1, <2>1, <2>2 DEF LeftOnce, Exists, Dropping, Returning, Marked
<1>3. CASE SetAside \/ SwapIn
  BY <1>1, <1>3 DEF LeftOnce, SetAside, SwapIn, Goto, Dropping, Returning, Marked
<1>4. CASE RecoverStranded \/ RollBackUnmovedLog \/ RollBackUnmarked \/ RollBackSwap
           \/ DisplaceDatabase
  <2>1. pc \in Returning /\ pc' \notin Dropping
    BY <1>4 DEF RecoverStranded, RollBackUnmovedLog, RollBackUnmarked, RollBackSwap, PutBack,
       DisplaceDatabase, Goto, Returning, Dropping
  <2> QED
    BY <1>1, <2>1 DEF LeftOnce
<1>5. CASE \/ ResumeRestore \/ CopySnapshot \/ StageSnapshot \/ ClearScratch \/ EvictCorrupt
           \/ RotateCorrupt \/ PromoteCorrupt \/ SwapInSnapshot
  <2>1. /\ pc \in {"resume", "recovery", "stage", "evict", "evictDb", "rotate", "promote",
                   "restoreSwap"}
        /\ pc' \in {"apply", "recovery", "stage", "evict", "evictDb", "rotate", "promote",
                    "keepLog", "open"}
    BY <1>5 DEF ResumeRestore, CopySnapshot, StageSnapshot, ClearScratch, EvictCorrupt,
       RotateCorrupt, PromoteCorrupt, SwapInSnapshot, Goto
  <2> QED
    BY <1>1, <2>1 DEF LeftOnce, Dropping, Returning, Marked
<1> QED
  BY <1>2, <1>3, <1>4, <1>5 DEF FileStep

\* The session, and what happens to a closed database.
LEMMA LeftElse ==
  ASSUME SafeInv, crashes = 0, LeftOnce,
         \/ OpenDatabase \/ FirstRun \/ StartEmpty \/ Use \/ Backup \/ StageImport \/ StageUndo
         \/ StageMixedUndo \/ (\E fold \in BOOLEAN : Quit(fold)) \/ Damage \/ Quarantine
  PROVE  LeftOnce'
<1>1. /\ pc \in {"open", "session", "recovery", "off"} /\ pc' \in {"session", "recovery", "off"}
      /\ UNCHANGED <<limits, marker, leftLog>>
      /\ faults' = faults \/ (faults < limits.faults /\ faults' = faults + 1)
  BY DEF OpenDatabase, FirstRun, StartEmpty, CreateEmpty, Use, Backup, StageImport, StageUndo,
     StageMixedUndo, UndoCanBeStaged, Quit, Damage, Quarantine, Goto, Succeed, Refused, disk,
     ghost, budget
<1>2. NoMoreRefusals => NoMoreRefusals'
  BY <1>1, SpentStays DEF SafeInv
<1> QED
  BY <1>1, <1>2 DEF LeftOnce, Dropping, Returning, Marked

LEMMA LogsQuiet ==
  ASSUME SafeInv, crashes = 0, LeftOnce, LogsBeside, QuietStep, crashes' = 0
  PROVE  LogsBeside'
<1>1. ~Crash
  BY DEF Crash
<1>2. /\ \/ pc \in {"off", "resume", "apply", "clearMarker", "open"}
            /\ pc' \in {"resume", "apply", "open", "displace", "dropLogs", "recovery"}
         \/ pc = "marker" /\ pc' \in {"dropLogs", "unaside"}
      /\ UNCHANGED <<file, log, leftLog>>
  BY <1>1, Quiet DEF QuietStep, Launch, NothingToResume, NothingStaged, FindDeadSwap,
     NothingToSetAside, WriteMarker, ClearMarker, RefuseDamaged, RefuseMissing, Goto
<1> QED
  BY <1>2 DEF LogsBeside, Own, OwnUndo, Exists,
       FirstMoved, BackFirst, LeftBehind, Dropping

LEMMA LogsLog ==
  ASSUME SafeInv, crashes = 0, LeftOnce, LogsBeside, LogStep
  PROVE  LogsBeside'
<1>1. UNCHANGED file
  BY LogOnly
<1>8. leftLog' = leftLog \/ pc = "dropUndoLog"
  BY DEF DropPreviousUndoLog, LogStep, ResumeLog, DisplaceLog, RecoverLog, SetAsideLog,
     RollBackUnmarkedLog,
     DropLiveLog, RollBackSwapLog, KeepCorruptLog, MoveLogBack, ghost
<1>2. CASE ResumeLog
  <2>1. pc = "resume" /\ ~Exists("db") /\ HasLog("wal")
    BY <1>2 DEF ResumeLog
  <2> QED
    BY <2>1 DEF LogsBeside, Own, Exists, HasLog, FirstMoved, BackFirst, LeftBehind
<1>3. CASE KeepCorruptLog
  <2>1. /\ pc = "keepLog" /\ pc' = "restoreSwap" /\ ~Exists("db")
        /\ \/ log' = RenameLog("wal", "corruptWal")
           \/ log["wal"] = 0 /\ log' = log
           \/ log' = [RemoveLog("corruptWal") EXCEPT !["wal"] = 0]
    BY <1>3, Beside DEF KeepCorruptLog, SetAsideCorruptLog, HasLog, Goto, OnItsWay
  <2>2. log'["wal"] = 0 /\ log'["preWal"] = log["preWal"]
    BY <2>1, Beside, Logs, Slots DEF RemoveLog
  <2> QED
    BY <1>1, <1>8, <2>1, <2>2 DEF LogsBeside, Own, OwnUndo, Exists,
       FirstMoved, BackFirst, LeftBehind, Dropping
<1>4. CASE DisplaceLog
  <2>1. pc = "displaceLog" /\ pc' \in {"dropLogs", "recover"} /\ ~Exists("db")
    BY <1>4, Beside DEF DisplaceLog, AfterDisplace, Goto, OnItsWay, RefusedOnce
  <2>2. log'["wal"] = 0 /\ log'["preWal"] = log["preWal"]
    BY <1>4, Beside, Logs, Slots DEF DisplaceLog, HasLog, RefusedOnce
  <2> QED
    BY <1>1, <1>8, <2>1, <2>2 DEF LogsBeside, Own, OwnUndo, Exists,
       FirstMoved, BackFirst, LeftBehind, Dropping
<1>5. CASE RecoverLog \/ RollBackUnmarkedLog \/ RollBackSwapLog
  <2>1. pc \in BackFirst /\ pc' \in {"clearMarker", "open"} /\ ~Refused
    BY <1>5, Beside DEF RecoverLog, RollBackUnmarkedLog, RollBackSwapLog, MoveLogBack, Goto,
       BackFirst, RefusedOnce
  <2>2. /\ log'["preWal"] = 0
        /\ log'["wal"] = log["preWal"] \/ (log["preWal"] = 0 /\ log'["wal"] = log["wal"])
    BY <1>5, <2>1, Beside, Logs, Slots DEF RecoverLog, RollBackUnmarkedLog, RollBackSwapLog,
       MoveLogBack, HasLog
  <2> QED
    BY <1>1, <1>8, <2>1, <2>2 DEF LogsBeside, Own, OwnUndo, Exists,
       FirstMoved, BackFirst, LeftBehind, Dropping
<1>6. CASE SetAsideLog
  <2>1. /\ pc = "asideLog" /\ pc' \in {"marker", "unasideNoLog"}
        /\ ~Exists("db") /\ Exists("preImport")
    BY <1>6, Beside DEF SetAsideLog, Goto, OnItsWay, Swapping
  <2>2. \/ pc' = "unasideNoLog" /\ log' = log
        \/ pc' = "marker" /\ log' = log /\ log["wal"] = 0
        \/ pc' = "marker" /\ log'["wal"] = 0 /\ log'["preWal"] = log["wal"]
    BY <1>6, Beside, Logs, Slots DEF SetAsideLog, HasLog, Goto
  <2> QED
    BY <1>1, <1>8, <2>1, <2>2 DEF LogsBeside, Own, OwnUndo, Exists,
       FirstMoved, BackFirst, LeftBehind, Dropping
<1>7. CASE DropLiveLog
  <2>1. pc = "dropLogs" /\ pc' = "swap" /\ ~Exists("db") /\ (log' = log \/ log' = RemoveLog("wal"))
    BY <1>7, Beside DEF DropLiveLog, Goto, OnItsWay, Swapping
  <2>2. log'["wal"] \in {log["wal"], 0} /\ log'["preWal"] = log["preWal"]
    BY <2>1, Beside, Logs, Slots
  <2> QED
    BY <1>1, <1>8, <2>1, <2>2 DEF LogsBeside, Own, OwnUndo, Exists,
       FirstMoved, BackFirst, LeftBehind, Dropping
<1>9. CASE DropPreviousUndoLog
  <2>1. /\ pc = "dropUndoLog" /\ pc' = "aside"
        /\ \/ log' = RemoveLog("preWal")
           \/ log' = log /\ leftLog' = log["preWal"]
    BY <1>9 DEF DropPreviousUndoLog, Goto
  <2>2. /\ log'["wal"] = log["wal"] /\ log'["preWal"] \in {0, leftLog'}
    BY <2>1, Beside, Logs, Slots
  <2> QED
    BY <1>1, <1>8, <2>1, <2>2 DEF LogsBeside, Own, OwnUndo, Exists, FirstMoved, BackFirst,
       LeftBehind,
       Dropping
<1> QED
  BY <1>2, <1>3, <1>4, <1>5, <1>6, <1>7, <1>9 DEF LogStep

LEMMA LogsFiles ==
  ASSUME SafeInv, crashes = 0, LeftOnce, LogsBeside, FileStep
  PROVE  LogsBeside'
<1>0. UNCHANGED <<log, leftLog>>
  BY FileOnly
<1>1. CASE ResumeRestore \/ SwapInSnapshot
  <2>1. /\ pc \in {"resume", "restoreSwap"} /\ pc' \in {"apply", "open", "recovery"}
        /\ ~Exists("db") /\ UNCHANGED log
        /\ file' = file \/ file' = Rename("restoreTmp", "db")
    BY <1>1, Beside DEF ResumeRestore, SwapInSnapshot, Goto, OnItsWay
  <2>2. file' = file \/ (/\ file'["db"] = file["restoreTmp"] /\ file'["restoreTmp"] = None
                         /\ \A s \in FileSlots \ {"db", "restoreTmp"} : file'[s] = file[s])
    BY <2>1, Beside, Renamed, Slots
  <2>3. \A s \in {"staged", "bak", "restorePartial", "restoreTmp"} : file'[s].whole
    BY <2>2, Slots DEF LogsBeside
  <2>4. Own("db", "wal") /\ OwnUndo /\ log["wal"] = 0 /\ file["restoreTmp"].whole
    BY <2>1 DEF LogsBeside, Own, OwnUndo, Exists,
       FirstMoved, BackFirst, LeftBehind, Dropping
  <2>5. Own("db", "wal")' /\ OwnUndo'
    BY <1>0, <2>1, <2>2, <2>4, Slots DEF Own, OwnUndo
  <2> QED
    BY <2>1, <2>3, <2>5 DEF LogsBeside, FirstMoved, BackFirst, LeftBehind, Dropping
<1>2. CASE DropPreviousUndo
  <2>1. /\ pc = "apply" /\ pc' = "dropUndoLog"
        /\ \A s \in FileSlots \ {"preImport"} : file'[s] = file[s]
    BY <1>2, Beside, Removed, Slots DEF DropPreviousUndo, Goto
  <2> QED
    BY <1>0, <2>1, Slots DEF LogsBeside, Own, OwnUndo, Exists,
       FirstMoved, BackFirst, LeftBehind, Dropping
<1>3. CASE DisplaceDatabase
  <2>1. /\ pc = "displace" /\ pc' \in {"displaceLog", "open"} /\ UNCHANGED log
        /\ file' = file \/ (pc' = "displaceLog" /\ file' = Remove("db"))
    BY <1>3 DEF DisplaceDatabase, Goto
  <2>2. \A s \in FileSlots \ {"db"} : file'[s] = file[s]
    BY <2>1, Beside, Removed, Slots
  <2> QED
    BY <1>0, <2>1, <2>2, Slots DEF LogsBeside, Own, OwnUndo, Exists,
       FirstMoved, BackFirst, LeftBehind, Dropping
<1>4. CASE RecoverStranded \/ RollBackUnmarked \/ RollBackSwap
  <2>3. pc \in {"recover", "unaside", "rollback"} /\ leftLog = 0
    BY <1>4 DEF RecoverStranded, RollBackUnmarked, RollBackSwap, PutBack, LeftOnce, Returning
  <2>1. /\ pc \in {"recover", "unaside", "rollback"} /\ ~Exists("db") /\ UNCHANGED log
        /\ \/ pc' = "open" /\ file' = file
           \/ pc' \in BackFirst /\ file' = Rename("preImport", "db")
    BY <1>4, Beside DEF RecoverStranded, RollBackUnmarked, RollBackSwap, PutBack, Goto, OnItsWay,
       Swapping, BackFirst
  <2>2. \/ pc' = "open" /\ file' = file
        \/ /\ pc' \in BackFirst /\ file'["db"] = file["preImport"] /\ file'["preImport"] = None
           /\ \A s \in FileSlots \ {"db", "preImport"} : file'[s] = file[s]
    BY <2>1, Beside, Renamed, Slots
  <2> QED
    BY <1>0, <2>1, <2>2, <2>3, Slots DEF LogsBeside, Own, OwnUndo, Exists,
       FirstMoved, BackFirst, LeftBehind, Dropping
<1>5. CASE RollBackUnmovedLog
  <2>1. /\ pc = "unasideNoLog" /\ pc' = "open" /\ UNCHANGED log
        /\ file' = Rename("preImport", "db")
    BY <1>5, Beside DEF RollBackUnmovedLog, PutBack, Goto, OnItsWay, RefusedOnce
  <2>2. /\ file'["db"] = file["preImport"] /\ file'["preImport"] = None
        /\ \A s \in FileSlots \ {"db", "preImport"} : file'[s] = file[s]
    BY <2>1, Beside, Renamed, Slots
  <2> QED
    BY <1>0, <2>1, <2>2, Slots DEF LogsBeside, Own, OwnUndo, Exists,
       FirstMoved, BackFirst, LeftBehind, Dropping
<1>6. CASE SetAside
  <2>1. /\ pc = "aside" /\ Exists("db")
        /\ \/ pc' = "open" /\ file' = file /\ ~Exists("preImport") /\ leftLog = 0
           \/ pc' = "asideLog" /\ file' = Rename("db", "preImport")
    BY <1>6, Beside DEF SetAside, Goto, OnItsWay, LeftOnce, Dropping
  <2>2. \/ pc' = "open" /\ file' = file /\ ~Exists("preImport") /\ leftLog = 0
        \/ /\ pc' = "asideLog" /\ file'["preImport"] = file["db"] /\ file'["db"] = None
           /\ \A s \in FileSlots \ {"db", "preImport"} : file'[s] = file[s]
    BY <2>1, Beside, Renamed, Slots
  <2> QED
    BY <1>0, <2>1, <2>2, Slots DEF LogsBeside, Own, OwnUndo, Exists,
       FirstMoved, BackFirst, LeftBehind, Dropping
<1>7. CASE SwapIn
  <2>1. /\ pc = "swap" /\ ~Exists("db") /\ UNCHANGED log
        /\ \/ pc' = "rollback" /\ file' = file
           \/ pc' = "clearMarker" /\ file' = Rename("staged", "db")
    BY <1>7, Beside DEF SwapIn, Goto, OnItsWay, Swapping
  <2>2. \/ pc' = "rollback" /\ file' = file
        \/ /\ pc' = "clearMarker" /\ file'["db"] = file["staged"] /\ file'["staged"] = None
           /\ \A s \in FileSlots \ {"db", "staged"} : file'[s] = file[s]
    BY <2>1, Beside, Renamed, Slots
  <2> QED
    BY <1>0, <2>1, <2>2, Slots DEF LogsBeside, Own, OwnUndo, Exists,
       FirstMoved, BackFirst, LeftBehind, Dropping
<1>8. CASE CopySnapshot \/ StageSnapshot
  <2>1. /\ pc \in {"recovery", "stage"} /\ pc' \in {"recovery", "stage", "evict"} /\ UNCHANGED log
    BY <1>8 DEF CopySnapshot, StageSnapshot, Goto
  <2>2. /\ file'["restorePartial"] \in {file["restorePartial"], file["bak"], None}
        /\ file'["restoreTmp"] \in {file["restoreTmp"], file["restorePartial"], None}
        /\ \A s \in FileSlots \ {"restorePartial", "restoreTmp"} : file'[s] = file[s]
    <3>1. CASE CopySnapshot
      BY <3>1, Beside, Slots DEF CopySnapshot
    <3>2. CASE StageSnapshot
      BY <3>2, Beside, Renamed, Slots DEF StageSnapshot
    <3> QED
      BY <1>8, <3>1, <3>2
  <2> QED
    BY <1>0, <2>1, <2>2, Slots DEF LogsBeside, Own, OwnUndo, Exists,
       FirstMoved, BackFirst, LeftBehind, Dropping
<1>9. CASE ClearScratch \/ EvictCorrupt \/ RotateCorrupt \/ PromoteCorrupt
  <2>1. /\ pc \in {"evict", "evictDb", "rotate", "promote"}
        /\ pc' \in {"recovery", "evictDb", "rotate", "promote", "keepLog"}
        /\ pc \in {"rotate", "promote"} => pc' \in {"promote", "keepLog"}
    BY <1>9 DEF ClearScratch, EvictCorrupt, RotateCorrupt, PromoteCorrupt, Goto
  <2>2. /\ \A s \in {"staged", "bak", "restorePartial", "preImport"} : file'[s] = file[s]
        /\ file'["restoreTmp"] \in {file["restoreTmp"], None}
        /\ pc' \in {"recovery", "evictDb"} => file'["db"] = file["db"]
    <3>1. CASE ClearScratch
      BY <3>1, Beside, Removed, Slots DEF ClearScratch, Goto
    <3>2. CASE EvictCorrupt
      BY <3>2, Beside, Renamed, Removed, Slots DEF EvictCorrupt, Goto
    <3>3. CASE RotateCorrupt
      BY <3>3, Beside, Renamed, Slots DEF RotateCorrupt, Goto
    <3>4. CASE PromoteCorrupt
      BY <3>4, Beside, Renamed, Slots DEF PromoteCorrupt, Goto
    <3> QED
      BY <1>9, <3>1, <3>2, <3>3, <3>4
  <2> QED
    BY <1>0, <2>1, <2>2, Slots DEF LogsBeside, Own, OwnUndo, Exists, FirstMoved, BackFirst,
       LeftBehind, Dropping
<1> QED
  BY <1>1, <1>2, <1>3, <1>4, <1>5, <1>6, <1>7, <1>8, <1>9 DEF FileStep

LEMMA LogsSession ==
  ASSUME SafeInv, crashes = 0, LeftOnce, LogsBeside,
         \/ OpenDatabase \/ FirstRun \/ StartEmpty \/ Use \/ Backup
         \/ StageImport \/ StageUndo \/ StageMixedUndo \/ \E fold \in BOOLEAN : Quit(fold)
  PROVE  LogsBeside'
<1>1. pc \in {"open", "session", "recovery"} /\ pc' \in {"session", "recovery", "off"}
  BY DEF OpenDatabase, FirstRun, StartEmpty, CreateEmpty, Use, Backup, StageImport, StageUndo,
     StageMixedUndo, UndoCanBeStaged, Quit, Goto
<1>0. UNCHANGED leftLog
  BY DEF OpenDatabase, FirstRun, StartEmpty, CreateEmpty, Use, Backup, StageImport, StageUndo,
     StageMixedUndo, Quit, ghost
<1>2. file \in [FileSlots -> Database] /\ log \in [LogSlots -> 0..TopId]
  BY Beside
<1>3. /\ Own("db", "wal") /\ OwnUndo
      /\ \A s \in {"staged", "bak", "restorePartial", "restoreTmp"} : file[s].whole
  BY <1>1 DEF LogsBeside, FirstMoved, BackFirst, LeftBehind, Dropping
<1>4. SUFFICES /\ Own("db", "wal")' /\ OwnUndo'
               /\ \A s \in {"staged", "bak", "restorePartial", "restoreTmp"} : file'[s].whole
  BY <1>1 DEF LogsBeside, FirstMoved, BackFirst, LeftBehind, Dropping
<1>5. CASE OpenDatabase
  BY <1>0, <1>3, <1>5 DEF OpenDatabase, disk, Own, OwnUndo
<1>6. CASE FirstRun \/ StartEmpty
  <2>1. /\ file' = [file EXCEPT !["db"] = [id |-> ids', whole |-> TRUE], !["bak"] = None]
        /\ log' = RemoveLog("wal")
    BY <1>6 DEF FirstRun, StartEmpty, CreateEmpty
  <2>2. /\ log'["wal"] = 0 /\ log'["preWal"] = log["preWal"]
        /\ file'["db"].whole /\ file'["bak"].whole
        /\ \A s \in FileSlots \ {"db", "bak"} : file'[s] = file[s]
    BY <1>2, <2>1, Logs, Slots
  <2> QED
    BY <1>0, <1>3, <2>2, Slots DEF Own, OwnUndo
<1>7. CASE Use
  <2>1. /\ file'["db"].id = ids' /\ log'["wal"] = ids' /\ log'["preWal"] = log["preWal"]
        /\ \A s \in FileSlots \ {"db"} : file'[s] = file[s]
    BY <1>2, <1>7, Slots DEF Use
  <2> QED
    BY <1>0, <1>3, <2>1, Slots DEF Own, OwnUndo
<1>8. CASE Backup
  <2>1. /\ UNCHANGED log /\ file'["bak"].whole
        /\ \A s \in FileSlots \ {"bak"} : file'[s] = file[s]
    BY <1>2, <1>8, Slots DEF Backup
  <2> QED
    BY <1>0, <1>3, <2>1, Slots DEF Own, OwnUndo
<1>9. CASE StageImport
  <2>1. PICK fold \in BOOLEAN, d \in {[id |-> ids', whole |-> TRUE], None} :
          /\ log' = IF fold THEN RemoveLog("wal") ELSE log
          /\ file' = [(IF fold THEN Folded("db", file) ELSE file) EXCEPT !["staged"] = d]
    BY <1>9 DEF StageImport
  <2>2. d.whole
    BY <2>1, Slots
  <2>3. CASE fold
    <3>1. /\ log'["wal"] = 0 /\ log'["preWal"] = log["preWal"]
          /\ file' = [Folded("db", file) EXCEPT !["staged"] = d]
      BY <1>2, <2>1, <2>3, Logs, Slots
    <3>2. /\ file'["db"].whole /\ file'["staged"].whole
          /\ \A s \in FileSlots \ {"db", "staged"} : file'[s] = file[s]
      BY <1>2, <2>2, <3>1, Folding, Slots
    <3> QED
      BY <1>0, <1>3, <3>1, <3>2, Slots DEF Own, OwnUndo
  <2>4. CASE ~fold
    <3>1. UNCHANGED log /\ file' = [file EXCEPT !["staged"] = d]
      BY <2>1, <2>4
    <3>2. /\ file'["staged"].whole /\ \A s \in FileSlots \ {"staged"} : file'[s] = file[s]
      BY <1>2, <2>2, <3>1, Slots
    <3> QED
      BY <1>0, <1>3, <3>1, <3>2, Slots DEF Own, OwnUndo
  <2> QED
    BY <2>3, <2>4
<1>10. CASE StageUndo
  <2>1. PICK f \in {Folded("preImport", file), file} :
          /\ f = IF log["preWal"] = file["preImport"].id THEN Folded("preImport", file) ELSE file
          /\ file' \in {[f EXCEPT !["staged"] = f["preImport"]], [f EXCEPT !["staged"] = None]}
    BY <1>10 DEF StageUndo
  <2>2. log'["preWal"] = 0 /\ log'["wal"] = log["wal"]
    BY <1>2, <1>10, Logs, Slots DEF StageUndo
  <2>3. /\ f \in [FileSlots -> Database] /\ f["preImport"].whole
        /\ \A s \in FileSlots \ {"preImport"} : f[s] = file[s]
    BY <1>2, <1>3, <1>10, <2>1, Folding, Slots DEF OwnUndo
  <2>4. /\ file'["preImport"] = f["preImport"] /\ file'["staged"].whole
        /\ \A s \in FileSlots \ {"preImport", "staged"} : file'[s] = file[s]
    BY <2>1, <2>3, Slots
  <2> QED
    BY <1>0, <1>3, <2>2, <2>3, <2>4, Slots DEF Own, OwnUndo
<1>12. CASE StageMixedUndo
  <2>1. /\ log'["preWal"] = 0 /\ log'["wal"] = log["wal"]
        /\ \A s \in FileSlots \ {"preImport", "staged"} : file'[s] = file[s]
    BY <1>2, <1>12, MixedStaged, Logs, Slots DEF StageMixedUndo, SafeInv
  <2>2. file'["preImport"].whole /\ (file'["staged"].whole \/ file'["staged"] = file["staged"])
    BY <1>2, <1>12, Slots DEF StageMixedUndo
  <2> QED
    BY <1>0, <1>3, <2>1, <2>2, Slots DEF Own, OwnUndo
<1>11. CASE \E fold \in BOOLEAN : Quit(fold)
  <2>1. \/ UNCHANGED <<file, log>>
        \/ file' = Folded("db", file) /\ log' = RemoveLog("wal")
    BY <1>11 DEF Quit
  <2>2. CASE file' = Folded("db", file) /\ log' = RemoveLog("wal")
    <3>1. /\ log'["wal"] = 0 /\ log'["preWal"] = log["preWal"] /\ file'["db"].whole
          /\ \A s \in FileSlots \ {"db"} : file'[s] = file[s]
      BY <1>2, <2>2, Folding, Logs, Slots
    <3> QED
      BY <1>0, <1>3, <3>1, Slots DEF Own, OwnUndo
  <2> QED
    BY <1>0, <1>3, <2>1, <2>2 DEF Own, OwnUndo
<1> QED
  BY <1>5, <1>6, <1>7, <1>8, <1>9, <1>10, <1>11, <1>12

LEMMA LogsHarm ==
  ASSUME SafeInv, crashes = 0, LeftOnce, LogsBeside, Damage \/ Quarantine
  PROVE  LogsBeside'
<1>1. pc = "off" /\ pc' = pc /\ leftLog' = leftLog
  BY DEF Damage, Quarantine
<1>2. CASE Damage
  <2>1. file' = [file EXCEPT !["db"] = [file["db"] EXCEPT !.id = ids']] /\ ids' = ids + 1
    BY <1>2 DEF Damage
  <2>2. /\ [file["db"] EXCEPT !.id = ids'].id = ids'
        /\ [file["db"] EXCEPT !.id = ids'].whole = file["db"].whole
    BY Beside, Slots DEF Database
  <2>3. /\ file'["db"].id = ids' /\ file'["db"].whole = file["db"].whole
        /\ \A s \in FileSlots \ {"db"} : file'[s] = file[s]
    BY <2>1, <2>2, Beside, Slots
  <2>4. /\ log'["preWal"] = log["preWal"]
        /\ log'["wal"] = IF log["wal"] = file["db"].id THEN ids' ELSE log["wal"]
    BY <1>2, Beside, Slots DEF Damage
  <2> QED
    BY <1>1, <2>3, <2>4, Slots DEF LogsBeside, Own, OwnUndo, FirstMoved, BackFirst,
       LeftBehind, Dropping
<1>3. CASE Quarantine
  <2>1. /\ file'["db"] = None /\ log'["wal"] = 0 /\ log'["preWal"] = log["preWal"]
        /\ \A s \in FileSlots \ {"db"} : file'[s] = file[s]
    BY <1>3, Beside, Removed, Logs, Slots DEF Quarantine
  <2> QED
    BY <1>1, <2>1, Slots DEF LogsBeside, Own, OwnUndo, FirstMoved, BackFirst,
       LeftBehind, Dropping
<1> QED
  BY <1>2, <1>3

LogsInv == crashes = 0 => LeftOnce /\ LogsBeside

LEMMA LogsInit == Init => LogsInv
<1> SUFFICES ASSUME Init PROVE LeftOnce /\ LogsBeside
  BY DEF LogsInv
<1>1. /\ \A s \in FileSlots : file[s] = None /\ None.whole
      /\ \A l \in LogSlots : log[l] = 0
      /\ pc = "off" /\ leftLog = 0
  BY Slots DEF Init
<1> QED
  BY <1>1, Slots DEF LeftOnce, LogsBeside, Own, OwnUndo, FirstMoved, BackFirst, Dropping

LEMMA LogsNext == SafeInv /\ LogsInv /\ [Next]_vars => LogsInv'
<1> SUFFICES ASSUME SafeInv, LogsInv, [Next]_vars, crashes' = 0
             PROVE  LeftOnce' /\ LogsBeside'
  BY DEF LogsInv
<1>1. crashes = 0
  <2>1. limits.crashes \in Nat /\ crashes \in Nat
    BY Budgeted DEF SafeInv, Shape, TypeOK
  <2>2. crashes' \in {crashes, crashes + 1}
    <3>1. CASE QuietStep
      BY <3>1 DEF QuietStep, Launch, NothingToResume, NothingStaged, FindDeadSwap,
         NothingToSetAside, WriteMarker, ClearMarker, RefuseDamaged, RefuseMissing, Crash, budget
    <3>2. CASE LogStep \/ FileStep
      BY <3>2, LogOnly, FileOnly
    <3>3. CASE ~(QuietStep \/ LogStep \/ FileStep)
      BY <3>3 DEF Next, Resume, Apply, Open, User, Restore, World, QuietStep, LogStep, FileStep,
         OpenDatabase, FirstRun, StartEmpty, CreateEmpty, Use, Backup, StageImport, StageUndo,
         StageMixedUndo, Quit, Damage, Quarantine, budget, vars
    <3> QED
      BY <3>1, <3>2, <3>3
  <2> QED
    BY <2>1, <2>2
<1>2. LeftOnce /\ LogsBeside
  BY <1>1 DEF LogsInv
<1>3. CASE Launch \/ Resume \/ Apply
  BY <1>1, <1>2, <1>3, LogsQuiet, LogsLog, LogsFiles, LeftQuiet, LeftLog, LeftFiles
     DEF Resume, Apply, QuietStep, LogStep, FileStep
<1>4. CASE Open \/ Restore
  BY <1>1, <1>2, <1>4, LogsQuiet, LogsLog, LogsFiles, LogsSession, LeftQuiet, LeftLog, LeftFiles,
     LeftElse
     DEF Open, Restore, QuietStep, LogStep, FileStep
<1>5. CASE User \/ World
  BY <1>1, <1>2, <1>5, LogsQuiet, LogsFiles, LogsSession, LogsHarm, LeftQuiet, LeftFiles, LeftElse
     DEF User, World, QuietStep, FileStep
<1>6. CASE UNCHANGED vars
  <2>1. UNCHANGED <<file, log, pc, marker, leftLog, faults, limits>>
    BY <1>6 DEF vars, disk, ghost, budget
  <2> QED
    BY <1>2, <2>1 DEF LeftOnce, LogsBeside, Own, OwnUndo, Exists, NoMoreRefusals
<1> QED
  BY <1>3, <1>4, <1>5, <1>6 DEF Next

(***************************************************************************)
(* What the names on disk mean to the recoveries.                          *)
(***************************************************************************)
UndoOwed == file["preImport"].id \in owed

\* A library owed that lies in the undo copy is the last one opened, and the
\* one at the database path if that is taken.
UndoIsLive == UndoOwed => /\ file["preImport"].id = live
                          /\ Exists("db") => file["preImport"].id = file["db"].id

\* A library owed that is at the database path was the last opened, or is
\* about to be: the snapshot a restore has just put there.
OpenedIsLive == file["db"].id \in owed =>
                  file["db"].id = live \/ (pc = "open" /\ damages # 0)

\* What Opening says of the last library opened, of the undo copy: its second
\* half is what ResumeRestore relies on.
UndoFound == damages # 0 /\ pc \in SettledSteps \cup Resting => Exists("db") \/ ~UndoOwed

\* A snapshot left staged was refused its place: nothing is refused any more,
\* and no import was, or will be, cut short beside it.
LeftStaged ==
  /\ displaced # {} => NoMoreRefusals
  /\ pc = "stage" => ~Exists("restoreTmp")
  /\ Exists("restoreTmp") =>
       \/ pc \in RestoreSteps
       \/ /\ displaced = {} /\ NoMoreRefusals
          /\ marker => pc \in {"dropLogs", "swap", "clearMarker"}

Tells == UndoIsLive /\ OpenedIsLive /\ UndoFound /\ LeftStaged

\* What every step may use.
LEMMA Telling ==
  ASSUME Bounded, Safe, Tells
  PROVE  /\ RefusedOnce /\ Undamaged /\ OnItsWay /\ Kept /\ Numbered
         /\ UndoIsLive /\ OpenedIsLive /\ UndoFound /\ LeftStaged
         /\ file \in [FileSlots -> Database] /\ ids \in Nat /\ damages \in Nat
         /\ \A v \in owed : v # 0 /\ v <= ids /\ v \notin damaged
         /\ \A s \in {"db", "preImport", "restoreTmp", "staged"} : file[s].id <= ids
BY Slots DEF Shape, Safe, Tells, TypeOK, Numbered

LEMMA TellsQuiet ==
  ASSUME Bounded, Safe, Tells, QuietStep, Calm'
  PROVE  Tells'
<1>1. UNCHANGED <<file, displaced, damaged, owed, live, damages, limits>>
  BY Quiet
<1>2. UndoIsLive' /\ UndoOwed' = UndoOwed
  BY <1>1, Telling DEF UndoIsLive, UndoOwed, Exists
<1>3. CASE Crash
  <2>1. Undisturbed /\ damages = 0 /\ pc' = "off" /\ UNCHANGED faults
    <3>1. crashes' # 0 /\ pc' = "off" /\ UNCHANGED faults
      BY <1>3 DEF Crash, Goto, Shape, TypeOK
    <3> QED
      BY <1>1, <3>1, LastRefusal DEF Calm, Undisturbed
  <2>2. ~Exists("restoreTmp")
    BY <2>1, Telling DEF Undamaged
  <2> QED
    BY <1>1, <1>2, <2>1, <2>2, Telling DEF Tells, OpenedIsLive, UndoFound, LeftStaged, Exists,
       NoMoreRefusals
<1>4. CASE RefuseDamaged \/ RefuseMissing
  <2>1. /\ pc = "open" /\ pc' = "recovery" /\ UNCHANGED <<faults, marker>>
        /\ file["db"].id \notin owed
    BY <1>4, Telling DEF RefuseDamaged, RefuseMissing, Goto, disk, Exists
  <2> QED
    BY <1>1, <1>2, <2>1, Telling DEF Tells, OpenedIsLive, UndoFound, LeftStaged, Exists,
       NoMoreRefusals, SettledSteps, RestoreSteps
<1>5. CASE WriteMarker \/ ClearMarker
  <2>1. /\ faults' = faults \/ (Refused /\ ~NoMoreRefusals /\ NoMoreRefusals')
        /\ \/ pc = "marker" /\ pc' = "dropLogs" /\ UNCHANGED faults
           \/ pc = "marker" /\ pc' = "unaside" /\ UNCHANGED marker
           \/ pc = "clearMarker" /\ pc' = "open" /\ (marker' = FALSE \/ Refused)
    BY <1>1, <1>5, LastRefusal DEF WriteMarker, ClearMarker, Goto, Succeed, NoMoreRefusals
  <2>2. OpenedIsLive' /\ UndoFound'
    BY <1>1, <1>2, <2>1, Telling DEF OpenedIsLive, UndoFound, Exists, SettledSteps, Resting
  <2>3. LeftStaged'
    BY <1>1, <2>1, LastRefusal, Telling DEF LeftStaged, Exists, RestoreSteps, NoMoreRefusals
  <2> QED
    BY <1>2, <2>2, <2>3 DEF Tells
<1>6. CASE \/ Launch \/ NothingToResume \/ NothingStaged \/ FindDeadSwap \/ NothingToSetAside
  <2>1. /\ UNCHANGED <<faults, marker>>
        /\ \/ pc \in Resting /\ pc' \in Resting \cup {"open"}
           \/ pc = "apply" /\ pc' = "displace" /\ marker
           \/ pc = "apply" /\ pc' = "dropLogs"
    BY <1>6 DEF Launch, NothingToResume, NothingStaged, FindDeadSwap, NothingToSetAside, Goto,
       disk, Resting, SwapDied
  <2>2. OpenedIsLive' /\ UndoFound'
    BY <1>1, <1>2, <2>1, Telling DEF OpenedIsLive, UndoFound, Exists, SettledSteps, Resting
  <2>3. LeftStaged'
    BY <1>1, <2>1, Telling DEF LeftStaged, Exists, RestoreSteps, NoMoreRefusals, Resting
  <2> QED
    BY <1>2, <2>2, <2>3 DEF Tells
<1> QED
  BY <1>3, <1>4, <1>5, <1>6 DEF QuietStep

LEMMA TellsLog ==
  ASSUME Bounded, Safe, Tells, LogStep
  PROVE  Tells'
<1>1. UNCHANGED <<file, displaced, damaged, owed, live, damages, limits, marker>>
  BY LogOnly
<1>2. UndoIsLive' /\ UndoOwed' = UndoOwed
  BY <1>1, Telling DEF UndoIsLive, UndoOwed, Exists
<1>3. /\ NoMoreRefusals => NoMoreRefusals' /\ ~Refused
      /\ ~(faults + 2 <= limits.faults)
  <2>1. faults' = faults \/ (faults < limits.faults /\ faults' = faults + 1)
    BY LogRefusals
  <2> QED
    BY <1>1, <2>1, LastRefusal DEF NoMoreRefusals, Refused
<1>4. /\ \/ pc = "resume" /\ pc' \in {"resume", "apply"}
         \/ pc = "keepLog" /\ pc' = "restoreSwap"
         \/ pc = "displaceLog" /\ pc' \in {"dropLogs", "recover"}
         \/ pc \in {"recoverLog", "rollbackLog"} /\ pc' = "clearMarker"
         \/ pc = "unasideLog" /\ pc' = "open"
         \/ pc = "asideLog" /\ pc' \in {"marker", "unasideNoLog"}
         \/ pc = "dropLogs" /\ pc' = "swap"
         \/ pc = "dropUndoLog" /\ pc' = "aside"
      /\ pc = "displaceLog" => marker
  <2>1. CASE ResumeLog \/ KeepCorruptLog
    BY <1>3, <2>1 DEF ResumeLog, KeepCorruptLog, SetAsideCorruptLog, Goto
  <2>2. CASE DisplaceLog \/ RecoverLog \/ RollBackUnmarkedLog \/ RollBackSwapLog
    BY <1>3, <2>2, Telling DEF DisplaceLog, RecoverLog, RollBackUnmarkedLog, RollBackSwapLog,
       MoveLogBack, AfterDisplace, Goto, RefusedOnce, OnItsWay
  <2>3. CASE SetAsideLog \/ DropLiveLog \/ DropPreviousUndoLog
    BY <2>3 DEF SetAsideLog, DropLiveLog, DropPreviousUndoLog, Goto
  <2> QED
    BY <2>1, <2>2, <2>3 DEF LogStep
<1>5. OpenedIsLive' /\ UndoFound'
  BY <1>1, <1>2, <1>4, Telling DEF OpenedIsLive, UndoFound, Exists, SettledSteps, Resting
<1>6. LeftStaged'
  BY <1>1, <1>3, <1>4, Telling DEF LeftStaged, Exists, RestoreSteps
<1> QED
  BY <1>2, <1>5, <1>6 DEF Tells

\* A step of a launch that moves files, and leaves the ghosts alone.
LEMMA TellsLaunch ==
  ASSUME Bounded, Safe, Tells,
         ResumeRestore \/ DropPreviousUndo \/ DisplaceDatabase \/ SetAside
  PROVE  Tells'
<1>1. UNCHANGED <<owed, live, damages, limits, marker>> /\ FileStep
  BY FileOnly DEF ResumeRestore, DropPreviousUndo, DisplaceDatabase, SetAside, FileStep, ghost
<1>2. (NoMoreRefusals => NoMoreRefusals' /\ ~Refused) /\ (Refused => NoMoreRefusals')
  BY <1>1, AlsoSafe
<1>3. CASE ResumeRestore
  <2>1. /\ pc = "resume" /\ pc' = "apply" /\ ~Exists("db") /\ Exists("restoreTmp")
        /\ UNCHANGED displaced
        /\ file' = file \/ file' = Rename("restoreTmp", "db")
    BY <1>3 DEF ResumeRestore, Goto
  <2>2. damages # 0 /\ ~UndoOwed /\ displaced = {} /\ NoMoreRefusals /\ ~marker
    BY <2>1, Telling DEF Undamaged, UndoFound, LeftStaged, Resting, RestoreSteps
  <2>3. /\ file'["preImport"] = file["preImport"]
        /\ file' = file \/ (file'["db"] = file["restoreTmp"] /\ file'["restoreTmp"].id = 0)
    BY <2>1, Telling, Renamed, Slots
  <2>4. \A v \in owed : v = live
    BY <2>2, Telling DEF Kept, Displaced
  <2>5. UndoIsLive' /\ OpenedIsLive' /\ UndoFound'
    BY <1>1, <2>2, <2>3, <2>4 DEF UndoIsLive, OpenedIsLive, UndoFound, UndoOwed
  <2>6. LeftStaged'
    BY <1>1, <1>2, <2>1, <2>2 DEF LeftStaged
  <2> QED
    BY <2>5, <2>6 DEF Tells
<1>4. CASE DropPreviousUndo
  <2>1. /\ pc = "apply" /\ pc' = "dropUndoLog" /\ UNCHANGED displaced
        /\ file' = Remove("preImport") \/ file' = file
    BY <1>4 DEF DropPreviousUndo, Goto
  <2>2. /\ file'["db"] = file["db"] /\ file'["preImport"].id \in {0, file["preImport"].id}
        /\ file'["restoreTmp"] = file["restoreTmp"]
    BY <2>1, Telling, Removed, Slots
  <2>3. UndoIsLive' /\ OpenedIsLive' /\ UndoFound'
    BY <1>1, <2>1, <2>2, Telling DEF UndoIsLive, OpenedIsLive, UndoFound, UndoOwed, Exists,
       SettledSteps, Resting
  <2>4. LeftStaged'
    BY <1>1, <1>2, <2>1, <2>2, Telling DEF LeftStaged, Exists, RestoreSteps, NoMoreRefusals
  <2> QED
    BY <2>3, <2>4 DEF Tells
<1>5. CASE DisplaceDatabase
  <2>1. NoMoreRefusals /\ marker /\ pc = "displace"
    BY <1>5, Telling DEF DisplaceDatabase, RefusedOnce, OnItsWay
  <2>2. /\ pc' = "displaceLog" /\ ~Exists("restoreTmp")
        /\ \/ ~Exists("db") /\ UNCHANGED file
           \/ file' = Remove("db")
    BY <1>2, <1>5, <2>1, Telling DEF DisplaceDatabase, Goto, LeftStaged, RestoreSteps
  <2>3. /\ file'["db"].id = 0 /\ file'["preImport"] = file["preImport"]
        /\ file'["restoreTmp"] = file["restoreTmp"]
    BY <2>2, Telling, Removed, Slots DEF Exists
  <2>4. UndoIsLive' /\ OpenedIsLive' /\ UndoFound'
    BY <1>1, <2>2, <2>3, Telling DEF UndoIsLive, OpenedIsLive, UndoFound, UndoOwed, Exists,
       SettledSteps, Resting
  <2>5. LeftStaged'
    BY <1>2, <2>1, <2>2, <2>3 DEF LeftStaged, Exists
  <2> QED
    BY <2>4, <2>5 DEF Tells
<1>6. CASE SetAside
  <2>1. /\ pc = "aside" /\ Exists("db") /\ UNCHANGED displaced
        /\ \/ pc' = "asideLog" /\ file' = Rename("db", "preImport") /\ UNCHANGED faults
           \/ pc' = "open" /\ UNCHANGED file /\ Refused
    BY <1>6, Telling DEF SetAside, Goto, Succeed, OnItsWay
  <2>2. /\ file'["restoreTmp"] = file["restoreTmp"]
        /\ \/ /\ pc' = "asideLog" /\ file'["db"].id = 0 /\ file'["preImport"] = file["db"]
           \/ /\ pc' = "open" /\ file'["db"] = file["db"] /\ file'["preImport"] = file["preImport"]
    BY <2>1, Telling, Renamed, Slots
  <2>3. UndoIsLive' /\ OpenedIsLive' /\ UndoFound'
    BY <1>1, <2>1, <2>2, Telling DEF UndoIsLive, OpenedIsLive, UndoFound, UndoOwed, Exists,
       SettledSteps, Resting
  <2>4. LeftStaged'
    BY <1>1, <1>2, <2>1, <2>2, Telling DEF LeftStaged, Exists, RestoreSteps, NoMoreRefusals
  <2> QED
    BY <2>3, <2>4 DEF Tells
<1> QED
  BY <1>3, <1>4, <1>5, <1>6

LEMMA TellsPutBack ==
  ASSUME Bounded, Safe, Tells,
         RecoverStranded \/ RollBackUnmovedLog \/ RollBackUnmarked \/ RollBackSwap
  PROVE  Tells'
<1>1. /\ UNCHANGED <<displaced, owed, live, damages, limits, marker>> /\ FileStep
      /\ pc \in {"recover", "unasideNoLog", "unaside", "rollback"}
      /\ pc' \in {"recoverLog", "open", "unasideLog", "rollbackLog"}
  BY FileOnly DEF RecoverStranded, RollBackUnmovedLog, RollBackUnmarked, RollBackSwap, PutBack,
     FileStep, ghost, Goto
<1>2. NoMoreRefusals /\ NoMoreRefusals' /\ ~Exists("db")
  BY <1>1, AlsoSafe, Telling DEF RefusedOnce, OnItsWay, Swapping
<1>3. \/ file' = Rename("preImport", "db") /\ Exists("preImport")
      \/ file' = file /\ ~Exists("preImport")
  BY <1>1, <1>2, AlsoSafe DEF RecoverStranded, RollBackUnmovedLog, RollBackUnmarked, RollBackSwap,
     PutBack, OnItsWay
<1>4. /\ file'["restoreTmp"] = file["restoreTmp"] /\ file'["preImport"].id = 0
      /\ file'["db"] = file["preImport"] \/ file'["db"].id = 0
  BY <1>2, <1>3, Telling, Renamed, Slots DEF Exists
<1>5. UndoIsLive' /\ OpenedIsLive' /\ UndoFound'
  BY <1>1, <1>4, Telling DEF UndoIsLive, OpenedIsLive, UndoFound, UndoOwed
<1>6. LeftStaged'
  BY <1>1, <1>2, <1>4, Telling DEF LeftStaged, Exists, RestoreSteps
<1> QED
  BY <1>5, <1>6 DEF Tells

LEMMA TellsSwapIn ==
  ASSUME Bounded, Safe, Tells, SwapIn
  PROVE  Tells'
<1>1. UNCHANGED <<displaced, damages, limits, marker>> /\ FileStep /\ pc = "swap" /\ ~Exists("db")
  BY FileOnly, Telling DEF SwapIn, FileStep, OnItsWay, Swapping
<1>2. (NoMoreRefusals => NoMoreRefusals' /\ ~Refused) /\ (Refused => NoMoreRefusals')
  BY <1>1, AlsoSafe
<1>3. CASE /\ file' = Rename("staged", "db") /\ pc' = "clearMarker"
           /\ owed' = (owed \ {live}) \cup {file["staged"].id}
           /\ live' = file["staged"].id
  <2>1. /\ file'["db"] = file["staged"] /\ file'["preImport"] = file["preImport"]
        /\ file'["restoreTmp"] = file["restoreTmp"]
    BY <1>3, Telling, Renamed, Slots
  <2>2. UndoIsLive' /\ OpenedIsLive' /\ UndoFound'
    <3>1. UndoOwed' => file["preImport"].id = file["staged"].id
      BY <1>3, <2>1, Telling DEF UndoIsLive, UndoOwed
    <3>2. file["staged"].id # 0
      BY <1>1, Telling DEF OnItsWay, Swapping, Exists
    <3> QED
      BY <1>1, <1>3, <2>1, <3>1, <3>2 DEF UndoIsLive, OpenedIsLive, UndoFound, UndoOwed, Exists
  <2>3. LeftStaged'
    BY <1>1, <1>2, <1>3, <2>1, Telling DEF LeftStaged, Exists, RestoreSteps
  <2> QED
    BY <2>2, <2>3 DEF Tells
<1>4. CASE file' = file /\ pc' = "rollback" /\ Refused /\ UNCHANGED <<owed, live>>
  <2>1. UndoIsLive' /\ OpenedIsLive' /\ UndoFound'
    BY <1>1, <1>4, Telling DEF UndoIsLive, OpenedIsLive, UndoFound, UndoOwed, Exists,
       SettledSteps,
       Resting
  <2>2. LeftStaged'
    BY <1>1, <1>2, <1>4, Telling DEF LeftStaged, Exists, RestoreSteps
  <2> QED
    BY <2>1, <2>2 DEF Tells
<1> QED
  BY <1>3, <1>4 DEF SwapIn, Goto, ghost

\* The restore: when it begins nothing it puts in place hides a library owed.
LEMMA TellsRestore ==
  ASSUME Bounded, Safe, Tells,
         \/ CopySnapshot \/ StageSnapshot \/ ClearScratch \/ EvictCorrupt \/ RotateCorrupt
         \/ PromoteCorrupt \/ SwapInSnapshot
  PROVE  Tells'
<1>1. /\ pc \in {"recovery", "stage", "evict", "evictDb", "rotate", "promote", "restoreSwap"}
      /\ pc' \in {"recovery", "stage", "evict", "evictDb", "rotate", "promote", "keepLog",
                   "restoreSwap", "open"}
      /\ UNCHANGED <<displaced, owed, live, damages, limits, marker>> /\ FileStep
  BY FileOnly DEF CopySnapshot, StageSnapshot, ClearScratch, EvictCorrupt, RotateCorrupt,
     PromoteCorrupt, SwapInSnapshot, FileStep, Goto, ghost
<1>2. /\ (NoMoreRefusals => NoMoreRefusals' /\ ~Refused) /\ (Refused => NoMoreRefusals')
      /\ ~NoMoreRefusals => displaced = {} /\ ~marker
  BY <1>1, AlsoSafe, Telling DEF LeftStaged, RefusedOnce
<1>3. damages # 0 /\ ~UndoOwed
  <2>1. damages # 0
    BY <1>1, Telling DEF Undamaged
  <2>2. Exists("db") \/ ~UndoOwed
    BY <1>1, <2>1, Telling DEF UndoFound, SettledSteps
  <2>3. ~Exists("db") \/ file["db"].id \notin owed
    BY <1>1, Telling DEF OnItsWay
  <2> QED
    BY <2>1, <2>2, <2>3, Telling DEF UndoIsLive, UndoOwed
<1>4. file'["preImport"] = file["preImport"]
  <2>1. CASE CopySnapshot \/ ClearScratch \/ EvictCorrupt \/ RotateCorrupt \/ PromoteCorrupt
    BY <2>1, Telling, Renamed, Removed, Slots DEF CopySnapshot, ClearScratch, EvictCorrupt,
       RotateCorrupt, PromoteCorrupt
  <2>2. CASE StageSnapshot \/ SwapInSnapshot
    BY <1>1, <2>2, AlsoSafe, Renamed, Slots DEF StageSnapshot, SwapInSnapshot
  <2> QED
    BY <2>1, <2>2
<1>5. UndoIsLive' /\ UndoFound'
  BY <1>1, <1>3, <1>4 DEF UndoIsLive, UndoFound, UndoOwed
<1>6. /\ pc' = "open" \/ file'["db"].id \in {file["db"].id, 0}
      /\ pc' \in {"recovery", "stage"} =>
           \/ file'["restoreTmp"].id = 0
           \/ pc = "restoreSwap" /\ pc' = "recovery" /\ Refused
           \/ pc = "stage" /\ pc' = "recovery" /\ file' = file
  <2>1. CASE CopySnapshot
    BY <2>1, Telling, Slots DEF CopySnapshot
  <2>2. CASE StageSnapshot \/ SwapInSnapshot
    BY <2>2, Telling, Renamed, Slots DEF StageSnapshot, SwapInSnapshot, Goto
  <2>3. CASE ClearScratch \/ EvictCorrupt
    BY <2>3, Telling, Renamed, Removed, Slots DEF ClearScratch, EvictCorrupt, Goto
  <2>4. CASE RotateCorrupt \/ PromoteCorrupt
    BY <2>4, Telling, Renamed, Slots DEF RotateCorrupt, PromoteCorrupt, Goto
  <2> QED
    BY <2>1, <2>2, <2>3, <2>4
<1>7. OpenedIsLive'
  <2>1. pc # "open"
    BY <1>1
  <2> QED
    BY <1>1, <1>3, <1>6, <2>1, Telling DEF OpenedIsLive
<1>8. pc' = "open" => file'["restoreTmp"].id = 0
  BY <1>1, Telling, Renamed, Slots DEF CopySnapshot, StageSnapshot, ClearScratch, EvictCorrupt,
     RotateCorrupt, PromoteCorrupt, SwapInSnapshot, Goto
<1>9. LeftStaged'
  BY <1>1, <1>2, <1>6, <1>8, Telling DEF LeftStaged, Exists, RestoreSteps
<1> QED
  BY <1>5, <1>7, <1>9 DEF Tells

LEMMA TellsOpen ==
  ASSUME Bounded, Safe, Tells, OpenDatabase \/ FirstRun \/ StartEmpty \/ Use
  PROVE  Tells'
<1>1. /\ UNCHANGED <<displaced, marker, limits, faults, damages>>
      /\ pc \in {"open", "recovery", "session"} /\ pc' = "session"
  BY DEF OpenDatabase, FirstRun, StartEmpty, CreateEmpty, Use, disk, budget, Goto
<1>2. file'["restoreTmp"] = file["restoreTmp"] /\ file'["preImport"] = file["preImport"]
  BY Telling, Slots DEF OpenDatabase, FirstRun, StartEmpty, CreateEmpty, Use, disk
<1>3. LeftStaged'
  BY <1>1, <1>2, Telling DEF LeftStaged, Exists, RestoreSteps, NoMoreRefusals
<1>4. CASE OpenDatabase
  <2>1. /\ UNCHANGED file /\ live' = file["db"].id /\ owed' = owed \cup {file["db"].id}
        /\ Exists("db")
    BY <1>4 DEF OpenDatabase, disk
  <2> QED
    BY <1>3, <2>1, Telling DEF Tells, UndoIsLive, OpenedIsLive, UndoFound, UndoOwed, Exists
<1>5. CASE FirstRun \/ StartEmpty
  <2>1. /\ ids' = ids + 1 /\ live' = ids' /\ owed' = owed \cup {ids'}
        /\ pc \in {"open", "recovery"} /\ ~Exists("db")
        /\ file' = [file EXCEPT !["db"] = [id |-> ids', whole |-> TRUE], !["bak"] = None]
    BY <1>5 DEF FirstRun, StartEmpty, CreateEmpty
  <2>2. file'["db"].id = ids' /\ ids' # 0 /\ file["preImport"].id # ids'
    BY <2>1, Telling, Slots DEF Shape, TypeOK, Database
  <2>3. ~UndoOwed
    BY <2>1, Telling, Slots DEF UndoFound, Undamaged, SettledSteps, UndoOwed, Fresh,
       Exists
  <2> QED
    BY <1>2, <1>3, <2>1, <2>2, <2>3 DEF Tells, UndoIsLive, OpenedIsLive, UndoFound, UndoOwed
<1>6. CASE Use
  <2>1. /\ ids' = ids + 1 /\ live' = ids' /\ owed' = (owed \ {live}) \cup {ids'}
        /\ file' = [file EXCEPT !["db"] = [id |-> ids', whole |-> FALSE]]
    BY <1>6 DEF Use
  <2>2. file'["db"].id = ids' /\ ids' # 0 /\ file["preImport"].id # ids'
    BY <2>1, Telling, Slots DEF Shape, TypeOK, Database
  <2>3. ~UndoOwed'
    BY <1>2, <2>1, <2>2, Telling DEF UndoIsLive, UndoOwed
  <2> QED
    BY <1>3, <2>1, <2>2, <2>3 DEF Tells, UndoIsLive, OpenedIsLive, UndoFound
<1> QED
  BY <1>4, <1>5, <1>6

LEMMA TellsSession ==
  ASSUME Bounded, Safe, Tells,
         Backup \/ StageImport \/ StageUndo \/ \E fold \in BOOLEAN : Quit(fold)
  PROVE  Tells'
<1>1. /\ UNCHANGED <<displaced, marker, damages, limits, owed, live>>
      /\ faults' = faults \/ (faults < limits.faults /\ faults' = faults + 1)
      /\ pc \in {"session", "recovery"} /\ pc' \in {pc, "off"}
  BY DEF Backup, StageImport, StageUndo, UndoCanBeStaged, Quit, ghost, budget, Succeed, Refused,
     Goto
<1>2. \A s \in {"db", "preImport", "restoreTmp"} : file'[s].id = file[s].id
  <2>1. CASE Backup
    BY <2>1, Slots DEF Backup, Shape, TypeOK
  <2>2. CASE StageImport \/ StageUndo
    BY <2>2, ImportStaged, UndoStaged, Slots DEF Staged
  <2>3. CASE \E fold \in BOOLEAN : Quit(fold)
    BY <2>3, Folding, Slots DEF Quit, Shape, TypeOK
  <2> QED
    BY <2>1, <2>2, <2>3
<1>3. NoMoreRefusals => NoMoreRefusals'
  BY <1>1, LastRefusal DEF NoMoreRefusals
<1>4. UndoIsLive' /\ OpenedIsLive' /\ UndoFound'
  BY <1>1, <1>2, Telling DEF UndoIsLive, OpenedIsLive, UndoFound, UndoOwed, Exists, SettledSteps,
     Resting
<1>5. LeftStaged'
  BY <1>1, <1>2, <1>3, Telling DEF LeftStaged, Exists, RestoreSteps
<1> QED
  BY <1>4, <1>5 DEF Tells

\* The mixture is nobody's library.
LEMMA TellsMixed ==
  ASSUME Bounded, Safe, Tells, StageMixedUndo
  PROVE  Tells'
<1>1. /\ UNCHANGED <<displaced, marker, damages, limits, owed, live, pc>>
      /\ faults' = faults \/ (faults < limits.faults /\ faults' = faults + 1)
      /\ pc \in {"session", "recovery"}
  BY DEF StageMixedUndo, UndoCanBeStaged, Succeed, Refused
<1>2. /\ \A s \in {"db", "restoreTmp"} : file'[s] = file[s]
      /\ file'["preImport"].id = ids' /\ ids' = ids + 1
  BY Telling, MixedStaged, Slots DEF StageMixedUndo
<1>3. ~UndoOwed'
  BY <1>1, <1>2, Telling DEF UndoOwed
<1>4. NoMoreRefusals => NoMoreRefusals'
  BY <1>1, LastRefusal DEF NoMoreRefusals
<1>5. OpenedIsLive'
  BY <1>1, <1>2, Telling DEF OpenedIsLive
<1>6. LeftStaged'
  BY <1>1, <1>2, <1>4, Telling DEF LeftStaged, Exists, RestoreSteps
<1> QED
  BY <1>3, <1>5, <1>6 DEF Tells, UndoIsLive, UndoFound

LEMMA TellsHarm ==
  ASSUME Bounded, Safe, Tells, Damage \/ Quarantine
  PROVE  Tells'
<1>1. /\ UNCHANGED <<displaced, marker, pc, live, limits, faults>>
      /\ pc = "off" /\ owed' = owed \ {file["db"].id} /\ Exists("db")
  BY DEF Damage, Quarantine
<1>2. /\ file'["preImport"] = file["preImport"] /\ file'["restoreTmp"] = file["restoreTmp"]
      /\ file'["db"].id \notin owed
  <2>1. CASE Damage
    <3>1. /\ ids' = ids + 1
          /\ file' = [file EXCEPT !["db"] = [file["db"] EXCEPT !.id = ids']]
      BY <2>1 DEF Damage
    <3>2. [file["db"] EXCEPT !.id = ids'].id = ids'
      BY Telling, Slots DEF Database
    <3>3. file'["db"].id = ids' /\ \A s \in FileSlots \ {"db"} : file'[s] = file[s]
      BY <3>1, <3>2, Telling, Slots
    <3>4. ids' \notin owed
      BY <3>1, Telling
    <3> QED
      BY <3>3, <3>4, Slots
  <2>2. CASE Quarantine
    BY <2>2, Telling, Removed, Slots DEF Quarantine
  <2> QED
    BY <2>1, <2>2
<1>3. ~UndoOwed'
  BY <1>1, <1>2, Telling DEF UndoIsLive, UndoOwed
<1>4. LeftStaged'
  BY <1>1, <1>2, Telling DEF LeftStaged, Exists, NoMoreRefusals
<1> QED
  BY <1>1, <1>2, <1>3, <1>4 DEF Tells, UndoIsLive, OpenedIsLive, UndoFound

TellsInv == Calm => Tells

LEMMA TellsInit == Init => TellsInv
<1> SUFFICES ASSUME Init PROVE Tells
  BY DEF TellsInv
<1>1. /\ owed = {} /\ displaced = {} /\ pc = "off"
      /\ \A s \in FileSlots : file[s] = None
  BY DEF Init
<1> QED
  BY <1>1, Slots DEF Tells, UndoIsLive, OpenedIsLive, UndoFound, UndoOwed, LeftStaged, Exists

LEMMA TellsNext == SafeInv /\ TellsInv /\ (TypeOK => Calm) /\ Calm' /\ [Next]_vars => TellsInv'
<1> SUFFICES ASSUME SafeInv, TellsInv, TypeOK => Calm, Calm', [Next]_vars PROVE Tells'
  BY DEF TellsInv
<1>1. Bounded /\ Safe /\ Tells
  BY DEF SafeInv, TellsInv, Shape
<1>2. CASE Launch \/ Resume
  BY <1>1, <1>2, TellsQuiet, TellsLog, TellsLaunch DEF Resume, QuietStep, LogStep
<1>3. CASE Apply
  BY <1>1, <1>3, TellsQuiet, TellsLog, TellsLaunch, TellsPutBack, TellsSwapIn
     DEF Apply, QuietStep, LogStep
<1>4. CASE Open \/ Restore
  BY <1>1, <1>4, TellsQuiet, TellsLog, TellsOpen, TellsRestore DEF Open, Restore, QuietStep,
     LogStep
<1>5. CASE User
  BY <1>1, <1>5, TellsOpen, TellsSession, TellsMixed, TellsRestore DEF User
<1>6. CASE World
  BY <1>1, <1>6, TellsQuiet, TellsHarm DEF World, QuietStep
<1>7. CASE UNCHANGED vars
  <2>1. UNCHANGED <<file, displaced, marker, pc, owed, live, limits, damages, faults>>
    BY <1>7 DEF vars, disk, ghost, budget
  <2> QED
    BY <1>1, <2>1 DEF Tells, UndoIsLive, OpenedIsLive, UndoFound, UndoOwed, LeftStaged, Exists,
       NoMoreRefusals
<1> QED
  BY <1>2, <1>3, <1>4, <1>5, <1>6, <1>7 DEF Next

(***************************************************************************)
(* What was damaged is kept for inspection.                                *)
(***************************************************************************)
Harmed(s) == file[s].id \in damaged

\* What is copied, or staged, is never a damaged database, nor is the one in
\* use; and only a restore cut short or refused leaves one under the scratch
\* name.
HarmInv ==
  /\ \A s \in {"staged", "bak", "restorePartial", "restoreTmp"} : ~Harmed(s)
  /\ pc = "session" => ~Harmed("db")
  /\ pc = "promote" => ~Exists("corrupt")
  /\ Exists("corruptTmp") => pc \in {"rotate", "promote"} \/ crashes + faults > 0

HarmKept == \A d \in damaged : OnDisk(d) => OnDisk(d)' \/ Superseded(d)

LEMMA Harming ==
  ASSUME Shape
  PROVE  /\ file \in [FileSlots -> Database] /\ 0 \notin damaged /\ ids \in Nat
         /\ crashes \in Nat /\ faults \in Nat
         /\ \A d \in damaged : d <= ids
         /\ \A s \in FileSlots : file[s].id <= ids
         /\ \A s \in FileSlots : ~Exists(s) => ~Harmed(s)
         /\ ~Harmed("staged")
<1>1. /\ file \in [FileSlots -> Database] /\ 0 \notin damaged /\ ids \in Nat
      /\ crashes \in Nat /\ faults \in Nat
  BY Budgeted DEF Shape, TypeOK
<1>2. /\ \A d \in damaged : d <= ids /\ d # file["staged"].id
      /\ \A s \in FileSlots : file[s].id <= ids
  BY DEF Shape, Numbered
<1> QED
  BY <1>1, <1>2 DEF Exists, Harmed

\* A database stays when every slot that held it does, or passes it on.
LEMMA PassedOn ==
  ASSUME displaced \subseteq displaced', NEW d, OnDisk(d),
         \A s \in FileSlots : file[s].id = d =>
           (\E t \in FileSlots : file'[t].id = d) \/ \E f \in displaced' : f.id = d
  PROVE  OnDisk(d)'
BY DEF OnDisk

LEMMA RenameKeeps ==
  ASSUME Shape, displaced \subseteq displaced', NEW a \in FileSlots, NEW b \in FileSlots, a # b,
         file' = Rename(a, b), NEW d \in damaged, OnDisk(d), file[b].id # d
  PROVE  OnDisk(d)'
<1>1. file'[b] = file[a] /\ \A s \in FileSlots \ {a, b} : file'[s] = file[s]
  BY Harming, Renamed
<1>2. ASSUME NEW s \in FileSlots, file[s].id = d
      PROVE  \E t \in FileSlots : file'[t].id = d
  <2>1. CASE s = a
    BY <1>1, <1>2, <2>1
  <2>2. CASE s # a
    BY <1>1, <1>2, <2>2
  <2> QED
    BY <2>1, <2>2
<1> QED
  BY <1>2, PassedOn

LEMMA RemovalKeeps ==
  ASSUME Shape, displaced \subseteq displaced', NEW a \in FileSlots, file' = Remove(a),
         NEW d \in damaged, OnDisk(d), file[a].id = d => file[a] \in displaced'
  PROVE  OnDisk(d)'
<1>1. \A s \in FileSlots \ {a} : file'[s] = file[s]
  BY Harming, Removed
<1>2. ASSUME NEW s \in FileSlots, file[s].id = d
      PROVE  (\E t \in FileSlots : file'[t].id = d) \/ \E f \in displaced' : f.id = d
  BY <1>1, <1>2
<1> QED
  BY <1>2, PassedOn

\* A step that writes only over slots that hold no damaged database.
LEMMA OthersStay ==
  ASSUME displaced \subseteq displaced', NEW T \in SUBSET FileSlots,
         \A s \in FileSlots \ T : file'[s].id = file[s].id,
         \A s \in T : ~Harmed(s)
  PROVE  HarmKept
<1> SUFFICES ASSUME NEW d \in damaged, OnDisk(d) PROVE OnDisk(d)'
  BY DEF HarmKept
<1>1. ASSUME NEW s \in FileSlots, file[s].id = d
      PROVE  \E t \in FileSlots : file'[t].id = d
  BY <1>1 DEF Harmed
<1> QED
  BY <1>1, PassedOn

LEMMA HarmStill ==
  ASSUME Shape, HarmInv, QuietStep \/ LogStep
  PROVE  HarmInv' /\ HarmKept
<1>1. UNCHANGED <<file, displaced, damaged>>
  BY Quiet, LogOnly
<1>2. crashes + faults > 0 => crashes' + faults' > 0
  <2>1. crashes' \in {crashes, crashes + 1} /\ faults' \in {faults, faults + 1, faults + 2}
    <3>1. CASE QuietStep
      BY <3>1 DEF QuietStep, Launch, NothingToResume, NothingStaged, FindDeadSwap,
         NothingToSetAside, WriteMarker, ClearMarker, RefuseDamaged, RefuseMissing, Crash, budget,
         Succeed, Refused
    <3>2. CASE LogStep
      BY <3>2, LogOnly DEF LogStep, ResumeLog, DisplaceLog, RecoverLog, SetAsideLog,
         RollBackUnmarkedLog, DropLiveLog, RollBackSwapLog, KeepCorruptLog, DropPreviousUndoLog,
         MoveLogBack, SetAsideCorruptLog, Succeed, Refused
    <3> QED
      BY <3>1, <3>2
  <2> QED
    BY <2>1, Harming
<1>3. /\ pc' \notin {"session", "promote"}
      /\ pc \in {"rotate", "promote"} => crashes' + faults' > 0
  <2>1. CASE QuietStep /\ ~Crash
    BY <2>1 DEF QuietStep, Launch, NothingToResume, NothingStaged, FindDeadSwap,
       NothingToSetAside, WriteMarker, ClearMarker, RefuseDamaged, RefuseMissing, Goto
  <2>2. CASE Crash
    <3>1. crashes' = crashes + 1 /\ faults' = faults
      BY <2>2 DEF Crash
    <3> QED
      BY <2>2, <3>1, Harming DEF Crash, Goto
  <2>3. CASE LogStep
    BY <2>3 DEF LogStep, ResumeLog, DisplaceLog, RecoverLog, SetAsideLog, RollBackUnmarkedLog,
       DropLiveLog, RollBackSwapLog, KeepCorruptLog, DropPreviousUndoLog, MoveLogBack,
       SetAsideCorruptLog, AfterDisplace, Goto
  <2> QED
    BY <2>1, <2>2, <2>3
<1>4. HarmInv'
  <2>1. \A s \in FileSlots : Harmed(s)' = Harmed(s) /\ Exists(s)' = Exists(s)
    BY <1>1 DEF Harmed, Exists
  <2>2. ASSUME Exists("corruptTmp") PROVE crashes' + faults' > 0
    <3>1. CASE pc \in {"rotate", "promote"}
      BY <1>3, <3>1
    <3>2. CASE crashes + faults > 0
      BY <1>2, <3>2
    <3> QED
      BY <2>2, <3>1, <3>2 DEF HarmInv
  <2> QED
    BY <1>3, <2>1, <2>2, Slots DEF HarmInv
<1>5. HarmKept
  BY <1>1, PassedOn DEF HarmKept
<1> QED
  BY <1>4, <1>5

\* The steps of a launch that move a database: over an empty slot, out of the
\* way of an import, or among the displaced.
LEMMA HarmLaunch ==
  ASSUME Shape, HarmInv,
         \/ ResumeRestore \/ DropPreviousUndo \/ DisplaceDatabase \/ RecoverStranded \/ SetAside
         \/ RollBackUnmovedLog \/ RollBackUnmarked \/ RollBackSwap \/ SwapIn
  PROVE  HarmInv' /\ HarmKept
<1>1. /\ UNCHANGED <<damaged, crashes>> /\ displaced \subseteq displaced'
      /\ crashes + faults > 0 => crashes' + faults' > 0
  <2>1. UNCHANGED <<damaged, crashes>> /\ faults' \in {faults, faults + 1}
    BY FileOnly DEF FileStep
  <2>2. displaced \subseteq displaced'
    BY DEF ResumeRestore, DropPreviousUndo, DisplaceDatabase, RecoverStranded, SetAside,
       RollBackUnmovedLog, RollBackUnmarked, RollBackSwap, SwapIn, PutBack
  <2> QED
    BY <2>1, <2>2, Harming
<1>2. pc \notin {"rotate", "promote"} /\ pc' \notin {"session", "promote"}
  BY DEF ResumeRestore, DropPreviousUndo, DisplaceDatabase, RecoverStranded, SetAside,
     RollBackUnmovedLog, RollBackUnmarked, RollBackSwap, SwapIn, PutBack, Goto
<1>3. \/ UNCHANGED file
      \/ \E a \in {"restoreTmp", "preImport", "staged"} : ~Exists("db") /\ file' = Rename(a, "db")
      \/ SetAside /\ file' = Rename("db", "preImport")
      \/ DropPreviousUndo /\ file' = Remove("preImport")
      \/ file' = Remove("db") /\ file["db"] \in displaced'
  <2>1. CASE ResumeRestore
    BY <2>1 DEF ResumeRestore
  <2>2. CASE DropPreviousUndo \/ SetAside
    BY <2>2 DEF DropPreviousUndo, SetAside
  <2>3. CASE DisplaceDatabase
    BY <2>3 DEF DisplaceDatabase
  <2>4. CASE RecoverStranded \/ RollBackUnmovedLog \/ RollBackUnmarked \/ RollBackSwap \/ SwapIn
    BY <2>4 DEF RecoverStranded, RollBackUnmovedLog, RollBackUnmarked, RollBackSwap, PutBack,
       SwapIn,
       Shape, OnItsWay, Swapping
  <2> QED
    BY <2>1, <2>2, <2>3, <2>4
<1>4. HarmInv'
  <2>1. /\ \A s \in {"staged", "restoreTmp"} : file'[s] \in {file[s], None}
        /\ \A s \in {"bak", "restorePartial", "corruptTmp"} : file'[s] = file[s]
    BY <1>3, Harming, Renamed, Removed, Slots
  <2>2. \A s \in {"staged", "bak", "restorePartial", "restoreTmp"} : ~Harmed(s)'
    BY <1>1, <2>1, Harming, Slots DEF HarmInv, Harmed
  <2>3. Exists("corruptTmp")' => crashes' + faults' > 0
    BY <1>1, <1>2, <2>1 DEF HarmInv, Exists
  <2> QED
    BY <1>2, <2>2, <2>3 DEF HarmInv
<1>5. HarmKept
  <2> SUFFICES ASSUME NEW d \in damaged, OnDisk(d) PROVE OnDisk(d)' \/ Superseded(d)
    BY DEF HarmKept
  <2>1. CASE UNCHANGED file
    BY <1>1, <2>1, PassedOn
  <2>2. CASE \E a \in {"restoreTmp", "preImport", "staged"} :
               ~Exists("db") /\ file' = Rename(a, "db")
    <3>1. file["db"].id # d
      BY <2>2, Harming DEF Exists
    <3> QED
      BY <1>1, <2>2, <3>1, RenameKeeps, Slots
  <2>3. CASE SetAside /\ file' = Rename("db", "preImport")
    <3>1. pc = "aside" /\ Exists("staged")
      BY <2>3 DEF SetAside, Shape, OnItsWay
    <3>2. file["preImport"].id # d => OnDisk(d)'
      BY <1>1, <2>3, RenameKeeps, Slots
    <3> QED
      BY <3>1, <3>2 DEF Superseded
  <2>4. CASE DropPreviousUndo /\ file' = Remove("preImport")
    <3>1. pc = "apply" /\ Exists("staged")
      BY <2>4 DEF DropPreviousUndo
    <3>2. file["preImport"].id # d => OnDisk(d)'
      BY <1>1, <2>4, RemovalKeeps, Slots
    <3> QED
      BY <3>1, <3>2 DEF Superseded
  <2>5. CASE file' = Remove("db") /\ file["db"] \in displaced'
    BY <1>1, <2>5, RemovalKeeps, Slots
  <2> QED
    BY <1>3, <2>1, <2>2, <2>3, <2>4, <2>5
<1> QED
  BY <1>4, <1>5

\* A copy of a backup, staged or put in place.
LEMMA HarmCopy ==
  ASSUME Shape, HarmInv, CopySnapshot \/ StageSnapshot \/ SwapInSnapshot
  PROVE  HarmInv' /\ HarmKept
<1>1. /\ UNCHANGED <<damaged, displaced, crashes>>
      /\ crashes + faults > 0 => crashes' + faults' > 0
  <2>1. UNCHANGED <<damaged, crashes>> /\ faults' \in {faults, faults + 1}
    BY FileOnly DEF FileStep
  <2> QED
    BY <2>1, Harming DEF CopySnapshot, StageSnapshot, SwapInSnapshot
<1>2. pc \notin {"rotate", "promote"} /\ pc' \notin {"session", "promote"}
  BY DEF CopySnapshot, StageSnapshot, SwapInSnapshot, Goto
<1>3. SUFFICES /\ \A s \in {"restorePartial", "restoreTmp"} : ~Harmed(s)'
               /\ \A s \in {"staged", "bak", "corruptTmp"} : file'[s] = file[s]
               /\ HarmKept
  <2>1. ASSUME \A s \in {"staged", "bak", "corruptTmp"} : file'[s] = file[s]
        PROVE  /\ \A s \in {"staged", "bak"} : ~Harmed(s)'
               /\ Exists("corruptTmp")' => crashes' + faults' > 0
    BY <1>1, <1>2, <2>1 DEF HarmInv, Harmed, Exists
  <2> QED
    BY <1>2, <1>3, <2>1 DEF HarmInv
<1>4. CASE CopySnapshot
  <2>1. /\ file'["restoreTmp"] = None /\ file'["restorePartial"] \in {None, file["bak"]}
        /\ \A s \in FileSlots \ {"restoreTmp", "restorePartial"} : file'[s] = file[s]
    BY <1>4, Harming, Slots DEF CopySnapshot
  <2>2. HarmKept
    <3> DEFINE T == {"restoreTmp", "restorePartial"}
    <3>1. T \in SUBSET FileSlots /\ \A s \in T : ~Harmed(s)
      BY Slots DEF HarmInv
    <3>2. \A s \in FileSlots \ T : file'[s].id = file[s].id
      BY <2>1
    <3> HIDE DEF T
    <3> QED
      BY <1>1, <3>1, <3>2, OthersStay
  <2> QED
    BY <1>1, <2>1, <2>2, Harming, Slots DEF HarmInv, Harmed
<1>5. CASE StageSnapshot /\ file' # file
  <2>1. file' = Rename("restorePartial", "restoreTmp")
    BY <1>5 DEF StageSnapshot
  <2>2. /\ file'["restoreTmp"] = file["restorePartial"] /\ file'["restorePartial"] = None
        /\ \A s \in FileSlots \ {"restoreTmp", "restorePartial"} : file'[s] = file[s]
    BY <2>1, Harming, Renamed, Slots
  <2>3. HarmKept
    BY <1>1, <2>1, RenameKeeps, Slots DEF HarmKept, HarmInv, Harmed
  <2> QED
    BY <1>1, <2>2, <2>3, Harming, Slots DEF HarmInv, Harmed
<1>6. CASE SwapInSnapshot /\ file' # file
  <2>1. file' = Rename("restoreTmp", "db") /\ ~Exists("db")
    BY <1>6 DEF SwapInSnapshot, Shape, OnItsWay
  <2>2. /\ file'["restoreTmp"] = None
        /\ \A s \in FileSlots \ {"restoreTmp", "db"} : file'[s] = file[s]
    BY <2>1, Harming, Renamed, Slots
  <2>3. HarmKept
    BY <1>1, <2>1, RenameKeeps, Harming, Slots DEF HarmKept, Exists
  <2> QED
    BY <1>1, <2>2, <2>3, Harming, Slots DEF HarmInv, Harmed
<1>7. CASE UNCHANGED file
  BY <1>1, <1>7, PassedOn DEF HarmInv, Harmed, HarmKept
<1> QED
  BY <1>4, <1>5, <1>6, <1>7

\* evict_corrupt_database and promote_corrupt_database.
LEMMA HarmEvict ==
  ASSUME Shape, HarmInv, ClearScratch \/ EvictCorrupt \/ RotateCorrupt \/ PromoteCorrupt
  PROVE  HarmInv' /\ HarmKept
<1>1. /\ UNCHANGED <<damaged, displaced, crashes>> /\ pc' # "session"
      /\ crashes + faults > 0 => crashes' + faults' > 0
      /\ Refused => crashes' + faults' > 0
  <2>1. UNCHANGED <<damaged, crashes>> /\ faults' \in {faults, faults + 1}
    BY FileOnly DEF FileStep
  <2> QED
    BY <2>1, Harming DEF ClearScratch, EvictCorrupt, RotateCorrupt, PromoteCorrupt, Goto, Refused
<1>2. SUFFICES /\ file'["restoreTmp"] \in {file["restoreTmp"], None}
               /\ \A s \in {"staged", "bak", "restorePartial"} : file'[s] = file[s]
               /\ pc' = "promote" => ~Exists("corrupt")'
               /\ Exists("corruptTmp")' => pc' \in {"rotate", "promote"} \/ crashes' + faults' > 0
               /\ HarmKept
  <2>1. ASSUME file'["restoreTmp"] \in {file["restoreTmp"], None},
               \A s \in {"staged", "bak", "restorePartial"} : file'[s] = file[s]
        PROVE  \A s \in {"staged", "bak", "restorePartial", "restoreTmp"} : ~Harmed(s)'
    BY <1>1, <2>1, Harming, Slots DEF HarmInv, Harmed
  <2> QED
    BY <1>1, <1>2, <2>1 DEF HarmInv
<1>3. CASE UNCHANGED file
  <2>1. HarmKept
    BY <1>1, <1>3, PassedOn DEF HarmKept
  <2>2. /\ pc' = "promote" => ~Exists("corrupt")
        /\ \/ pc' = "promote" \/ Refused
           \/ pc \notin {"rotate", "promote"} \/ ~Exists("corruptTmp")
    <3>1. CASE ClearScratch \/ EvictCorrupt
      BY <1>3, <3>1 DEF ClearScratch, EvictCorrupt, Goto
    <3>2. CASE RotateCorrupt
      BY <1>3, <3>2, Harming, Renamed, Slots DEF RotateCorrupt, Goto, Exists
    <3>3. CASE PromoteCorrupt
      BY <1>3, <3>3, Harming, Renamed, Slots DEF PromoteCorrupt, Goto, Exists
    <3> QED
      BY <3>1, <3>2, <3>3
  <2> QED
    BY <1>1, <1>3, <2>1, <2>2 DEF HarmInv, Exists
<1>4. CASE ClearScratch /\ file' # file
  <2>1. /\ file' = Remove("corruptTmp") /\ pc = "evict" /\ pc' = "evictDb"
    BY <1>4 DEF ClearScratch, Goto
  <2>2. file'["corruptTmp"] = None /\ \A s \in FileSlots \ {"corruptTmp"} : file'[s] = file[s]
    BY <2>1, Harming, Removed, Slots
  <2>3. ASSUME NEW d \in damaged, OnDisk(d) PROVE OnDisk(d)' \/ Superseded(d)
    <3>1. CASE file["corruptTmp"].id # d
      BY <1>1, <2>1, <2>3, <3>1, RemovalKeeps, Slots
    <3>2. CASE file["corruptTmp"].id = d
      BY <2>1, <3>2, Harming DEF HarmInv, Exists, Superseded
    <3> QED
      BY <3>1, <3>2
  <2> QED
    BY <2>1, <2>2, <2>3, Slots DEF HarmKept, Exists
<1>5. CASE EvictCorrupt /\ file' # file
  <2>1. CASE Succeed /\ Goto("rotate") /\ file' = Rename("db", "corruptTmp")
    <3>1. \A s \in FileSlots \ {"db", "corruptTmp"} : file'[s] = file[s]
      BY <2>1, Harming, Renamed, Slots
    <3>2. ASSUME NEW d \in damaged, OnDisk(d) PROVE OnDisk(d)' \/ Superseded(d)
      <4>1. CASE file["corruptTmp"].id # d
        BY <1>1, <2>1, <3>2, <4>1, RenameKeeps, Slots
      <4>2. CASE file["corruptTmp"].id = d
        BY <1>5, <4>2, Harming DEF EvictCorrupt, HarmInv, Exists, Superseded
      <4> QED
        BY <4>1, <4>2
    <3> QED
      BY <2>1, <3>1, <3>2, Slots DEF HarmKept, Goto
  <2>2. CASE Refused /\ Goto("recovery") /\ file' = Remove("restoreTmp")
    <3>1. file'["restoreTmp"] = None /\ \A s \in FileSlots \ {"restoreTmp"} : file'[s] = file[s]
      BY <2>2, Harming, Removed, Slots
    <3>2. HarmKept
      BY <1>1, <2>2, RemovalKeeps, Slots DEF HarmKept, HarmInv, Harmed
    <3> QED
      BY <1>1, <2>2, <3>1, <3>2, Slots DEF Goto
  <2> QED
    BY <1>5, <2>1, <2>2 DEF EvictCorrupt
<1>6. CASE RotateCorrupt /\ file' # file
  <2>1. /\ file' = Rename("corrupt", "corrupt1") /\ pc = "rotate" /\ pc' = "promote"
        /\ Exists("corrupt")
    BY <1>6 DEF RotateCorrupt, Goto
  <2>2. /\ file'["corrupt"] = None
        /\ \A s \in FileSlots \ {"corrupt", "corrupt1"} : file'[s] = file[s]
    BY <2>1, Harming, Renamed, Slots
  <2>3. ASSUME NEW d \in damaged, OnDisk(d) PROVE OnDisk(d)' \/ Superseded(d)
    <3>1. CASE file["corrupt1"].id # d
      BY <1>1, <2>1, <2>3, <3>1, RenameKeeps, Slots
    <3>2. CASE file["corrupt1"].id = d
      BY <2>1, <3>2 DEF Superseded
    <3> QED
      BY <3>1, <3>2
  <2> QED
    BY <2>1, <2>2, <2>3, Slots DEF HarmKept, Exists
<1>7. CASE PromoteCorrupt /\ file' # file
  <2>1. file' = Rename("corruptTmp", "corrupt") /\ pc = "promote" /\ pc' = "keepLog"
    BY <1>7 DEF PromoteCorrupt, Goto
  <2>2. /\ file'["corruptTmp"] = None
        /\ \A s \in FileSlots \ {"corruptTmp", "corrupt"} : file'[s] = file[s]
    BY <2>1, Harming, Renamed, Slots
  <2>3. HarmKept
    BY <1>1, <2>1, RenameKeeps, Harming, Slots DEF HarmKept, HarmInv, Exists
  <2> QED
    BY <2>1, <2>2, <2>3, Slots DEF Exists
<1> QED
  BY <1>3, <1>4, <1>5, <1>6, <1>7

\* The database that opens, and what a session or the recovery prompt writes.
LEMMA HarmSession ==
  ASSUME Shape, HarmInv,
         \/ OpenDatabase \/ FirstRun \/ StartEmpty \/ Use \/ Backup \/ StageImport \/ StageUndo
         \/ StageMixedUndo \/ \E fold \in BOOLEAN : Quit(fold)
  PROVE  HarmInv' /\ HarmKept
<1>1. /\ UNCHANGED <<damaged, displaced, crashes>> /\ faults' \in {faults, faults + 1}
      /\ pc \in {"open", "session", "recovery"} /\ pc' \in {"session", "recovery", "off"}
  BY DEF OpenDatabase, FirstRun, StartEmpty, CreateEmpty, Use, Backup, StageImport, StageUndo,
     StageMixedUndo, UndoCanBeStaged, Quit, Goto, Succeed, Refused, disk, ghost, budget
<1>2. crashes + faults > 0 => crashes' + faults' > 0
  BY <1>1, Harming
<1>3. ids + 1 \notin damaged
  BY Harming
<1>4. \E T \in SUBSET (FileSlots \ {"corruptTmp"}) :
        /\ \A s \in FileSlots \ T : file'[s].id = file[s].id
        /\ \A s \in T : ~Harmed(s) /\ file'[s].id \notin damaged
  <2>1. CASE \A s \in FileSlots : file'[s].id = file[s].id
    <3> DEFINE T == {}
    <3>1. T \in SUBSET (FileSlots \ {"corruptTmp"}) /\ \A s \in T : FALSE
      OBVIOUS
    <3> HIDE DEF T
    <3> QED
      BY <2>1, <3>1
  <2>2. CASE FirstRun \/ StartEmpty
    <3>1. file' = [file EXCEPT !["db"] = [id |-> ids + 1, whole |-> TRUE], !["bak"] = None]
      BY <2>2 DEF FirstRun, StartEmpty, CreateEmpty
    <3>2. ~Exists("db")
      BY <2>2 DEF FirstRun, StartEmpty
    <3>3. /\ file'["db"].id = ids + 1 /\ file'["bak"].id = 0
          /\ \A s \in FileSlots \ {"db", "bak"} : file'[s] = file[s]
      BY <3>1, Harming, Slots
    <3>4. \A s \in {"db", "bak"} : ~Harmed(s) /\ file'[s].id \notin damaged
      BY <1>3, <3>2, <3>3, Harming, Slots DEF HarmInv
    <3> DEFINE T == {"db", "bak"}
    <3>7. T \in SUBSET (FileSlots \ {"corruptTmp"})
      BY Slots
    <3>8. /\ \A s \in FileSlots \ T : file'[s].id = file[s].id
          /\ \A s \in T : ~Harmed(s) /\ file'[s].id \notin damaged
      BY <3>3, <3>4
    <3> HIDE DEF T
    <3> QED
      BY <3>7, <3>8
  <2>3. CASE Use
    <3>1. file' = [file EXCEPT !["db"] = [id |-> ids + 1, whole |-> FALSE]] /\ pc = "session"
      BY <2>3 DEF Use
    <3>2. /\ file'["db"].id = ids + 1 /\ ~Harmed("db")
          /\ \A s \in FileSlots \ {"db"} : file'[s] = file[s]
      BY <3>1, Harming, Slots DEF HarmInv
    <3> DEFINE T == {"db"}
    <3>7. T \in SUBSET (FileSlots \ {"corruptTmp"})
      BY Slots
    <3>8. /\ \A s \in FileSlots \ T : file'[s].id = file[s].id
          /\ \A s \in T : ~Harmed(s) /\ file'[s].id \notin damaged
      BY <1>3, <3>2
    <3> HIDE DEF T
    <3> QED
      BY <3>7, <3>8
  <2>4. CASE Backup
    <3>1. /\ file' = [file EXCEPT !["bak"] = [id |-> live, whole |-> TRUE]]
          /\ live = file["db"].id /\ ~Harmed("db")
      BY <2>4 DEF Backup, Shape, OnItsWay, HarmInv
    <3>2. /\ file'["bak"].id \notin damaged /\ ~Harmed("bak")
          /\ \A s \in FileSlots \ {"bak"} : file'[s] = file[s]
      BY <3>1, Harming, Slots DEF HarmInv, Harmed
    <3> DEFINE T == {"bak"}
    <3>7. T \in SUBSET (FileSlots \ {"corruptTmp"})
      BY Slots
    <3>8. /\ \A s \in FileSlots \ T : file'[s].id = file[s].id
          /\ \A s \in T : ~Harmed(s) /\ file'[s].id \notin damaged
      BY <3>2
    <3> HIDE DEF T
    <3> QED
      BY <3>7, <3>8
  <2>5. CASE StageImport \/ StageUndo
    <3>1. /\ \A s \in FileSlots \ {"staged"} : file'[s].id = file[s].id
          /\ file'["staged"].id \notin damaged
      <4>1. CASE StageImport
        <5>1. ids' = ids + 1
          BY <4>1 DEF StageImport
        <5> QED
          BY <1>3, <4>1, <5>1, ImportStaged, Harming DEF Staged
      <4>2. CASE StageUndo
        <5>1. file["preImport"].id \notin damaged
          BY <4>2 DEF StageUndo, UndoCanBeStaged
        <5> QED
          BY <4>2, <5>1, UndoStaged, Harming DEF Staged
      <4> QED
        BY <2>5, <4>1, <4>2
    <3>2. ~Harmed("staged")
      BY DEF HarmInv
    <3> DEFINE T == {"staged"}
    <3>7. T \in SUBSET (FileSlots \ {"corruptTmp"})
      BY Slots
    <3>8. /\ \A s \in FileSlots \ T : file'[s].id = file[s].id
          /\ \A s \in T : ~Harmed(s) /\ file'[s].id \notin damaged
      BY <3>1, <3>2
    <3> HIDE DEF T
    <3> QED
      BY <3>7, <3>8
  <2>6. CASE StageMixedUndo
    <3>1. /\ \A s \in FileSlots \ {"staged", "preImport"} : file'[s] = file[s]
          /\ file'["preImport"].id = ids + 1
          /\ file'["staged"] = file["staged"] \/ file'["staged"].id \in {0, ids + 1}
      BY <2>6, MixedStaged
    <3>2. ~Harmed("preImport") /\ ~Harmed("staged")
      BY <2>6 DEF StageMixedUndo, UndoCanBeStaged, Harmed, HarmInv
    <3>3. \A s \in {"staged", "preImport"} : file'[s].id \notin damaged
      BY <1>3, <3>1, <3>2, Harming DEF Harmed
    <3> DEFINE T == {"staged", "preImport"}
    <3>7. T \in SUBSET (FileSlots \ {"corruptTmp"})
      BY Slots
    <3>8. /\ \A s \in FileSlots \ T : file'[s].id = file[s].id
          /\ \A s \in T : ~Harmed(s) /\ file'[s].id \notin damaged
      BY <3>1, <3>2, <3>3
    <3> HIDE DEF T
    <3> QED
      BY <3>7, <3>8
  <2>7. CASE OpenDatabase \/ \E fold \in BOOLEAN : Quit(fold)
    <3>1. file' = file \/ file' = Folded("db", file)
      BY <2>7 DEF OpenDatabase, Quit, disk
    <3>2. \A s \in FileSlots : file'[s].id = file[s].id
      BY <3>1, Harming, Folding, Slots
    <3> QED
      BY <2>1, <3>2
  <2> QED
    BY <2>2, <2>3, <2>4, <2>5, <2>6, <2>7
<1>5. HarmKept
  BY <1>1, <1>4, OthersStay
<1>6. \A s \in FileSlots : Harmed(s)' => Harmed(s)
  BY <1>1, <1>4 DEF Harmed
<1>7. pc' = "session" => ~Harmed("db")'
  <2>1. CASE OpenDatabase
    BY <2>1 DEF OpenDatabase, disk, Harmed
  <2>2. CASE FirstRun \/ StartEmpty
    BY <1>1, <1>3, <2>2, Harming, Slots DEF FirstRun, StartEmpty, CreateEmpty, Harmed
  <2>3. CASE ~(OpenDatabase \/ FirstRun \/ StartEmpty)
    <3>1. pc' = "session" => pc = "session"
      BY <2>3 DEF Use, Backup, StageImport, StageUndo, StageMixedUndo, Quit, Goto
    <3> QED
      BY <1>6, <3>1, Slots DEF HarmInv
  <2> QED
    BY <2>1, <2>2, <2>3
<1>8. Exists("corruptTmp")' => crashes' + faults' > 0
  BY <1>1, <1>2, <1>4, Slots DEF HarmInv, Exists
<1> QED
  BY <1>1, <1>5, <1>6, <1>7, <1>8, Slots DEF HarmInv

\* A closed database is damaged, or taken away.
LEMMA HarmDone ==
  ASSUME Shape, HarmInv, Damage \/ Quarantine
  PROVE  HarmInv' /\ HarmKept
<1>1. /\ UNCHANGED <<displaced, pc, crashes, faults>> /\ pc = "off" /\ ~Harmed("db")
      /\ damaged' \subseteq damaged \cup {ids + 1}
  BY DEF Damage, Quarantine, Harmed
<1>2. \A s \in FileSlots \ {"db"} : file'[s] = file[s]
  <2>1. CASE Damage
    BY <2>1, Harming, Slots DEF Damage
  <2>2. CASE Quarantine
    BY <2>2, Harming, Removed, Slots DEF Quarantine
  <2> QED
    BY <2>1, <2>2
<1>3. HarmKept
  <2> DEFINE T == {"db"}
  <2>1. T \in SUBSET FileSlots
    BY Slots
  <2>2. \A s \in FileSlots \ T : file'[s].id = file[s].id
    BY <1>2
  <2>3. \A s \in T : ~Harmed(s)
    BY <1>1
  <2> HIDE DEF T
  <2> QED
    BY <1>1, <2>1, <2>2, <2>3, OthersStay
<1>4. \A s \in {"staged", "bak", "restorePartial", "restoreTmp"} : ~Harmed(s)'
  <2>1. \A s \in FileSlots : file[s].id # ids + 1
    BY Harming DEF Shape, TypeOK, Database
  <2> QED
    BY <1>1, <1>2, <2>1, Slots DEF HarmInv, Harmed
<1> QED
  BY <1>1, <1>2, <1>3, <1>4, Slots DEF HarmInv, Exists

LEMMA HarmInit == Init => HarmInv
<1> SUFFICES ASSUME Init PROVE HarmInv
  OBVIOUS
<1>1. \A s \in FileSlots : file[s] = None
  BY DEF Init
<1> QED
  BY <1>1, Slots DEF Init, HarmInv, Harmed, Exists

LEMMA HarmNext == Shape /\ HarmInv /\ [Next]_vars => HarmInv' /\ HarmKept
<1> SUFFICES ASSUME Shape, HarmInv, [Next]_vars PROVE HarmInv' /\ HarmKept
  OBVIOUS
<1>1. CASE Launch \/ Resume \/ Apply
  BY <1>1, HarmStill, HarmLaunch DEF Resume, Apply, QuietStep, LogStep
<1>2. CASE Open \/ Restore
  BY <1>2, HarmStill, HarmCopy, HarmEvict, HarmSession DEF Open, Restore, QuietStep, LogStep
<1>3. CASE User
  BY <1>3, HarmSession, HarmCopy DEF User
<1>4. CASE World
  BY <1>4, HarmStill, HarmDone DEF World, QuietStep
<1>5. CASE UNCHANGED vars
  <2>1. UNCHANGED <<file, displaced, damaged, pc, crashes, faults>>
    BY <1>5 DEF vars, disk, ghost, budget
  <2> QED
    BY <2>1, PassedOn DEF HarmInv, Harmed, HarmKept, Exists
<1> QED
  BY <1>1, <1>2, <1>3, <1>4, <1>5 DEF Next

(***************************************************************************)
(* The theorems.                                                           *)
(***************************************************************************)
LEMMA AlwaysSafe == ASSUME OneRefusal PROVE Spec => [](SafeInv /\ LogsInv)
<1>1. Init => SafeInv /\ LogsInv
  BY SafeInit, LogsInit
<1>2. SafeInv /\ LogsInv /\ [Next]_vars => (SafeInv /\ LogsInv)'
  BY SafeNext, LogsNext
<1> QED
  BY <1>1, <1>2, PTL DEF Spec

\* Every variable keeps its type, whatever is killed, refused, damaged and imported.
THEOREM DatabaseSwapTypes == Spec => []TypeOK
<1>1. Shape => TypeOK
  BY DEF Shape
<1> QED
  BY <1>1, ShapeInit, ShapeNext, PTL DEF Spec

LEMMA CalmOnes == ASSUME CalmBudgets PROVE OneRefusal /\ (TypeOK => Calm)
BY Budgeted DEF CalmBudgets, OneRefusal, Calm, Undisturbed, TypeOK

\* No launch loses the only file of a library the app owes.  In
\* apply_pending_database_import and its recovery of a dead swap
\* (services/db_backup/import.rs), resume_interrupted_restore and
\* restore_database_from_backup (restore.rs) it stays at the database path, in
\* the undo copy, or among the displaced files, for any number of imports,
\* undos and restores: with a refused call and any damage while the launches
\* run to their end, or with any number of kills between any two steps.
THEOREM NoLibraryLost == ASSUME CalmBudgets PROVE Spec => []LibraryFileKept
<1>1. SafeInv => LibraryFileKept
  <2> SUFFICES ASSUME SafeInv, NEW v \in owed
               PROVE  v \in {file["db"].id, file["preImport"].id} \/ Displaced(v)
    BY DEF LibraryFileKept, Displaced
  <2>1. Kept
    BY CalmOnes DEF SafeInv, Shape, Safe
  <2> QED
    BY <2>1 DEF Kept
<1> QED
  BY <1>1, AlwaysSafe, CalmOnes, PTL

\* A database and its log are never separated, nor mixed with another's, by
\* move_wal_with, set_aside_corrupt_wal, the removals of the live log and of
\* the previous undo copy and its log, either of which may be refused, for any
\* number of imports and damages, while the launches run to their end.
THEOREM LogsAlwaysStay == ASSUME OneRefusal PROVE Spec => []LogsStay
<1>1. SafeInv /\ LogsInv => LogsStay
  <2> SUFFICES ASSUME SafeInv, LogsInv, crashes = 0, pc = "session"
               PROVE  /\ file["db"].whole \/ log["wal"] = live
                      /\ log["wal"] \in {0, file["db"].id}
                      /\ log["preWal"] \in {0, file["preImport"].id, leftLog}
    BY DEF LogsStay, OpensWhole, NoForeignLog
  <2>1. Own("db", "wal") /\ OwnUndo /\ live = file["db"].id
    BY Beside DEF LogsInv, LogsBeside, FirstMoved, BackFirst, LeftBehind, Dropping, OnItsWay
  <2> QED
    BY <2>1 DEF Own, OwnUndo
<1> QED
  BY <1>1, AlwaysSafe, PTL

\* The undo the app promises after an import is there in every session the
\* database is not damaged before, and opens with the last transactions of the
\* library it was, unless a kill fell between the two renames.
THEOREM UndoAlwaysKept == ASSUME CalmBudgets PROVE Spec => []UndoKept
<1>1. SafeInv /\ LogsInv => UndoKept
  <2> SUFFICES ASSUME SafeInv, LogsInv PROVE UndoKept
    OBVIOUS
  <2>1. UndoFileKept
    BY CalmOnes DEF SafeInv, Shape, Safe, Undamaged, UndoFileKept, Displaced
  <2>2. crashes = 0 => UndoCopyOpensWhole
    BY DEF LogsInv, LogsBeside, FirstMoved, BackFirst, Dropping, OwnUndo, UndoCopyOpensWhole
  <2> QED
    BY <2>1, <2>2 DEF UndoKept
<1> QED
  BY <1>1, AlwaysSafe, CalmOnes, PTL

LEMMA StaysCalm == ASSUME CalmBudgets PROVE TypeOK' => Calm'
<1> SUFFICES ASSUME TypeOK' PROVE Calm'
  OBVIOUS
<1>1. limits' \in Budgets /\ crashes' \in 0..limits'.crashes
  BY DEF TypeOK
<1>2. limits'.crashes = 0 \/ (limits'.faults = 0 /\ limits'.damages = 0)
  BY <1>1 DEF CalmBudgets
<1> QED
  BY <1>1, <1>2 DEF Calm, Undisturbed

\* The recoveries of a launch tell apart what the names on disk mean: neither
\* resume_interrupted_restore (services/db_backup/restore.rs) nor the creation
\* of an empty database (services/database.rs) ever takes the database path
\* while a library the app owes lies in the undo copy, however many swaps and
\* restores came before and whatever a refused call or a kill left of them.
THEOREM RecoveriesTellApart == ASSUME CalmBudgets PROVE Spec => RecoveryTellsApart
<1>1. Init => SafeInv /\ TellsInv
  BY SafeInit, TellsInit, CalmOnes
<1>2. SafeInv /\ TellsInv /\ [Next]_vars => (SafeInv /\ TellsInv)'
  <2> SUFFICES ASSUME SafeInv, TellsInv, [Next]_vars PROVE SafeInv' /\ TellsInv'
    OBVIOUS
  <2>1. SafeInv'
    BY SafeNext
  <2>2. (TypeOK => Calm) /\ Calm'
    BY <2>1, CalmOnes, StaysCalm DEF SafeInv, Shape
  <2> QED
    BY <2>1, <2>2, TellsNext
<1>3. SafeInv /\ TellsInv /\ [Next]_vars =>
        (/\ ~Exists("db")
         /\ \/ pc = "open" /\ pc' = "session"
            \/ pc = "resume" /\ file'["db"].id # 0
         => file["preImport"].id \notin owed)
  <2> SUFFICES ASSUME SafeInv, TellsInv, [Next]_vars, ~Exists("db"),
                      \/ pc = "open" /\ pc' = "session"
                      \/ pc = "resume" /\ file'["db"].id # 0
               PROVE  ~UndoOwed
    BY DEF UndoOwed
  <2>1. Bounded /\ Safe /\ Tells
    BY CalmOnes DEF SafeInv, TellsInv, Shape
  <2>2. CASE pc = "open"
    BY <2>1, <2>2, Telling, Slots DEF UndoFound, Undamaged, SettledSteps, UndoOwed, Fresh,
       Exists
  <2>3. CASE pc = "resume" /\ file'["db"].id # 0
    <3>1. file' # file
      BY <2>3 DEF Exists
    <3>2. ResumeRestore
      <4>1. ~(QuietStep \/ LogStep)
        BY <3>1, Quiet, LogOnly
      <4> QED
        BY <2>3, <3>1, <4>1 DEF Next, Resume, Apply, Open, User, Restore, World, QuietStep,
           LogStep,
           DropPreviousUndo, DisplaceDatabase, RecoverStranded, SetAside, RollBackUnmovedLog,
           RollBackUnmarked, RollBackSwap, PutBack, SwapIn, OpenDatabase, FirstRun, StartEmpty,
           Use, Backup, StageImport, StageUndo, StageMixedUndo, UndoCanBeStaged, CopySnapshot,
           Quit,
           StageSnapshot, ClearScratch, EvictCorrupt, RotateCorrupt, PromoteCorrupt,
           SwapInSnapshot,
           Damage, Quarantine, vars, disk
    <3>3. damages # 0
      BY <2>1, <3>2, Telling DEF ResumeRestore, Undamaged
    <3> QED
      BY <2>1, <2>3, <3>3, Telling DEF UndoFound, Resting
  <2> QED
    BY <2>2, <2>3
<1> QED
  BY <1>1, <1>2, <1>3, PTL DEF Spec, RecoveryTellsApart

\* A damaged database stays for inspection: evict_corrupt_database and
\* promote_corrupt_database (services/db_backup/restore.rs) and the swap of an
\* import (import.rs) give it another name in every step, whatever is killed or
\* refused and however many restores and imports follow one another, until an
\* import whose undo copy it was is replaced by the next, until it is the oldest
\* generation of a rotation, or until a restore finds it where an earlier one
\* that was cut short or refused left it, under the scratch name.
THEOREM DamagedAlwaysKept == Spec => DamagedKept
<1>1. Shape /\ HarmInv /\ [Next]_vars =>
        (\A d \in damaged : OnDisk(d) => OnDisk(d)' \/ Superseded(d))
  BY HarmNext DEF HarmKept
<1>2. Shape /\ HarmInv /\ [Next]_vars => (Shape /\ HarmInv)'
  BY ShapeNext, HarmNext
<1> QED
  BY <1>1, <1>2, ShapeInit, HarmInit, PTL DEF Spec, DamagedKept
=============================================================================
