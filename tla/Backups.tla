------------------------------ MODULE Backups ------------------------------
(***************************************************************************)
(* The two families of database copies and the rotation they share         *)
(* (services/db_backup/{mod,snapshot,external}.rs): the daily snapshots    *)
(* .bak, .bak.1 .. .bak.N beside the database, and the mirror in a folder  *)
(* of the user's.  Two callers may run a family at once: for the daily     *)
(* one, the pool's background snapshot and the periodic loop of lib.rs,    *)
(* under BACKUP_IN_PROGRESS; for the mirror, that loop and the setting of  *)
(* its folder, under nothing.                                              *)
(*                                                                         *)
(* Every file-system call is a step, so a crash, another caller or a       *)
(* program that holds a file may come between any two.  A copy is a number *)
(* in the order the copies were taken; 0 is no file.  Only one family is   *)
(* modelled at a time, since they share no file.                           *)
(***************************************************************************)
EXTENDS Integers, FiniteSets

CONSTANTS N,           \* rotated generations kept behind generation 0
          Callers,     \* what may call the family's run
          NoCaller,
          MaxCopies,   \* copies ever taken
          Budgets      \* which family a behaviour takes up, and how often
                       \* what may go wrong does so

ASSUME BackupsAssumption ==
  /\ N \in Nat \ {0} /\ NoCaller \notin Callers /\ MaxCopies \in Nat
  /\ Budgets \subseteq [family : {"daily", "mirror"},
                        copies : 0..MaxCopies, \* copies taken
                        crashes : Nat, \* kills of the process during a run
                        faults : Nat,  \* files found held, copies that fail
                        events : Nat,  \* what happens to the database itself
                        overlap : BOOLEAN] \* the mirror's runs may overlap

VARIABLES
  family,
  limits,    \* which of Budgets this behaviour has
  slot,      \* the copy in each generation
  parked,    \* generation 0 while those above it shift: .rotating
  tmp,       \* what VACUUM INTO writes: .bak.tmp, .new.export-staging
  staged,    \* the mirror's checked copy, waiting for promotion: .new
  whole,     \* copies whose VACUUM INTO ended
  kind,      \* what the database was when each copy was taken
  taken,     \* copies taken so far
  pc, gen,   \* each caller's place in its run, and in the shift
  parkedIt,  \* newest_parked of each caller's rotation
  mine,      \* the copy each caller is writing
  lock,      \* who holds BACKUP_IN_PROGRESS
  db,        \* the state of the database itself
  flagged,   \* .integrity-failed is on disk
  foreign,   \* the mirror's copies are labelled with another lineage
  aside,     \* copies moved out of the rotation for good
  restored,  \* history: the copy the last restore put in place
  recent,    \* copies younger than BACKUP_MIN_INTERVAL_SECS
  sawEmpty,  \* history: the database had no rows when the last daily run looked
  overlapped, \* history: two runs of the mirror were under way at once
  held,      \* copies another program has open
  crashes, faults, events

files  == <<slot, parked, tmp, staged, aside>>
copies == <<whole, kind, taken, recent, sawEmpty, overlapped>>
run    == <<pc, gen, parkedIt, mine, lock>>
source == <<db, flagged, foreign, restored>>
world  == <<held, crashes, faults, events, limits>>
vars   == <<family, files, copies, run, source, world>>

Copy == 0..MaxCopies
PCs  == {"idle", "rules", "aside", "clear", "vacuum", "copying", "verify", "stage",
         "putBack", "park", "shift", "place", "unpark", "promote"}
DbStates == {"library", "empty", "hidden", "damaged", "missing"}

\* The database, its flags, and what a restore took.
SourceOK ==
  /\ db \in DbStates /\ flagged \in BOOLEAN /\ foreign \in BOOLEAN
  /\ restored \in Copy

TypeOK ==
  /\ limits \in Budgets /\ family = limits.family /\ SourceOK
  /\ slot \in [0..N -> Copy] /\ parked \in Copy
  /\ tmp \in Copy /\ staged \in Copy /\ aside \in SUBSET Copy
  /\ whole \in SUBSET Copy /\ kind \in [1..MaxCopies -> DbStates]
  /\ taken \in Copy /\ recent \in SUBSET Copy
  /\ sawEmpty \in BOOLEAN /\ overlapped \in BOOLEAN
  /\ pc \in [Callers -> PCs] /\ gen \in [Callers -> 0..N]
  /\ parkedIt \in [Callers -> BOOLEAN] /\ mine \in [Callers -> Copy]
  /\ lock \in Callers \cup {NoCaller}
  /\ held \in SUBSET Copy
  /\ crashes \in 0..limits.crashes /\ faults \in 0..limits.faults
  /\ events \in 0..limits.events

Init ==
  /\ limits \in Budgets /\ family = limits.family
  /\ slot = [g \in 0..N |-> 0] /\ parked = 0
  /\ tmp = 0 /\ staged = 0 /\ aside = {}
  /\ whole = {} /\ kind = [s \in 1..MaxCopies |-> "library"]
  /\ taken = 0 /\ recent = {} /\ sawEmpty = FALSE /\ overlapped = FALSE
  /\ pc = [c \in Callers |-> "idle"] /\ gen = [c \in Callers |-> 0]
  /\ parkedIt = [c \in Callers |-> FALSE] /\ mine = [c \in Callers |-> 0]
  /\ lock = NoCaller
  /\ db = "library" /\ flagged = FALSE /\ foreign \in BOOLEAN
  /\ restored = 0 /\ held = {}
  /\ crashes = 0 /\ faults = 0 /\ events = 0

(***************************************************************************)
(* Files.                                                                  *)
(***************************************************************************)
Generations == {slot[g] : g \in 0..N} \ {0}

\* SQLite has the file open: Unix renames and removes it all the same,
\* Windows refuses.
BeingWritten(s) == s # 0 /\ \E c \in Callers : pc[c] = "copying" /\ mine[c] = s

MayRename(from, to)    == from # 0 /\ from \notin held /\ to \notin held
MayRefuse(from, to)    == \/ from = 0 \/ from \in held \/ to \in held
                          \/ BeingWritten(from) \/ BeingWritten(to)
\* What a best-effort removal leaves.
AfterRemove(s) == IF s \in held THEN {s} ELSE IF BeingWritten(s) THEN {0, s} ELSE {0}

Goto(c, p) == pc' = [pc EXCEPT ![c] = p]
\* A run ends, and with it the guard it holds.
End(c) ==
  /\ Goto(c, "idle")
  /\ gen' = [gen EXCEPT ![c] = 0]
  /\ parkedIt' = [parkedIt EXCEPT ![c] = FALSE]
  /\ mine' = [mine EXCEPT ![c] = 0]
  /\ lock' = IF lock = c THEN NoCaller ELSE lock
Step(c, p) == Goto(c, p) /\ UNCHANGED <<gen, parkedIt, mine, lock>>

Fresh == IF family = "daily" THEN tmp ELSE staged

(***************************************************************************)
(* A run begins.                                                           *)
(***************************************************************************)
HoldsLibrary(s) == s \in whole /\ kind[s] # "empty"

\* A copy that cannot be read counts as holding one.
AnyHoldsLibrary ==
  \E s \in Generations : s \in held \/ HoldsLibrary(s)

Throttled == slot[0] \in recent

\* What the rule against an empty database saw.
NotesRows ==
  /\ sawEmpty' = (db = "empty")
  /\ UNCHANGED <<whole, kind, taken, recent, overlapped>>

\* Mutants: the throttle is read before the lock is waited for, which for
\* two callers is no lock at all; an empty database is rotated in.
BeginWithoutLock(c) ==
  /\ family = "daily" /\ pc[c] = "idle" /\ taken < limits.copies
  /\ ~Throttled /\ db \in {"library", "hidden", "empty"} /\ ~flagged
  /\ db = "empty" => ~AnyHoldsLibrary
  /\ lock' = c /\ Goto(c, "clear") /\ NotesRows
  /\ UNCHANGED <<family, files, gen, parkedIt, mine, source, world>>

BeginOverLibrary(c) ==
  /\ family = "daily" /\ pc[c] = "idle" /\ taken < limits.copies
  /\ lock = NoCaller /\ lock' = c
  /\ ~Throttled /\ db \in {"library", "hidden", "empty"} /\ ~flagged
  /\ Goto(c, "clear") /\ NotesRows
  /\ UNCHANGED <<family, files, gen, parkedIt, mine, source, world>>

\* backup_database up to its VACUUM; a run that its rules turn away changes
\* nothing here (a damaged database's copy goes to a file of its own).
BeginSnapshot(c) ==
  /\ family = "daily" /\ pc[c] = "idle" /\ taken < limits.copies
  /\ lock = NoCaller /\ lock' = c
  /\ ~Throttled /\ db \in {"library", "hidden", "empty"} /\ ~flagged
  /\ db = "empty" => ~AnyHoldsLibrary
  /\ Goto(c, "clear") /\ NotesRows
  /\ UNCHANGED <<family, files, gen, parkedIt, mine, source, world>>

NoneRuns == \A c \in Callers : pc[c] = "idle"

\* Nothing in the code keeps a second run of the mirror from beginning.
NotesOverlap ==
  /\ NoneRuns \/ limits.overlap
  /\ overlapped' = (overlapped \/ ~NoneRuns)
  /\ UNCHANGED <<whole, kind, taken, recent, sawEmpty>>

\* Mutants: a leftover .new is scrap; the file under VACUUM INTO is adopted.
DropsStaged(c) ==
  /\ family = "mirror" /\ pc[c] = "idle" /\ taken < limits.copies /\ db # "missing"
  /\ staged' \in AfterRemove(staged)
  /\ slot[0] \notin recent /\ Step(c, "rules") /\ NotesOverlap
  /\ UNCHANGED <<family, slot, parked, tmp, aside, source, world>>

AdoptsStaging(c) ==
  /\ family = "mirror" /\ pc[c] = "idle" /\ taken < limits.copies /\ db # "missing"
  /\ IF slot[0] = 0 /\ MayRename(tmp, 0)
     THEN slot' = [slot EXCEPT ![0] = tmp] /\ tmp' = 0
     ELSE UNCHANGED <<slot, tmp>>
  /\ slot'[0] \notin recent /\ Step(c, "rules") /\ NotesOverlap
  /\ UNCHANGED <<family, parked, staged, aside, source, world>>

\* The mirror adopts a leftover .new as its current copy, then looks at the
\* throttle.
BeginMirror(c) ==
  /\ family = "mirror" /\ pc[c] = "idle" /\ taken < limits.copies /\ db # "missing"
  /\ \/ /\ slot[0] = 0 /\ MayRename(staged, 0)
        /\ slot' = [slot EXCEPT ![0] = staged] /\ staged' = 0
     \/ /\ slot[0] # 0 \/ MayRefuse(staged, 0)
        /\ UNCHANGED <<slot, staged>>
  /\ \/ slot'[0] \notin recent /\ Step(c, "rules")
     \/ slot'[0] \in recent /\ slot' # slot /\ UNCHANGED run
  /\ NotesOverlap
  /\ UNCHANGED <<family, parked, tmp, aside, source, world>>

\* Mutant: copies labelled with another database's lineage are rotated out.
IgnoresLineage(c) ==
  /\ pc[c] = "rules"
  /\ IF flagged \/ (db = "empty" /\ AnyHoldsLibrary)
     THEN End(c) ELSE Step(c, "clear")
  /\ UNCHANGED <<family, files, copies, source, world>>

ApplyRules(c) ==
  /\ pc[c] = "rules"
  /\ CASE flagged -> End(c)
       [] ~flagged /\ foreign /\ AnyHoldsLibrary -> Step(c, "aside")
       [] ~flagged /\ ~foreign /\ db = "empty" /\ AnyHoldsLibrary -> End(c)
       [] OTHER -> Step(c, "clear")
  /\ UNCHANGED <<family, files, copies, source, world>>

\* The copies an earlier database left are renamed one by one; a refusal
\* ends the run with what was moved.
SetAsideEarlier(c) ==
  /\ pc[c] = "aside"
  /\ \/ Generations = {} /\ Step(c, "clear") /\ UNCHANGED <<slot, aside>>
     \/ \E g \in 0..N :
          /\ slot[g] # 0 /\ \A h \in 0..N : h < g => slot[h] = 0
          /\ IF slot[g] \in held THEN End(c) /\ UNCHANGED <<slot, aside>>
             ELSE /\ slot' = [slot EXCEPT ![g] = 0]
                  /\ aside' = aside \cup {slot[g]}
                  /\ UNCHANGED run
  /\ UNCHANGED <<family, parked, tmp, staged, copies, source, world>>

(***************************************************************************)
(* The copy is written and checked before anything is rotated for it.      *)
(***************************************************************************)
\* Mutant: what an interrupted run left is not removed.
KeepsTmp(c) ==
  /\ pc[c] = "clear" /\ Step(c, "vacuum")
  /\ UNCHANGED <<family, files, copies, source, world>>

ClearTmp(c) ==
  /\ pc[c] = "clear" /\ tmp' \in AfterRemove(tmp)
  /\ Step(c, "vacuum")
  /\ UNCHANGED <<family, slot, parked, staged, aside, copies, source, world>>

\* VACUUM INTO writes only to a name that is free, from a database it can read.
CanVacuum == tmp = 0 /\ db \notin {"damaged", "missing"} /\ taken < limits.copies

StartVacuum(c) ==
  /\ pc[c] = "vacuum" /\ CanVacuum
  /\ taken' = taken + 1 /\ tmp' = taken'
  /\ kind' = [kind EXCEPT ![taken'] = db] /\ recent' = recent \cup {taken'}
  /\ mine' = [mine EXCEPT ![c] = taken'] /\ Goto(c, "copying")
  /\ UNCHANGED <<family, slot, parked, staged, aside, whole, sawEmpty, overlapped,
                 gen, parkedIt, lock, source, world>>

\* The export removes what its failed VACUUM left; the snapshot does not.
DropTmp == tmp' \in IF family = "mirror" THEN AfterRemove(tmp) ELSE {tmp}

VacuumRefused(c) ==
  /\ pc[c] = "vacuum" /\ ~CanVacuum
  /\ DropTmp /\ End(c)
  /\ UNCHANGED <<family, slot, parked, staged, aside, copies, source, world>>

FinishVacuum(c) ==
  /\ pc[c] = "copying" /\ whole' = whole \cup {mine[c]}
  /\ Step(c, "verify")
  /\ UNCHANGED <<family, files, kind, taken, recent, sawEmpty, overlapped,
                 source, world>>

\* The disk is full, the drive is pulled.
CopyFails(c) ==
  /\ pc[c] = "copying" /\ faults < limits.faults /\ faults' = faults + 1
  /\ DropTmp /\ End(c)
  /\ UNCHANGED <<family, slot, parked, staged, aside, copies, source, held,
                 crashes, events, limits>>

\* A copy under SQLite's exclusive lock, or held, fails to open and is
\* removed like one that is torn.
CheckCopy(c) ==
  /\ pc[c] = "verify"
  /\ IF tmp \in whole \ held
     THEN /\ Step(c, IF family = "daily" THEN "putBack" ELSE "stage")
          /\ UNCHANGED tmp
     ELSE tmp' \in AfterRemove(tmp) /\ End(c)
  /\ UNCHANGED <<family, slot, parked, staged, aside, copies, source, world>>

StageExport(c) ==
  /\ pc[c] = "stage"
  /\ \/ /\ MayRename(tmp, staged) /\ staged' = tmp /\ tmp' = 0
        /\ Step(c, "putBack")
     \/ /\ MayRefuse(tmp, staged) /\ tmp' \in AfterRemove(tmp)
        /\ UNCHANGED staged /\ End(c)
  /\ UNCHANGED <<family, slot, parked, aside, copies, source, world>>

(***************************************************************************)
(* rotate_generations.                                                     *)
(***************************************************************************)
\* Mutant: a parked copy found in generation 0's absence ends the rotation.
StopsAtParked(c) ==
  /\ pc[c] = "putBack" /\ UNCHANGED slot
  /\ \/ parked = 0 /\ Step(c, "park") /\ UNCHANGED parked
     \/ /\ parked # 0 /\ slot[0] # 0 /\ parked' \in AfterRemove(parked)
        /\ Step(c, "park")
     \/ parked # 0 /\ slot[0] = 0 /\ End(c) /\ UNCHANGED parked
  /\ UNCHANGED <<family, tmp, staged, aside, copies, source, world>>

PutBackParked(c) ==
  /\ pc[c] = "putBack"
  /\ \/ /\ parked = 0 /\ Step(c, "park") /\ UNCHANGED <<slot, parked>>
     \/ /\ parked # 0 /\ slot[0] # 0 /\ parked' \in AfterRemove(parked)
        /\ Step(c, "park") /\ UNCHANGED slot
     \/ /\ parked # 0 /\ slot[0] = 0
        /\ IF parked \in held THEN End(c) /\ UNCHANGED <<slot, parked>>
           ELSE /\ slot' = [slot EXCEPT ![0] = parked] /\ parked' = 0
                /\ Step(c, "park")
  /\ UNCHANGED <<family, tmp, staged, aside, copies, source, world>>

\* Mutant: the shift starts one generation above the oldest.
ShiftFromAbove(c, did) ==
  /\ parkedIt' = [parkedIt EXCEPT ![c] = did]
  /\ gen' = [gen EXCEPT ![c] = N + 1]
  /\ Goto(c, "shift")
  /\ UNCHANGED <<mine, lock>>

\* Where the shift of the generations above 0 starts.
ShiftFrom(c, did) ==
  /\ parkedIt' = [parkedIt EXCEPT ![c] = did]
  /\ gen' = [gen EXCEPT ![c] = N]
  /\ Goto(c, IF N > 1 THEN "shift" ELSE "place")
  /\ UNCHANGED <<mine, lock>>

ParkNewest(c) ==
  /\ pc[c] = "park"
  /\ \/ slot[0] = 0 /\ ShiftFrom(c, FALSE) /\ UNCHANGED <<slot, parked>>
     \/ /\ slot[0] # 0
        /\ IF slot[0] \in held \/ parked \in held
           THEN End(c) /\ UNCHANGED <<slot, parked>>
           ELSE /\ parked' = slot[0] /\ slot' = [slot EXCEPT ![0] = 0]
                /\ ShiftFrom(c, TRUE)
  /\ UNCHANGED <<family, tmp, staged, aside, copies, source, world>>

\* promote_generation's last resort: the target goes, and the rename fails
\* again.
TargetCleared(g) ==
  slot' = [slot EXCEPT ![g] = IF slot[g] \in held THEN slot[g] ELSE 0]

NextShift(c) ==
  /\ gen' = [gen EXCEPT ![c] = gen[c] - 1]
  /\ Goto(c, IF gen[c] = 2 THEN "place" ELSE "shift")
  /\ UNCHANGED <<parkedIt, mine, lock>>

\* Mutant: a generation that cannot move does not stop the ones below it.
ShiftsPastHeld(c) ==
  LET g == gen[c] IN
  /\ pc[c] = "shift" /\ NextShift(c)
  /\ IF MayRename(slot[g - 1], slot[g])
     THEN slot' = [slot EXCEPT ![g] = slot[g - 1], ![g - 1] = 0]
     ELSE UNCHANGED slot
  /\ UNCHANGED <<family, parked, tmp, staged, aside, copies, source, world>>

ShiftGeneration(c) ==
  LET g == gen[c] IN
  /\ pc[c] = "shift"
  /\ \/ slot[g - 1] = 0 /\ NextShift(c) /\ UNCHANGED slot
     \/ /\ MayRename(slot[g - 1], slot[g])
        /\ slot' = [slot EXCEPT ![g] = slot[g - 1], ![g - 1] = 0]
        /\ NextShift(c)
     \/ /\ slot[g - 1] # 0 /\ ~MayRename(slot[g - 1], slot[g])
        /\ TargetCleared(g) /\ Step(c, "unpark")
  /\ UNCHANGED <<family, parked, tmp, staged, aside, copies, source, world>>

\* The rotation succeeded if it left generation 0 free.
PlaceParked(c) ==
  /\ pc[c] = "place"
  /\ \/ /\ ~parkedIt[c] /\ UNCHANGED <<slot, parked>>
        /\ IF slot[0] = 0 THEN Step(c, "promote") ELSE End(c)
     \/ /\ parkedIt[c] /\ MayRename(parked, slot[1])
        /\ slot' = [slot EXCEPT ![1] = parked] /\ parked' = 0
        /\ IF slot[0] = 0 THEN Step(c, "promote") ELSE End(c)
     \/ /\ parkedIt[c] /\ ~MayRename(parked, slot[1])
        /\ TargetCleared(1) /\ UNCHANGED parked /\ Step(c, "unpark")
  /\ UNCHANGED <<family, tmp, staged, aside, copies, source, world>>

\* The rotation stopped; what is parked goes back if it can, best effort.
Unpark(c) ==
  /\ pc[c] = "unpark" /\ End(c)
  /\ IF parkedIt[c] /\ MayRename(parked, slot[0])
     THEN slot' = [slot EXCEPT ![0] = parked] /\ parked' = 0
     ELSE UNCHANGED <<slot, parked>>
  /\ UNCHANGED <<family, tmp, staged, aside, copies, source, world>>

\* The label is written after the mirror's rename, best effort.
Promote(c) ==
  /\ pc[c] = "promote" /\ End(c)
  /\ \/ /\ MayRename(Fresh, slot[0])
        /\ slot' = [slot EXCEPT ![0] = Fresh]
        /\ IF family = "daily" THEN tmp' = 0 /\ UNCHANGED <<staged, foreign>>
           ELSE /\ staged' = 0 /\ foreign' \in {FALSE, foreign}
                /\ UNCHANGED tmp
     \/ /\ MayRefuse(Fresh, slot[0])
        /\ UNCHANGED <<slot, tmp, staged, foreign>>
  /\ UNCHANGED <<family, parked, aside, copies, db, flagged, restored, world>>

(***************************************************************************)
(* The database, and what becomes of the copies when it is gone.           *)
(***************************************************************************)
\* backup_candidates, in order; what is parked is not one of them.
Candidates == Generations \cup ({tmp} \ {0})

\* Mutant: the oldest generation is offered first.
PassedOldestFirst(s) ==
  IF s = tmp THEN Generations
  ELSE {slot[h] : h \in {h \in 0..N : \A g \in 0..N : slot[g] = s => h > g}} \ {0}

\* The candidates before s.
Passed(s) ==
  IF s = tmp THEN Generations
  ELSE {slot[h] : h \in {h \in 0..N : \A g \in 0..N : slot[g] = s => h < g}} \ {0}

\* restore_database_from_backup, as one step: its files are DatabaseSwap's.
\* A candidate that cannot be read stops it.
Restore ==
  /\ family = "daily" /\ lock = NoCaller /\ db \in {"damaged", "missing"}
  /\ \E s \in Candidates :
       /\ s \in whole \ held /\ Passed(s) \cap (whole \cup held) = {}
       /\ restored' = s /\ db' = kind[s]
  /\ flagged' = FALSE
  /\ UNCHANGED <<family, files, copies, run, foreign, world>>

\* set_aside_backups_for_empty_start renames the candidates one by one.
SetAsideBackup ==
  /\ family = "daily" /\ db = "missing" /\ NoneRuns
  /\ \E s \in Candidates \ held :
       /\ Passed(s) = {}
       /\ slot' = [g \in 0..N |-> IF slot[g] = s THEN 0 ELSE slot[g]]
       /\ tmp' = IF tmp = s THEN 0 ELSE tmp
       /\ aside' = aside \cup {s}
  /\ UNCHANGED <<family, parked, staged, copies, run, source, world>>

\* A first run, or Start empty once every candidate is aside.  Only the
\* latter clears the failed check; a lineage that cannot be written leaves
\* the earlier one.
CreateEmpty ==
  /\ db = "missing" /\ (family = "daily" => Candidates = {})
  /\ db' = "empty" /\ flagged' \in {FALSE, flagged} /\ foreign' \in {TRUE, foreign}
  /\ UNCHANGED <<family, files, copies, run, restored, world>>

Event == events < limits.events /\ events' = events + 1

\* Damage that quick_check does not see, damage that it does, a file that an
\* antivirus takes away; the last two are found at a launch.
Decay ==
  /\ Event
  /\ \/ db = "library" /\ db' = "hidden"
     \/ db \in {"library", "hidden"} /\ NoneRuns /\ db' \in {"damaged", "missing"}
  /\ UNCHANGED <<family, files, copies, run, flagged, foreign, restored,
                 held, crashes, faults, limits>>

\* The weekly check, or the one the user asks for.
FullCheck ==
  /\ db \in {"library", "empty", "hidden"}
  /\ flagged' = (db = "hidden")
  /\ UNCHANGED <<family, files, copies, run, db, foreign, restored, world>>

\* REINDEX, rows added to an empty library, the last one deleted.
Edit ==
  /\ Event
  /\ \/ db \in {"hidden", "empty"} /\ db' = "library"
     \/ db = "library" /\ db' = "empty"
  /\ UNCHANGED <<family, files, copies, run, flagged, foreign, restored,
                 held, crashes, faults, limits>>

\* Another database takes this one's place at a launch.
Import ==
  /\ Event /\ NoneRuns /\ db # "missing" /\ db' \in {"library", "empty"}
  /\ flagged' = FALSE /\ foreign' \in {TRUE, foreign}
  /\ UNCHANGED <<family, files, copies, run, restored, held, crashes, faults, limits>>

(***************************************************************************)
(* Time, other programs, and the death of the process.                     *)
(***************************************************************************)
Expire ==
  /\ recent # {}
  /\ recent' = recent \ {CHOOSE s \in recent : \A t \in recent : s <= t}
  /\ UNCHANGED <<family, files, whole, kind, taken, sawEmpty, overlapped, run,
                 source, world>>

Hold ==
  /\ faults < limits.faults /\ faults' = faults + 1
  /\ \E s \in (Generations \cup {parked, tmp, staged}) \ (held \cup {0}) :
       held' = held \cup {s}
  /\ UNCHANGED <<family, files, copies, run, source, crashes, events, limits>>

Release ==
  /\ held # {} /\ held' = {}
  /\ UNCHANGED <<family, files, copies, run, source, crashes, faults, events,
                 limits>>

Crash ==
  /\ ~NoneRuns /\ crashes < limits.crashes /\ crashes' = crashes + 1
  /\ pc' = [c \in Callers |-> "idle"] /\ gen' = [c \in Callers |-> 0]
  /\ parkedIt' = [c \in Callers |-> FALSE] /\ mine' = [c \in Callers |-> 0]
  /\ lock' = NoCaller
  /\ UNCHANGED <<family, files, copies, source, held, faults, events,
                 limits>>

Begin(c) == BeginSnapshot(c) \/ BeginMirror(c)
Write(c) == \/ ApplyRules(c) \/ SetAsideEarlier(c) \/ ClearTmp(c)
            \/ StartVacuum(c) \/ VacuumRefused(c) \/ FinishVacuum(c)
            \/ CopyFails(c) \/ CheckCopy(c) \/ StageExport(c)
Rotate(c) == \/ PutBackParked(c) \/ ParkNewest(c) \/ ShiftGeneration(c)
             \/ PlaceParked(c) \/ Unpark(c) \/ Promote(c)
Caller(c) == Begin(c) \/ Write(c) \/ Rotate(c)
Database  == \/ Restore \/ SetAsideBackup \/ CreateEmpty \/ Decay \/ FullCheck
             \/ Edit \/ Import
World     == Expire \/ Hold \/ Release \/ Crash

Next == (\E c \in Callers : Caller(c)) \/ Database \/ World

Spec == Init /\ [][Next]_vars

\* The periodic loop keeps asking, and a run that began goes on.  What else
\* may ask, a launch or the setting of the folder, need never do so.
FairSpec ==
  /\ Spec /\ WF_vars(\E c \in Callers : Begin(c))
  /\ \A c \in Callers : WF_vars(Write(c) \/ Rotate(c))

(***************************************************************************)
(* Properties.                                                             *)
(***************************************************************************)
\* The daily snapshots implement the queue: whatever is held, refused or
\* killed in the middle of a rotation costs nothing but the oldest copy.
Kept == IF family = "daily" THEN (Generations \cup {parked}) \ {0} ELSE {}
Queue == INSTANCE SnapshotQueue
           WITH kept <- Kept, aside <- IF family = "daily" THEN aside ELSE {}
OnlyOldestDropped == Queue!Spec

\* The daily family has its lock; the mirror's callers have none.
Apart == family = "daily" \/ ~overlapped

\* The throttle: no two generations were taken within a day of one another,
\* whichever caller asks first and whatever interrupts it, unless two runs of
\* the mirror, which no lock keeps apart, were once under way together.
OneADay == Apart => Cardinality({g \in 0..N : slot[g] \in recent}) <= 1

\* Every generation is a whole copy, though copies are torn by crashes and
\* full disks under the names they are promoted from; again unless two runs
\* of the mirror overlapped.
GenerationsWhole == Apart => Generations \subseteq whole

\* The last daily copy of a library goes only for a copy that waits for its
\* promotion, checked: one of a library again, or one of a database that was
\* emptied after its run had looked at it.  A database created, imported or
\* found empty pushes nothing out, whatever was interrupted before.
LibraryCopies   == {s \in Generations \cup {parked} \cup aside : HoldsLibrary(s)}
LibraryCopyKept ==
  [][family = "daily" /\ LibraryCopies # {} =>
       \/ LibraryCopies' # {}
       \/ (tmp \in whole /\ (HoldsLibrary(tmp) \/ ~sawEmpty))']_vars

\* Through every refusal and crash the mirror keeps its newest whole copy, in
\* a generation, parked, or staged under .new, and drops none of the copies
\* of another database it finds in its folder: they are renamed away first,
\* all of them or none rotates.  Both callers may ask for it, in any order,
\* until two of its runs overlap: they share every temporary name, and then
\* one may promote what the other is still writing.
MirrorCopies  == (Generations \cup {parked, staged} \cup aside) \cap whole
EarlierCopies == {s \in Generations : HoldsLibrary(s)}
NewestKept    == \A s \in MirrorCopies : \E t \in MirrorCopies' : s <= t
EarlierKept   == foreign /\ foreign' =>
                   EarlierCopies \subseteq (Generations \cup {parked} \cup aside)'
MirrorsKept ==
  [][family = "mirror" /\ ~overlapped' => NewestKept /\ EarlierKept]_vars

\* A restore takes the newest generation in place.
RestoreTakesNewest ==
  [][restored' # restored /\ Generations # {} =>
       \A s \in Generations : s <= restored']_vars

\* Once nothing more goes wrong, the very next run, the only one with a copy
\* left to take, puts its copy in generation 0, whatever the runs, the refusals
\* and the kills before it left under any of the names; unless a second run of
\* the mirror joins it.
Quiet  == /\ held = {} /\ faults = limits.faults
          /\ crashes = limits.crashes /\ events = limits.events
Due    == /\ NoneRuns /\ db = "library" /\ ~flagged
          /\ slot[0] \notin recent /\ (slot[0] = 0 => staged \notin recent)
TwoRun == \E a, b \in Callers : a # b /\ pc[a] # "idle" /\ pc[b] # "idle"
FreshCopyLands ==
  (Quiet /\ Due /\ taken + 1 = limits.copies)
    ~> (slot[0] = limits.copies \/ TwoRun)
=============================================================================
