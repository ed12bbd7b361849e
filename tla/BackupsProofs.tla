--------------------------- MODULE BackupsProofs ---------------------------
(***************************************************************************)
(* Proofs about Backups, for every number of generations, callers and      *)
(* copies, and every bound.                                                *)
(***************************************************************************)
EXTENDS Backups, FiniteSetTheorems, TLAPS

USE BackupsAssumption

(***************************************************************************)
(* Type correctness.  TypeOK alone is not inductive: the shift counts gen  *)
(* down, which stays a generation only because a caller that shifts is     *)
(* above the first one.                                                    *)
(***************************************************************************)
ShiftTyped == \A c \in Callers : pc[c] = "shift" => gen[c] \in 2..N

Typed == TypeOK /\ ShiftTyped

(***************************************************************************)
(* Why the daily family is a queue.  One caller runs, the one that holds   *)
(* BACKUP_IN_PROGRESS.  The copies are in the order they were taken: the   *)
(* generations, what is parked, then what is being written.                *)
(***************************************************************************)
Ordered ==
  /\ \A i, j \in 0..N : i < j /\ slot[i] # 0 => slot[j] < slot[i]
  /\ parked # 0 => slot[0] = 0 /\ \A g \in 0..N : slot[g] < parked
  /\ tmp # 0 => parked < tmp /\ \A g \in 0..N : slot[g] < tmp
  /\ tmp <= taken /\ parked <= taken /\ \A g \in 0..N : slot[g] <= taken

\* Every copy the rotation holds was read back before it was rotated for.
Checked ==
  /\ \A g \in 0..N : slot[g] # 0 => slot[g] \in whole
  /\ parked # 0 => parked \in whole

DailySteps == PCs \ {"rules", "aside", "stage"}
OneRuns == \A c \in Callers : pc[c] \in DailySteps /\ (pc[c] # "idle" => lock = c)

\* What holds at each step of a rotation: the generation that the shift
\* writes into is empty, unless it is the last.
RotationSteps == {"putBack", "park", "shift", "place", "unpark", "promote"}
PlaceOf(c) ==
  /\ pc[c] \in RotationSteps => tmp \in whole
  /\ pc[c] = "park" => parked = 0
  /\ pc[c] \in {"shift", "place"} =>
       slot[0] = 0 /\ (parkedIt[c] <=> parked # 0)
  /\ pc[c] = "shift" => gen[c] = N \/ slot[gen[c]] = 0
  /\ pc[c] = "place" => N = 1 \/ slot[1] = 0
  /\ pc[c] = "unpark" => slot[0] = 0
  /\ pc[c] = "promote" => slot[0] = 0 /\ parked = 0

CopiesInv  == Ordered /\ Checked
CallersInv == OneRuns /\ \A c \in Callers : PlaceOf(c)
DailyInv   == family = "daily" => CopiesInv /\ CallersInv

Inv == Typed /\ DailyInv

(***************************************************************************)
(* Types.                                                                  *)
(***************************************************************************)
LEMMA InitTyped == Init => Typed
<1> SUFFICES ASSUME Init PROVE Typed
  OBVIOUS
<1>1. restored \in Copy
  BY DEF Init, Copy
<1>2. SourceOK
  BY <1>1, Zenon DEF Init, SourceOK, DbStates
<1>3. /\ limits \in Budgets /\ family = limits.family
      /\ crashes \in 0..limits.crashes /\ faults \in 0..limits.faults
      /\ events \in 0..limits.events
  BY DEF Init
<1>4. /\ kind \in [1..MaxCopies -> DbStates] /\ 0 \in Copy
      /\ pc \in [Callers -> PCs] /\ ShiftTyped
  BY DEF Init, Copy, DbStates, PCs, ShiftTyped
<1>5. /\ slot \in [0..N -> Copy] /\ gen \in [Callers -> 0..N]
      /\ parkedIt \in [Callers -> BOOLEAN] /\ mine \in [Callers -> Copy]
  BY <1>4 DEF Init
<1> QED BY <1>2, <1>3, <1>4, <1>5 DEF Init, Typed, TypeOK

\* Most steps leave the database and its flags alone.
LEMMA SourceKept == SourceOK /\ UNCHANGED source => SourceOK'
  BY Zenon DEF SourceOK, source

LEMMA NoFileIsCopy == 0 \in Copy
  BY DEF Copy

\* A best-effort removal leaves the file or nothing.
LEMMA Removal == \A s, r : r \in AfterRemove(s) => r \in {0, s}
  BY DEF AfterRemove

LEMMA GenerationIsCopy == TypeOK => Generations \subseteq Copy \ {0}
  BY DEF TypeOK, Generations

\* The end of a run, and a step within it, keep the types of its variables.
LEMMA EndTyped ==
  ASSUME Typed, NEW c \in Callers, End(c)
  PROVE  /\ pc' \in [Callers -> PCs] /\ gen' \in [Callers -> 0..N]
         /\ parkedIt' \in [Callers -> BOOLEAN] /\ mine' \in [Callers -> Copy]
         /\ lock' \in Callers \cup {NoCaller} /\ ShiftTyped'
  BY DEF Typed, TypeOK, ShiftTyped, End, Goto, PCs, Copy

LEMMA StepTyped ==
  ASSUME Typed, NEW c \in Callers, NEW p \in PCs \ {"shift"}, Step(c, p)
  PROVE  /\ pc' \in [Callers -> PCs] /\ gen' \in [Callers -> 0..N]
         /\ parkedIt' \in [Callers -> BOOLEAN] /\ mine' \in [Callers -> Copy]
         /\ lock' \in Callers \cup {NoCaller} /\ ShiftTyped'
  BY DEF Typed, TypeOK, ShiftTyped, Step, Goto

LEMMA WriteTyped ==
  ASSUME Typed, NEW c \in Callers, Begin(c) \/ Write(c) PROVE Typed'
<1> USE DEF Typed, TypeOK, files, copies, run, world
<1>1. CASE BeginSnapshot(c)
  <2>1. /\ UNCHANGED <<family, files, gen, parkedIt, mine, source, world>>
        /\ UNCHANGED <<whole, kind, taken, recent, overlapped>>
        /\ sawEmpty' \in BOOLEAN /\ lock' \in Callers \cup {NoCaller}
    BY <1>1 DEF BeginSnapshot, NotesRows
  <2>2. pc' \in [Callers -> PCs] /\ ShiftTyped'
    BY <1>1, <2>1 DEF BeginSnapshot, Goto, ShiftTyped, PCs
  <2> QED BY <2>1, <2>2, SourceKept
<1>2. CASE BeginMirror(c)
  <2>1. slot' \in [0..N -> Copy] /\ staged' \in Copy
    <3>1. \/ UNCHANGED <<slot, staged>>
          \/ slot' = [slot EXCEPT ![0] = staged] /\ staged' = 0
      BY <1>2 DEF BeginMirror
    <3>2. slot \in [0..N -> Copy] /\ staged \in Copy
      OBVIOUS
    <3>3. ASSUME slot \in [0..N -> Copy], staged \in Copy
          PROVE  [slot EXCEPT ![0] = staged] \in [0..N -> Copy]
      BY <3>3
    <3> QED
      BY <3>1, <3>2, <3>3, NoFileIsCopy
  <2>4. /\ UNCHANGED <<family, parked, tmp, aside, source, world>>
        /\ UNCHANGED <<whole, kind, taken, recent, sawEmpty>> /\ overlapped' \in BOOLEAN
    BY <1>2 DEF BeginMirror, NotesOverlap
  <2>2. CASE Step(c, "rules")
    <3>1. "rules" \in PCs \ {"shift"}
      BY DEF PCs
    <3> QED BY <2>1, <2>2, <2>4, <3>1, SourceKept, StepTyped
  <2>3. CASE UNCHANGED run
    BY <2>1, <2>3, <2>4, SourceKept DEF ShiftTyped
  <2> QED BY <1>2, <2>2, <2>3 DEF BeginMirror
<1>3. CASE ApplyRules(c)
  <2>1. CASE End(c)
    BY <1>3, <2>1, SourceKept, EndTyped DEF ApplyRules
  <2>2. CASE Step(c, "aside") \/ Step(c, "clear")
    BY <1>3, <2>2, SourceKept, StepTyped DEF ApplyRules, PCs
  <2> QED BY <1>3, <2>1, <2>2 DEF ApplyRules
<1>4. CASE SetAsideEarlier(c)
  <2>1. slot' \in [0..N -> Copy] /\ aside' \in SUBSET Copy
    BY <1>4, NoFileIsCopy DEF SetAsideEarlier
  <2>2. CASE End(c)
    BY <1>4, <2>1, <2>2, SourceKept, EndTyped DEF SetAsideEarlier
  <2>3. CASE Step(c, "clear")
    BY <1>4, <2>1, <2>3, SourceKept, StepTyped DEF SetAsideEarlier, PCs
  <2>4. CASE UNCHANGED run
    BY <1>4, <2>1, <2>4, SourceKept DEF SetAsideEarlier, ShiftTyped
  <2> QED BY <1>4, <2>2, <2>3, <2>4 DEF SetAsideEarlier
<1>5. CASE ClearTmp(c)
  <2>1. tmp' \in Copy
    <3>1. tmp' \in {0, tmp}
      BY <1>5, Removal, Zenon DEF ClearTmp
    <3> QED BY <3>1, NoFileIsCopy
  <2> QED BY <1>5, <2>1, SourceKept, StepTyped DEF ClearTmp, PCs
<1>6. CASE StartVacuum(c)
  <2>1. /\ taken' \in Copy /\ tmp' \in Copy /\ recent' \in SUBSET Copy
        /\ mine' \in [Callers -> Copy]
    BY <1>6 DEF StartVacuum, CanVacuum, Copy
  <2>2. kind' \in [1..MaxCopies -> DbStates]
    BY <1>6 DEF StartVacuum, CanVacuum, SourceOK, Copy
  <2>3. pc' \in [Callers -> PCs] /\ ShiftTyped'
    BY <1>6 DEF StartVacuum, Goto, PCs, ShiftTyped
  <2> QED BY <1>6, <2>1, <2>2, <2>3, SourceKept DEF StartVacuum
<1>7. CASE VacuumRefused(c)
  <2>1. tmp' \in Copy
    <3>1. tmp' \in {0, tmp}
      BY <1>7, Removal, Zenon DEF VacuumRefused, DropTmp
    <3> QED BY <3>1, NoFileIsCopy
  <2> QED BY <1>7, <2>1, SourceKept, EndTyped DEF VacuumRefused
<1>8. CASE FinishVacuum(c)
  <2>1. whole' \in SUBSET Copy
    BY <1>8 DEF FinishVacuum
  <2> QED BY <1>8, <2>1, SourceKept, StepTyped DEF FinishVacuum, PCs
<1>9. CASE CopyFails(c)
  <2>1. tmp' \in Copy
    BY <1>9, Removal DEF CopyFails, DropTmp, Copy
  <2>2. faults' \in 0..limits.faults
    BY <1>9 DEF CopyFails
  <2> QED BY <1>9, <2>1, <2>2, SourceKept, EndTyped DEF CopyFails
<1>10. CASE CheckCopy(c)
  <2>1. tmp' \in Copy
    BY <1>10, Removal DEF CheckCopy, Copy
  <2>2. CASE End(c)
    BY <1>10, <2>1, <2>2, SourceKept, EndTyped DEF CheckCopy
  <2>3. CASE ~End(c)
    BY <1>10, <2>1, <2>3, SourceKept, StepTyped DEF CheckCopy, PCs
  <2> QED BY <2>2, <2>3
<1>11. CASE StageExport(c)
  <2>1. tmp' \in Copy /\ staged' \in Copy
    BY <1>11, Removal, SMTT(30) DEF StageExport, Copy
  <2>2. CASE End(c)
    BY <1>11, <2>1, <2>2, SourceKept, EndTyped DEF StageExport
  <2>3. CASE Step(c, "putBack")
    BY <1>11, <2>1, <2>3, SourceKept, StepTyped DEF StageExport, PCs
  <2> QED BY <1>11, <2>2, <2>3 DEF StageExport
<1> QED BY <1>1, <1>2, <1>3, <1>4, <1>5, <1>6, <1>7, <1>8, <1>9, <1>10, <1>11
        DEF Begin, Write

LEMMA RotateTyped ==
  ASSUME Typed, NEW c \in Callers, Rotate(c) PROVE Typed'
<1> USE DEF Typed, TypeOK, copies, world
<1>1. CASE PutBackParked(c)
  <2>1. slot' \in [0..N -> Copy] /\ parked' \in Copy
    BY <1>1, Removal, SMTT(30) DEF PutBackParked, Copy
  <2>2. CASE End(c)
    BY <1>1, <2>1, <2>2, SourceKept, EndTyped DEF PutBackParked
  <2>3. CASE Step(c, "park")
    BY <1>1, <2>1, <2>3, SourceKept, StepTyped DEF PutBackParked, PCs
  <2> QED BY <1>1, <2>2, <2>3 DEF PutBackParked
<1>2. CASE ParkNewest(c)
  <2>1. slot' \in [0..N -> Copy] /\ parked' \in Copy
    <3>1. slot[0] \in Copy
      OBVIOUS
    <3>2. slot' \in {slot, [slot EXCEPT ![0] = 0]} /\ parked' \in {parked, slot[0]}
      BY <1>2, Zenon DEF ParkNewest
    <3> QED BY <3>1, <3>2, NoFileIsCopy
  <2>2. CASE End(c)
    BY <1>2, <2>1, <2>2, SourceKept, EndTyped DEF ParkNewest
  <2>3. ASSUME NEW did \in BOOLEAN, ShiftFrom(c, did)
        PROVE  /\ pc' \in [Callers -> PCs] /\ gen' \in [Callers -> 0..N]
               /\ parkedIt' \in [Callers -> BOOLEAN]
               /\ UNCHANGED <<mine, lock>> /\ ShiftTyped'
    BY <2>3 DEF ShiftFrom, Goto, PCs, ShiftTyped
  <2>4. CASE \E did \in BOOLEAN : ShiftFrom(c, did)
    BY <1>2, <2>1, <2>3, <2>4, SourceKept DEF ParkNewest
  <2> QED BY <1>2, <2>2, <2>4 DEF ParkNewest
<1>3. CASE ShiftGeneration(c)
  <2>1. gen[c] \in 2..N
    BY <1>3 DEF ShiftGeneration, ShiftTyped
  <2>2. slot' \in [0..N -> Copy]
    <3>1. gen[c] \in 0..N /\ gen[c] - 1 \in 0..N
      BY <2>1
    <3>2. slot[gen[c]] \in Copy /\ slot[gen[c] - 1] \in Copy
      BY <3>1
    <3> QED BY <1>3, <3>1, <3>2, NoFileIsCopy DEF ShiftGeneration, TargetCleared
  <2>3. CASE NextShift(c)
    <3>1. pc' \in [Callers -> PCs] /\ gen' \in [Callers -> 0..N] /\ ShiftTyped'
      BY <2>1, <2>3 DEF NextShift, Goto, ShiftTyped, PCs
    <3> QED BY <1>3, <2>2, <2>3, <3>1, SourceKept DEF ShiftGeneration, NextShift
  <2>4. CASE Step(c, "unpark")
    BY <1>3, <2>2, <2>4, SourceKept, StepTyped DEF ShiftGeneration, PCs
  <2> QED BY <1>3, <2>3, <2>4 DEF ShiftGeneration
<1>4. CASE PlaceParked(c)
  <2>1. slot' \in [0..N -> Copy] /\ parked' \in Copy
    BY <1>4, NoFileIsCopy DEF PlaceParked, TargetCleared
  <2>2. CASE End(c)
    BY <1>4, <2>1, <2>2, SourceKept, EndTyped DEF PlaceParked
  <2>3. CASE Step(c, "promote") \/ Step(c, "unpark")
    BY <1>4, <2>1, <2>3, SourceKept, StepTyped DEF PlaceParked, PCs
  <2> QED BY <1>4, <2>2, <2>3 DEF PlaceParked
<1>5. CASE Unpark(c)
  <2>1. slot' \in [0..N -> Copy] /\ parked' \in Copy
    BY <1>5, NoFileIsCopy DEF Unpark
  <2> QED BY <1>5, <2>1, SourceKept, EndTyped DEF Unpark
<1>6. CASE Promote(c)
  <2>1. SourceOK'
    BY <1>6, Zenon DEF Promote, SourceOK, source
  <2>2. slot' \in [0..N -> Copy] /\ tmp' \in Copy /\ staged' \in Copy
    BY <1>6, NoFileIsCopy, ZenonT(60) DEF Promote, Fresh
  <2> QED BY <1>6, <2>1, <2>2, EndTyped DEF Promote
<1> QED BY <1>1, <1>2, <1>3, <1>4, <1>5, <1>6 DEF Rotate

LEMMA DatabaseTyped ==
  ASSUME Typed, Database PROVE Typed'
<1> USE DEF Typed, TypeOK, ShiftTyped, files, copies, run, world
<1>1. CASE Restore
  <2>1. restored' \in Copy /\ db' \in DbStates
    <3>1. PICK t \in Candidates : t \in whole /\ restored' = t /\ db' = kind[t]
      BY <1>1, Zenon DEF Restore
    <3>2. t \in 1..MaxCopies
      BY <3>1, GenerationIsCopy DEF Candidates, Copy
    <3> QED BY <3>1, <3>2 DEF Copy
  <2>2. SourceOK'
    BY <1>1, <2>1, Zenon DEF Restore, SourceOK
  <2> QED BY <1>1, <2>2 DEF Restore
<1>2. CASE SetAsideBackup
  <2>1. Candidates \subseteq Copy
    BY GenerationIsCopy DEF Candidates
  <2>2. slot' \in [0..N -> Copy] /\ tmp' \in Copy /\ aside' \in SUBSET Copy
    BY <1>2, <2>1, NoFileIsCopy DEF SetAsideBackup
  <2> QED BY <1>2, <2>2, SourceKept DEF SetAsideBackup
<1>3. CASE CreateEmpty \/ Decay \/ FullCheck \/ Edit \/ Import
  <2>1. SourceOK'
    BY <1>3, Zenon
       DEF CreateEmpty, Decay, FullCheck, Edit, Import, SourceOK, DbStates
  <2>2. events' \in 0..limits.events
    <3>1. Event \/ UNCHANGED events
      BY <1>3, Zenon DEF CreateEmpty, Decay, FullCheck, Edit, Import, world
    <3> QED BY <3>1 DEF Event
  <2>3. UNCHANGED <<family, files, copies, run, held, crashes, faults, limits>>
    BY <1>3, Zenon DEF CreateEmpty, Decay, FullCheck, Edit, Import, world
  <2> QED BY <2>1, <2>2, <2>3
<1> QED BY <1>1, <1>2, <1>3 DEF Database

LEMMA WorldTyped ==
  ASSUME Typed, World PROVE Typed'
<1> USE SourceKept
        DEF Typed, TypeOK, ShiftTyped, files, copies, run, world
<1>1. CASE Expire
  BY <1>1 DEF Expire
<1>2. CASE Hold
  BY <1>2, GenerationIsCopy DEF Hold
<1>3. CASE Release
  BY <1>3 DEF Release
<1>4. CASE Crash
  BY <1>4 DEF Crash, PCs, Copy
<1> QED BY <1>1, <1>2, <1>3, <1>4 DEF World

LEMMA NextTyped == Typed /\ [Next]_vars => Typed'
<1> SUFFICES ASSUME Typed, [Next]_vars PROVE Typed'
  OBVIOUS
<1>1. CASE UNCHANGED vars
  BY <1>1, SourceKept DEF vars, files, copies, run, world, Typed, TypeOK, ShiftTyped
<1>2. CASE Next
  BY <1>2, WriteTyped, RotateTyped, DatabaseTyped, WorldTyped
     DEF Next, Caller
<1> QED BY <1>1, <1>2

\* Every variable keeps its type, for both families, whatever the callers do
\* at once.
THEOREM BackupsTypesKept == Spec => []TypeOK
<1>1. Typed => TypeOK
  BY DEF Typed
<1> QED BY <1>1, InitTyped, NextTyped, PTL DEF Spec

(***************************************************************************)
(* The daily family: what each step may rely on.                           *)
(***************************************************************************)
Daily == Typed /\ family = "daily" /\ CopiesInv /\ CallersInv

Numbers ==
  /\ slot \in [0..N -> Nat] /\ parked \in Nat /\ tmp \in Nat /\ taken \in Nat
CallersTyped ==
  /\ pc \in [Callers -> PCs] /\ gen \in [Callers -> 0..N]
  /\ parkedIt \in [Callers -> BOOLEAN]

LEMMA TypedParts == Typed => Numbers /\ CallersTyped
<1> SUFFICES ASSUME Typed PROVE Numbers /\ CallersTyped
  OBVIOUS
<1>1. Copy \subseteq Nat
  BY DEF Copy
<1>2. Numbers
  BY <1>1 DEF Typed, TypeOK, Numbers
<1>3. CallersTyped
  BY DEF Typed, TypeOK, CallersTyped
<1> QED BY <1>2, <1>3

\* A caller in the middle of its run is alone, and has the lock.
LEMMA Alone ==
  ASSUME Daily, NEW c \in Callers, pc[c] # "idle"
  PROVE  lock = c /\ \A d \in Callers : d # c => pc[d] = "idle"
  BY DEF Daily, CallersInv, OneRuns

LEMMA IdlePlace ==
  ASSUME CallersTyped, NEW c \in Callers, pc[c] = "idle" PROVE PlaceOf(c)
  BY DEF PlaceOf, RotationSteps

LEMMA AllIdle ==
  ASSUME CallersTyped, \A c \in Callers : pc[c] = "idle" PROVE CallersInv
  BY IdlePlace DEF CallersInv, OneRuns, DailySteps, PCs

\* After a step of the one that runs, only its own place is in question.
LEMMA PlaceAfter ==
  ASSUME Daily, NEW c \in Callers, pc[c] # "idle", Typed',
         NEW p \in DailySteps, Goto(c, p), lock' = lock, PlaceOf(c)'
  PROVE  CallersInv'
<1>1. CallersTyped /\ CallersTyped'
  BY TypedParts, PTL DEF Daily
<1>2. \A d \in Callers \ {c} : pc'[d] = "idle"
  BY <1>1, Alone DEF Goto, CallersTyped
<1>3. pc'[c] = p /\ lock' = c
  BY <1>1, Alone DEF Goto, CallersTyped
<1>4. \A d \in Callers \ {c} : PlaceOf(d)'
  BY <1>1, <1>2 DEF PlaceOf, RotationSteps
<1>5. OneRuns'
  BY <1>2, <1>3 DEF OneRuns, DailySteps, PCs
<1> QED BY <1>4, <1>5 DEF CallersInv

LEMMA EndAfter ==
  ASSUME Daily, NEW c \in Callers, pc[c] # "idle", Typed', End(c)
  PROVE  CallersInv'
<1>1. CallersTyped /\ CallersTyped'
  BY TypedParts, PTL DEF Daily
<1>2. \A d \in Callers : pc'[d] = "idle"
  BY <1>1, Alone DEF End, Goto, CallersTyped
<1>3. \A d \in Callers : PlaceOf(d)'
  BY <1>1, <1>2 DEF PlaceOf, RotationSteps
<1> QED BY <1>2, <1>3 DEF CallersInv, OneRuns, DailySteps, PCs

\* The copies in place and parked stay where they are, and what is being
\* written, if anything, is newer.
LEMMA CopiesStay ==
  ASSUME Daily, Typed', UNCHANGED <<slot, parked>>, whole \subseteq whole',
         \/ tmp' \in {0, tmp} /\ taken' = taken
         \/ tmp' = taken' /\ taken' = taken + 1
  PROVE  CopiesInv'
<1>1. Numbers /\ Numbers'
  BY TypedParts, PTL DEF Daily
<1>2. Checked'
  BY DEF Daily, CopiesInv, Checked
<1>3. Ordered'
  BY <1>1 DEF Daily, CopiesInv, Ordered, Numbers
<1> QED BY <1>2, <1>3 DEF CopiesInv

LEMMA QueueStays ==
  ASSUME UNCHANGED <<family, slot, parked, aside>>
  PROVE  UNCHANGED Queue!vars
  BY DEF Queue!vars, Kept, Generations

(***************************************************************************)
(* Up to the rotation nothing that is kept moves.                          *)
(***************************************************************************)
LEMMA DailyBegins ==
  ASSUME Daily, Typed', NEW c \in Callers, Begin(c)
  PROVE  CopiesInv' /\ CallersInv' /\ UNCHANGED Queue!vars
<1>1. BeginSnapshot(c)
  BY DEF Begin, BeginMirror, Daily
<1>2. CallersTyped /\ CallersTyped' /\ NoCaller \notin Callers
  BY TypedParts, PTL DEF Daily, BackupsAssumption
<1>3. \A d \in Callers : pc[d] = "idle"
  BY <1>1, <1>2 DEF BeginSnapshot, Daily, CallersInv, OneRuns
<1>4. pc'[c] = "clear" /\ \A d \in Callers \ {c} : pc'[d] = "idle"
  BY <1>1, <1>2, <1>3 DEF BeginSnapshot, Goto, CallersTyped
<1>5. \A d \in Callers : PlaceOf(d)'
  BY <1>4 DEF PlaceOf, RotationSteps
<1>6. CallersInv'
  BY <1>1, <1>4, <1>5 DEF CallersInv, OneRuns, DailySteps, PCs, BeginSnapshot
<1>7. UNCHANGED <<family, slot, parked, tmp, whole, taken, aside>>
  BY <1>1, Zenon DEF BeginSnapshot, NotesRows, files
<1> QED BY <1>6, <1>7, CopiesStay, QueueStays

LEMMA DailyWrites ==
  ASSUME Daily, Typed', NEW c \in Callers, Write(c)
  PROVE  CopiesInv' /\ CallersInv' /\ UNCHANGED Queue!vars
<1> DEFINE Place == CallersInv'
           Files == /\ UNCHANGED <<family, slot, parked, aside>>
                    /\ whole \subseteq whole'
                    /\ \/ tmp' \in {0, tmp} /\ taken' = taken
                       \/ tmp' = taken' /\ taken' = taken + 1
<1>1. CallersTyped /\ CallersTyped'
  BY TypedParts, PTL DEF Daily
<1>9. pc[c] \in DailySteps
  BY DEF Daily, CallersInv, OneRuns
<1>2. ASSUME NEW p \in {"vacuum", "copying", "verify"}, Goto(c, p),
             lock' = lock, pc[c] # "idle"
      PROVE  Place
  <2>1. PlaceOf(c)'
    BY <1>1, <1>2 DEF PlaceOf, RotationSteps, Goto, CallersTyped
  <2> QED BY <1>2, <2>1, PlaceAfter DEF DailySteps, PCs
<1>3. CASE ClearTmp(c)
  <2>1. Place
    BY <1>3, <1>2 DEF ClearTmp, Step
  <2>2. Files
    BY <1>3, Removal, Zenon DEF ClearTmp, copies
  <2> QED BY <2>1, <2>2, CopiesStay, QueueStays
<1>4. CASE StartVacuum(c)
  <2>1. Place
    BY <1>4, <1>2 DEF StartVacuum
  <2>2. Files
    BY <1>4, Zenon DEF StartVacuum
  <2> QED BY <2>1, <2>2, CopiesStay, QueueStays
<1>5. CASE VacuumRefused(c) \/ CopyFails(c)
  <2>1. Place
    BY <1>5, EndAfter DEF VacuumRefused, CopyFails
  <2>2. Files
    BY <1>5, Zenon DEF VacuumRefused, CopyFails, DropTmp, Daily, copies
  <2> QED BY <2>1, <2>2, CopiesStay, QueueStays
<1>6. CASE FinishVacuum(c)
  <2>1. Place
    BY <1>6, <1>2 DEF FinishVacuum, Step
  <2>2. Files
    BY <1>6, Zenon DEF FinishVacuum, files
  <2> QED BY <2>1, <2>2, CopiesStay, QueueStays
<1>7. CASE CheckCopy(c)
  <2>1. ASSUME tmp \in whole \ held PROVE Place
    <3>1. Step(c, "putBack") /\ UNCHANGED tmp /\ whole' = whole
      BY <1>7, <2>1 DEF CheckCopy, Daily, copies
    <3>2. PlaceOf(c)'
      BY <1>1, <2>1, <3>1 DEF PlaceOf, Step, Goto, CallersTyped
    <3>3. pc[c] # "idle" /\ Goto(c, "putBack") /\ lock' = lock
      BY <1>7, <3>1 DEF CheckCopy, Step
    <3>4. "putBack" \in DailySteps
      BY DEF DailySteps, PCs
    <3> QED BY <3>2, <3>3, <3>4, PlaceAfter
  <2>2. ASSUME tmp \notin whole \ held PROVE Place
    <3>1. pc[c] # "idle" /\ End(c)
      BY <1>7, <2>2 DEF CheckCopy
    <3> QED BY <3>1, EndAfter
  <2>3. Place
    BY <2>1, <2>2
  <2>4. Files
    BY <1>7, Removal, Zenon DEF CheckCopy, copies
  <2> QED BY <2>3, <2>4, CopiesStay, QueueStays
<1> QED
  BY <1>3, <1>4, <1>5, <1>6, <1>7, <1>9
     DEF Write, ApplyRules, SetAsideEarlier, StageExport, DailySteps

(***************************************************************************)
(* The rotation moves copies among the generations and .rotating; what it  *)
(* loses is the oldest, with another one left.                             *)
(***************************************************************************)
LEMMA KeptMembers ==
  ASSUME family = "daily"
  PROVE  \A s : s \in Kept <=> s # 0 /\ (s = parked \/ \E g \in 0..N : s = slot[g])
  BY DEF Kept, Generations

LEMMA OldestIsLast ==
  ASSUME Daily, slot[N] # 0
  PROVE  slot[N] \in Kept /\ \A k \in Kept : slot[N] <= k
<1>1. Numbers /\ N \in 0..N
  BY TypedParts DEF Daily
<1>2. slot[N] \in Kept
  BY <1>1, KeptMembers DEF Daily
<1>3. ASSUME NEW k \in Kept PROVE slot[N] <= k
  <2>1. k # 0 /\ (k = parked \/ \E g \in 0..N : k = slot[g])
    BY <1>3, KeptMembers DEF Daily
  <2> QED BY <1>1, <2>1 DEF Daily, CopiesInv, Ordered, Numbers
<1> QED BY <1>2, <1>3

\* A generation emptied, or written over, while another copy is kept.
LEMMA QueueDrops ==
  ASSUME Daily, UNCHANGED <<family, aside>>, NEW t \in Kept', t # slot[N],
         slot[N] # 0, Kept' = Kept \ {slot[N]}
  PROVE  Queue!Next
<1>1. Queue!DropOldest
  BY OldestIsLast DEF Queue!DropOldest, Daily
<1> QED BY <1>1 DEF Queue!Next

\* A copy moves to a generation that is empty, or that holds the oldest one:
\* what is kept afterwards.
LEMMA QueueMoves ==
  ASSUME Daily, UNCHANGED <<family, aside>>,
         NEW g \in 0..N, g = N \/ slot[g] = 0,
         NEW t \in Kept', t # slot[g],
         Kept' = Kept \/ Kept' = Kept \ {slot[g]}
  PROVE  [Queue!Next]_(Queue!vars)
<1>1. CASE Kept' = Kept
  BY <1>1 DEF Queue!vars
<1>2. CASE Kept' # Kept
  <2>1. slot[g] # 0
    BY <1>2, KeptMembers DEF Daily
  <2> QED BY <1>2, <2>1, QueueDrops
<1> QED BY <1>1, <1>2

LEMMA DailyPutsBack ==
  ASSUME Daily, Typed', NEW c \in Callers, PutBackParked(c)
  PROVE  CopiesInv' /\ CallersInv' /\ UNCHANGED Queue!vars
<1>0. Numbers /\ Numbers' /\ CallersTyped /\ CallersTyped'
  BY TypedParts, PTL DEF Daily
<1>1. Numbers /\ Numbers' /\ CallersTyped /\ CallersTyped' /\ 0 \in 0..N
  BY <1>0
<1>2. tmp \in whole
  BY DEF PutBackParked, Daily, CallersInv, PlaceOf, RotationSteps
<1>3. UNCHANGED <<family, tmp, taken, whole, aside>>
  BY Zenon DEF PutBackParked, copies
<1>4. \/ parked = 0 /\ UNCHANGED <<slot, parked>> /\ Step(c, "park")
      \/ UNCHANGED <<slot, parked>> /\ End(c)
      \/ /\ parked # 0 /\ slot[0] = 0 /\ parked' = 0
         /\ slot' = [slot EXCEPT ![0] = parked] /\ Step(c, "park")
  BY <1>1 DEF PutBackParked, Daily, CopiesInv, Ordered
<1>5. CallersInv'
  <2>1. CASE End(c)
    BY <2>1, EndAfter DEF PutBackParked
  <2>2. CASE Step(c, "park") /\ parked' = 0
    <3>1. PlaceOf(c)'
      BY <1>1, <1>2, <1>3, <2>2 DEF PlaceOf, Step, Goto, CallersTyped
    <3>2. "park" \in DailySteps /\ pc[c] # "idle"
      BY DEF DailySteps, PCs, PutBackParked
    <3> QED BY <2>2, <3>1, <3>2, PlaceAfter DEF Step
  <2> QED BY <1>4, <2>1, <2>2
<1>6. CASE UNCHANGED <<slot, parked>>
  BY <1>3, <1>5, <1>6, CopiesStay, QueueStays
<1>7. CASE /\ parked # 0 /\ slot[0] = 0 /\ parked' = 0
           /\ slot' = [slot EXCEPT ![0] = parked]
  <2>1. Ordered'
    BY <1>1, <1>3, <1>7 DEF Daily, CopiesInv, Ordered, Numbers
  <2>2. Checked'
    BY <1>1, <1>3, <1>7 DEF Daily, CopiesInv, Checked, Numbers
  <2>3. Kept' = Kept
    BY <1>1, <1>3, <1>7 DEF Kept, Generations, Numbers
  <2> QED BY <1>3, <1>5, <2>1, <2>2, <2>3 DEF CopiesInv, Queue!vars
<1> QED BY <1>4, <1>6, <1>7

LEMMA DailyParks ==
  ASSUME Daily, Typed', NEW c \in Callers, ParkNewest(c)
  PROVE  CopiesInv' /\ CallersInv' /\ UNCHANGED Queue!vars
<1>0. Numbers /\ Numbers' /\ CallersTyped /\ CallersTyped'
  BY TypedParts, PTL DEF Daily
<1>1. 0 \in 0..N /\ N \in 0..N
  OBVIOUS
<1>2. tmp \in whole /\ parked = 0 /\ pc[c] = "park"
  BY DEF ParkNewest, Daily, CallersInv, PlaceOf, RotationSteps
<1>3. UNCHANGED <<family, tmp, taken, whole, aside>>
  BY Zenon DEF ParkNewest, copies
<1>4. ASSUME NEW did \in BOOLEAN, ShiftFrom(c, did), did <=> parked' # 0, slot'[0] = 0
      PROVE  CallersInv'
  <2> DEFINE p == IF N > 1 THEN "shift" ELSE "place"
  <2>1. p \in DailySteps /\ Goto(c, p) /\ lock' = lock
    BY <1>4 DEF ShiftFrom, DailySteps, PCs
  <2>2. /\ pc'[c] = p /\ gen'[c] = N /\ (parkedIt'[c] <=> did)
    BY <1>0, <1>4 DEF ShiftFrom, CallersTyped, Goto
  <2>3. PlaceOf(c)'
    BY <1>2, <1>3, <1>4, <2>2 DEF PlaceOf
  <2> HIDE DEF p
  <2> QED BY <1>2, <2>1, <2>3, PlaceAfter
<1>5. CASE slot[0] = 0 /\ ShiftFrom(c, FALSE) /\ UNCHANGED <<slot, parked>>
  BY <1>2, <1>3, <1>4, <1>5, CopiesStay, QueueStays
<1>6. CASE End(c) /\ UNCHANGED <<slot, parked>>
  BY <1>2, <1>3, <1>6, EndAfter, CopiesStay, QueueStays
<1>7. CASE /\ slot[0] # 0 /\ parked' = slot[0]
           /\ slot' = [slot EXCEPT ![0] = 0] /\ ShiftFrom(c, TRUE)
  <2>1. CallersInv'
    BY <1>0, <1>1, <1>4, <1>7 DEF Numbers
  <2>2. Ordered'
    BY <1>0, <1>1, <1>2, <1>3, <1>7 DEF Daily, CopiesInv, Ordered, Numbers
  <2>3. Checked'
    BY <1>0, <1>1, <1>2, <1>3, <1>7 DEF Daily, CopiesInv, Checked, Numbers
  <2>4. Kept' = Kept
    BY <1>0, <1>1, <1>2, <1>3, <1>7 DEF Kept, Generations, Numbers
  <2> QED BY <1>3, <2>1, <2>2, <2>3, <2>4 DEF CopiesInv, Queue!vars
<1> QED BY <1>5, <1>6, <1>7 DEF ParkNewest

LEMMA DailyShifts ==
  ASSUME Daily, Typed', NEW c \in Callers, ShiftGeneration(c)
  PROVE  CopiesInv' /\ CallersInv' /\ [Queue!Next]_(Queue!vars)
<1> DEFINE g == gen[c]
<1>0. Numbers /\ Numbers' /\ CallersTyped /\ CallersTyped'
  BY TypedParts, PTL DEF Daily
<1>1. pc[c] = "shift" /\ g \in 2..N /\ g \in 0..N /\ g - 1 \in 0..N /\ 0 \in 0..N
  BY DEF ShiftGeneration, Daily, Typed, ShiftTyped
<1>2. /\ tmp \in whole /\ slot[0] = 0 /\ (parkedIt[c] <=> parked # 0)
      /\ g = N \/ slot[g] = 0
  BY <1>1 DEF Daily, CallersInv, PlaceOf, RotationSteps
<1>3. UNCHANGED <<family, parked, tmp, taken, whole, aside>>
  BY Zenon DEF ShiftGeneration, copies
<1>4. ASSUME NextShift(c), slot'[0] = 0, slot'[g - 1] = 0 PROVE CallersInv'
  <2> DEFINE p == IF g = 2 THEN "place" ELSE "shift"
  <2>1. p \in DailySteps /\ Goto(c, p) /\ lock' = lock
    BY <1>4 DEF NextShift, DailySteps, PCs
  <2>2. pc'[c] = p /\ gen'[c] = g - 1 /\ parkedIt' = parkedIt
    BY <1>0, <1>4 DEF NextShift, CallersTyped, Goto
  <2>3. PlaceOf(c)'
    BY <1>2, <1>3, <1>4, <2>2 DEF PlaceOf
  <2> HIDE DEF p
  <2> QED BY <1>1, <2>1, <2>3, PlaceAfter
<1>5. CASE slot[g - 1] = 0 /\ NextShift(c) /\ UNCHANGED slot
  BY <1>2, <1>3, <1>4, <1>5, CopiesStay, QueueStays
<1>6. CASE /\ slot[g - 1] # 0 /\ NextShift(c)
           /\ slot' = [slot EXCEPT ![g] = slot[g - 1], ![g - 1] = 0]
  <2>1. slot'[0] = 0 /\ slot'[g - 1] = 0 /\ slot'[g] = slot[g - 1]
    BY <1>0, <1>1, <1>2, <1>6 DEF Numbers
  <2>6. \A h \in 0..N :
          slot'[h] = IF h = g THEN slot[g - 1] ELSE IF h = g - 1 THEN 0 ELSE slot[h]
    BY <1>0, <1>1, <1>6, SMTT(30) DEF Numbers
  <2>7. \A h \in 0..N : slot[h] \in Nat /\ slot'[h] \in Nat
    BY <1>0 DEF Numbers
  <2>8. \A i, j \in 0..N : i < j /\ slot[i] # 0 => slot[j] < slot[i]
    BY DEF Daily, CopiesInv, Ordered
  <2>9. ASSUME NEW i \in 0..N, NEW j \in 0..N, i < j, slot'[i] # 0
        PROVE  slot'[j] < slot'[i]
    <3> HIDE DEF g
    <3>1. slot[j] < slot[g - 1] \/ j <= g - 1
      BY <1>1, <1>6, <2>8
    <3>2. slot[g - 1] < slot[i] \/ i >= g - 1 \/ slot[i] = 0
      BY <1>1, <2>8
    <3>3. slot[j] < slot[i] \/ slot[i] = 0
      BY <2>8, <2>9
    <3>4. slot'[i] = (IF i = g THEN slot[g - 1] ELSE slot[i]) /\ i # g - 1
      BY <2>6, <2>9
    <3>5. slot'[j] = IF j = g THEN slot[g - 1] ELSE IF j = g - 1 THEN 0 ELSE slot[j]
      BY <2>6
    <3>6. slot[i] \in Nat /\ slot[j] \in Nat /\ slot[g - 1] \in Nat
      BY <1>1, <2>7
    <3>7. CASE i = g
      BY <1>1, <1>6, <2>9, <3>1, <3>4, <3>5, <3>6, <3>7
    <3>8. CASE i # g
      BY <1>1, <2>9, <3>2, <3>3, <3>4, <3>5, <3>6, <3>8
    <3> QED BY <3>7, <3>8
  <2>2. Ordered'
    <3> USE <1>0, <1>1, <1>3, <2>6, <2>7 DEF Daily, CopiesInv, Ordered, Numbers
    <3>1. \A i, j \in 0..N : i < j /\ slot'[i] # 0 => slot'[j] < slot'[i]
      BY <2>9
    <3>2. parked # 0 => \A h \in 0..N : slot'[h] < parked
      OBVIOUS
    <3>3. tmp # 0 => \A h \in 0..N : slot'[h] < tmp
      OBVIOUS
    <3>4. \A h \in 0..N : slot'[h] <= taken
      OBVIOUS
    <3> QED BY <2>1, <3>1, <3>2, <3>3, <3>4
  <2>3. Checked'
    BY <1>0, <1>1, <1>3, <1>6 DEF Daily, CopiesInv, Checked, Numbers
  <2>4. slot[g - 1] \in Kept' /\ slot[g - 1] # slot[g]
    BY <1>0, <1>1, <1>3, <1>6, <2>1
       DEF Kept, Generations, Daily, CopiesInv, Ordered, Numbers
  <2>5. Kept' = Kept \ {slot[g]}
    <3>1. ASSUME NEW h \in 0..N, h # g, slot[h] # 0 PROVE slot[h] # slot[g]
      <4>1. h < g => slot[g] < slot[h]
        BY <1>1, <3>1 DEF Daily, CopiesInv, Ordered
      <4>2. g < h => slot[g] = 0 \/ slot[h] < slot[g]
        BY <1>1, <3>1 DEF Daily, CopiesInv, Ordered
      <4> HIDE DEF g
      <4> QED BY <1>1, <2>7, <3>1, <4>1, <4>2
    <3>2. parked # 0 => parked # slot[g]
      BY <1>0, <1>1, <2>7, SMTT(30) DEF Daily, CopiesInv, Ordered, Numbers
    <3>3. \A s : s \in Kept' <=>
                  s # 0 /\ (s = parked \/ \E h \in 0..N : s = slot'[h])
      BY <1>3 DEF Kept, Generations, Daily
    <3>4. \A s : s # 0 => ((\E h \in 0..N : s = slot'[h])
                            <=> (\E h \in 0..N : h # g /\ s = slot[h]))
      BY <1>1, <2>6
    <3> QED BY <3>1, <3>2, <3>3, <3>4, KeptMembers DEF Daily
  <2> QED BY <1>1, <1>2, <1>3, <1>4, <1>6, <2>1, <2>2, <2>3, <2>4, <2>5, QueueMoves
             DEF CopiesInv
<1>7. CASE slot[g - 1] # 0 /\ TargetCleared(g) /\ Step(c, "unpark")
  <2>1. slot' = slot \/ slot' = [slot EXCEPT ![g] = 0]
    BY <1>0, <1>1, <1>7 DEF TargetCleared, Numbers
  <2>2. CallersInv'
    <3>1. PlaceOf(c)'
      BY <1>0, <1>1, <1>2, <1>3, <1>7, <2>1
         DEF PlaceOf, Step, Goto, CallersTyped, Numbers
    <3>2. "unpark" \in DailySteps
      BY DEF DailySteps, PCs
    <3> QED BY <1>1, <1>7, <3>1, <3>2, PlaceAfter DEF Step
  <2>3. CASE slot' = slot
    BY <1>3, <2>2, <2>3, CopiesStay, QueueStays
  <2>4. CASE slot' = [slot EXCEPT ![g] = 0]
    <3>1. Ordered'
      BY <1>0, <1>1, <1>2, <1>3, <2>4, SMTT(30) DEF Daily, CopiesInv, Ordered, Numbers
    <3>2. Checked'
      BY <1>0, <1>1, <1>3, <2>4 DEF Daily, CopiesInv, Checked, Numbers
    <3>3. slot[g - 1] \in Kept' /\ slot[g - 1] # slot[g]
      BY <1>0, <1>1, <1>3, <1>7, <2>4
         DEF Kept, Generations, Daily, CopiesInv, Ordered, Numbers
    <3>4. Kept' = Kept \ {slot[g]}
      BY <1>0, <1>1, <1>3, <1>7, <2>4, KeptMembers, SMTT(30)
         DEF Kept, Generations, Daily, CopiesInv, Ordered, Numbers
    <3> QED BY <1>1, <1>2, <1>3, <2>2, <3>1, <3>2, <3>3, <3>4, QueueMoves
               DEF CopiesInv
  <2> QED BY <2>1, <2>3, <2>4
<1> QED BY <1>5, <1>6, <1>7 DEF ShiftGeneration, MayRename

LEMMA DailyPlaces ==
  ASSUME Daily, Typed', NEW c \in Callers, PlaceParked(c)
  PROVE  CopiesInv' /\ CallersInv' /\ [Queue!Next]_(Queue!vars)
<1>0. Numbers /\ Numbers' /\ CallersTyped /\ CallersTyped'
  BY TypedParts, PTL DEF Daily
<1>1. 0 \in 0..N /\ 1 \in 0..N /\ pc[c] = "place"
  BY DEF PlaceParked
<1>2. /\ tmp \in whole /\ slot[0] = 0 /\ (parkedIt[c] <=> parked # 0)
      /\ 1 = N \/ slot[1] = 0
  BY <1>1 DEF Daily, CallersInv, PlaceOf, RotationSteps
<1>3. UNCHANGED <<family, tmp, taken, whole, aside>>
  BY Zenon DEF PlaceParked, copies
<1>4. "promote" \in DailySteps /\ "unpark" \in DailySteps
  BY DEF DailySteps, PCs
<1>5. ASSUME Step(c, "promote"), slot'[0] = 0, parked' = 0 PROVE CallersInv'
  <2>1. PlaceOf(c)'
    BY <1>0, <1>2, <1>3, <1>5 DEF PlaceOf, Step, Goto, CallersTyped
  <2> QED BY <1>1, <1>4, <1>5, <2>1, PlaceAfter DEF Step
<1>6. ASSUME Step(c, "unpark"), slot'[0] = 0 PROVE CallersInv'
  <2>1. PlaceOf(c)'
    BY <1>0, <1>2, <1>3, <1>6 DEF PlaceOf, Step, Goto, CallersTyped
  <2> QED BY <1>1, <1>4, <1>6, <2>1, PlaceAfter DEF Step
<1>7. CASE parked = 0 /\ UNCHANGED <<slot, parked>> /\ Step(c, "promote")
  BY <1>2, <1>3, <1>5, <1>7, CopiesStay, QueueStays
<1>8. CASE /\ parked # 0 /\ slot' = [slot EXCEPT ![1] = parked] /\ parked' = 0
           /\ Step(c, "promote")
  <2>1. \A h \in 0..N : slot'[h] = IF h = 1 THEN parked ELSE slot[h]
    BY <1>0, <1>1, <1>8 DEF Numbers
  <2>2. Ordered'
    BY <1>0, <1>1, <1>2, <1>3, <1>8, <2>1 DEF Daily, CopiesInv, Ordered, Numbers
  <2>3. Checked'
    BY <1>0, <1>1, <1>3, <1>8, <2>1 DEF Daily, CopiesInv, Checked, Numbers
  <2>4. parked \in Kept' /\ parked # slot[1]
    BY <1>0, <1>1, <1>3, <1>8, <2>1
       DEF Kept, Generations, Daily, CopiesInv, Ordered, Numbers
  <2>5. Kept' = Kept \ {slot[1]}
    <3>1. \A h \in 0..N : h # 1 /\ slot[h] # 0 => slot[h] # slot[1]
      BY <1>0, <1>1, <1>2 DEF Daily, CopiesInv, Ordered, Numbers
    <3>2. \A s : s \in Kept' <=> s # 0 /\ \E h \in 0..N : s = slot'[h]
      BY <1>3, <1>8 DEF Kept, Generations, Daily
    <3>3. \A s : s # 0 => ((\E h \in 0..N : s = slot'[h])
                      <=> (s = parked \/ \E h \in 0..N : h # 1 /\ s = slot[h]))
      BY <1>1, <2>1
    <3> QED BY <2>4, <3>1, <3>2, <3>3, KeptMembers DEF Daily
  <2>6. CallersInv'
    BY <1>1, <1>2, <1>5, <1>8, <2>1
  <2> QED BY <1>1, <1>2, <1>3, <2>2, <2>3, <2>4, <2>5, <2>6, QueueMoves
             DEF CopiesInv
<1>9. CASE /\ parked # 0 /\ TargetCleared(1) /\ UNCHANGED parked
           /\ Step(c, "unpark")
  <2>1. slot' = slot \/ slot' = [slot EXCEPT ![1] = 0]
    BY <1>0, <1>1, <1>9 DEF TargetCleared, Numbers
  <2>2. CallersInv'
    BY <1>0, <1>1, <1>2, <1>6, <1>9, <2>1 DEF Numbers
  <2>3. CASE slot' = slot
    BY <1>3, <1>9, <2>2, <2>3, CopiesStay, QueueStays
  <2>4. CASE slot' = [slot EXCEPT ![1] = 0]
    <3>1. Ordered'
      BY <1>0, <1>1, <1>2, <1>3, <1>9, <2>4 DEF Daily, CopiesInv, Ordered, Numbers
    <3>2. Checked'
      BY <1>0, <1>1, <1>3, <1>9, <2>4 DEF Daily, CopiesInv, Checked, Numbers
    <3>3. parked \in Kept' /\ parked # slot[1]
      BY <1>0, <1>1, <1>3, <1>9, <2>4
         DEF Kept, Generations, Daily, CopiesInv, Ordered, Numbers
    <3>4. Kept' = Kept \ {slot[1]}
      BY <1>0, <1>1, <1>2, <1>3, <1>9, <2>4, KeptMembers
         DEF Kept, Generations, Daily, CopiesInv, Ordered, Numbers
    <3> QED BY <1>1, <1>2, <1>3, <2>2, <3>1, <3>2, <3>3, <3>4, QueueMoves
               DEF CopiesInv
  <2> QED BY <2>1, <2>3, <2>4
<1>10. slot[0] = 0 /\ (parkedIt[c] => slot'[0] = 0)
  BY <1>0, <1>1, <1>2, SMTT(30) DEF PlaceParked, TargetCleared, Numbers
<1> QED
  BY <1>0, <1>1, <1>2, <1>7, <1>8, <1>9, <1>10 DEF PlaceParked, MayRename, Numbers

LEMMA DailyUnparks ==
  ASSUME Daily, Typed', NEW c \in Callers, Unpark(c)
  PROVE  CopiesInv' /\ CallersInv' /\ UNCHANGED Queue!vars
<1>0. Numbers /\ Numbers' /\ CallersTyped /\ CallersTyped'
  BY TypedParts, PTL DEF Daily
<1>1. pc[c] = "unpark" /\ slot[0] = 0 /\ CallersInv' /\ 0 \in 0..N
  BY EndAfter DEF Unpark, Daily, CallersInv, PlaceOf
<1>2. UNCHANGED <<family, tmp, taken, whole, aside>>
  BY Zenon DEF Unpark, copies
<1>3. CASE UNCHANGED <<slot, parked>>
  BY <1>1, <1>2, <1>3, CopiesStay, QueueStays
<1>4. CASE parked # 0 /\ slot' = [slot EXCEPT ![0] = parked] /\ parked' = 0
  <2>1. Ordered'
    BY <1>0, <1>1, <1>2, <1>4 DEF Daily, CopiesInv, Ordered, Numbers
  <2>2. Checked'
    BY <1>0, <1>1, <1>2, <1>4 DEF Daily, CopiesInv, Checked, Numbers
  <2>3. Kept' = Kept
    BY <1>0, <1>1, <1>2, <1>4 DEF Kept, Generations, Numbers
  <2> QED BY <1>1, <1>2, <2>1, <2>2, <2>3 DEF CopiesInv, Queue!vars
<1> QED BY <1>3, <1>4 DEF Unpark, MayRename

LEMMA DailyPromotes ==
  ASSUME Daily, Typed', NEW c \in Callers, Promote(c)
  PROVE  CopiesInv' /\ CallersInv' /\ [Queue!Next]_(Queue!vars)
<1>0. Numbers /\ Numbers' /\ CallersTyped /\ CallersTyped'
  BY TypedParts, PTL DEF Daily
<1>1. pc[c] = "promote" /\ CallersInv' /\ 0 \in 0..N
  BY EndAfter DEF Promote
<1>2. slot[0] = 0 /\ parked = 0 /\ tmp \in whole
  BY <1>1 DEF Daily, CallersInv, PlaceOf, RotationSteps
<1>3. UNCHANGED <<family, parked, taken, whole, aside>>
  BY Zenon DEF Promote, copies
<1>4. CASE UNCHANGED <<slot, tmp>>
  BY <1>1, <1>3, <1>4, CopiesStay, QueueStays
<1>5. CASE tmp # 0 /\ slot' = [slot EXCEPT ![0] = tmp] /\ tmp' = 0
  <2>1. Ordered'
    BY <1>0, <1>1, <1>2, <1>3, <1>5 DEF Daily, CopiesInv, Ordered, Numbers
  <2>2. Checked'
    BY <1>0, <1>1, <1>2, <1>3, <1>5 DEF Daily, CopiesInv, Checked, Numbers
  <2>3. Kept' = Kept \cup {tmp}
    BY <1>0, <1>1, <1>2, <1>3, <1>5 DEF Kept, Generations, Numbers, Daily
  <2>4. \A k \in Kept : k < tmp
    BY <1>0, <1>2, <1>5, KeptMembers DEF Daily, CopiesInv, Ordered, Numbers
  <2>5. Queue!Push
    BY <1>3, <2>3, <2>4 DEF Queue!Push, Daily
  <2> QED BY <1>1, <2>1, <2>2, <2>5 DEF CopiesInv, Queue!Next
<1> QED BY <1>4, <1>5 DEF Promote, Fresh, MayRename, Daily

LEMMA DailyRotates ==
  ASSUME Daily, Typed', NEW c \in Callers, Rotate(c)
  PROVE  CopiesInv' /\ CallersInv' /\ [Queue!Next]_(Queue!vars)
  BY DailyPutsBack, DailyParks, DailyShifts, DailyPlaces, DailyUnparks, DailyPromotes
     DEF Rotate

(***************************************************************************)
(* The database and the world around it.                                   *)
(***************************************************************************)
LEMMA CallersStay ==
  ASSUME CallersInv, UNCHANGED <<run, slot, parked, tmp, whole>>
  PROVE  CallersInv'
  BY DEF CallersInv, OneRuns, PlaceOf, run

LEMMA DailySetsAside ==
  ASSUME Daily, Typed', SetAsideBackup
  PROVE  CopiesInv' /\ CallersInv' /\ [Queue!Next]_(Queue!vars)
<1>0. Numbers /\ Numbers' /\ CallersTyped /\ CallersTyped'
  BY TypedParts, PTL DEF Daily
<1>1. UNCHANGED <<family, parked, taken, whole>> /\ UNCHANGED pc
  BY Zenon DEF SetAsideBackup, copies, run
<1>2. CallersInv'
  <2>1. \A c \in Callers : pc'[c] = "idle"
    BY <1>1 DEF SetAsideBackup, NoneRuns
  <2> QED BY <2>1 DEF CallersInv, OneRuns, PlaceOf, RotationSteps, DailySteps, PCs
<1>3. PICK s \in Candidates :
        /\ slot' = [g \in 0..N |-> IF slot[g] = s THEN 0 ELSE slot[g]]
        /\ tmp' = (IF tmp = s THEN 0 ELSE tmp)
        /\ aside' = aside \cup {s}
  BY Zenon DEF SetAsideBackup
<1>4. s # 0 /\ s # parked
  BY <1>0, <1>3 DEF Candidates, Generations, Daily, CopiesInv, Ordered, Numbers
<1>5. tmp' \in {0, tmp} /\ \A g \in 0..N : slot'[g] = IF slot[g] = s THEN 0 ELSE slot[g]
  BY <1>3
<1>6. Ordered'
  <2>1. \A g \in 0..N : /\ slot'[g] = 0 \/ slot'[g] = slot[g]
                       /\ slot[g] \in Nat /\ slot'[g] \in Nat
    BY <1>0, <1>5 DEF Numbers
  <2>2. \A i, j \in 0..N : i < j /\ slot'[i] # 0 => slot'[j] < slot'[i]
    <3>1. \A i, j \in 0..N : i < j /\ slot[i] # 0 => slot[j] < slot[i]
      BY DEF Daily, CopiesInv, Ordered
    <3> QED BY <2>1, <3>1
  <2>3. ASSUME parked # 0
        PROVE  slot'[0] = 0 /\ \A g \in 0..N : slot'[g] < parked
    <3>1. slot[0] = 0 /\ 0 \in 0..N /\ \A g \in 0..N : slot[g] < parked
      BY <2>3 DEF Daily, CopiesInv, Ordered
    <3>2. parked \in Nat \ {0}
      BY <1>0, <2>3 DEF Numbers
    <3>3. slot'[0] = 0
      BY <2>1, <3>1
    <3>4. ASSUME NEW g \in 0..N PROVE slot'[g] < parked
      BY <2>1, <3>1, <3>2
    <3> QED BY <3>3, <3>4
  <2>4. tmp' # 0 => parked < tmp' /\ \A g \in 0..N : slot'[g] < tmp'
    <3>1. tmp' # 0 => tmp' = tmp /\ tmp # 0
      BY <1>5
    <3>2. tmp # 0 => parked < tmp /\ \A g \in 0..N : slot[g] < tmp
      BY DEF Daily, CopiesInv, Ordered
    <3>3. tmp \in Nat
      BY <1>0 DEF Numbers
    <3>4. ASSUME tmp # 0, NEW g \in 0..N PROVE slot'[g] < tmp
      BY <2>1, <3>2, <3>3, <3>4
    <3> QED BY <3>1, <3>2, <3>4
  <2>5. tmp' <= taken /\ parked <= taken /\ \A g \in 0..N : slot'[g] <= taken
    BY <1>0, <1>5, <2>1, SMTT(30) DEF Daily, CopiesInv, Ordered, Numbers
  <2> QED BY <1>1, <2>2, <2>3, <2>4, <2>5 DEF Ordered
<1>7. Checked'
  BY <1>0, <1>1, <1>5 DEF Daily, CopiesInv, Checked, Numbers
<1>8. Kept' = Kept \ {s}
  <2>1. \A t : t \in Kept' <=> t # 0 /\ (t = parked \/ \E g \in 0..N : t = slot'[g])
    BY <1>1 DEF Kept, Generations, Daily
  <2>2. \A t : t # 0 => ((\E g \in 0..N : t = slot'[g])
                    <=> (t # s /\ \E g \in 0..N : t = slot[g]))
    BY <1>5
  <2> QED BY <1>4, <2>1, <2>2, KeptMembers DEF Daily
<1>9. Queue!SetAside
  BY <1>1, <1>3, <1>8 DEF Queue!SetAside, Daily
<1> QED BY <1>2, <1>6, <1>7, <1>9 DEF CopiesInv, Queue!Next

LEMMA DailyWorld ==
  ASSUME Daily, Typed', Database \/ World
  PROVE  CopiesInv' /\ CallersInv' /\ [Queue!Next]_(Queue!vars)
<1>1. CASE SetAsideBackup
  BY <1>1, DailySetsAside
<1>2. CASE Crash
  <2>1. UNCHANGED <<family, slot, parked, tmp, taken, whole, aside>>
    BY <1>2, Zenon DEF Crash, files, copies
  <2>2. \A c \in Callers : pc'[c] = "idle"
    BY <1>2 DEF Crash
  <2>3. CallersInv'
    BY <2>2 DEF CallersInv, OneRuns, PlaceOf, RotationSteps, DailySteps, PCs
  <2> QED BY <2>1, <2>3, CopiesStay, QueueStays
<1>3. CASE \/ Restore \/ CreateEmpty \/ Decay \/ FullCheck \/ Edit \/ Import
           \/ Expire \/ Hold \/ Release
  <2>1. UNCHANGED <<family, slot, parked, tmp, taken, whole, aside, run>>
    BY <1>3, Zenon
       DEF Restore, CreateEmpty, Decay, FullCheck, Edit, Import, Expire, Hold,
           Release, files, copies
  <2> QED BY <2>1, CopiesStay, CallersStay, QueueStays DEF Daily
<1> QED BY <1>1, <1>2, <1>3 DEF Database, World

LEMMA FamilyStays == [Next]_vars => UNCHANGED family
<1> SUFFICES ASSUME Next PROVE UNCHANGED family
  BY DEF vars
<1>1. ASSUME NEW c \in Callers, Caller(c) PROVE UNCHANGED family
  <2>1. CASE Begin(c)
    BY <2>1, Zenon DEF Begin, BeginSnapshot, BeginMirror
  <2>2. CASE Write(c)
    BY <2>2, Zenon
       DEF Write, ApplyRules, SetAsideEarlier, ClearTmp, StartVacuum, VacuumRefused,
           FinishVacuum, CopyFails, CheckCopy, StageExport
  <2>3. CASE Rotate(c)
    BY <2>3, Zenon
       DEF Rotate, PutBackParked, ParkNewest, ShiftGeneration, PlaceParked, Unpark,
           Promote
  <2> QED BY <1>1, <2>1, <2>2, <2>3 DEF Caller
<1>2. CASE Database
  BY <1>2, Zenon
     DEF Database, Restore, SetAsideBackup, CreateEmpty, Decay, FullCheck, Edit, Import
<1>3. CASE World
  BY <1>3, Zenon DEF World, Expire, Hold, Release, Crash
<1> QED BY <1>1, <1>2, <1>3 DEF Next

\* One step of the whole specification, in either family.
LEMMA NextKeepsInv == Inv /\ [Next]_vars => Inv' /\ [Queue!Next]_(Queue!vars)
<1> SUFFICES ASSUME Inv, [Next]_vars PROVE Inv' /\ [Queue!Next]_(Queue!vars)
  OBVIOUS
<1>1. Typed' /\ UNCHANGED family
  BY NextTyped, FamilyStays DEF Inv
<1>2. CASE family = "daily"
  <2>1. Daily
    BY <1>2 DEF Inv, DailyInv, Daily
  <2>2. CASE UNCHANGED vars
    <3>1. UNCHANGED <<family, slot, parked, tmp, taken, whole, aside, run>>
      BY <2>2 DEF vars, files, copies
    <3> QED BY <1>1, <2>1, <3>1, CopiesStay, CallersStay, QueueStays
               DEF Inv, DailyInv, Daily
  <2>3. CASE Next
    BY <1>1, <2>1, <2>3, DailyBegins, DailyWrites, DailyRotates, DailyWorld
       DEF Next, Caller, Inv, DailyInv
  <2> QED BY <2>2, <2>3
<1>3. CASE family # "daily"
  BY <1>1, <1>3 DEF Inv, DailyInv, Queue!vars, Kept
<1> QED BY <1>2, <1>3

LEMMA InitInv == Init => Inv /\ Queue!Init
<1> SUFFICES ASSUME Init PROVE Inv /\ Queue!Init
  OBVIOUS
<1>1. CopiesInv /\ Queue!Init
  BY DEF Init, CopiesInv, Ordered, Checked, Queue!Init, Kept, Generations
<1>2. CallersInv
  BY DEF Init, CallersInv, OneRuns, PlaceOf, RotationSteps, DailySteps, PCs
<1> QED BY <1>1, <1>2, InitTyped DEF Inv, DailyInv

\* The daily snapshots implement the queue: through every rotation, refusal
\* and crash, only the oldest copy is ever dropped, and never the last.
THEOREM DailyIsQueue == Spec => OnlyOldestDropped
  BY InitInv, NextKeepsInv, PTL DEF Spec, OnlyOldestDropped, Queue!Spec

\* A restore takes the newest generation in place: the candidates before it
\* are none, since all of them are whole and in the order of their age.
LEMMA NewestRestored ==
  ASSUME Inv, Restore PROVE \A t \in Generations : t <= restored'
<1>1. Daily /\ Numbers /\ CopiesInv
  BY TypedParts DEF Restore, Inv, DailyInv, Daily
<1>2. PICK s \in Candidates :
        s \in whole \ held /\ Passed(s) \cap (whole \cup held) = {} /\ restored' = s
  BY Zenon DEF Restore
<1>3. SUFFICES ASSUME NEW g \in 0..N, slot[g] # 0 PROVE slot[g] <= s
  BY <1>2 DEF Generations
<1>4. slot[g] \in whole /\ slot[g] \in Generations
  BY <1>1, <1>3 DEF CopiesInv, Checked, Generations
<1>5. s # tmp /\ s \in Generations
  BY <1>2, <1>4 DEF Passed, Candidates
<1>6. PICK k \in 0..N : s = slot[k] /\ s # 0
  BY <1>5 DEF Generations
<1>7. \A i, j \in 0..N : i < j /\ slot[i] # 0 => slot[j] < slot[i]
  BY <1>1 DEF CopiesInv, Ordered
<1>8. slot[g] \notin Passed(s)
  BY <1>2, <1>4
<1>9. PICK h \in 0..N : slot[h] = s /\ ~(g < h)
  BY <1>3, <1>5, <1>8 DEF Passed
<1> QED BY <1>1, <1>6, <1>7, <1>9 DEF Numbers

THEOREM NewestIsRestored == Spec => RestoreTakesNewest
<1>1. Inv /\ [Next]_vars =>
        (restored' # restored /\ Generations # {} =>
           \A s \in Generations : s <= restored')
  <2> SUFFICES ASSUME Inv, Next, restored' # restored
               PROVE  \A t \in Generations : t <= restored'
    BY DEF vars, source
  <2>1. ASSUME NEW c \in Callers, Caller(c) PROVE UNCHANGED restored
    <3>1. CASE Begin(c)
      BY <3>1, Zenon DEF Begin, BeginSnapshot, BeginMirror, source
    <3>2. CASE Write(c)
      BY <3>2, Zenon
         DEF Write, ApplyRules, SetAsideEarlier, ClearTmp, StartVacuum, VacuumRefused,
             FinishVacuum, CopyFails, CheckCopy, StageExport, source
    <3>3. CASE Rotate(c)
      BY <3>3, Zenon
         DEF Rotate, PutBackParked, ParkNewest, ShiftGeneration, PlaceParked, Unpark,
             Promote, source
    <3> QED BY <2>1, <3>1, <3>2, <3>3 DEF Caller
  <2>2. CASE Database
    BY <2>2, NewestRestored, Zenon
       DEF Database, SetAsideBackup, CreateEmpty, Decay, FullCheck, Edit, Import, source
  <2>3. CASE World
    BY <2>3, Zenon DEF World, Expire, Hold, Release, Crash, source
  <2> QED BY <2>1, <2>2, <2>3 DEF Next
<1> QED BY <1>1, InitInv, NextKeepsInv, PTL DEF Spec, RestoreTakesNewest

(***************************************************************************)
(* The last daily copy of a library.  A run looks at the rows of the       *)
(* database before its VACUUM, and goes on with an empty one only when no  *)
(* generation holds a library: then what its rotation drops holds none     *)
(* either, though a copy left parked by a crash, at which it did not look, *)
(* may be put back in front.  What is left is the run that saw rows which  *)
(* were deleted before it copied them.                                     *)
(***************************************************************************)
NoLibraryBelow == \A g \in 1..N : ~HoldsLibrary(slot[g])

\* From its look at the rows to its last drop, a run that saw none has no
\* library to drop.
EmptySteps == {"clear", "vacuum", "copying", "verify", "putBack", "park", "shift", "place"}
RunRule(c) ==
  /\ pc[c] = "copying" => mine[c] = tmp /\ tmp # 0
  /\ pc[c] \in EmptySteps /\ sawEmpty => NoLibraryBelow

CopiesKnown == whole \subseteq 1..taken /\ aside \subseteq 0..taken

LibraryInv == family = "daily" => CopiesKnown /\ \A c \in Callers : RunRule(c)

Careful == Daily /\ LibraryInv /\ Typed'

\* The one that runs stays alone, so after its step only its rule is in
\* question.
LEMMA RuleAfter ==
  ASSUME Careful, NEW c \in Callers, pc[c] # "idle", NEW p \in PCs, Goto(c, p),
         UNCHANGED <<family, sawEmpty>>, CopiesKnown',
         pc'[c] = p => RunRule(c)'
  PROVE  LibraryInv'
<1>1. pc \in [Callers -> PCs] /\ \A d \in Callers \ {c} : pc[d] = "idle"
  BY Alone, TypedParts DEF Careful, Daily, CallersTyped
<1>2. pc'[c] = p /\ \A d \in Callers \ {c} : pc'[d] = "idle"
  BY <1>1 DEF Goto
<1>3. \A d \in Callers \ {c} : RunRule(d)'
  BY <1>2 DEF RunRule, EmptySteps
<1> QED BY <1>2, <1>3 DEF LibraryInv

LEMMA RuleEnds ==
  ASSUME Careful, NEW c \in Callers, End(c), CopiesKnown', pc[c] # "idle"
  PROVE  LibraryInv'
<1>1. pc \in [Callers -> PCs] /\ \A d \in Callers \ {c} : pc[d] = "idle"
  BY Alone, TypedParts DEF Careful, Daily, CallersTyped
<1>2. \A d \in Callers : pc'[d] = "idle"
  BY <1>1 DEF End, Goto
<1> QED BY <1>2 DEF LibraryInv, RunRule, EmptySteps

\* What a copy holds does not change once it is written.
LEMMA HoldsStays ==
  ASSUME UNCHANGED <<whole, kind>> PROVE \A s : HoldsLibrary(s)' <=> HoldsLibrary(s)
  BY DEF HoldsLibrary

LEMMA RuleBegins ==
  ASSUME Careful, NEW c \in Callers, Begin(c) PROVE LibraryInv'
<1>1. BeginSnapshot(c) /\ family = "daily"
  BY DEF Begin, BeginMirror, Careful, Daily
<1>2. pc \in [Callers -> PCs] /\ NoCaller \notin Callers
  BY TypedParts DEF Careful, Daily, CallersTyped, BackupsAssumption
<1>3. \A d \in Callers : pc[d] = "idle"
  BY <1>1, <1>2 DEF BeginSnapshot, Careful, Daily, CallersInv, OneRuns
<1>4. pc'[c] = "clear" /\ \A d \in Callers \ {c} : pc'[d] = "idle"
  BY <1>1, <1>2, <1>3 DEF BeginSnapshot, Goto
<1>5. UNCHANGED <<slot, whole, kind, taken, aside>>
  BY <1>1, Zenon DEF BeginSnapshot, NotesRows, files
<1>6. sawEmpty' => NoLibraryBelow
  <2>1. sawEmpty' => ~AnyHoldsLibrary
    BY <1>1 DEF BeginSnapshot, NotesRows
  <2>2. \A g \in 1..N : HoldsLibrary(slot[g]) => slot[g] \in Generations
    <3>1. 0 \notin whole
      BY <1>1 DEF Careful, LibraryInv, CopiesKnown
    <3> QED BY <3>1 DEF HoldsLibrary, Generations
  <2> QED BY <2>1, <2>2 DEF AnyHoldsLibrary, NoLibraryBelow
<1>7. RunRule(c)'
  BY <1>4, <1>5, <1>6, HoldsStays DEF RunRule, EmptySteps, NoLibraryBelow
<1>8. CopiesKnown'
  BY <1>1, <1>5 DEF Careful, LibraryInv, CopiesKnown
<1>9. \A d \in Callers \ {c} : RunRule(d)'
  BY <1>4 DEF RunRule, EmptySteps
<1> QED BY <1>7, <1>8, <1>9 DEF LibraryInv

LEMMA RuleWrites ==
  ASSUME Careful, NEW c \in Callers, Write(c) PROVE LibraryInv'
<1>0. /\ family = "daily" /\ CopiesKnown /\ RunRule(c) /\ pc[c] \in DailySteps
      /\ pc \in [Callers -> PCs]
  BY TypedParts DEF Careful, Daily, LibraryInv, CallersInv, OneRuns, CallersTyped
<1>1. CASE ClearTmp(c)
  <2>1. UNCHANGED <<family, slot, whole, kind, taken, aside, sawEmpty>>
    BY <1>1, Zenon DEF ClearTmp, copies, source
  <2>2. pc[c] = "clear" /\ Goto(c, "vacuum") /\ "vacuum" \in PCs
    BY <1>1 DEF ClearTmp, Step, PCs
  <2>3. CopiesKnown'
    BY <1>0, <2>1 DEF CopiesKnown
  <2>4. pc'[c] = "vacuum" => RunRule(c)'
    BY <1>0, <2>1, <2>2, HoldsStays DEF RunRule, EmptySteps, NoLibraryBelow
  <2> QED BY <2>1, <2>2, <2>3, <2>4, RuleAfter
<1>2. CASE StartVacuum(c)
  <2>1. /\ UNCHANGED <<family, slot, whole, aside, sawEmpty>> /\ pc[c] = "vacuum"
        /\ taken' = taken + 1 /\ tmp' = taken' /\ kind' = [kind EXCEPT ![taken'] = db]
        /\ mine' = [mine EXCEPT ![c] = taken'] /\ Goto(c, "copying")
    BY <1>2, Zenon DEF StartVacuum
  <2>2. /\ taken \in Nat /\ mine \in [Callers -> Copy] /\ taken' \in 1..MaxCopies
        /\ kind \in [1..MaxCopies -> DbStates]
    <3>1. taken \in Copy /\ taken' \in Copy
      BY DEF Careful, Daily, Typed, TypeOK
    <3>2. taken \in Nat /\ taken' \in 1..MaxCopies
      BY <2>1, <3>1 DEF Copy
    <3> QED BY <3>2 DEF Careful, Daily, Typed, TypeOK
  <2>3. kind'[taken'] = db /\ mine'[c] = taken' /\ taken' # 0
    BY <2>1, <2>2
  <2>4. CopiesKnown'
    BY <1>0, <2>1, <2>2 DEF CopiesKnown
  <2>5. NoLibraryBelow => NoLibraryBelow'
    <3>1. \A s \in whole : s # taken'
      BY <1>0, <2>1, <2>2 DEF CopiesKnown
    <3>2. \A s : HoldsLibrary(s)' => HoldsLibrary(s)
      BY <1>0, <2>1, <2>2, <3>1 DEF HoldsLibrary, CopiesKnown
    <3> QED BY <2>1, <3>2 DEF NoLibraryBelow
  <2>6. pc'[c] = "copying" => RunRule(c)'
    BY <1>0, <2>1, <2>3, <2>5 DEF RunRule, EmptySteps
  <2>7. "copying" \in PCs
    BY DEF PCs
  <2> QED BY <2>1, <2>4, <2>6, <2>7, RuleAfter
<1>3. CASE VacuumRefused(c) \/ CopyFails(c)
  <2>1. UNCHANGED <<whole, taken, aside>>
    BY <1>3, Zenon DEF VacuumRefused, CopyFails, copies
  <2>2. CopiesKnown'
    BY <1>0, <2>1 DEF CopiesKnown
  <2> QED BY <1>3, <2>2, RuleEnds DEF VacuumRefused, CopyFails
<1>4. CASE FinishVacuum(c)
  <2>1. /\ UNCHANGED <<family, slot, tmp, kind, taken, aside, sawEmpty>> /\ pc[c] = "copying"
        /\ whole' = whole \cup {mine[c]} /\ Goto(c, "verify")
    BY <1>4, Zenon DEF FinishVacuum, Step, files, source
  <2>2. mine[c] = tmp /\ tmp # 0
    BY <1>0, <2>1 DEF RunRule
  <2>3. tmp \in 1..taken /\ \A g \in 1..N : slot[g] # tmp
    BY <2>2, TypedParts, SMTT(30) DEF Careful, Daily, CopiesInv, Ordered, Numbers
  <2>4. CopiesKnown'
    BY <1>0, <2>1, <2>2, <2>3 DEF CopiesKnown
  <2>5. NoLibraryBelow => NoLibraryBelow'
    BY <2>1, <2>2, <2>3 DEF NoLibraryBelow, HoldsLibrary
  <2>6. pc'[c] = "verify" => RunRule(c)'
    BY <1>0, <2>1, <2>5 DEF RunRule, EmptySteps
  <2>7. "verify" \in PCs
    BY DEF PCs
  <2> QED BY <2>1, <2>4, <2>6, <2>7, RuleAfter
<1>5. CASE CheckCopy(c)
  <2>1. UNCHANGED <<family, slot, whole, kind, taken, aside, sawEmpty>> /\ pc[c] = "verify"
    BY <1>5, Zenon DEF CheckCopy, copies, source
  <2>2. CopiesKnown'
    BY <1>0, <2>1 DEF CopiesKnown
  <2>3. CASE End(c)
    BY <2>1, <2>2, <2>3, RuleEnds
  <2>4. CASE Step(c, "putBack") /\ UNCHANGED tmp
    <3>1. pc'[c] = "putBack" => RunRule(c)'
      BY <1>0, <2>1, <2>4, HoldsStays DEF RunRule, EmptySteps, NoLibraryBelow
    <3>2. "putBack" \in PCs
      BY DEF PCs
    <3> QED BY <2>1, <2>2, <2>4, <3>1, <3>2, RuleAfter DEF Step
  <2> QED BY <1>0, <1>5, <2>3, <2>4 DEF CheckCopy
<1> QED
  BY <1>0, <1>1, <1>2, <1>3, <1>4, <1>5
     DEF Write, ApplyRules, SetAsideEarlier, StageExport, DailySteps

LEMMA RuleRotates ==
  ASSUME Careful, NEW c \in Callers, Rotate(c) PROVE LibraryInv'
<1>0. /\ family = "daily" /\ CopiesKnown /\ RunRule(c)
      /\ pc \in [Callers -> PCs] /\ slot \in [0..N -> Nat] /\ gen \in [Callers -> 0..N]
  BY TypedParts DEF Careful, Daily, LibraryInv, CallersTyped, Numbers
<1>1. UNCHANGED <<family, whole, kind, taken, aside, sawEmpty>>
  BY Zenon DEF Rotate, PutBackParked, ParkNewest, ShiftGeneration, PlaceParked, Unpark, Promote,
     copies, source
<1>2. CopiesKnown'
  BY <1>0, <1>1 DEF CopiesKnown
<1>3. \A p \in {"park", "shift", "place", "unpark", "promote"} : p \in PCs
  BY DEF PCs
<1>4. pc[c] # "idle"
  BY DEF Rotate, PutBackParked, ParkNewest, ShiftGeneration, PlaceParked, Unpark, Promote
<1>5. CASE End(c)
  BY <1>2, <1>4, <1>5, RuleEnds
<1>6. ASSUME NEW p \in {"park", "shift", "place", "unpark", "promote"}, Goto(c, p),
             p \in EmptySteps => /\ tmp' = tmp /\ pc[c] \in EmptySteps
                                 /\ \A g \in 1..N : slot'[g] \in {0} \cup {slot[h] : h \in 1..N}
      PROVE  LibraryInv'
  <2>1. p \in EmptySteps /\ NoLibraryBelow => NoLibraryBelow'
    <3>1. ~HoldsLibrary(0)
      BY <1>0 DEF HoldsLibrary, CopiesKnown
    <3> QED BY <1>1, <1>6, <3>1, HoldsStays DEF NoLibraryBelow
  <2>2. pc'[c] = p => RunRule(c)'
    BY <1>0, <1>1, <1>4, <1>6, <2>1 DEF RunRule, EmptySteps
  <2> QED BY <1>1, <1>2, <1>3, <1>4, <1>6, <2>2, RuleAfter
<1>7. CASE PutBackParked(c)
  <2>1. \A g \in 1..N : slot'[g] = slot[g]
    BY <1>0, <1>7 DEF PutBackParked
  <2> QED BY <1>5, <1>6, <1>7, <2>1 DEF PutBackParked, Step, EmptySteps
<1>8. CASE ParkNewest(c)
  <2>1. \A g \in 1..N : slot'[g] = slot[g]
    <3>1. slot' = slot \/ slot' = [slot EXCEPT ![0] = 0]
      BY <1>8, Zenon DEF ParkNewest
    <3> QED BY <1>0, <3>1
  <2>2. End(c) \/ Goto(c, "shift") \/ Goto(c, "place")
    BY <1>8 DEF ParkNewest, ShiftFrom
  <2> QED BY <1>5, <1>6, <1>8, <2>1, <2>2 DEF ParkNewest, EmptySteps
<1>9. CASE ShiftGeneration(c)
  <2>1. gen[c] \in 2..N
    BY <1>9 DEF ShiftGeneration, Careful, Daily, Typed, ShiftTyped
  <2>2. gen[c] \in 1..N /\ gen[c] - 1 \in 1..N
    BY <2>1
  <2>3. \A g \in 1..N : slot'[g] \in {0} \cup {slot[h] : h \in 1..N}
    <3>1. \/ slot' = slot
          \/ slot' = [slot EXCEPT ![gen[c]] = slot[gen[c] - 1], ![gen[c] - 1] = 0]
          \/ slot' = [slot EXCEPT ![gen[c]] = IF slot[gen[c]] \in held THEN slot[gen[c]] ELSE 0]
      BY <1>9 DEF ShiftGeneration, TargetCleared
    <3>2. ASSUME NEW k \in 1..N, k - 1 \in 1..N,
                 \/ slot' = slot
                 \/ slot' = [slot EXCEPT ![k] = slot[k - 1], ![k - 1] = 0]
                 \/ slot' = [slot EXCEPT ![k] = IF slot[k] \in held THEN slot[k] ELSE 0],
                 NEW g \in 1..N
          PROVE  slot'[g] \in {0} \cup {slot[h] : h \in 1..N}
      <4>1. slot'[g] \in {0, slot[g], slot[k], slot[k - 1]}
        BY <1>0, <3>2
      <4> QED BY <3>2, <4>1
    <3> QED BY <2>2, <3>1, <3>2
  <2>4. Goto(c, "shift") \/ Goto(c, "place") \/ Goto(c, "unpark")
    BY <1>9 DEF ShiftGeneration, NextShift, Step
  <2> QED BY <1>6, <1>9, <2>3, <2>4 DEF ShiftGeneration, EmptySteps
<1>10. CASE PlaceParked(c)
  BY <1>5, <1>6, <1>10 DEF PlaceParked, Step, EmptySteps
<1>11. CASE Unpark(c) \/ Promote(c)
  BY <1>5, <1>11 DEF Unpark, Promote
<1> QED BY <1>7, <1>8, <1>9, <1>10, <1>11 DEF Rotate

LEMMA RuleElsewhere ==
  ASSUME Careful, Database \/ World PROVE LibraryInv'
<1>0. /\ family = "daily" /\ CopiesKnown /\ NoCaller \notin Callers
      /\ \A c \in Callers : RunRule(c) /\ (pc[c] # "idle" => lock = c)
  BY DEF Careful, Daily, LibraryInv, CallersInv, OneRuns, BackupsAssumption
<1>1. UNCHANGED <<whole, kind, taken, sawEmpty>>
  BY Zenon DEF Database, World, Restore, SetAsideBackup, CreateEmpty, Decay, FullCheck, Edit,
     Import, Expire, Hold, Release, Crash, copies
<1>2. CopiesKnown'
  <2>1. aside' \subseteq 0..taken
    <3>1. CASE SetAsideBackup
      <4>1. PICK s \in Candidates : aside' = aside \cup {s}
        BY <3>1, Zenon DEF SetAsideBackup
      <4>2. s \in 0..taken
        BY TypedParts, SMTT(30)
           DEF Careful, Daily, CopiesInv, Ordered, Numbers, Candidates, Generations
      <4> QED BY <1>0, <4>1, <4>2 DEF CopiesKnown
    <3>2. CASE ~SetAsideBackup
      <4>1. aside' = aside
        BY <3>2, Zenon DEF Database, World, Restore, CreateEmpty, Decay, FullCheck, Edit,
           Import, Expire, Hold, Release, Crash, files
      <4> QED BY <1>0, <4>1 DEF CopiesKnown
    <3> QED BY <3>1, <3>2
  <2> QED BY <1>0, <1>1, <2>1 DEF CopiesKnown
<1>3. CASE \A c \in Callers : pc'[c] = "idle"
  BY <1>2, <1>3 DEF LibraryInv, RunRule, EmptySteps
<1>4. CASE UNCHANGED <<slot, tmp, pc, mine>>
  <2>1. NoLibraryBelow => NoLibraryBelow'
    BY <1>1, <1>4, HoldsStays DEF NoLibraryBelow
  <2> QED BY <1>0, <1>1, <1>2, <1>4, <2>1 DEF LibraryInv, RunRule
<1>5. CASE SetAsideBackup
  <2>1. NoneRuns /\ pc' = pc
    BY <1>5, Zenon DEF SetAsideBackup, run
  <2> QED BY <1>3, <2>1 DEF NoneRuns
<1>6. CASE Crash
  BY <1>3, <1>6 DEF Crash
<1>7. CASE (Database \/ World) /\ ~SetAsideBackup /\ ~Crash
  <2>1. UNCHANGED <<slot, tmp, pc, mine>>
    BY <1>7, Zenon
       DEF Database, World, Restore, CreateEmpty, Decay, FullCheck, Edit, Import, Expire,
           Hold, Release, files, run
  <2> QED BY <1>4, <2>1
<1> QED BY <1>5, <1>6, <1>7

LEMMA LibraryStep == Inv /\ LibraryInv /\ [Next]_vars => LibraryInv'
<1> SUFFICES ASSUME Inv, LibraryInv, [Next]_vars PROVE LibraryInv'
  OBVIOUS
<1>1. Typed' /\ UNCHANGED family
  BY NextTyped, FamilyStays DEF Inv
<1>2. CASE family = "daily" /\ Next
  <2>1. Careful
    BY <1>1, <1>2 DEF Careful, Inv, DailyInv, Daily
  <2> QED BY <1>2, <2>1, RuleBegins, RuleWrites, RuleRotates, RuleElsewhere DEF Next, Caller
<1>3. CASE UNCHANGED vars
  <2>1. UNCHANGED <<family, slot, tmp, aside, whole, kind, taken, sawEmpty, pc, mine>>
    BY <1>3 DEF vars, files, copies, run
  <2> QED BY <2>1, HoldsStays
          DEF LibraryInv, CopiesKnown, RunRule, EmptySteps, NoLibraryBelow
<1> QED BY <1>1, <1>2, <1>3 DEF LibraryInv

\* A step that drops a copy is one of a rotation, and drops one below the
\* newest generation.
LEMMA DropsBelow ==
  ASSUME Daily, NEW s \in Kept, \A k \in Kept : s <= k, Kept # {s}
  PROVE  \E g \in 1..N : s = slot[g]
<1>1. s # 0 /\ (s = parked \/ \E g \in 0..N : s = slot[g])
  BY KeptMembers DEF Daily
<1>2. PICK t \in Kept : t # s
  OBVIOUS
<1>3. s <= t /\ t # 0 /\ (t = parked \/ \E g \in 0..N : t = slot[g])
  BY <1>2, KeptMembers DEF Daily
<1>4. Ordered /\ Numbers /\ 0 \in 0..N
  BY TypedParts DEF Daily, CopiesInv
<1>5. s # parked
  BY <1>1, <1>2, <1>3, <1>4 DEF Ordered, Numbers
<1>6. s # slot[0]
  BY <1>1, <1>2, <1>3, <1>4 DEF Ordered, Numbers
<1> QED BY <1>1, <1>5, <1>6

LEMMA HoldsOn ==
  ASSUME Careful, Next PROVE \A s : HoldsLibrary(s) => HoldsLibrary(s)'
<1>1. CASE UNCHANGED <<whole, kind>>
  BY <1>1, HoldsStays
<1>2. ASSUME NEW c \in Callers, StartVacuum(c) PROVE \A s : HoldsLibrary(s) => HoldsLibrary(s)'
  <2>1. /\ whole' = whole /\ taken' = taken + 1 /\ kind' = [kind EXCEPT ![taken'] = db]
        /\ taken \in Nat /\ whole \subseteq 1..taken /\ kind \in [1..MaxCopies -> DbStates]
    BY <1>2, TypedParts, Zenon
       DEF StartVacuum, Careful, Daily, LibraryInv, CopiesKnown, Numbers, Typed, TypeOK
  <2>2. \A s \in whole : s # taken'
    BY <2>1
  <2> QED BY <2>1, <2>2 DEF HoldsLibrary
<1>3. ASSUME NEW c \in Callers, FinishVacuum(c) PROVE \A s : HoldsLibrary(s) => HoldsLibrary(s)'
  BY <1>3 DEF FinishVacuum, HoldsLibrary
<1>4. ASSUME NEW c \in Callers, Caller(c), ~StartVacuum(c), ~FinishVacuum(c)
      PROVE  UNCHANGED <<whole, kind>>
  <2>1. CASE Begin(c)
    BY <2>1, Zenon DEF Begin, BeginSnapshot, BeginMirror, NotesRows, NotesOverlap
  <2>2. CASE Write(c)
    BY <1>4, <2>2, Zenon DEF Write, ApplyRules, SetAsideEarlier, ClearTmp, VacuumRefused,
       CopyFails, CheckCopy, StageExport, copies
  <2>3. CASE Rotate(c)
    BY <2>3, Zenon DEF Rotate, PutBackParked, ParkNewest, ShiftGeneration, PlaceParked, Unpark,
       Promote, copies
  <2> QED BY <1>4, <2>1, <2>2, <2>3 DEF Caller
<1>5. CASE Database \/ World
  BY <1>1, <1>5, Zenon DEF Database, World, Restore, SetAsideBackup, CreateEmpty, Decay,
     FullCheck, Edit, Import, Expire, Hold, Release, Crash, copies
<1> QED BY <1>1, <1>2, <1>3, <1>4, <1>5 DEF Next

\* Only a copy set aside leaves the rotation, and what the last steps of a
\* rotation drop.
Keeps == Kept \subseteq Kept' /\ aside \subseteq aside'
Drops(c) == ShiftGeneration(c) \/ PlaceParked(c)

LEMMA KeepsOrDrops ==
  ASSUME Daily, Typed', Next PROVE Keeps \/ SetAsideBackup \/ \E c \in Callers : Drops(c)
<1>0. family = "daily" /\ family' = family
  BY FamilyStays DEF Daily
<1>1. UNCHANGED Queue!vars => Keeps
  BY <1>0 DEF Queue!vars, Keeps
<1>2. UNCHANGED <<slot, parked, aside>> => Keeps
  BY <1>0 DEF Keeps, Kept, Generations
<1>3. ASSUME NEW c \in Callers, Rotate(c), ~Drops(c) PROVE Keeps
  <2>1. CASE Promote(c)
    <3>1. slot[0] = 0 /\ slot \in [0..N -> Nat]
      BY <2>1, TypedParts DEF Promote, Daily, CallersInv, PlaceOf, Numbers
    <3>2. \A g \in 0..N : slot[g] # 0 => slot'[g] = slot[g]
      BY <2>1, <3>1 DEF Promote
    <3>3. UNCHANGED <<parked, aside>>
      BY <2>1, Zenon DEF Promote
    <3> QED BY <1>0, <3>2, <3>3 DEF Keeps, Kept, Generations
  <2> QED BY <1>1, <1>3, <2>1, DailyPutsBack, DailyParks, DailyUnparks DEF Rotate, Drops
<1>4. ASSUME NEW c \in Callers, Caller(c), ~Drops(c) PROVE Keeps
  BY <1>1, <1>3, <1>4, DailyBegins, DailyWrites DEF Caller
<1>5. CASE (Database \/ World) /\ ~SetAsideBackup
  BY <1>2, <1>5, Zenon DEF Database, World, Restore, CreateEmpty, Decay,
     FullCheck, Edit, Import, Expire, Hold, Release, Crash, files
<1> QED BY <1>4, <1>5 DEF Next, Database

LEMMA LibraryCopyStays ==
  ASSUME Careful, Next
  PROVE  LibraryCopies \subseteq LibraryCopies' \/ (tmp \in whole /\ ~sawEmpty)'
<1>0. /\ Daily /\ Typed' /\ family = "daily" /\ family' = family
      /\ CopiesKnown /\ \A c \in Callers : RunRule(c)
  BY FamilyStays DEF Careful, Daily, LibraryInv
<1>1. /\ LibraryCopies = {s \in Kept \cup aside : HoldsLibrary(s)}
      /\ \A s \in Kept' \cup aside' : HoldsLibrary(s)' => s \in LibraryCopies'
  BY <1>0 DEF LibraryCopies, Kept, CopiesKnown, HoldsLibrary
<1>2. \A s \in LibraryCopies : HoldsLibrary(s)'
  BY <1>1, HoldsOn
<1>3. CASE Keeps
  BY <1>1, <1>2, <1>3 DEF Keeps
<1>4. CASE SetAsideBackup
  <2>1. PICK s \in Candidates :
          /\ slot' = [g \in 0..N |-> IF slot[g] = s THEN 0 ELSE slot[g]]
          /\ aside' = aside \cup {s} /\ parked' = parked
    BY <1>4, Zenon DEF SetAsideBackup
  <2>2. Kept \subseteq Kept' \cup {s}
    BY <1>0, <2>1 DEF Kept, Generations
  <2> QED BY <1>1, <1>2, <2>1, <2>2
<1>5. ASSUME NEW c \in Callers, Drops(c)
      PROVE  LibraryCopies \subseteq LibraryCopies' \/ (tmp \in whole /\ ~sawEmpty)'
  <2>1. /\ [Queue!Next]_(Queue!vars) /\ UNCHANGED <<tmp, aside, whole, kind, sawEmpty>>
        /\ pc[c] \in {"shift", "place"}
    <3>1. [Queue!Next]_(Queue!vars)
      BY <1>0, <1>5, DailyShifts, DailyPlaces DEF Drops
    <3>2. UNCHANGED <<tmp, aside, whole, kind, sawEmpty>> /\ pc[c] \in {"shift", "place"}
      BY <1>5, Zenon DEF Drops, ShiftGeneration, PlaceParked, copies
    <3> QED BY <3>1, <3>2
  <2>2. tmp \in whole /\ tmp # 0
    BY <1>0, <2>1 DEF Daily, CallersInv, PlaceOf, RotationSteps, CopiesKnown
  <2>3. CASE ~sawEmpty
    BY <2>1, <2>2, <2>3
  <2>4. CASE sawEmpty
    <3>1. NoLibraryBelow
      BY <1>0, <2>1, <2>4 DEF RunRule, EmptySteps
    <3>2. \A s \in Kept \ Kept' : ~HoldsLibrary(s) \/ s \in aside
      <4>1. CASE Queue!DropOldest
        BY <1>0, <3>1, <4>1, DropsBelow DEF Queue!DropOldest, NoLibraryBelow
      <4>2. CASE Queue!SetAside
        BY <1>0, <2>1, <4>2 DEF Queue!SetAside
      <4>3. CASE Queue!Push
        BY <4>3 DEF Queue!Push
      <4>4. CASE UNCHANGED Queue!vars
        BY <4>4 DEF Queue!vars
      <4> QED BY <2>1, <4>1, <4>2, <4>3, <4>4 DEF Queue!Next
    <3> QED BY <1>1, <1>2, <2>1, <3>2
  <2> QED BY <2>3, <2>4
<1> QED BY <1>0, <1>3, <1>4, <1>5, KeepsOrDrops

\* The last daily copy of a library goes only for a checked copy that waits to
\* be promoted, of a library or of a database whose rows its run saw before
\* they were deleted (holds_library in backup_database): for any number of
\* crashes, refusals, imports, restores and changes of the rows.
THEOREM LibraryOutlivesEmpty == Spec => LibraryCopyKept
<1>1. Init => LibraryInv
  BY DEF Init, LibraryInv, CopiesKnown, RunRule, EmptySteps
<1>2. Inv /\ LibraryInv /\ [Next]_vars => LibraryInv'
  BY LibraryStep
<1>3. Inv /\ LibraryInv /\ [Next]_vars =>
        (family = "daily" /\ LibraryCopies # {} =>
           LibraryCopies' # {} \/ (tmp \in whole /\ (HoldsLibrary(tmp) \/ ~sawEmpty))')
  <2> SUFFICES ASSUME Inv, LibraryInv, [Next]_vars, family = "daily", LibraryCopies # {}
               PROVE  LibraryCopies' # {} \/ (tmp \in whole /\ ~sawEmpty)'
    OBVIOUS
  <2>1. CASE Next
    <3>1. Careful
      BY <2>1, NextTyped DEF Careful, Inv, DailyInv, Daily
    <3> QED BY <2>1, <3>1, LibraryCopyStays
  <2>2. CASE UNCHANGED vars
    <3>1. LibraryCopies' = LibraryCopies
      BY <2>2, HoldsStays DEF vars, files, copies, LibraryCopies, Generations
    <3> QED BY <3>1
  <2> QED BY <2>1, <2>2
<1> QED BY <1>1, <1>2, <1>3, InitInv, NextKeepsInv, PTL DEF Spec, LibraryCopyKept

(***************************************************************************)
(* The throttle of the daily snapshots and of the mirror: why no two       *)
(* generations are copies of one day, and why every generation is whole,   *)
(* for every number of generations, callers and copies, and every bound on *)
(* crashes, held files and events.                                         *)
(***************************************************************************)

\* The mirror takes no lock, so what follows is about the time before two of
\* its runs first overlap, if they ever do.
MirrorsOnly == overlapped => family = "mirror"

LEMMA OverlapGrows ==
  ASSUME [Next]_vars
  PROVE  (overlapped => overlapped') /\ (overlapped' => overlapped \/ family = "mirror")
<1>1. ASSUME NEW c \in Callers, BeginMirror(c)
      PROVE  (overlapped => overlapped') /\ family = "mirror"
  BY <1>1 DEF BeginMirror, NotesOverlap
<1>2. ASSUME NEW c \in Callers, Caller(c), ~BeginMirror(c) PROVE UNCHANGED overlapped
  <2>1. CASE Begin(c)
    BY <1>2, <2>1, Zenon DEF Begin, BeginSnapshot, NotesRows
  <2>2. CASE Write(c)
    BY <2>2, Zenon
       DEF Write, ApplyRules, SetAsideEarlier, ClearTmp, StartVacuum, VacuumRefused,
           FinishVacuum, CopyFails, CheckCopy, StageExport, copies
  <2>3. CASE Rotate(c)
    BY <2>3, Zenon
       DEF Rotate, PutBackParked, ParkNewest, ShiftGeneration, PlaceParked, Unpark, Promote,
           copies
  <2> QED BY <1>2, <2>1, <2>2, <2>3 DEF Caller
<1>3. ASSUME Database \/ World \/ UNCHANGED vars PROVE UNCHANGED overlapped
  BY <1>3, Zenon
     DEF Database, World, Restore, SetAsideBackup, CreateEmpty, Decay, FullCheck, Edit, Import,
         Expire, Hold, Release, Crash, copies, vars
<1> QED BY <1>1, <1>2, <1>3 DEF Next

LEMMA OverlapStays ==
  [Next]_vars /\ MirrorsOnly => (overlapped => overlapped') /\ MirrorsOnly'
  BY OverlapGrows, FamilyStays DEF MirrorsOnly

\* One caller at a time is in the middle of a run: the holder of
\* BACKUP_IN_PROGRESS, or the one that found no other run of the mirror.
AskedFor ==
  /\ \A c \in Callers : pc[c] # "idle" /\ family = "daily" => lock = c
  /\ \A c, d \in Callers : pc[c] # "idle" /\ pc[d] # "idle" => c = d

\* Copies are numbered as they are taken.
Numbered ==
  /\ recent \subseteq 1..taken
  /\ tmp <= taken /\ staged <= taken /\ parked <= taken
  /\ \A g \in 0..N : slot[g] <= taken

\* Of the copies in the rotation only the newest generation may be of the
\* last day, and not even that one while a run is under way: the throttle
\* was read before it, and a copy does not get younger.
Aged ==
  /\ parked \notin recent /\ \A g \in 1..N : slot[g] \notin recent
  /\ \A c \in Callers : pc[c] # "idle" => slot[0] \notin recent

DayInv == AskedFor /\ Numbered /\ Aged

\* The bounds of the numbers, from the types.
DayTyped ==
  /\ slot \in [0..N -> Nat] /\ parked \in Nat /\ tmp \in Nat /\ staged \in Nat
  /\ taken \in Nat /\ pc \in [Callers -> PCs]

LEMMA DayTypes == Typed => DayTyped
  BY DEF Typed, TypeOK, Copy, DayTyped

LEMMA DayInit == Init => DayInv
  BY DEF Init, DayInv, AskedFor, Numbered, Aged

\* Whoever is in a run is alone in it.
LEMMA AloneToday ==
  ASSUME AskedFor, NEW c \in Callers, pc[c] # "idle", NEW d \in Callers \ {c}
  PROVE  pc[d] = "idle"
  BY DEF AskedFor

\* A caller's own step: the others stay where they are, idle.
LEMMA AskedAfter ==
  ASSUME Typed, DayInv, NEW c \in Callers, pc[c] # "idle", family' = family,
         \/ End(c)
         \/ lock' = lock /\ \E p \in PCs : Goto(c, p)
  PROVE  AskedFor' /\ \A d \in Callers \ {c} : pc'[d] = "idle"
<1>1. \A d \in Callers \ {c} : pc'[d] = "idle"
  BY DayTypes, AloneToday DEF DayInv, DayTyped, End, Goto
<1>2. CASE End(c)
  <2>1. pc'[c] = "idle"
    BY <1>2, DayTypes DEF DayTyped, End, Goto
  <2> QED
    BY <1>1, <2>1 DEF AskedFor
<1>3. CASE lock' = lock /\ \E p \in PCs : Goto(c, p)
  BY <1>1, <1>3 DEF AskedFor, DayInv
<1> QED
  BY <1>1, <1>2, <1>3

\* Generations and what is parked only change places: nothing new among them.
LEMMA AgedAfter ==
  ASSUME Typed, Typed', DayInv, NEW c \in Callers, pc[c] # "idle", family' = family,
         \A d \in Callers \ {c} : pc'[d] = "idle",
         recent' = recent, taken' = taken, tmp' \in {0, tmp}, staged' \in {0, tmp, staged},
         parked' \in {0, parked, slot[0]},
         \A g \in 0..N : slot'[g] \in {0, parked} \cup {slot[h] : h \in 0..N}
  PROVE  Numbered' /\ Aged'
<1> USE DayTypes DEF DayTyped
<1>1. slot[0] \notin recent /\ parked \notin recent /\ 0 \notin recent
  BY DEF DayInv, Aged, Numbered
<1>2. \A g \in 0..N : slot[g] \notin recent
  BY <1>1 DEF DayInv, Aged
<1>3. ASSUME NEW g \in 0..N PROVE slot'[g] \notin recent /\ slot'[g] <= taken
  <2>1. PICK s : s = slot'[g] /\ (s = 0 \/ s = parked \/ \E h \in 0..N : s = slot[h])
    OBVIOUS
  <2>2. 0 <= taken /\ parked <= taken /\ \A h \in 0..N : slot[h] <= taken
    BY DEF DayInv, Numbered
  <2> QED
    BY <1>1, <1>2, <2>1, <2>2
<1>4. Numbered'
  BY <1>3 DEF DayInv, Numbered
<1>5. Aged'
  BY <1>1, <1>2, <1>3 DEF Aged
<1> QED
  BY <1>4, <1>5

LEMMA DayBegins ==
  ASSUME ~overlapped', Typed, Typed', DayInv, NEW c \in Callers, Begin(c)
  PROVE  DayInv'
<1> USE DayTypes DEF DayTyped
<1>1. CASE BeginSnapshot(c)
  <2>1. \A d \in Callers : pc[d] = "idle"
    BY <1>1 DEF BeginSnapshot, DayInv, AskedFor
  <2>2. UNCHANGED <<family, slot, parked, tmp, staged, taken, recent>> /\ slot[0] \notin recent
    BY <1>1 DEF BeginSnapshot, NotesRows, Throttled, files
  <2>3. AskedFor'
    BY <1>1, <2>1 DEF BeginSnapshot, Goto, AskedFor
  <2>4. Numbered' /\ Aged'
    BY <2>2 DEF DayInv, Numbered, Aged
  <2> QED
    BY <2>3, <2>4 DEF DayInv
<1>2. CASE BeginMirror(c)
  <2>1. \A d \in Callers : pc[d] = "idle"
    BY <1>2 DEF BeginMirror, NotesOverlap, NoneRuns
  <2>2. AskedFor'
    BY <1>2, <2>1 DEF BeginMirror, Step, Goto, AskedFor, run
  <2>3. UNCHANGED <<family, parked, tmp, taken, recent>>
    BY <1>2 DEF BeginMirror, NotesOverlap
  <2>4. \/ UNCHANGED <<slot, staged>>
        \/ slot' = [slot EXCEPT ![0] = staged] /\ staged' = 0
    BY <1>2 DEF BeginMirror
  <2>5. staged <= taken /\ \A g \in 0..N : slot[g] <= taken
    BY DEF DayInv, Numbered
  <2>6. staged' <= taken /\ slot'[0] <= taken /\ \A g \in 1..N : slot'[g] = slot[g]
    <3>1. CASE UNCHANGED <<slot, staged>>
      BY <2>5, <3>1
    <3>2. CASE slot' = [slot EXCEPT ![0] = staged] /\ staged' = 0
      <4>1. slot'[0] = staged /\ \A g \in 1..N : slot'[g] = slot[g]
        BY <3>2
      <4>2. 0 <= taken
        OBVIOUS
      <4> QED
        BY <2>5, <3>2, <4>1, <4>2
    <3> QED
      BY <2>4, <3>1, <3>2
  <2>7. Numbered'
    BY <2>3, <2>6 DEF DayInv, Numbered
  <2>8. \A d \in Callers : pc'[d] # "idle" => slot'[0] \notin recent'
    BY <1>2, <2>1, <2>3 DEF BeginMirror, run
  <2>9. Aged'
    BY <2>3, <2>6, <2>8 DEF DayInv, Aged
  <2> QED
    BY <2>2, <2>7, <2>9 DEF DayInv
<1> QED
  BY <1>1, <1>2 DEF Begin

\* What a step of a run must leave alone for the throttle.
LEMMA DayAfter ==
  ASSUME Typed, Typed', DayInv, NEW c \in Callers, pc[c] # "idle", family' = family,
         \/ End(c)
         \/ lock' = lock /\ \E p \in PCs : Goto(c, p),
         recent' = recent, taken' = taken, tmp' \in {0, tmp}, staged' \in {0, tmp, staged},
         parked' \in {0, parked, slot[0]},
         \A g \in 0..N : slot'[g] \in {0, parked} \cup {slot[h] : h \in 0..N}
  PROVE  DayInv'
  BY AskedAfter, AgedAfter DEF DayInv

\* A step that ends a run, or goes on in it.
LEMMA StepGoes ==
  ASSUME NEW c \in Callers, NEW p \in PCs, Step(c, p)
  PROVE  lock' = lock /\ \E q \in PCs : Goto(c, q)
  BY DEF Step

LEMMA DayWrites ==
  ASSUME Typed, Typed', DayInv, NEW c \in Callers, Write(c)
  PROVE  DayInv'
<1>0. DayTyped
  BY DayTypes
<1>1. CASE StartVacuum(c)
  <2>1. pc[c] # "idle" /\ family' = family /\ lock' = lock /\ Goto(c, "copying")
    BY <1>1 DEF StartVacuum
  <2>2. AskedFor' /\ \A d \in Callers \ {c} : pc'[d] = "idle"
    BY <2>1, AskedAfter DEF PCs
  <2>3. taken' = taken + 1 /\ tmp' = taken' /\ recent' = recent \cup {taken'}
        /\ UNCHANGED <<slot, parked, staged>>
    BY <1>1 DEF StartVacuum
  <2>4. Numbered'
    BY <1>0, <2>3 DEF DayInv, Numbered, DayTyped
  <2>5. parked' \notin recent' /\ \A g \in 0..N : slot'[g] # taken'
    BY <1>0, <2>3 DEF DayInv, Numbered, Aged, DayTyped
  <2>6. slot[0] \notin recent
    BY <2>1 DEF DayInv, Aged
  <2>7. Aged'
    BY <2>3, <2>5, <2>6 DEF DayInv, Aged
  <2> QED
    BY <2>2, <2>4, <2>7 DEF DayInv
<1>2. CASE ApplyRules(c)
  <2>1. End(c) \/ Step(c, "aside") \/ Step(c, "clear")
    BY <1>2 DEF ApplyRules
  <2> QED
    BY <1>2, <2>1, StepGoes, DayAfter DEF ApplyRules, files, copies, PCs
<1>3. CASE SetAsideEarlier(c)
  <2>1. End(c) \/ Step(c, "clear") \/ (UNCHANGED run /\ Goto(c, "aside"))
    BY <1>0, <1>3 DEF SetAsideEarlier, run, Goto, DayTyped
  <2>2. \A g \in 0..N : slot'[g] \in {0, slot[g]}
    BY <1>0, <1>3 DEF SetAsideEarlier, DayTyped
  <2> QED
    BY <1>3, <2>1, <2>2, StepGoes, DayAfter DEF SetAsideEarlier, copies, PCs, run
<1>4. CASE ClearTmp(c)
  BY <1>4, Removal, StepGoes, DayAfter DEF ClearTmp, copies, PCs
<1>5. CASE VacuumRefused(c)
  BY <1>5, Removal, DayAfter DEF VacuumRefused, DropTmp, copies
<1>6. CASE FinishVacuum(c)
  BY <1>6, StepGoes, DayAfter DEF FinishVacuum, files, PCs
<1>7. CASE CopyFails(c)
  BY <1>7, Removal, DayAfter DEF CopyFails, DropTmp, copies
<1>8. CASE CheckCopy(c)
  <2>1. End(c) \/ Step(c, "putBack") \/ Step(c, "stage")
    BY <1>8 DEF CheckCopy
  <2>2. tmp' \in {0, tmp}
    BY <1>8, Removal DEF CheckCopy
  <2> QED
    BY <1>8, <2>1, <2>2, StepGoes, DayAfter DEF CheckCopy, copies, PCs
<1>9. CASE StageExport(c)
  <2>1. End(c) \/ Step(c, "putBack")
    BY <1>9 DEF StageExport
  <2>2. tmp' \in {0, tmp} /\ staged' \in {tmp, staged}
    BY <1>9, Removal DEF StageExport
  <2> QED
    BY <1>9, <2>1, <2>2, StepGoes, DayAfter DEF StageExport, copies, PCs
<1> QED
  BY <1>1, <1>2, <1>3, <1>4, <1>5, <1>6, <1>7, <1>8, <1>9 DEF Write

\* A shift moves a generation one place up, or clears the place of one that
\* cannot move: no copy comes from elsewhere.
LEMMA ShiftMoves ==
  ASSUME slot \in [0..N -> Nat], NEW c \in Callers, gen[c] \in 2..N, ShiftGeneration(c)
  PROVE  \A g \in 0..N : slot'[g] \in {0} \cup {slot[h] : h \in 0..N}
<1> DEFINE k == gen[c]
<1>1. k \in 0..N /\ k - 1 \in 0..N
  OBVIOUS
<1>2. \/ slot' = slot
      \/ slot' = [slot EXCEPT ![k] = slot[k - 1], ![k - 1] = 0]
      \/ slot' = [slot EXCEPT ![k] = IF slot[k] \in held THEN slot[k] ELSE 0]
  BY DEF ShiftGeneration, TargetCleared
<1> HIDE DEF k
<1>3. CASE slot' = slot
  BY <1>3
<1>4. CASE slot' = [slot EXCEPT ![k] = slot[k - 1], ![k - 1] = 0]
  <2>1. \A g \in 0..N : slot'[g] \in {0, slot[k - 1], slot[g]}
    BY <1>1, <1>4
  <2> QED
    BY <1>1, <2>1
<1>5. CASE slot' = [slot EXCEPT ![k] = IF slot[k] \in held THEN slot[k] ELSE 0]
  BY <1>5
<1> QED
  BY <1>2, <1>3, <1>4, <1>5

LEMMA DayRotates ==
  ASSUME Typed, Typed', DayInv, NEW c \in Callers, Rotate(c)
  PROVE  DayInv'
<1>0. DayTyped /\ gen \in [Callers -> 0..N] /\ (pc[c] = "shift" => gen[c] \in 2..N)
  BY DayTypes DEF Typed, TypeOK, ShiftTyped
<1>1. CASE PutBackParked(c)
  <2>1. End(c) \/ Step(c, "park")
    BY <1>1 DEF PutBackParked
  <2>2. parked' \in {0, parked} /\ \A g \in 0..N : slot'[g] \in {parked, slot[g]}
    BY <1>0, <1>1, Removal DEF PutBackParked, DayTyped
  <2> QED
    BY <1>1, <2>1, <2>2, StepGoes, DayAfter DEF PutBackParked, copies, PCs
<1>2. CASE ParkNewest(c)
  <2>1. End(c) \/ (lock' = lock /\ \E p \in PCs : Goto(c, p))
    BY <1>2 DEF ParkNewest, ShiftFrom, PCs
  <2>2. parked' \in {parked, slot[0]} /\ \A g \in 0..N : slot'[g] \in {0, slot[g]}
    BY <1>0, <1>2 DEF ParkNewest, DayTyped
  <2> QED
    BY <1>2, <2>1, <2>2, DayAfter DEF ParkNewest, copies
<1>3. CASE ShiftGeneration(c)
  <2>1. lock' = lock /\ \E p \in PCs : Goto(c, p)
    BY <1>3 DEF ShiftGeneration, NextShift, Step, PCs
  <2>2. \A g \in 0..N : slot'[g] \in {0} \cup {slot[h] : h \in 0..N}
    <3>1. slot \in [0..N -> Nat] /\ gen[c] \in 2..N
      BY <1>0, <1>3 DEF ShiftGeneration, DayTyped
    <3> QED
      BY <1>3, <3>1, ShiftMoves
  <2> QED
    BY <1>3, <2>1, <2>2, DayAfter DEF ShiftGeneration, copies
<1>4. CASE PlaceParked(c)
  <2>1. End(c) \/ Step(c, "promote") \/ Step(c, "unpark")
    BY <1>4 DEF PlaceParked
  <2>2. parked' \in {0, parked} /\ \A g \in 0..N : slot'[g] \in {0, parked, slot[g]}
    BY <1>0, <1>4 DEF PlaceParked, TargetCleared, DayTyped
  <2> QED
    BY <1>4, <2>1, <2>2, StepGoes, DayAfter DEF PlaceParked, copies, PCs
<1>5. CASE Unpark(c)
  <2>1. parked' \in {0, parked} /\ \A g \in 0..N : slot'[g] \in {parked, slot[g]}
    BY <1>0, <1>5 DEF Unpark, DayTyped
  <2> QED
    BY <1>5, <2>1, DayAfter DEF Unpark, copies
<1>6. CASE Promote(c)
  <2>1. pc[c] # "idle" /\ End(c) /\ UNCHANGED <<family, parked, taken, recent>>
    BY <1>6 DEF Promote, copies
  <2>2. AskedFor' /\ \A d \in Callers : pc'[d] = "idle"
    BY <1>0, <2>1, AskedAfter DEF End, Goto, DayTyped
  <2>3. /\ slot'[0] \in {tmp, staged, slot[0]} /\ \A g \in 1..N : slot'[g] = slot[g]
        /\ tmp' \in {0, tmp} /\ staged' \in {0, staged}
    <3>1. slot' = slot \/ slot' = [slot EXCEPT ![0] = Fresh]
      BY <1>6 DEF Promote
    <3>2. slot'[0] \in {Fresh, slot[0]} /\ \A g \in 1..N : slot'[g] = slot[g]
      BY <1>0, <3>1 DEF DayTyped
    <3>3. tmp' \in {0, tmp} /\ staged' \in {0, staged}
      BY <1>6 DEF Promote
    <3> QED
      BY <3>2, <3>3 DEF Fresh
  <2>4. Numbered'
    BY <1>0, <2>1, <2>3 DEF DayInv, Numbered, DayTyped
  <2>5. Aged'
    BY <2>1, <2>2, <2>3 DEF DayInv, Aged
  <2> QED
    BY <2>2, <2>4, <2>5 DEF DayInv
<1> QED
  BY <1>1, <1>2, <1>3, <1>4, <1>5, <1>6 DEF Rotate

\* What becomes of the database, of held files and of time: copies leave the
\* rotation or grow older, and a crash ends every run.
LEMMA DayElsewhere ==
  ASSUME Typed, Typed', DayInv, Database \/ World \/ UNCHANGED vars
  PROVE  DayInv'
<1>0. DayTyped
  BY DayTypes
<1>1. CASE SetAsideBackup
  <2>1. /\ UNCHANGED <<family, parked, staged, taken, recent, pc, lock>> /\ tmp' \in {0, tmp}
        /\ \A g \in 0..N : slot'[g] \in {0, slot[g]}
    BY <1>1 DEF SetAsideBackup, copies, run
  <2>2. 0 \notin recent /\ 0 <= taken
    BY <1>0 DEF DayInv, Numbered, DayTyped
  <2> QED
    <3>1. AskedFor'
      BY <2>1 DEF DayInv, AskedFor
    <3>2. Numbered'
      BY <1>0, <2>1, <2>2 DEF DayInv, Numbered, DayTyped
    <3>3. Aged'
      BY <2>1, <2>2 DEF DayInv, Aged
    <3> QED
      BY <3>1, <3>2, <3>3 DEF DayInv
<1>2. CASE Expire
  BY <1>2 DEF Expire, files, run, DayInv, AskedFor, Numbered, Aged
<1>3. CASE Crash
  <2>1. /\ UNCHANGED <<family, slot, parked, tmp, staged, taken, recent>>
        /\ \A c \in Callers : pc'[c] = "idle"
    BY <1>3 DEF Crash, files, copies
  <2> QED
    BY <2>1 DEF DayInv, AskedFor, Numbered, Aged
<1>4. CASE Restore \/ CreateEmpty \/ Decay \/ FullCheck \/ Edit \/ Import \/ Hold \/ Release
           \/ UNCHANGED vars
  <2>1. UNCHANGED <<family, slot, parked, tmp, staged, taken, recent, pc, lock>>
    BY <1>4 DEF Restore, CreateEmpty, Decay, FullCheck, Edit, Import, Hold, Release, vars, files,
                copies, run
  <2> QED
    BY <2>1 DEF DayInv, AskedFor, Numbered, Aged
<1> QED
  BY <1>1, <1>2, <1>3, <1>4 DEF Database, World

LEMMA DayStep ==
  Typed /\ DayInv /\ [Next]_vars => overlapped' \/ DayInv'
<1> SUFFICES ASSUME ~overlapped', Typed, DayInv, [Next]_vars PROVE DayInv'
  OBVIOUS
<1>1. Typed'
  BY NextTyped
<1> QED
  BY <1>1, DayBegins, DayWrites, DayRotates, DayElsewhere DEF Next, Caller

\* No two generations were taken within a day of one another, whoever asks
\* for a copy and in whatever order, of the daily snapshots at any time and of
\* the mirror until two of its runs overlap (the throttles at the head of
\* snapshot.rs and external.rs).
THEOREM CopiesADayApart == Spec => []OneADay
<1>1. DayInv => OneADay
  <2> SUFFICES ASSUME DayInv PROVE OneADay
    OBVIOUS
  <2>1. {g \in 0..N : slot[g] \in recent} \subseteq {0}
    BY DEF DayInv, Aged
  <2>2. {g \in 0..N : slot[g] \in recent} \in {{}, {0}}
    BY <2>1
  <2>3. Cardinality({}) = 0 /\ Cardinality({0}) = 1
    BY FS_EmptySet, FS_Singleton
  <2> QED
    <3>1. Cardinality({g \in 0..N : slot[g] \in recent}) \in {0, 1}
      BY <2>2, <2>3, Zenon
    <3> QED BY <3>1 DEF OneADay
<1>2. overlapped /\ MirrorsOnly => OneADay
  BY DEF OneADay, Apart, MirrorsOnly
<1>3. Init => MirrorsOnly
  BY DEF Init, MirrorsOnly
<1> QED
  BY <1>1, <1>2, <1>3, InitTyped, DayInit, NextTyped, DayStep, OverlapStays, PTL DEF Spec

(***************************************************************************)
(* Whole generations.  For the daily family that is part of the proof that *)
(* it is a queue; the mirror reads its copy back under one name, gives it  *)
(* a second and promotes it from there, and may adopt it launches later.   *)
(***************************************************************************)
MirrorWhole ==
  family = "mirror" =>
    /\ \A g \in 0..N : slot[g] # 0 => slot[g] \in whole
    /\ parked # 0 => parked \in whole
    /\ staged # 0 => staged \in whole
    /\ \A c \in Callers : pc[c] = "stage" => tmp \in whole

LEMMA MirrorInit == Init => MirrorWhole
  BY DEF Init, MirrorWhole

\* A step of a run that puts only whole copies in their places.
LEMMA MirrorAfter ==
  ASSUME Typed, DayInv, NEW c \in Callers, MirrorWhole, pc[c] # "idle",
         family' = family,
         \/ End(c)
         \/ lock' = lock /\ \E p \in PCs : Goto(c, p),
         whole \subseteq whole',
         parked' \in {0, parked, slot[0]}, staged' \in {0, staged},
         \A g \in 0..N : slot'[g] \in {0, parked, staged} \cup {slot[h] : h \in 0..N},
         pc'[c] # "stage"
  PROVE  MirrorWhole'
<1> SUFFICES ASSUME family = "mirror" PROVE MirrorWhole'
  BY DEF MirrorWhole
<1>1. \A d \in Callers : pc'[d] # "stage"
  BY AskedAfter
<1>2. 0 \in 0..N
  OBVIOUS
<1>3. ASSUME NEW g \in 0..N, slot'[g] # 0 PROVE slot'[g] \in whole'
  <2>1. PICK s : s = slot'[g] /\ (s = 0 \/ s = parked \/ s = staged \/ \E h \in 0..N : s = slot[h])
    OBVIOUS
  <2> QED
    BY <1>3, <2>1 DEF MirrorWhole
<1> QED
  BY <1>1, <1>2, <1>3 DEF MirrorWhole

LEMMA MirrorWrites ==
  ASSUME ~overlapped', Typed, DayInv, NEW c \in Callers, MirrorWhole, Begin(c) \/ Write(c)
  PROVE  MirrorWhole'
<1>0. DayTyped
  BY DayTypes
<1> USE DEF DayTyped, PCs
<1>1. CASE BeginSnapshot(c)
  BY <1>1 DEF BeginSnapshot, MirrorWhole
<1>2. CASE BeginMirror(c)
  <2>1. UNCHANGED <<slot, staged>> \/ (slot' = [slot EXCEPT ![0] = staged] /\ staged' = 0)
    BY <1>2 DEF BeginMirror
  <2>2. UNCHANGED <<family, parked, tmp, whole>>
    BY <1>2 DEF BeginMirror, NotesOverlap
  <2>3. \A d \in Callers : pc'[d] = "stage" => pc[d] = "stage"
    BY <1>0, <1>2 DEF BeginMirror, Step, Goto, run
  <2>4. \A g \in 0..N : slot'[g] \in {staged, slot[g]}
    BY <1>0, <2>1
  <2>5. staged' \in {0, staged}
    BY <2>1
  <2> QED
    BY <2>2, <2>3, <2>4, <2>5 DEF MirrorWhole
<1>3. CASE ApplyRules(c)
  <2>1. End(c) \/ Step(c, "aside") \/ Step(c, "clear")
    BY <1>3 DEF ApplyRules
  <2>2. pc'[c] # "stage"
    BY <1>0, <2>1 DEF End, Step, Goto
  <2> QED
    BY <1>3, <2>1, <2>2, StepGoes, MirrorAfter DEF ApplyRules, files, copies
<1>4. CASE SetAsideEarlier(c)
  <2>1. End(c) \/ Step(c, "clear") \/ (UNCHANGED run /\ Goto(c, "aside"))
    BY <1>0, <1>4 DEF SetAsideEarlier, run, Goto
  <2>2. \A g \in 0..N : slot'[g] \in {0, slot[g]}
    BY <1>0, <1>4 DEF SetAsideEarlier
  <2>3. pc'[c] # "stage"
    BY <1>0, <2>1 DEF End, Step, Goto
  <2> QED
    BY <1>4, <2>1, <2>2, <2>3, StepGoes, MirrorAfter DEF SetAsideEarlier, copies, run
<1>5. CASE ClearTmp(c)
  <2>1. pc'[c] # "stage"
    BY <1>0, <1>5 DEF ClearTmp, Step, Goto
  <2> QED
    BY <1>5, <2>1, StepGoes, MirrorAfter DEF ClearTmp, copies
<1>6. CASE StartVacuum(c)
  <2>1. pc'[c] # "stage"
    BY <1>0, <1>6 DEF StartVacuum, Goto
  <2> QED
    BY <1>6, <2>1, MirrorAfter DEF StartVacuum
<1>7. CASE VacuumRefused(c)
  <2>1. pc'[c] # "stage"
    BY <1>0, <1>7 DEF VacuumRefused, End, Goto
  <2> QED
    BY <1>7, <2>1, MirrorAfter DEF VacuumRefused, copies
<1>8. CASE FinishVacuum(c)
  <2>1. pc'[c] # "stage"
    BY <1>0, <1>8 DEF FinishVacuum, Step, Goto
  <2> QED
    BY <1>8, <2>1, StepGoes, MirrorAfter DEF FinishVacuum, files
<1>9. CASE CopyFails(c)
  <2>1. pc'[c] # "stage"
    BY <1>0, <1>9 DEF CopyFails, End, Goto
  <2> QED
    BY <1>9, <2>1, MirrorAfter DEF CopyFails, copies
<1>10. CASE CheckCopy(c)
  <2>1. UNCHANGED <<family, slot, parked, staged, whole>> /\ pc[c] # "idle"
    BY <1>10 DEF CheckCopy, copies
  <2>2. \A d \in Callers \ {c} : pc'[d] = "idle"
    <3>1. End(c) \/ Step(c, "putBack") \/ Step(c, "stage")
      BY <1>10 DEF CheckCopy
    <3> QED
      BY <2>1, <3>1, StepGoes, AskedAfter
  <2>3. pc'[c] = "stage" => tmp' \in whole
    BY <1>0, <1>10 DEF CheckCopy, Step, End, Goto
  <2> QED
    BY <2>1, <2>2, <2>3 DEF MirrorWhole
<1>11. CASE StageExport(c)
  <2>1. UNCHANGED <<family, slot, parked, whole>> /\ pc[c] = "stage" /\ staged' \in {tmp, staged}
    BY <1>11 DEF StageExport, copies
  <2>2. End(c) \/ Step(c, "putBack")
    BY <1>11 DEF StageExport
  <2>3. \A d \in Callers : pc'[d] # "stage"
    BY <1>0, <2>1, <2>2, StepGoes, AskedAfter DEF Step, End, Goto
  <2> QED
    BY <2>1, <2>3 DEF MirrorWhole
<1> QED
  BY <1>1, <1>2, <1>3, <1>4, <1>5, <1>6, <1>7, <1>8, <1>9, <1>10, <1>11 DEF Begin, Write

LEMMA MirrorRotates ==
  ASSUME Typed, DayInv, NEW c \in Callers, MirrorWhole, Rotate(c)
  PROVE  MirrorWhole'
<1>0. DayTyped /\ gen \in [Callers -> 0..N] /\ (pc[c] = "shift" => gen[c] \in 2..N)
  BY DayTypes DEF Typed, TypeOK, ShiftTyped
<1> USE DEF DayTyped, PCs
<1>1. CASE PutBackParked(c)
  <2>1. End(c) \/ Step(c, "park")
    BY <1>1 DEF PutBackParked
  <2>2. parked' \in {0, parked} /\ \A g \in 0..N : slot'[g] \in {parked, slot[g]}
    BY <1>0, <1>1, Removal DEF PutBackParked
  <2>3. pc'[c] # "stage"
    BY <1>0, <2>1 DEF End, Step, Goto
  <2> QED
    BY <1>1, <2>1, <2>2, <2>3, StepGoes, MirrorAfter DEF PutBackParked, copies
<1>2. CASE ParkNewest(c)
  <2>1. End(c) \/ (lock' = lock /\ (Goto(c, "shift") \/ Goto(c, "place")))
    BY <1>2 DEF ParkNewest, ShiftFrom
  <2>2. parked' \in {parked, slot[0]} /\ \A g \in 0..N : slot'[g] \in {0, slot[g]}
    BY <1>0, <1>2 DEF ParkNewest
  <2>3. pc'[c] # "stage"
    BY <1>0, <2>1 DEF End, Goto
  <2> QED
    BY <1>2, <2>1, <2>2, <2>3, MirrorAfter DEF ParkNewest, copies
<1>3. CASE ShiftGeneration(c)
  <2>1. lock' = lock /\ (Goto(c, "shift") \/ Goto(c, "place") \/ Goto(c, "unpark"))
    BY <1>3 DEF ShiftGeneration, NextShift, Step
  <2>2. \A g \in 0..N : slot'[g] \in {0} \cup {slot[h] : h \in 0..N}
    <3>1. slot \in [0..N -> Nat] /\ gen[c] \in 2..N
      BY <1>0, <1>3 DEF ShiftGeneration
    <3> QED
      BY <1>3, <3>1, ShiftMoves
  <2>3. pc'[c] # "stage"
    BY <1>0, <2>1 DEF Goto
  <2> QED
    BY <1>3, <2>1, <2>2, <2>3, MirrorAfter DEF ShiftGeneration, copies
<1>4. CASE PlaceParked(c)
  <2>1. End(c) \/ Step(c, "promote") \/ Step(c, "unpark")
    BY <1>4 DEF PlaceParked
  <2>2. parked' \in {0, parked} /\ \A g \in 0..N : slot'[g] \in {0, parked, slot[g]}
    BY <1>0, <1>4 DEF PlaceParked, TargetCleared
  <2>3. pc'[c] # "stage"
    BY <1>0, <2>1 DEF End, Step, Goto
  <2> QED
    BY <1>4, <2>1, <2>2, <2>3, StepGoes, MirrorAfter DEF PlaceParked, copies
<1>5. CASE Unpark(c)
  <2>1. parked' \in {0, parked} /\ \A g \in 0..N : slot'[g] \in {parked, slot[g]}
    BY <1>0, <1>5 DEF Unpark
  <2>2. pc'[c] # "stage"
    BY <1>0, <1>5 DEF Unpark, End, Goto
  <2> QED
    BY <1>5, <2>1, <2>2, MirrorAfter DEF Unpark, copies
<1>6. CASE Promote(c)
  <2>1. CASE family = "daily"
    BY <1>6, <2>1 DEF Promote, MirrorWhole
  <2>2. CASE family # "daily"
    <3>1. slot' = slot \/ slot' = [slot EXCEPT ![0] = staged]
      BY <1>6, <2>2 DEF Promote, Fresh
    <3>2. \A g \in 0..N : slot'[g] \in {staged, slot[g]}
      BY <1>0, <3>1
    <3>3. pc'[c] # "stage"
      BY <1>0, <1>6 DEF Promote, End, Goto
    <3>4. staged' \in {0, staged}
      BY <1>6 DEF Promote
    <3> QED
      BY <1>6, <3>2, <3>3, <3>4, MirrorAfter DEF Promote, copies
  <2> QED
    BY <2>1, <2>2
<1> QED
  BY <1>1, <1>2, <1>3, <1>4, <1>5, <1>6 DEF Rotate

LEMMA MirrorElsewhere ==
  ASSUME Typed, MirrorWhole, Database \/ World \/ UNCHANGED vars
  PROVE  MirrorWhole'
<1>1. CASE SetAsideBackup
  BY <1>1 DEF SetAsideBackup, MirrorWhole
<1>2. CASE Crash
  <2>1. UNCHANGED <<family, slot, parked, staged, whole>> /\ \A c \in Callers : pc'[c] = "idle"
    BY <1>2 DEF Crash, files, copies
  <2> QED
    BY <2>1 DEF MirrorWhole
<1>3. CASE Restore \/ CreateEmpty \/ Decay \/ FullCheck \/ Edit \/ Import \/ Expire \/ Hold
           \/ Release \/ UNCHANGED vars
  <2>1. UNCHANGED <<family, slot, parked, tmp, staged, whole, pc>>
    BY <1>3 DEF Restore, CreateEmpty, Decay, FullCheck, Edit, Import, Expire, Hold, Release, vars,
                files, copies, run
  <2> QED
    BY <2>1 DEF MirrorWhole
<1> QED
  BY <1>1, <1>2, <1>3 DEF Database, World

LEMMA MirrorStep ==
  Typed /\ DayInv /\ MirrorWhole /\ [Next]_vars => overlapped' \/ MirrorWhole'
  BY MirrorWrites, MirrorRotates, MirrorElsewhere DEF Next, Caller

\* Every generation is a whole copy, whatever a crash, a full disk or a held
\* file left under the names a generation is promoted from: of the daily
\* snapshots always, of the mirror until two of its runs overlap.
THEOREM GenerationsStayWhole == Spec => []GenerationsWhole
<1>1. Inv /\ MirrorWhole => GenerationsWhole
  <2>1. Inv => (family = "daily" => GenerationsWhole)
    BY DEF Inv, DailyInv, CopiesInv, Checked, GenerationsWhole, Generations
  <2>2. MirrorWhole => (family = "mirror" => GenerationsWhole)
    BY DEF MirrorWhole, GenerationsWhole, Generations
  <2>3. Inv => family \in {"daily", "mirror"}
    BY DEF Inv, Typed, TypeOK
  <2> QED
    BY <2>1, <2>2, <2>3
<1>2. Inv => Typed
  BY DEF Inv
<1>3. Inv /\ (overlapped \/ MirrorWhole) => GenerationsWhole
  <2>1. Inv /\ family = "daily" => GenerationsWhole
    BY DEF Inv, DailyInv, CopiesInv, Checked, GenerationsWhole, Generations
  <2>2. overlapped /\ family # "daily" => GenerationsWhole
    BY DEF GenerationsWhole, Apart
  <2> QED BY <1>1, <2>1, <2>2
<1>4. Init => MirrorsOnly
  BY DEF Init, MirrorsOnly
<1> QED
  BY <1>2, <1>3, <1>4, InitInv, NextKeepsInv, DayInit, DayStep, MirrorInit, MirrorStep, OverlapStays,
     PTL DEF Spec

(***************************************************************************)
(* The mirror's newest copy.  The copies are in the order they were taken: *)
(* the generations, what is parked behind generation 0, what is staged     *)
(* under .new, what is being written.  What a rotation or a rename drops   *)
(* is then older than something it keeps.  And a run that finds another    *)
(* database's copies in its folder moved them away, or found none that     *)
(* holds a library, before it rotates: so it rotates none of them out.     *)
(***************************************************************************)
InOrder(s, p, n, t) ==
  /\ \A i, j \in 0..N : i < j /\ s[i] # 0 => s[j] < s[i]
  /\ p # 0 => (\A g \in 1..N : s[g] < p) /\ (s[0] # 0 => p < s[0])
  /\ n # 0 => p < n /\ \A g \in 0..N : s[g] < n
  /\ t # 0 => p < t /\ n < t /\ \A g \in 0..N : s[g] < t

MirrorOrder == InOrder(slot, parked, staged, tmp) /\ whole \subseteq 1..taken

\* What the place of a caller in its rotation says of the files.
MirrorPlace(c) ==
  /\ pc[c] = "park" => parked = 0 \/ slot[0] # 0
  /\ pc[c] \in {"shift", "place"} => slot[0] = 0 /\ (parkedIt[c] <=> parked # 0)
  /\ pc[c] = "shift" => gen[c] = N \/ slot[gen[c]] = 0
  /\ pc[c] = "place" => N = 1 \/ slot[1] = 0
  /\ pc[c] = "unpark" => slot[0] = 0
  /\ pc[c] = "promote" => slot[0] = 0 /\ parked = 0

\* A run that goes on over another lineage's copies has no library to drop.
ForeignSteps == {"clear", "vacuum", "copying", "verify", "stage", "putBack", "park", "shift",
                 "place"}
MirrorRule(c) ==
  /\ pc[c] # "idle" => db # "missing"
  /\ pc[c] = "copying" => mine[c] = tmp /\ tmp # 0
  /\ foreign /\ pc[c] \in ForeignSteps => NoLibraryBelow

MirrorInv ==
  family = "mirror" => MirrorOrder /\ \A c \in Callers : MirrorPlace(c) /\ MirrorRule(c)

\* What the proofs below start from.
Mirroring ==
  /\ ~overlapped' /\ Typed /\ Typed' /\ DayInv /\ MirrorWhole /\ MirrorWhole' /\ MirrorInv
  /\ family = "mirror"

LEMMA MirrorFacts ==
  ASSUME Mirroring
  PROVE  /\ DayTyped /\ DayTyped' /\ gen \in [Callers -> 0..N] /\ mine \in [Callers -> Nat]
         /\ parkedIt \in [Callers -> BOOLEAN]
         /\ InOrder(slot, parked, staged, tmp) /\ whole \subseteq 1..taken
         /\ \A c \in Callers : MirrorPlace(c) /\ MirrorRule(c)
         /\ \A c \in Callers : pc[c] = "shift" => gen[c] \in 2..N
<1>0. Copy \subseteq Nat
  BY DEF Copy
<1>1. DayTyped /\ gen \in [Callers -> 0..N] /\ mine \in [Callers -> Nat]
      /\ parkedIt \in [Callers -> BOOLEAN]
  <2>1. Typed
    BY DEF Mirroring
  <2>2. gen \in [Callers -> 0..N] /\ mine \in [Callers -> Copy]
        /\ parkedIt \in [Callers -> BOOLEAN]
    BY <2>1 DEF Typed, TypeOK
  <2> QED
    BY <1>0, <2>1, <2>2, DayTypes
<1>2. DayTyped'
  <2>1. Typed'
    BY DEF Mirroring
  <2>2. slot' \in [0..N -> Copy] /\ parked' \in Copy /\ tmp' \in Copy /\ staged' \in Copy
        /\ taken' \in Copy /\ pc' \in [Callers -> PCs]
    BY <2>1 DEF Typed, TypeOK
  <2> QED
    BY <1>0, <2>2 DEF DayTyped
<1>3. InOrder(slot, parked, staged, tmp) /\ whole \subseteq 1..taken
      /\ \A c \in Callers : MirrorPlace(c) /\ MirrorRule(c)
  BY DEF Mirroring, MirrorInv, MirrorOrder
<1>4. \A c \in Callers : pc[c] = "shift" => gen[c] \in 2..N
  BY DEF Mirroring, Typed, ShiftTyped
<1> QED
  BY <1>1, <1>2, <1>3, <1>4

LEMMA MirrorInvInit == Init => MirrorInv
<1> SUFFICES ASSUME Init PROVE MirrorInv
  OBVIOUS
<1>1. MirrorOrder
  BY DEF Init, MirrorOrder, InOrder
<1>2. \A c \in Callers : pc[c] = "idle"
  BY DEF Init
<1> QED
  BY <1>1, <1>2 DEF MirrorInv, MirrorPlace, MirrorRule, ForeignSteps

\* Files that vanish leave the others in order.
LEMMA OrderThins ==
  ASSUME NEW s \in [0..N -> Nat], NEW p \in Nat, NEW n \in Nat, NEW t \in Nat,
         InOrder(s, p, n, t),
         NEW s2 \in [0..N -> Nat], NEW p2 \in Nat, NEW n2 \in Nat, NEW t2 \in Nat,
         p2 = 0 \/ p2 = p, n2 = 0 \/ n2 = n, t2 = 0 \/ t2 = t,
         \A g \in 0..N : s2[g] = 0 \/ s2[g] = s[g]
  PROVE  InOrder(s2, p2, n2, t2)
<1>0. 0 \in 0..N /\ \A g \in 0..N : s[g] \in Nat /\ s2[g] \in Nat /\ s2[g] <= s[g]
  <2>1. ASSUME NEW g \in 0..N PROVE s[g] \in Nat /\ s2[g] \in Nat /\ s2[g] <= s[g]
    <3>1. s[g] \in Nat
      BY Zenon
    <3>2. s2[g] = 0 \/ s2[g] = s[g]
      OBVIOUS
    <3> QED
      BY <3>1, <3>2
  <2> QED
    BY <2>1
<1>1. ASSUME NEW i \in 0..N, NEW j \in 0..N, i < j, s2[i] # 0 PROVE s2[j] < s2[i]
  <2>1. s2[i] = s[i] /\ s[j] < s[i]
    BY <1>1 DEF InOrder
  <2> QED
    BY <1>0, <2>1
<1>2. p2 # 0 => (\A g \in 1..N : s2[g] < p2) /\ (s2[0] # 0 => p2 < s2[0])
  <2> SUFFICES ASSUME p2 # 0 PROVE (\A g \in 1..N : s2[g] < p2) /\ (s2[0] # 0 => p2 < s2[0])
    OBVIOUS
  <2>1. p2 = p /\ (\A g \in 1..N : s[g] < p) /\ (s[0] # 0 => p < s[0])
    BY DEF InOrder
  <2>2. s2[0] # 0 => s2[0] = s[0]
    BY <1>0
  <2> QED
    BY <1>0, <2>1, <2>2
<1>3. n2 # 0 => p2 < n2 /\ \A g \in 0..N : s2[g] < n2
  <2>1. n2 # 0 => n2 = n /\ p < n /\ \A g \in 0..N : s[g] < n
    BY DEF InOrder
  <2> QED
    BY <1>0, <2>1
<1>4. t2 # 0 => p2 < t2 /\ n2 < t2 /\ \A g \in 0..N : s2[g] < t2
  <2>1. t2 # 0 => t2 = t /\ p < t /\ n < t /\ \A g \in 0..N : s[g] < t
    BY DEF InOrder
  <2> QED
    BY <1>0, <2>1
<1> QED
  BY <1>1, <1>2, <1>3, <1>4 DEF InOrder

\* The one caller in its run: after its step only its place is in question.
LEMMA MirrorRunAfter ==
  ASSUME Mirroring, NEW c \in Callers, pc[c] # "idle", family' = family,
         \/ End(c)
         \/ lock' = lock /\ \E p \in PCs : Goto(c, p),
         MirrorOrder', pc'[c] # "idle" => MirrorPlace(c)' /\ MirrorRule(c)'
  PROVE  MirrorInv'
<1>1. \A d \in Callers \ {c} : pc'[d] = "idle"
  BY AskedAfter DEF Mirroring
<1>2. \A d \in Callers : pc'[d] = "idle" => MirrorPlace(d)' /\ MirrorRule(d)'
  BY DEF MirrorPlace, MirrorRule, ForeignSteps
<1> QED
  BY <1>1, <1>2 DEF MirrorInv

\* Where a copy may be after a step, or a newer one instead of it.
Outlived(s) ==
  \/ s <= parked' \/ s <= staged' \/ s \in aside'
  \/ \E g \in 0..N : s <= slot'[g]

LEMMA PlacesKept ==
  ASSUME Mirroring, family' = family, whole \subseteq whole', aside \subseteq aside',
         parked # 0 => Outlived(parked), staged # 0 => Outlived(staged),
         \A g \in 0..N : slot[g] # 0 => Outlived(slot[g])
  PROVE  NewestKept
<1> USE MirrorFacts DEF DayTyped
<1> SUFFICES ASSUME NEW s \in MirrorCopies PROVE \E t \in MirrorCopies' : s <= t
  BY DEF NewestKept
<1>1. s \in whole /\ s \in Nat /\ s # 0
  BY DEF MirrorCopies
<1>2. CASE s \in aside
  <2>1. s \in MirrorCopies'
    BY <1>1, <1>2 DEF MirrorCopies
  <2> QED
    BY <1>1, <2>1
<1>3. CASE s \notin aside
  <2>1. Outlived(s)
    BY <1>1, <1>3 DEF MirrorCopies, Generations
  <2>2. ASSUME s <= parked' PROVE parked' \in MirrorCopies'
    BY <1>1, <2>2 DEF Mirroring, MirrorWhole, MirrorCopies
  <2>3. ASSUME s <= staged' PROVE staged' \in MirrorCopies'
    BY <1>1, <2>3 DEF Mirroring, MirrorWhole, MirrorCopies
  <2>4. ASSUME s \in aside' PROVE s \in MirrorCopies'
    BY <1>1, <2>4 DEF MirrorCopies
  <2>5. ASSUME NEW g \in 0..N, s <= slot'[g] PROVE slot'[g] \in MirrorCopies'
    <3>1. slot'[g] # 0
      BY <1>1, <2>5
    <3>2. slot'[g] \in whole'
      BY <3>1 DEF Mirroring, MirrorWhole
    <3> QED
      BY <3>1, <3>2 DEF MirrorCopies, Generations
  <2>6. s <= s
    BY <1>1
  <2> QED
    BY <2>1, <2>2, <2>3, <2>4, <2>5, <2>6 DEF Outlived
<1> QED
  BY <1>2, <1>3

\* A step that moves no file and spoils no copy.
LEMMA FilesStay ==
  ASSUME Mirroring, family' = family, UNCHANGED <<slot, parked, staged, aside>>,
         whole \subseteq whole'
  PROVE  NewestKept /\ EarlierKept
<1> USE MirrorFacts DEF DayTyped
<1>1. parked <= parked' /\ staged <= staged' /\ \A g \in 0..N : slot[g] <= slot'[g]
  OBVIOUS
<1>2. NewestKept
  BY <1>1, PlacesKept DEF Outlived
<1>3. EarlierKept
  BY DEF EarlierKept, EarlierCopies, Generations
<1> QED
  BY <1>2, <1>3

\* Of another database's copies, each has a place after the step.
LEMMA EarlierPlaced ==
  ASSUME foreign => \A g \in 0..N : slot[g] # 0 /\ HoldsLibrary(slot[g]) =>
           slot[g] \in {parked'} \cup aside' \cup {slot'[h] : h \in 0..N}
  PROVE  EarlierKept
  BY DEF EarlierKept, EarlierCopies, Generations

LEMMA MirrorBegins ==
  ASSUME Mirroring, NEW c \in Callers, Begin(c)
  PROVE  MirrorInv' /\ NewestKept /\ EarlierKept
<1> USE MirrorFacts DEF DayTyped
<1>0. BeginMirror(c)
  BY DEF Begin, BeginSnapshot, Mirroring
<1>1. UNCHANGED <<family, parked, tmp, aside, whole, kind, taken, db>> /\ db # "missing"
  BY <1>0 DEF BeginMirror, NotesOverlap, source
<1>2. \A d \in Callers : pc[d] = "idle"
  BY <1>0 DEF BeginMirror, Mirroring, NotesOverlap, NoneRuns
<1>3. \A d \in Callers : pc'[d] \in {"idle", "rules"}
  BY <1>0, <1>2 DEF BeginMirror, Step, Goto, run
<1>4. \/ UNCHANGED <<slot, staged>>
      \/ slot[0] = 0 /\ staged # 0 /\ slot' = [slot EXCEPT ![0] = staged] /\ staged' = 0
  BY <1>0 DEF BeginMirror, MayRename
<1>5. CASE UNCHANGED <<slot, staged>>
  <2>1. MirrorOrder'
    BY <1>1, <1>5 DEF MirrorOrder
  <2>2. MirrorInv'
    BY <1>1, <1>3, <2>1 DEF MirrorInv, MirrorPlace, MirrorRule, ForeignSteps
  <2> QED
    BY <1>1, <1>5, <2>2, FilesStay
<1>6. CASE slot[0] = 0 /\ staged # 0 /\ slot' = [slot EXCEPT ![0] = staged] /\ staged' = 0
  <2>1. slot'[0] = staged /\ \A g \in 1..N : slot'[g] = slot[g]
    BY <1>6
  <2>2. MirrorOrder'
    BY <1>1, <1>6, <2>1 DEF MirrorOrder, InOrder
  <2>3. MirrorInv'
    BY <1>1, <1>3, <2>2 DEF MirrorInv, MirrorPlace, MirrorRule, ForeignSteps
  <2>4. \A g \in 0..N : slot[g] # 0 => slot'[g] = slot[g]
    BY <1>6, <2>1
  <2>5. NewestKept
    BY <1>1, <2>1, <2>4, PlacesKept DEF Outlived
  <2>6. EarlierKept
    BY <2>4, EarlierPlaced
  <2> QED
    BY <2>3, <2>5, <2>6
<1> QED
  BY <1>4, <1>5, <1>6

\* A step of a run before its rotation, that leaves the copies where they
\* are: what remains to be shown is the order and the rule of the next step.
LEMMA WriteAfter ==
  ASSUME Mirroring, NEW c \in Callers, pc[c] # "idle",
         UNCHANGED <<family, slot, parked, staged, aside, db, foreign>>, whole \subseteq whole',
         NEW p \in {"aside", "clear", "vacuum", "copying", "verify", "stage"},
         End(c) \/ (lock' = lock /\ Goto(c, p)),
         MirrorOrder',
         pc'[c] = p =>
           /\ p = "copying" => mine'[c] = tmp' /\ tmp' # 0
           /\ foreign /\ p # "aside" => NoLibraryBelow'
  PROVE  MirrorInv' /\ NewestKept /\ EarlierKept
<1> USE MirrorFacts DEF DayTyped
<1>1. db # "missing"
  BY DEF MirrorRule
<1>2. pc'[c] \in {"idle", p}
  BY DEF End, Goto
<1>3. pc'[c] # "idle" => MirrorPlace(c)' /\ MirrorRule(c)'
  BY <1>1, <1>2 DEF MirrorPlace, MirrorRule, ForeignSteps
<1>4. End(c) \/ (lock' = lock /\ \E q \in PCs : Goto(c, q))
  BY DEF PCs
<1>5. MirrorInv'
  BY <1>3, <1>4, MirrorRunAfter
<1> QED
  BY <1>5, FilesStay

\* The copies below the newest are the same, and of the same databases.
LEMMA StillNoLibrary ==
  ASSUME Mirroring, NoLibraryBelow, UNCHANGED <<slot, whole, kind>>
  PROVE  NoLibraryBelow'
  BY DEF NoLibraryBelow, HoldsLibrary

LEMMA TmpThins ==
  ASSUME Mirroring, UNCHANGED <<slot, parked, staged, whole, taken>>, tmp' \in {0, tmp}
  PROVE  MirrorOrder'
<1>1. /\ slot \in [0..N -> Nat] /\ parked \in Nat /\ staged \in Nat /\ tmp \in Nat
      /\ InOrder(slot, parked, staged, tmp) /\ whole \subseteq 1..taken
  BY MirrorFacts DEF DayTyped
<1>2. tmp' \in Nat /\ (tmp' = 0 \/ tmp' = tmp)
  BY <1>1
<1>3. InOrder(slot, parked, staged, tmp')
  BY <1>1, <1>2, OrderThins
<1> QED
  BY <1>1, <1>3 DEF MirrorOrder

LEMMA MirrorWritesKeep ==
  ASSUME Mirroring, NEW c \in Callers, Write(c)
  PROVE  MirrorInv' /\ NewestKept /\ EarlierKept
<1>0. /\ DayTyped /\ DayTyped' /\ mine \in [Callers -> Nat]
      /\ InOrder(slot, parked, staged, tmp) /\ whole \subseteq 1..taken
      /\ MirrorRule(c) /\ MirrorOrder
  BY MirrorFacts DEF MirrorOrder
<1> USE DEF DayTyped
<1>1. CASE ApplyRules(c)
  <2>1. pc[c] = "rules" /\ UNCHANGED <<family, slot, parked, tmp, staged, aside, whole, kind, taken,
                                       db, foreign>>
    BY <1>1 DEF ApplyRules, files, copies, source
  <2>2. MirrorOrder'
    BY <1>0, <2>1 DEF MirrorOrder
  <2>3. CASE End(c)
    <3>1. pc'[c] # "clear"
      BY <1>0, <2>3 DEF End, Goto
    <3> QED
      BY <2>1, <2>2, <2>3, <3>1, WriteAfter
  <2>4. CASE Step(c, "aside")
    <3> QED
      BY <2>1, <2>2, <2>4, WriteAfter DEF Step
  <2>5. CASE Step(c, "clear") /\ (foreign => ~AnyHoldsLibrary)
    <3>1. ASSUME foreign, NEW g \in 0..N PROVE ~HoldsLibrary(slot[g])
      <4>1. slot[g] \notin Generations \/ ~HoldsLibrary(slot[g])
        BY <2>5, <3>1 DEF AnyHoldsLibrary
      <4>2. slot[g] \notin Generations => slot[g] = 0
        BY DEF Generations
      <4>3. 0 \notin whole
        BY <1>0
      <4> QED
        BY <4>1, <4>2, <4>3 DEF HoldsLibrary
    <3>2. foreign => NoLibraryBelow'
      BY <2>1, <3>1 DEF NoLibraryBelow, HoldsLibrary
    <3> QED
      BY <2>1, <2>2, <2>5, <3>2, WriteAfter DEF Step
  <2> QED
    BY <1>1, <2>3, <2>4, <2>5 DEF ApplyRules
<1>2. CASE SetAsideEarlier(c)
  <2>1. /\ pc[c] = "aside" /\ UNCHANGED <<family, parked, tmp, staged, whole, kind, taken, db>>
        /\ foreign' = foreign
    BY <1>2 DEF SetAsideEarlier, copies, source
  <2>2. CASE UNCHANGED <<slot, aside>> /\ End(c)
    <3>1. MirrorOrder'
      BY <1>0, <2>1, <2>2 DEF MirrorOrder
    <3>2. pc'[c] # "clear"
      BY <1>0, <2>2 DEF End, Goto
    <3> QED
      BY <2>1, <2>2, <3>1, <3>2, WriteAfter
  <2>3. CASE UNCHANGED <<slot, aside>> /\ Generations = {} /\ Step(c, "clear")
    <3>1. MirrorOrder'
      BY <1>0, <2>1, <2>3 DEF MirrorOrder
    <3>2. \A g \in 0..N : slot[g] = 0
      BY <2>3 DEF Generations
    <3>3. NoLibraryBelow'
      BY <1>0, <2>1, <2>3, <3>2 DEF NoLibraryBelow, HoldsLibrary
    <3> QED
      BY <2>1, <2>3, <3>1, <3>3, WriteAfter DEF Step
  <2>4. ASSUME NEW g \in 0..N, slot[g] # 0, slot' = [slot EXCEPT ![g] = 0],
               aside' = aside \cup {slot[g]}, UNCHANGED run
        PROVE  MirrorInv' /\ NewestKept /\ EarlierKept
    <3>1. \A h \in 0..N : slot'[h] \in {0, slot[h]} /\ (slot'[h] # slot[h] => slot[h] \in aside')
      BY <1>0, <2>4
    <3>2. InOrder(slot', parked, staged, tmp)
      BY <1>0, <3>1, OrderThins
    <3>3. MirrorOrder'
      BY <1>0, <2>1, <3>2 DEF MirrorOrder
    <3>4. lock' = lock /\ Goto(c, "aside") /\ pc'[c] = "aside"
      BY <1>0, <2>1, <2>4 DEF run, Goto
    <3>5. MirrorPlace(c)' /\ MirrorRule(c)'
      BY <1>0, <2>1, <3>4 DEF MirrorPlace, MirrorRule, ForeignSteps
    <3>6. MirrorInv'
      BY <2>1, <3>3, <3>4, <3>5, MirrorRunAfter DEF PCs
    <3>7. \A h \in 0..N : slot[h] <= slot'[h] \/ slot[h] \in aside'
      BY <1>0, <3>1
    <3>8. parked <= parked' /\ staged <= staged' /\ aside \subseteq aside'
      BY <1>0, <2>1, <2>4
    <3>9. NewestKept
      BY <2>1, <3>7, <3>8, PlacesKept DEF Outlived
    <3>10. EarlierKept
      BY <3>1, EarlierPlaced
    <3> QED
      BY <3>6, <3>9, <3>10
  <2> QED
    BY <1>2, <2>2, <2>3, <2>4 DEF SetAsideEarlier
<1>3. CASE ClearTmp(c)
  <2>1. /\ pc[c] = "clear" /\ tmp' \in {0, tmp} /\ Step(c, "vacuum")
        /\ UNCHANGED <<family, slot, parked, staged, aside, whole, kind, taken, db, foreign>>
    BY <1>3, Removal DEF ClearTmp, copies, source
  <2>2. foreign => NoLibraryBelow'
    BY <1>0, <2>1, StillNoLibrary DEF MirrorRule, ForeignSteps
  <2> QED
    BY <2>1, <2>2, TmpThins, WriteAfter DEF Step
<1>4. CASE StartVacuum(c)
  <2>1. /\ pc[c] = "vacuum" /\ Goto(c, "copying") /\ lock' = lock /\ taken' = taken + 1
        /\ tmp' = taken' /\ mine' = [mine EXCEPT ![c] = taken'] /\ kind' = [kind EXCEPT ![taken'] = db]
        /\ UNCHANGED <<family, slot, parked, staged, aside, whole, db, foreign>>
    BY <1>4 DEF StartVacuum, source
  <2>2. parked < tmp' /\ staged < tmp' /\ \A g \in 0..N : slot[g] < tmp'
    BY <1>0, <2>1 DEF Mirroring, DayInv, Numbered
  <2>3. InOrder(slot, parked, staged, tmp')
    BY <1>0, <2>2 DEF InOrder
  <2>4. MirrorOrder'
    BY <1>0, <2>1, <2>3 DEF MirrorOrder
  <2>5. foreign => NoLibraryBelow'
    <3>1. foreign => NoLibraryBelow
      BY <1>0, <2>1 DEF MirrorRule, ForeignSteps
    <3>2. ASSUME NEW s, HoldsLibrary(s)' PROVE HoldsLibrary(s)
      <4>1. s \in whole /\ s # taken'
        BY <1>0, <2>1, <3>2 DEF HoldsLibrary
      <4>2. kind'[s] = kind[s]
        BY <1>0, <2>1, <4>1 DEF Mirroring, Typed, TypeOK
      <4> QED
        BY <3>2, <4>1, <4>2 DEF HoldsLibrary
    <3> QED
      BY <2>1, <3>1, <3>2 DEF NoLibraryBelow, HoldsLibrary
  <2>6. mine'[c] = tmp' /\ tmp' # 0
    BY <1>0, <2>1
  <2> QED
    BY <2>1, <2>4, <2>5, <2>6, WriteAfter
<1>5. CASE VacuumRefused(c) \/ CopyFails(c)
  <2>1. /\ pc[c] \in {"vacuum", "copying"} /\ tmp' \in {0, tmp} /\ End(c)
        /\ UNCHANGED <<family, slot, parked, staged, aside, whole, kind, taken, db, foreign>>
    BY <1>5, Removal DEF VacuumRefused, CopyFails, DropTmp, copies, source
  <2>2. pc'[c] = "idle"
    BY <1>0, <2>1 DEF End, Goto
  <2> QED
    BY <2>1, <2>2, TmpThins, WriteAfter
<1>6. CASE FinishVacuum(c)
  <2>1. /\ pc[c] = "copying" /\ Step(c, "verify") /\ whole' = whole \cup {mine[c]}
        /\ UNCHANGED <<family, slot, parked, tmp, staged, aside, kind, taken, db, foreign>>
    BY <1>6 DEF FinishVacuum, files, source
  <2>2. mine[c] = tmp /\ tmp # 0 /\ tmp <= taken /\ \A g \in 0..N : slot[g] < tmp
    BY <1>0, <2>1 DEF MirrorRule, InOrder, Mirroring, DayInv, Numbered
  <2>3. MirrorOrder'
    BY <1>0, <2>1, <2>2 DEF MirrorOrder
  <2>4. foreign => NoLibraryBelow'
    <3>1. foreign => NoLibraryBelow
      BY <1>0, <2>1 DEF MirrorRule, ForeignSteps
    <3>2. \A g \in 1..N : slot[g] \in whole' => slot[g] \in whole
      BY <1>0, <2>1, <2>2
    <3> QED
      BY <2>1, <3>1, <3>2 DEF NoLibraryBelow, HoldsLibrary
  <2> QED
    BY <2>1, <2>3, <2>4, WriteAfter DEF Step
<1>7. CASE CheckCopy(c)
  <2>1. /\ pc[c] = "verify" /\ tmp' \in {0, tmp} /\ (End(c) \/ Step(c, "stage"))
        /\ UNCHANGED <<family, slot, parked, staged, aside, whole, kind, taken, db, foreign>>
    BY <1>7, Removal DEF CheckCopy, copies, source, Mirroring
  <2>2. foreign => NoLibraryBelow'
    BY <1>0, <2>1, StillNoLibrary DEF MirrorRule, ForeignSteps
  <2> QED
    BY <2>1, <2>2, TmpThins, WriteAfter DEF Step
<1>8. CASE StageExport(c)
  <2>1. /\ pc[c] = "stage"
        /\ UNCHANGED <<family, slot, parked, aside, whole, kind, taken, db, foreign>>
    BY <1>8 DEF StageExport, copies, source
  <2>2. foreign => NoLibraryBelow'
    BY <1>0, <2>1, StillNoLibrary DEF MirrorRule, ForeignSteps
  <2>3. CASE tmp' \in AfterRemove(tmp) /\ UNCHANGED staged /\ End(c)
    BY <2>1, <2>2, <2>3, Removal, TmpThins, WriteAfter
  <2>4. CASE tmp # 0 /\ staged' = tmp /\ tmp' = 0 /\ Step(c, "putBack")
    <3>1. parked < tmp /\ staged < tmp /\ \A g \in 0..N : slot[g] < tmp
      BY <1>0, <2>4 DEF InOrder
    <3>2. InOrder(slot, parked, tmp, 0)
      BY <1>0, <3>1 DEF InOrder
    <3>3. MirrorOrder'
      BY <1>0, <2>1, <2>4, <3>2 DEF MirrorOrder
    <3>4. pc'[c] = "putBack" /\ lock' = lock /\ Goto(c, "putBack")
      BY <1>0, <2>4 DEF Step, Goto
    <3>5. MirrorPlace(c)' /\ MirrorRule(c)'
      BY <1>0, <2>1, <2>2, <3>4 DEF MirrorPlace, MirrorRule, ForeignSteps
    <3>6. MirrorInv'
      BY <2>1, <3>3, <3>4, <3>5, MirrorRunAfter DEF PCs
    <3>7. parked <= parked' /\ staged <= staged' /\ \A g \in 0..N : slot[g] <= slot'[g]
      BY <1>0, <2>1, <2>4, <3>1
    <3>8. NewestKept
      BY <2>1, <3>7, PlacesKept DEF Outlived
    <3>9. EarlierKept
      BY <2>1, EarlierPlaced
    <3> QED
      BY <3>6, <3>8, <3>9
  <2> QED
    BY <1>8, <2>3, <2>4 DEF StageExport, MayRename
<1> QED
  BY <1>1, <1>2, <1>3, <1>4, <1>5, <1>6, <1>7, <1>8 DEF Write

\* A step of a rotation, which moves copies and writes none.
LEMMA RotateAfter ==
  ASSUME Mirroring, NEW c \in Callers, pc[c] \in ForeignSteps,
         UNCHANGED <<family, tmp, staged, aside, whole, kind, taken, db, foreign>>,
         NEW p \in {"park", "shift", "place", "unpark", "promote"},
         End(c) \/ (lock' = lock /\ Goto(c, p)),
         InOrder(slot', parked', staged, tmp), pc'[c] = p => MirrorPlace(c)',
         \A g \in 1..N : slot'[g] \in {0, slot[g]} \/ (g > 1 /\ slot'[g] = slot[g - 1])
                         \/ p \in {"unpark", "promote"}
  PROVE  MirrorInv'
<1>0. DayTyped /\ whole \subseteq 1..taken /\ MirrorRule(c)
  BY MirrorFacts
<1> USE DEF DayTyped
<1>1. MirrorOrder'
  BY <1>0 DEF MirrorOrder
<1>2. pc'[c] \in {"idle", p}
  BY <1>0 DEF End, Goto
<1>3. foreign /\ p \in ForeignSteps => NoLibraryBelow'
  <2> SUFFICES ASSUME foreign, p \in ForeignSteps, NEW g \in 1..N PROVE ~HoldsLibrary(slot[g])'
    BY DEF NoLibraryBelow
  <2>1. NoLibraryBelow
    BY <1>0 DEF MirrorRule
  <2>2. slot'[g] = 0 \/ \E h \in 1..N : slot'[g] = slot[h]
    <3>1. p \notin {"unpark", "promote"}
      BY DEF ForeignSteps
    <3>2. g > 1 => g - 1 \in 1..N
      OBVIOUS
    <3> QED
      BY <3>1, <3>2
  <2>3. 0 \notin whole'
    BY <1>0
  <2> QED
    BY <2>1, <2>2, <2>3 DEF NoLibraryBelow, HoldsLibrary
<1>4. pc[c] # "idle" /\ db # "missing" /\ p \in PCs
  BY <1>0 DEF MirrorRule, ForeignSteps, PCs
<1>5. pc'[c] # "idle" => MirrorPlace(c)' /\ MirrorRule(c)'
  BY <1>2, <1>3, <1>4 DEF MirrorRule
<1> QED
  BY <1>1, <1>4, <1>5, MirrorRunAfter

LEMMA MirrorPutsBack ==
  ASSUME Mirroring, NEW c \in Callers, PutBackParked(c)
  PROVE  MirrorInv' /\ NewestKept /\ EarlierKept
<1>0. DayTyped /\ DayTyped' /\ InOrder(slot, parked, staged, tmp)
  BY MirrorFacts
<1> USE DEF DayTyped
<1>1. /\ pc[c] = "putBack" /\ pc[c] \in ForeignSteps
      /\ UNCHANGED <<family, tmp, staged, aside, whole, kind, taken, db, foreign>>
  BY DEF PutBackParked, copies, source, ForeignSteps
<1>2. CASE UNCHANGED <<slot, parked>> /\ (End(c) \/ (parked = 0 /\ Step(c, "park")))
  <2>1. pc'[c] = "park" => MirrorPlace(c)'
    BY <1>0, <1>1, <1>2 DEF End, Goto, MirrorPlace
  <2>2. MirrorInv'
    BY <1>0, <1>1, <1>2, <2>1, RotateAfter DEF Step
  <2> QED
    BY <1>1, <1>2, <2>2, FilesStay
<1>3. CASE parked # 0 /\ slot[0] # 0 /\ parked' \in {0, parked} /\ UNCHANGED slot /\ Step(c, "park")
  <2>1. InOrder(slot', parked', staged, tmp)
    <3>1. slot' \in [0..N -> Nat] /\ \A g \in 0..N : slot'[g] = slot[g]
      BY <1>0, <1>3
    <3> QED
      BY <1>0, <1>3, <3>1, OrderThins
  <2>2. pc'[c] = "park" => MirrorPlace(c)'
    BY <1>3 DEF MirrorPlace
  <2>3. MirrorInv'
    BY <1>1, <1>3, <2>1, <2>2, RotateAfter DEF Step
  <2>4. parked <= slot'[0] /\ staged <= staged' /\ \A g \in 0..N : slot[g] <= slot'[g]
    BY <1>0, <1>1, <1>3 DEF InOrder
  <2>5. NewestKept
    BY <1>1, <2>4, PlacesKept DEF Outlived
  <2>6. EarlierKept
    BY <1>3, EarlierPlaced
  <2> QED
    BY <2>3, <2>5, <2>6
<1>4. CASE parked # 0 /\ slot[0] = 0 /\ slot' = [slot EXCEPT ![0] = parked] /\ parked' = 0
           /\ Step(c, "park")
  <2>1. slot'[0] = parked /\ \A g \in 1..N : slot'[g] = slot[g]
    BY <1>0, <1>4
  <2>2. InOrder(slot', parked', staged, tmp)
    BY <1>0, <1>4, <2>1 DEF InOrder
  <2>3. pc'[c] = "park" => MirrorPlace(c)'
    BY <1>4 DEF MirrorPlace
  <2>4. MirrorInv'
    BY <1>1, <1>4, <2>1, <2>2, <2>3, RotateAfter DEF Step
  <2>5. parked <= slot'[0] /\ staged <= staged' /\ \A g \in 0..N : slot[g] <= slot'[g]
    BY <1>0, <1>1, <1>4, <2>1
  <2>6. NewestKept
    BY <1>1, <2>5, PlacesKept DEF Outlived
  <2>7. EarlierKept
    <3>1. \A g \in 0..N : slot[g] # 0 => slot'[g] = slot[g]
      BY <1>4, <2>1
    <3> QED
      BY <3>1, EarlierPlaced
  <2> QED
    BY <2>4, <2>6, <2>7
<1> QED
  BY <1>2, <1>3, <1>4, Removal DEF PutBackParked

LEMMA MirrorParks ==
  ASSUME Mirroring, NEW c \in Callers, ParkNewest(c)
  PROVE  MirrorInv' /\ NewestKept /\ EarlierKept
<1>0. /\ DayTyped /\ DayTyped' /\ InOrder(slot, parked, staged, tmp) /\ MirrorPlace(c)
      /\ gen \in [Callers -> 0..N] /\ parkedIt \in [Callers -> BOOLEAN]
  BY MirrorFacts
<1> USE DEF DayTyped
<1>1. /\ pc[c] = "park" /\ pc[c] \in ForeignSteps
      /\ UNCHANGED <<family, tmp, staged, aside, whole, kind, taken, db, foreign>>
  BY DEF ParkNewest, copies, source, ForeignSteps
<1>2. CASE UNCHANGED <<slot, parked>> /\ End(c)
  <2>1. MirrorInv'
    BY <1>0, <1>1, <1>2, RotateAfter DEF End, Goto
  <2> QED
    BY <1>1, <1>2, <2>1, FilesStay
<1>3. ASSUME NEW did \in BOOLEAN, ShiftFrom(c, did), did <=> parked' # 0, slot'[0] = 0,
             \A g \in 1..N : slot'[g] = slot[g], InOrder(slot', parked', staged, tmp)
      PROVE  MirrorInv'
  <2>1. parkedIt'[c] = did /\ gen'[c] = N /\ lock' = lock
    BY <1>0, <1>3 DEF ShiftFrom
  <2>2. CASE N > 1
    <3>1. Goto(c, "shift")
      BY <1>3, <2>2 DEF ShiftFrom
    <3>2. pc'[c] = "shift" => MirrorPlace(c)'
      BY <1>3, <2>1, <2>2 DEF MirrorPlace
    <3> QED
      BY <1>1, <1>3, <2>1, <3>1, <3>2, RotateAfter
  <2>3. CASE ~(N > 1)
    <3>1. Goto(c, "place") /\ N = 1
      BY <1>3, <2>3 DEF ShiftFrom
    <3>2. pc'[c] = "place" => MirrorPlace(c)'
      BY <1>3, <2>1, <3>1 DEF MirrorPlace
    <3> QED
      BY <1>1, <1>3, <2>1, <3>1, <3>2, RotateAfter
  <2> QED
    BY <2>2, <2>3
<1>4. CASE slot[0] = 0 /\ ShiftFrom(c, FALSE) /\ UNCHANGED <<slot, parked>>
  <2>1. parked = 0
    BY <1>0, <1>1, <1>4 DEF MirrorPlace
  <2>2. MirrorInv'
    BY <1>0, <1>1, <1>3, <1>4, <2>1
  <2> QED
    BY <1>1, <1>4, <2>2, FilesStay
<1>5. CASE slot[0] # 0 /\ parked' = slot[0] /\ slot' = [slot EXCEPT ![0] = 0] /\ ShiftFrom(c, TRUE)
  <2>1. slot'[0] = 0 /\ \A g \in 1..N : slot'[g] = slot[g]
    BY <1>0, <1>5
  <2>2. /\ \A g \in 1..N : slot[g] < slot[0]
        /\ parked <= slot[0] /\ (staged # 0 => slot[0] < staged) /\ (tmp # 0 => slot[0] < tmp)
    BY <1>0, <1>5 DEF InOrder
  <2>3. InOrder(slot', parked', staged, tmp)
    BY <1>0, <1>5, <2>1, <2>2 DEF InOrder
  <2>4. MirrorInv'
    BY <1>3, <1>5, <2>1, <2>3
  <2>5. parked <= parked' /\ staged <= staged' /\ slot[0] <= parked'
        /\ \A g \in 1..N : slot[g] <= slot'[g]
    BY <1>0, <1>1, <1>5, <2>1, <2>2
  <2>6. \A g \in 0..N : g = 0 \/ g \in 1..N
    OBVIOUS
  <2>7. NewestKept
    BY <1>1, <2>5, <2>6, PlacesKept DEF Outlived
  <2>8. EarlierKept
    BY <1>5, <2>1, <2>6, EarlierPlaced
  <2> QED
    BY <2>4, <2>7, <2>8
<1> QED
  BY <1>2, <1>4, <1>5 DEF ParkNewest

\* A generation takes the place of the one above it, which is older.
LEMMA OrderShifts ==
  ASSUME NEW s \in [0..N -> Nat], NEW p \in Nat, NEW n \in Nat, NEW t \in Nat,
         InOrder(s, p, n, t), NEW k \in 2..N, NEW s2 \in [0..N -> Nat],
         s[k - 1] # 0, s2[k] = s[k - 1], s2[k - 1] = 0,
         \A g \in 0..N \ {k, k - 1} : s2[g] = s[g]
  PROVE  InOrder(s2, p, n, t)
<1>0. k - 1 \in 1..N /\ \A g \in 0..N : s[g] \in Nat /\ s2[g] \in Nat
  <2>1. \A g \in 0..N : s[g] \in Nat
    OBVIOUS
  <2> QED
    BY <2>1
<1>1. \A i, j \in 0..N : i < j /\ s[i] # 0 => s[j] < s[i]
  BY DEF InOrder
<1>2. ASSUME NEW i \in 0..N, NEW j \in 0..N, i < j, s2[i] # 0 PROVE s2[j] < s2[i]
  <2>1. i # k - 1
    BY <1>2
  <2>2. CASE i = k
    <3>1. s2[i] = s[k - 1] /\ s2[j] = s[j] /\ k - 1 < j
      BY <1>2, <2>2
    <3> QED
      BY <1>0, <1>1, <3>1
  <2>3. CASE i # k
    <3>1. s2[i] = s[i]
      BY <2>1, <2>3
    <3>2. CASE j = k
      <4>1. i < k - 1
        BY <1>2, <2>1, <3>2
      <4> QED
        BY <1>0, <1>1, <1>2, <3>1, <3>2, <4>1
    <3>3. CASE j = k - 1
      BY <1>0, <1>2, <3>3
    <3>4. CASE j \notin {k, k - 1}
      BY <1>1, <1>2, <3>1, <3>4
    <3> QED
      BY <3>2, <3>3, <3>4
  <2> QED
    BY <2>2, <2>3
<1>3. \A g \in 1..N : s2[g] = 0 \/ \E h \in 1..N : s2[g] = s[h]
  BY <1>0
<1>4. s2[0] = 0 \/ s2[0] = s[0]
  BY <1>0
<1>5. ASSUME NEW g \in 0..N PROVE s2[g] = 0 \/ \E h \in 0..N : s2[g] = s[h]
  <2>1. CASE g = 0
    BY <1>4, <2>1
  <2>2. CASE g # 0
    <3>1. g \in 1..N /\ \A h \in 1..N : h \in 0..N
      BY <2>2
    <3> QED
      BY <1>3, <3>1
  <2> QED
    BY <2>1, <2>2
<1>6. p # 0 => (\A g \in 1..N : s2[g] < p) /\ (s2[0] # 0 => p < s2[0])
  BY <1>3, <1>4 DEF InOrder
<1>7. n # 0 => p < n /\ \A g \in 0..N : s2[g] < n
  <2>1. n # 0 => p < n /\ \A g \in 0..N : s[g] < n
    BY DEF InOrder
  <2>2. ASSUME n # 0, NEW g \in 0..N PROVE s2[g] < n
    <3>1. CASE s2[g] = 0
      BY <2>2, <3>1
    <3>2. CASE s2[g] # 0
      <4>1. PICK h \in 0..N : s2[g] = s[h]
        BY <1>5, <3>2
      <4> QED
        BY <2>1, <2>2, <4>1
    <3> QED
      BY <3>1, <3>2
  <2> QED
    BY <2>1, <2>2
<1>8. t # 0 => p < t /\ n < t /\ \A g \in 0..N : s2[g] < t
  <2>1. t # 0 => p < t /\ n < t /\ \A g \in 0..N : s[g] < t
    BY DEF InOrder
  <2>2. ASSUME t # 0, NEW g \in 0..N PROVE s2[g] < t
    <3>1. CASE s2[g] = 0
      BY <2>2, <3>1
    <3>2. CASE s2[g] # 0
      <4>1. PICK h \in 0..N : s2[g] = s[h]
        BY <1>5, <3>2
      <4> QED
        BY <2>1, <2>2, <4>1
    <3> QED
      BY <3>1, <3>2
  <2> QED
    BY <2>1, <2>2
<1> QED
  BY <1>2, <1>6, <1>7, <1>8 DEF InOrder

LEMMA MirrorShifts ==
  ASSUME Mirroring, NEW c \in Callers, ShiftGeneration(c)
  PROVE  MirrorInv' /\ NewestKept /\ EarlierKept
<1> DEFINE k == gen[c]
<1>0. /\ DayTyped /\ DayTyped' /\ InOrder(slot, parked, staged, tmp) /\ MirrorPlace(c)
      /\ MirrorRule(c) /\ gen \in [Callers -> 0..N] /\ whole \subseteq 1..taken
  BY MirrorFacts
<1> USE DEF DayTyped
<1>1. /\ pc[c] = "shift" /\ pc[c] \in ForeignSteps
      /\ UNCHANGED <<family, parked, tmp, staged, aside, whole, kind, taken, db, foreign>>
  BY DEF ShiftGeneration, copies, source, ForeignSteps
<1>2. k \in 2..N /\ k - 1 \in 1..N /\ k \in 1..N
  <2>1. k \in 2..N
    BY <1>1, MirrorFacts
  <2> QED
    BY <2>1
<1>3. slot[0] = 0 /\ (parkedIt[c] <=> parked # 0)
  BY <1>0, <1>1 DEF MirrorPlace
<1>4. foreign => \A g \in 1..N : ~HoldsLibrary(slot[g])
  BY <1>0, <1>1 DEF MirrorRule, NoLibraryBelow
<1>5. ASSUME NextShift(c), slot'[0] = 0, slot'[k - 1] = 0, InOrder(slot', parked', staged, tmp),
             \A g \in 1..N : slot'[g] \in {0, slot[g]} \/ (g > 1 /\ slot'[g] = slot[g - 1])
      PROVE  MirrorInv'
  <2>1. parkedIt' = parkedIt /\ lock' = lock /\ gen'[c] = k - 1
    BY <1>0, <1>5 DEF NextShift
  <2>2. CASE k = 2
    <3>1. Goto(c, "place") /\ slot'[1] = 0
      BY <1>5, <2>2 DEF NextShift
    <3>2. pc'[c] = "place" => MirrorPlace(c)'
      BY <1>1, <1>3, <1>5, <2>1, <3>1 DEF MirrorPlace
    <3> QED
      BY <1>1, <1>5, <2>1, <3>1, <3>2, RotateAfter
  <2>3. CASE k # 2
    <3>1. Goto(c, "shift")
      BY <1>5, <2>3 DEF NextShift
    <3>2. pc'[c] = "shift" => MirrorPlace(c)'
      BY <1>1, <1>3, <1>5, <2>1, <3>1 DEF MirrorPlace
    <3> QED
      BY <1>1, <1>5, <2>1, <3>1, <3>2, RotateAfter
  <2> QED
    BY <2>2, <2>3
<1>6. CASE slot[k - 1] = 0 /\ NextShift(c) /\ UNCHANGED slot
  <2>1. MirrorInv'
    BY <1>0, <1>1, <1>3, <1>5, <1>6
  <2> QED
    BY <1>1, <1>6, <2>1, FilesStay
<1>7. CASE /\ slot[k - 1] # 0 /\ slot' = [slot EXCEPT ![k] = slot[k - 1], ![k - 1] = 0]
           /\ NextShift(c)
  <2> HIDE DEF k
  <2>1. /\ slot'[k] = slot[k - 1] /\ slot'[k - 1] = 0
        /\ \A g \in 0..N \ {k, k - 1} : slot'[g] = slot[g]
    BY <1>0, <1>2, <1>7
  <2>2. InOrder(slot', parked', staged, tmp)
    BY <1>0, <1>1, <1>2, <1>7, <2>1, OrderShifts
  <2>3. slot'[0] = 0
    BY <1>2, <1>3, <2>1
  <2>4. \A g \in 1..N : slot'[g] \in {0, slot[g]} \/ (g > 1 /\ slot'[g] = slot[g - 1])
    BY <1>2, <2>1
  <2>5. MirrorInv'
    BY <1>5, <1>7, <2>1, <2>2, <2>3, <2>4
  <2>6. slot[k] < slot[k - 1]
    <3>1. \A i, j \in 0..N : i < j /\ slot[i] # 0 => slot[j] < slot[i]
      BY <1>0 DEF InOrder
    <3>2. PICK m \in 0..N : m = k - 1 /\ m < k /\ k \in 0..N
      BY <1>2
    <3>3. slot[m] # 0 => slot[k] < slot[m]
      BY <3>1, <3>2
    <3> QED
      BY <1>7, <3>2, <3>3
  <2>7. \A g \in 0..N : \E h \in 0..N : slot[g] <= slot'[h]
    <3>0. slot[k] \in Nat /\ slot[k - 1] \in Nat
      BY <1>0, <1>2
    <3>1. slot[k] <= slot'[k] /\ slot[k - 1] <= slot'[k]
      BY <2>1, <2>6, <3>0
    <3>2. \A g \in 0..N \ {k, k - 1} : slot[g] <= slot'[g]
      BY <1>0, <2>1
    <3> QED
      BY <1>2, <3>1, <3>2
  <2>8. parked <= parked' /\ staged <= staged'
    BY <1>0, <1>1
  <2>9. NewestKept
    BY <1>1, <2>7, <2>8, PlacesKept DEF Outlived
  <2>10. EarlierKept
    <3>1. foreign => \A g \in 0..N : slot[g] = 0 \/ ~HoldsLibrary(slot[g])
      BY <1>3, <1>4
    <3> QED
      BY <3>1, EarlierPlaced
  <2> QED
    BY <2>5, <2>9, <2>10
<1>8. CASE slot[k - 1] # 0 /\ TargetCleared(k) /\ Step(c, "unpark")
  <2> HIDE DEF k
  <2>1. \A g \in 0..N : slot'[g] \in {0, slot[g]} /\ (g # k => slot'[g] = slot[g])
    BY <1>0, <1>2, <1>8 DEF TargetCleared
  <2>2. InOrder(slot', parked', staged, tmp)
    BY <1>0, <1>1, <2>1, OrderThins
  <2>3. slot'[0] = 0
    BY <1>2, <1>3, <2>1
  <2>4. pc'[c] = "unpark" => MirrorPlace(c)'
    BY <2>3 DEF MirrorPlace
  <2>5. MirrorInv'
    BY <1>1, <1>8, <2>1, <2>2, <2>4, RotateAfter DEF Step
  <2>6. slot[k] < slot[k - 1]
    <3>1. \A i, j \in 0..N : i < j /\ slot[i] # 0 => slot[j] < slot[i]
      BY <1>0 DEF InOrder
    <3>2. PICK m \in 0..N : m = k - 1 /\ m < k /\ k \in 0..N
      BY <1>2
    <3>3. slot[m] # 0 => slot[k] < slot[m]
      BY <3>1, <3>2
    <3> QED
      BY <1>8, <3>2, <3>3
  <2>7. \A g \in 0..N : \E h \in 0..N : slot[g] <= slot'[h]
    <3>0. slot[k] \in Nat /\ slot[k - 1] \in Nat /\ slot'[k - 1] = slot[k - 1]
      BY <1>0, <1>2, <2>1
    <3>1. slot'[k - 1] = slot[k - 1] /\ slot[k] <= slot'[k - 1]
      BY <2>6, <3>0
    <3>2. \A g \in 0..N \ {k} : slot[g] <= slot'[g]
      BY <1>0, <2>1
    <3> QED
      BY <1>2, <3>1, <3>2
  <2>8. parked <= parked' /\ staged <= staged'
    BY <1>0, <1>1
  <2>9. NewestKept
    BY <1>1, <2>7, <2>8, PlacesKept DEF Outlived
  <2>10. EarlierKept
    <3>1. foreign => \A g \in 0..N : slot[g] = 0 \/ ~HoldsLibrary(slot[g])
      BY <1>3, <1>4
    <3> QED
      BY <3>1, EarlierPlaced
  <2> QED
    BY <2>5, <2>9, <2>10
<1> QED
  BY <1>6, <1>7, <1>8 DEF ShiftGeneration, MayRename

LEMMA MirrorPlaces ==
  ASSUME Mirroring, NEW c \in Callers, PlaceParked(c)
  PROVE  MirrorInv' /\ NewestKept /\ EarlierKept
<1>0. /\ DayTyped /\ DayTyped' /\ InOrder(slot, parked, staged, tmp) /\ MirrorPlace(c)
      /\ MirrorRule(c) /\ whole \subseteq 1..taken /\ parkedIt \in [Callers -> BOOLEAN]
  BY MirrorFacts
<1> USE DEF DayTyped
<1>1. /\ pc[c] = "place" /\ pc[c] \in ForeignSteps
      /\ UNCHANGED <<family, tmp, staged, aside, whole, kind, taken, db, foreign>>
  BY DEF PlaceParked, copies, source, ForeignSteps
<1>2. slot[0] = 0 /\ (parkedIt[c] <=> parked # 0) /\ \A g \in 0..N : g \in {0, 1} \/ g \in 2..N
  BY <1>0, <1>1 DEF MirrorPlace
<1>3. foreign => \A g \in 1..N : ~HoldsLibrary(slot[g])
  BY <1>0, <1>1 DEF MirrorRule, NoLibraryBelow
<1>4. EarlierKept
  <2>1. foreign => \A g \in 0..N : slot[g] = 0 \/ ~HoldsLibrary(slot[g])
    BY <1>2, <1>3
  <2> QED
    BY <2>1, EarlierPlaced
<1>5. CASE ~parkedIt[c] /\ UNCHANGED <<slot, parked>> /\ (Step(c, "promote") \/ End(c))
  <2>1. pc'[c] = "promote" => MirrorPlace(c)'
    BY <1>2, <1>5 DEF MirrorPlace
  <2>2. MirrorInv'
    BY <1>0, <1>1, <1>5, <2>1, RotateAfter DEF Step
  <2> QED
    BY <1>1, <1>5, <2>2, FilesStay
<1>6. CASE parked # 0 /\ slot' = [slot EXCEPT ![1] = parked] /\ parked' = 0
           /\ (Step(c, "promote") \/ End(c))
  <2>1. slot'[1] = parked /\ slot'[0] = 0 /\ \A g \in 2..N : slot'[g] = slot[g]
    BY <1>0, <1>2, <1>6
  <2>2. \A g \in 1..N : slot[g] < parked
    BY <1>0, <1>6 DEF InOrder
  <2>3. InOrder(slot', parked', staged, tmp)
    <3>1. \A i, j \in 0..N : i < j /\ slot'[i] # 0 => slot'[j] < slot'[i]
      <4> SUFFICES ASSUME NEW i \in 0..N, NEW j \in 0..N, i < j, slot'[i] # 0
                   PROVE  slot'[j] < slot'[i]
        OBVIOUS
      <4>1. i # 0 /\ j \in 2..N /\ j \in 1..N /\ slot'[j] = slot[j]
        BY <1>2, <2>1
      <4>2. CASE i = 1
        BY <2>1, <2>2, <4>1, <4>2
      <4>3. CASE i # 1
        <5>1. slot'[i] = slot[i]
          BY <1>2, <2>1, <4>1, <4>3
        <5> QED
          BY <1>0, <4>1, <5>1 DEF InOrder
      <4> QED
        BY <4>2, <4>3
    <3>2. \A g \in 0..N : slot'[g] \in {0, parked, slot[g]}
      BY <1>2, <2>1
    <3>3. staged # 0 => parked < staged /\ \A g \in 0..N : slot[g] < staged
      BY <1>0 DEF InOrder
    <3>4. tmp # 0 => parked < tmp /\ staged < tmp /\ \A g \in 0..N : slot[g] < tmp
      BY <1>0 DEF InOrder
    <3>5. staged # 0 => parked' < staged /\ \A g \in 0..N : slot'[g] < staged
      BY <1>0, <1>6, <3>2, <3>3
    <3>6. tmp # 0 => parked' < tmp /\ staged < tmp /\ \A g \in 0..N : slot'[g] < tmp
      BY <1>0, <1>6, <3>2, <3>4
    <3> QED
      BY <1>6, <3>1, <3>5, <3>6 DEF InOrder
  <2>4. pc'[c] = "promote" => MirrorPlace(c)'
    BY <1>6, <2>1 DEF MirrorPlace
  <2>5. MirrorInv'
    BY <1>1, <1>6, <2>3, <2>4, RotateAfter DEF Step
  <2>6. parked <= slot'[1] /\ staged <= staged' /\ \A g \in 0..N : slot[g] <= slot'[g]
    <3>1. slot[0] <= slot'[0] /\ slot[1] <= slot'[1] /\ \A g \in 2..N : slot[g] <= slot'[g]
      BY <1>0, <1>2, <2>1, <2>2
    <3>2. parked <= slot'[1] /\ staged <= staged'
      BY <1>0, <1>1, <2>1
    <3> QED
      BY <1>2, <3>1, <3>2
  <2>7. NewestKept
    BY <1>1, <2>6, PlacesKept DEF Outlived
  <2> QED
    BY <1>4, <2>5, <2>7
<1>7. CASE parkedIt[c] /\ TargetCleared(1) /\ UNCHANGED parked /\ Step(c, "unpark")
  <2>1. \A g \in 0..N : slot'[g] \in {0, slot[g]} /\ (g # 1 => slot'[g] = slot[g])
    BY <1>0, <1>7 DEF TargetCleared
  <2>2. InOrder(slot', parked', staged, tmp)
    BY <1>0, <1>7, <2>1, OrderThins
  <2>3. pc'[c] = "unpark" => MirrorPlace(c)'
    BY <1>2, <2>1 DEF MirrorPlace
  <2>4. MirrorInv'
    BY <1>1, <1>7, <2>1, <2>2, <2>3, RotateAfter DEF Step
  <2>5. slot[1] < parked
    BY <1>0, <1>2, <1>7 DEF InOrder
  <2>6. slot[1] <= parked' /\ parked <= parked' /\ staged <= staged'
        /\ \A g \in 0..N : g # 1 => slot[g] <= slot'[g]
    BY <1>0, <1>1, <1>7, <2>1, <2>5
  <2>7. NewestKept
    BY <1>1, <2>6, PlacesKept DEF Outlived
  <2> QED
    BY <1>4, <2>4, <2>7
<1> QED
  BY <1>5, <1>6, <1>7 DEF PlaceParked, MayRename

\* The end of a rotation: what is parked, or staged, becomes generation 0.
LEMMA NewestPlaced ==
  ASSUME Mirroring, NEW c \in Callers, pc[c] # "idle", End(c), slot[0] = 0,
         UNCHANGED <<family, tmp, aside, whole, taken>>,
         NEW s \in Nat, s # 0, slot' = [slot EXCEPT ![0] = s],
         \/ s = parked /\ parked' = 0 /\ staged' = staged
         \/ s = staged /\ staged' = 0 /\ parked' = parked /\ parked = 0
  PROVE  MirrorInv' /\ NewestKept /\ EarlierKept
<1>0. /\ DayTyped /\ DayTyped' /\ InOrder(slot, parked, staged, tmp) /\ whole \subseteq 1..taken
  BY MirrorFacts
<1> USE DEF DayTyped
<1>1. slot'[0] = s /\ (\A g \in 1..N : slot'[g] = slot[g]) /\ \A g \in 0..N : g = 0 \/ g \in 1..N
  BY <1>0
<1>2. \A g \in 1..N : slot[g] < s
  BY <1>0 DEF InOrder
<1>3. InOrder(slot', parked', staged', tmp')
  <2>1. \A i, j \in 0..N : i < j /\ slot'[i] # 0 => slot'[j] < slot'[i]
    <3> SUFFICES ASSUME NEW i \in 0..N, NEW j \in 0..N, i < j, slot'[i] # 0
                 PROVE  slot'[j] < slot'[i]
      OBVIOUS
    <3>1. j \in 1..N /\ slot'[j] = slot[j]
      BY <1>1
    <3> QED
      BY <1>0, <1>1, <1>2, <3>1 DEF InOrder
  <2>2. parked' = 0
    OBVIOUS
  <2>3. staged' # 0 => parked' < staged' /\ \A g \in 0..N : slot'[g] < staged'
    BY <1>0, <1>1 DEF InOrder
  <2>4. tmp # 0 => s < tmp /\ staged < tmp /\ \A g \in 0..N : slot[g] < tmp
    BY <1>0 DEF InOrder
  <2>5. tmp' # 0 => parked' < tmp' /\ staged' < tmp' /\ \A g \in 0..N : slot'[g] < tmp'
    BY <1>0, <1>1, <2>2, <2>4
  <2> QED
    BY <2>1, <2>2, <2>3, <2>5 DEF InOrder
<1>4. MirrorInv'
  <2>1. MirrorOrder'
    BY <1>0, <1>3 DEF MirrorOrder
  <2>2. pc'[c] = "idle"
    BY <1>0 DEF End, Goto
  <2> QED
    BY <2>1, <2>2, MirrorRunAfter
<1>5. parked <= slot'[0] /\ (staged <= staged' \/ staged <= slot'[0])
      /\ \A g \in 0..N : slot[g] <= slot'[g]
  BY <1>0, <1>1
<1>6. NewestKept
  BY <1>5, PlacesKept DEF Outlived
<1>7. EarlierKept
  BY <1>1, EarlierPlaced
<1> QED
  BY <1>4, <1>6, <1>7

LEMMA MirrorEnds ==
  ASSUME Mirroring, NEW c \in Callers, Unpark(c) \/ Promote(c)
  PROVE  MirrorInv' /\ NewestKept /\ EarlierKept
<1>0. DayTyped /\ MirrorPlace(c) /\ MirrorOrder
  BY MirrorFacts DEF MirrorOrder
<1> USE DEF DayTyped
<1>1. /\ pc[c] \in {"unpark", "promote"} /\ End(c)
      /\ UNCHANGED <<family, tmp, aside, whole, taken>>
  BY DEF Unpark, Promote, copies, Mirroring
<1>2. slot[0] = 0 /\ (pc[c] = "promote" => parked = 0)
  BY <1>0, <1>1 DEF MirrorPlace
<1>3. CASE UNCHANGED <<slot, parked, staged>>
  <2>1. MirrorOrder'
    BY <1>0, <1>1, <1>3 DEF MirrorOrder
  <2>2. pc'[c] = "idle"
    BY <1>0, <1>1 DEF End, Goto
  <2>3. MirrorInv'
    BY <1>1, <2>1, <2>2, MirrorRunAfter
  <2> QED
    BY <1>1, <1>3, <2>3, FilesStay
<1>4. CASE /\ parked # 0 /\ slot' = [slot EXCEPT ![0] = parked] /\ parked' = 0
           /\ staged' = staged
  BY <1>0, <1>1, <1>2, <1>4, NewestPlaced
<1>5. CASE /\ pc[c] = "promote" /\ staged # 0 /\ slot' = [slot EXCEPT ![0] = staged]
           /\ staged' = 0 /\ parked' = parked
  BY <1>0, <1>1, <1>2, <1>5, NewestPlaced
<1>6. CASE Unpark(c)
  BY <1>3, <1>4, <1>6 DEF Unpark, MayRename
<1>7. CASE Promote(c)
  <2>1. Fresh = staged /\ family # "daily"
    BY DEF Mirroring, Fresh
  <2> QED
    BY <1>3, <1>5, <1>7, <2>1 DEF Promote, MayRename
<1> QED
  BY <1>6, <1>7

\* The database may become another one, or none, only while no run is under
\* way, or between the runs of a mirror that asks for a database.
LEMMA MirrorApart ==
  ASSUME Mirroring, Database \/ World \/ UNCHANGED vars
  PROVE  MirrorInv' /\ NewestKept /\ EarlierKept
<1>0. MirrorOrder /\ \A c \in Callers : MirrorPlace(c) /\ MirrorRule(c)
  BY DEF Mirroring, MirrorInv
<1>1. UNCHANGED <<family, slot, parked, tmp, staged, aside, whole, kind, taken>>
  BY DEF Database, Restore, SetAsideBackup, CreateEmpty, Decay, FullCheck, Edit, Import, World,
         Expire, Hold, Release, Crash, vars, files, copies, Mirroring
<1>2. MirrorOrder'
  BY <1>0, <1>1 DEF MirrorOrder
<1>3. ASSUME \A c \in Callers : pc'[c] = "idle" PROVE MirrorInv'
  BY <1>2, <1>3 DEF MirrorInv, MirrorPlace, MirrorRule, ForeignSteps
<1>4. ASSUME UNCHANGED <<pc, gen, parkedIt, mine, foreign>>,
             db' # db => db' # "missing" \/ \A c \in Callers : pc[c] = "idle"
      PROVE  MirrorInv'
  <2>1. \A c \in Callers : MirrorPlace(c)'
    BY <1>0, <1>1, <1>4 DEF MirrorPlace
  <2>2. NoLibraryBelow' <=> NoLibraryBelow
    BY <1>1 DEF NoLibraryBelow, HoldsLibrary
  <2>3. \A c \in Callers : MirrorRule(c)'
    BY <1>0, <1>1, <1>4, <2>2 DEF MirrorRule, ForeignSteps
  <2> QED
    BY <1>2, <2>1, <2>3 DEF MirrorInv
<1>5. CASE CreateEmpty
  <2>1. \A c \in Callers : pc'[c] = "idle"
    BY <1>0, <1>5 DEF CreateEmpty, MirrorRule, run
  <2> QED
    BY <1>1, <1>3, <2>1, FilesStay
<1>6. CASE Import
  BY <1>1, <1>3, <1>6, FilesStay DEF Import, NoneRuns, run
<1>7. CASE Crash
  BY <1>1, <1>3, <1>7, FilesStay DEF Crash
<1>8. CASE Decay \/ Edit
  BY <1>1, <1>4, <1>8, FilesStay DEF Decay, Edit, NoneRuns, run
<1>9. CASE FullCheck \/ Expire \/ Hold \/ Release \/ UNCHANGED vars
  BY <1>1, <1>4, <1>9, FilesStay DEF FullCheck, Expire, Hold, Release, vars, run, source
<1> QED
  BY <1>5, <1>6, <1>7, <1>8, <1>9
  DEF Database, World, Restore, SetAsideBackup, Mirroring

LEMMA MirrorKeeps ==
  ASSUME ~overlapped', Typed, DayInv, MirrorWhole, MirrorInv, [Next]_vars
  PROVE  MirrorInv' /\ (family = "mirror" => NewestKept /\ EarlierKept)
<1>1. CASE family = "mirror"
  <2>1. Mirroring
    BY <1>1, NextTyped, MirrorStep DEF Mirroring
  <2> QED
    BY <2>1, MirrorBegins, MirrorWritesKeep, MirrorPutsBack, MirrorParks, MirrorShifts,
       MirrorPlaces, MirrorEnds, MirrorApart DEF Next, Caller, Rotate
<1>2. CASE family # "mirror"
  BY <1>2, FamilyStays DEF MirrorInv
<1> QED
  BY <1>1, <1>2

\* Whatever is held, refused, torn or killed, and whichever caller asks, the
\* mirror keeps its newest whole copy, in a generation, parked or staged
\* (external.rs: the copy is checked under .new before the rotation, and a
\* leftover .new is adopted), and rotates out no copy of a library that
\* another database left in its folder (set_aside_earlier_lineage), until two
\* of its runs overlap.
THEOREM MirrorKeepsItsCopies == Spec => MirrorsKept
<1>1. ~overlapped' /\ Typed /\ DayInv /\ MirrorWhole /\ MirrorInv /\ [Next]_vars
        => (family = "mirror" /\ ~overlapped' => NewestKept /\ EarlierKept)
  BY MirrorKeeps
<1>2. ~overlapped' /\ Typed /\ DayInv /\ MirrorWhole /\ MirrorInv /\ [Next]_vars => MirrorInv'
  BY MirrorKeeps
<1>3. overlapped' => (family = "mirror" /\ ~overlapped' => NewestKept /\ EarlierKept)
  OBVIOUS
<1>4. Init => MirrorsOnly
  BY DEF Init, MirrorsOnly
<1> QED
  BY <1>1, <1>2, <1>3, <1>4, InitTyped, NextTyped, DayInit, DayStep, MirrorInit, MirrorStep,
     MirrorInvInit, OverlapStays, PTL DEF Spec, MirrorsKept
=============================================================================
