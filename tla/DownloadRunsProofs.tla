-------------------------- MODULE DownloadRunsProofs --------------------------
(***************************************************************************)
(* Proofs about DownloadRuns, for any number of calls, ids and permits,    *)
(* and whatever the calls are.                                             *)
(***************************************************************************)
EXTENDS DownloadRuns, Integers, FiniteSetTheorems, TLAPS

USE RunsAssumption

\* What the proofs need of the types.
RunsTyped ==
  /\ kind \in [Runs -> AllKinds \cup {None}]
  /\ pc \in [Runs -> Steps] /\ id \in [Runs -> Ids \cup {None}]
  /\ registry \in [Ids -> Runs \cup {None}] /\ pidOf \subseteq Ids /\ tracked \subseteq Runs
  /\ want \in [Runs -> Gates] /\ holds \in [Runs -> SUBSET Gates]

(***************************************************************************)
(* The gates a run is inside, by its place: a download keeps its permit of *)
(* one from the moment it has it until its folder is gone, and takes one   *)
(* of the other for its metadata on the way.                               *)
(***************************************************************************)
ProbeSteps    == {"spawn", "track", "wait", "drain"}
DownloadSteps == {"decide", "launch", "record", "supervise", "drainOutput", "place", "extras",
                  "cleanup"}
Waiting       == {"reserve", "rollback", "queued"}
Leaving       == {"giveSlot", "givePermit"}
Outside       == {"idle", "refused", "unregister", "ended"}

Base(r) == IF kind[r] = "download" THEN {"downloads"} ELSE {}

HoldsByPlace ==
  \A r \in Runs :
    /\ want[r] = "downloads" => kind[r] = "download"
    /\ pc[r] \in Outside => holds[r] = {}
    /\ pc[r] \in Waiting => holds[r] = (IF want[r] = "downloads" THEN {} ELSE Base(r))
    /\ pc[r] = "prepare" => holds[r] = Base(r)
    /\ pc[r] \in ProbeSteps => want[r] = "standalone" /\ holds[r] = Base(r) \cup {"standalone"}
    /\ pc[r] \in Leaving =>
         holds[r] = (IF want[r] = "downloads" THEN {"downloads"} ELSE Base(r) \cup {"standalone"})
    /\ pc[r] \in DownloadSteps => kind[r] = "download" /\ holds[r] = {"downloads"}

\* Only a plain probe runs without an id.
Named ==
  \A r \in Runs :
    /\ pc[r] = "idle" => id[r] = None
    /\ kind[r] = "download" /\ pc[r] \notin {"idle", "refused"} => id[r] # None

PlacesInv == RunsTyped /\ HoldsByPlace /\ Named

LEMMA PlacesInit == Init => PlacesInv
  BY DEF Init, PlacesInv, RunsTyped, HoldsByPlace, Named, AllKinds, Steps, Gates, Outside, Waiting,
         ProbeSteps, Leaving, DownloadSteps

\* A step of one run.
LEMMA PlacesRun ==
  ASSUME PlacesInv, NEW r \in Runs,
         RefuseInputs(r) \/ Register(r) \/ StartPlain(r) \/ Run(r) \/ Notice(r) \/ ChildExits(r)
  PROVE  PlacesInv'
<1> USE DEF PlacesInv, RunsTyped, HoldsByPlace, Named, Base, Steps, Gates, AllKinds, Outside, Waiting,
            ProbeSteps, Leaving, DownloadSteps, At, Goto, IsDownload,
            callVars, gateVars, regVars, procVars, fileVars
<1>1. CASE RefuseInputs(r)
  BY <1>1 DEF RefuseInputs
<1>2. CASE Register(r)
  BY <1>2 DEF Register
<1>3. CASE StartPlain(r)
  BY <1>3 DEF StartPlain
<1>4. CASE Notice(r) \/ ChildExits(r)
  BY <1>4, ZenonT(60) DEF Notice, ChildExits
<1>5. CASE Reserve(r)
  BY <1>5 DEF Reserve
<1>6. CASE Rollback(r)
  BY <1>6 DEF Rollback, NoPermit
<1>7. CASE TakePermit(r)
  BY <1>7, ZenonT(60) DEF TakePermit
<1>8. CASE CancelQueued(r)
  BY <1>8 DEF CancelQueued, NoPermit
<1>9. CASE GiveSlot(r)
  BY <1>9 DEF GiveSlot
<1>10. CASE GivePermit(r)
  BY <1>10 DEF GivePermit
<1>11. CASE Prepare(r)
  BY <1>11 DEF Prepare
<1>12. CASE SpawnProbe(r)
  BY <1>12 DEF SpawnProbe
<1>13. CASE TrackProbe(r)
  BY <1>13 DEF TrackProbe
<1>14. CASE ProbeEnds(r)
  BY <1>14 DEF ProbeEnds
<1>15. CASE DrainProbe(r)
  BY <1>15 DEF DrainProbe
<1>16. CASE Decide(r)
  BY <1>16 DEF Decide
<1>17. CASE SpawnDownload(r)
  BY <1>17 DEF SpawnDownload
<1>18. CASE RecordPid(r)
  BY <1>18 DEF RecordPid
<1>19. CASE RequestKill(r)
  BY <1>19 DEF RequestKill
<1>20. CASE KillAgain(r)
  BY <1>20 DEF KillAgain
<1>21. CASE Reap(r)
  BY <1>21 DEF Reap
<1>22. CASE Drained(r)
  BY <1>22 DEF Drained
<1>23. CASE PlaceFile(r)
  BY <1>23 DEF PlaceFile
<1>24. CASE Finish(r)
  BY <1>24 DEF Finish
<1>25. CASE Cleanup(r)
  BY <1>25 DEF Cleanup
<1>26. CASE Unregister(r)
  BY <1>26 DEF Unregister
<1> QED
  BY <1>1, <1>2, <1>3, <1>4, <1>5, <1>6, <1>7, <1>8, <1>9, <1>10, <1>11, <1>12, <1>13, <1>14, <1>15, <1>16, <1>17, <1>18, <1>19, <1>20, <1>21, <1>22, <1>23, <1>24, <1>25, <1>26
     DEF Run

\* A cancel and the exit of the app move no run.
LEMMA PlacesWorld ==
  ASSUME PlacesInv, (\E i \in Ids : Cancel(i)) \/ ExitSignal \/ ExitKill \/ ExitSweep \/ Exit
                    \/ Over \/ UNCHANGED vars
  PROVE  PlacesInv'
<1>1. UNCHANGED <<kind, pc, id, registry, pidOf, tracked, want, holds>>
  BY DEF Cancel, ExitSignal, ExitKill, ExitSweep, Exit, Over, vars, callVars, gateVars, regVars
<1> QED
  BY <1>1 DEF PlacesInv, RunsTyped, HoldsByPlace, Named, Base

LEMMA PlacesStep == PlacesInv /\ [Next]_vars => PlacesInv'
  BY PlacesRun, PlacesWorld DEF Next

(***************************************************************************)
(* Who is registered.  RunsTracked is inductive once it is said that an    *)
(* entry of the registry is a run that is under way and has that id: what  *)
(* the release guard takes away is then its own entry and nobody else's.   *)
(***************************************************************************)
EntriesOwned ==
  \A i \in Ids :
    registry[i] # None =>
      id[registry[i]] = i /\ pc[registry[i]] \notin {"idle", "refused", "ended"}

TrackedInv == EntriesOwned /\ RunsTracked

LEMMA TrackedInit == Init => TrackedInv
  BY DEF Init, TrackedInv, EntriesOwned, RunsTracked, RunsListed, PidForgotten

\* A step of one run that leaves the registries alone and does not take it
\* out of the places they speak of.
LEMMA TrackedElsewhere ==
  ASSUME PlacesInv, TrackedInv, NEW r \in Runs,
         UNCHANGED <<id, registry, pidOf, tracked>>,
         NEW step \in Steps, pc' = [pc EXCEPT ![r] = step],
         pc[r] \notin {"idle", "refused", "ended"}, step \notin {"idle", "refused", "ended"},
         pc[r] \in {"record", "supervise", "drainOutput"} =>
           step \in {"record", "supervise", "drainOutput"},
         pc[r] \in {"wait", "drain", "supervise", "drainOutput"} =>
           step \in {"wait", "drain", "supervise", "drainOutput"}
  PROVE  TrackedInv'
  BY DEF PlacesInv, RunsTyped, TrackedInv, EntriesOwned, RunsTracked, RunsListed, PidForgotten

LEMMA TrackedRun ==
  ASSUME PlacesInv, PlacesInv', TrackedInv, NEW r \in Runs,
         RefuseInputs(r) \/ Register(r) \/ StartPlain(r) \/ Run(r) \/ Notice(r) \/ ChildExits(r)
  PROVE  TrackedInv'
<1> USE DEF At, Goto, IsDownload, callVars, gateVars, regVars, procVars, fileVars
<1>1. CASE RefuseInputs(r)
  BY <1>1 DEF RefuseInputs, PlacesInv, RunsTyped, Named, TrackedInv, EntriesOwned, RunsTracked,
              RunsListed, PidForgotten
<1>2. CASE Register(r)
  BY <1>2 DEF Register, PlacesInv, RunsTyped, Named, TrackedInv, EntriesOwned, RunsTracked,
              RunsListed, PidForgotten
<1>3. CASE StartPlain(r)
  BY <1>3 DEF StartPlain, PlacesInv, RunsTyped, Named, TrackedInv, EntriesOwned, RunsTracked,
              RunsListed, PidForgotten
<1>4. CASE Notice(r) \/ ChildExits(r) \/ RequestKill(r) \/ KillAgain(r)
  BY <1>4 DEF Notice, ChildExits, RequestKill, KillAgain, TrackedInv, EntriesOwned, RunsTracked,
              RunsListed, PidForgotten
<1>5. CASE Reserve(r) \/ Rollback(r) \/ TakePermit(r) \/ CancelQueued(r)
  BY <1>5, TrackedElsewhere DEF Reserve, Rollback, TakePermit, CancelQueued, NoPermit, Steps
<1>6. CASE GiveSlot(r) \/ GivePermit(r) \/ Prepare(r) \/ SpawnProbe(r)
  BY <1>6, TrackedElsewhere DEF GiveSlot, GivePermit, Prepare, SpawnProbe, Steps
<1>7. CASE ProbeEnds(r) \/ Decide(r) \/ SpawnDownload(r) \/ Reap(r)
  BY <1>7, TrackedElsewhere DEF ProbeEnds, Decide, SpawnDownload, Reap, Steps
<1>8. CASE PlaceFile(r) \/ Finish(r) \/ Cleanup(r)
  BY <1>8, TrackedElsewhere DEF PlaceFile, Finish, Cleanup, Steps
<1>9. CASE TrackProbe(r)
  BY <1>9 DEF TrackProbe, PlacesInv, RunsTyped, TrackedInv, EntriesOwned, RunsTracked, RunsListed,
              PidForgotten
<1>10. CASE DrainProbe(r)
  BY <1>10 DEF DrainProbe, PlacesInv, RunsTyped, TrackedInv, EntriesOwned, RunsTracked, RunsListed,
              PidForgotten
<1>11. CASE RecordPid(r)
  BY <1>11 DEF RecordPid, PlacesInv, RunsTyped, HoldsByPlace, DownloadSteps, Named, TrackedInv,
              EntriesOwned, RunsTracked, RunsListed, PidForgotten
<1>12. CASE Drained(r)
  BY <1>12 DEF Drained, PlacesInv, RunsTyped, HoldsByPlace, DownloadSteps, Named, TrackedInv,
              EntriesOwned, RunsTracked, RunsListed, PidForgotten
<1>13. CASE Unregister(r)
  BY <1>13 DEF Unregister, PlacesInv, RunsTyped, Named, TrackedInv, EntriesOwned, RunsTracked,
              RunsListed, PidForgotten
<1> QED
  BY <1>1, <1>2, <1>3, <1>4, <1>5, <1>6, <1>7, <1>8, <1>9, <1>10, <1>11, <1>12, <1>13 DEF Run

LEMMA TrackedWorld ==
  ASSUME TrackedInv, (\E i \in Ids : Cancel(i)) \/ ExitSignal \/ ExitKill \/ ExitSweep \/ Exit
                     \/ Over \/ UNCHANGED vars
  PROVE  TrackedInv'
<1>1. UNCHANGED <<pc, id, registry, pidOf, tracked>>
  BY DEF Cancel, ExitSignal, ExitKill, ExitSweep, Exit, Over, vars, callVars, gateVars, regVars
<1> QED
  BY <1>1 DEF TrackedInv, EntriesOwned, RunsTracked, RunsListed, PidForgotten

LEMMA TrackedStep == PlacesInv /\ TrackedInv /\ [Next]_vars => TrackedInv'
  BY PlacesStep, TrackedRun, TrackedWorld DEF Next

\* From its registration to its end a run is the one its id names, and a
\* pid or a tracked child is named only while its run supervises it
\* (yt_dlp/registry.rs, process_registry.rs), for any number of runs that
\* are refused, cancelled, killed or ended by the exit of the app.
THEOREM RunsAreTracked == Spec => []RunsTracked
<1>1. Init => PlacesInv /\ TrackedInv
  BY PlacesInit, TrackedInit
<1>2. PlacesInv /\ TrackedInv /\ [Next]_vars => (PlacesInv /\ TrackedInv)'
  BY PlacesStep, TrackedStep
<1>3. TrackedInv => RunsTracked
  BY DEF TrackedInv
<1> QED
  BY <1>1, <1>2, <1>3, PTL DEF Spec

(***************************************************************************)
(* What becomes of a finished file.  The run folder is removed in one      *)
(* place, and DownloadKept holds because of what is known there: a file    *)
(* still in a folder about to go belongs to a run that was cancelled or    *)
(* given up.                                                               *)
(***************************************************************************)
FilesTyped ==
  /\ place \in [Runs -> Places] /\ folder \in [Runs -> BOOLEAN]
  /\ result \in [Runs -> {"none", "ok", "cancelled", "failed"}]
  /\ exitOk \in [Runs -> BOOLEAN] /\ proc \in [Runs -> {"none", "own", "zombie"}]

Past == {"giveSlot", "givePermit", "unregister", "ended"}

Told(r) ==
  /\ place[r] # "nowhere" =>
       /\ pc[r] \in {"drainOutput", "place", "extras", "cleanup"} \cup Past
       /\ pc[r] \in Leaving => want[r] = "downloads"
  /\ pc[r] = "drainOutput" => proc[r] = "none"
  /\ pc[r] = "extras" => place[r] = "library"
  /\ place[r] = "runFolder" /\ pc[r] = "drainOutput" => exitOk[r]
  /\ place[r] = "runFolder" /\ pc[r] = "cleanup" /\ folder[r] =>
       result[r] = "cancelled" \/ gaveUp[r]
  /\ place[r] = "deleted" => pc[r] \in Past /\ (result[r] = "cancelled" \/ gaveUp[r])

FoldersTold == \A r \in Runs : Told(r)

KeptInv == FilesTyped /\ FoldersTold

LEMMA KeptInit == Init => KeptInv
  BY DEF Init, KeptInv, FilesTyped, FoldersTold, Told, Places

\* A run that has no file, and gets none.
LEMMA KeptWithoutFile ==
  ASSUME KeptInv, FilesTyped', NEW r \in Runs, place' = place, place[r] = "nowhere",
         pc'[r] \notin {"drainOutput", "extras"},
         \A q \in Runs \ {r} :
           /\ pc'[q] = pc[q] /\ want'[q] = want[q] /\ result'[q] = result[q]
           /\ proc'[q] = proc[q] /\ folder'[q] = folder[q]
           /\ (exitOk'[q] <=> exitOk[q]) /\ (gaveUp'[q] <=> gaveUp[q])
  PROVE  KeptInv'
<1> SUFFICES ASSUME NEW q \in Runs PROVE Told(q)'
  BY DEF KeptInv, FoldersTold
<1>1. CASE q = r
  BY <1>1 DEF Told
<1>2. CASE q # r
  <2>1. Told(q)
    BY DEF KeptInv, FoldersTold
  <2> QED
    BY <1>2, <2>1 DEF Told
<1> QED
  BY <1>1, <1>2

LEMMA KeptRun ==
  ASSUME PlacesInv, KeptInv, NEW r \in Runs,
         RefuseInputs(r) \/ Register(r) \/ StartPlain(r) \/ Run(r) \/ Notice(r) \/ ChildExits(r)
  PROVE  KeptInv'
<1> USE DEF At, Goto, Return, IsDownload, callVars, gateVars, regVars, procVars, fileVars,
            PlacesInv, RunsTyped, HoldsByPlace, Steps, Past, Leaving, DownloadSteps, Places,
            KeptInv, FilesTyped, FoldersTold, Told
<1>1. CASE RefuseInputs(r)
  BY <1>1 DEF RefuseInputs
<1>2. CASE Register(r)
  BY <1>2 DEF Register
<1>3. CASE StartPlain(r)
  BY <1>3 DEF StartPlain
<1>4. CASE Notice(r)
  BY <1>4 DEF Notice
<1>5. CASE ChildExits(r)
  BY <1>5 DEF ChildExits
<1>6. CASE Reserve(r)
  <2>1. place[r] = "nowhere" /\ place' = place
        /\ pc'[r] \notin {"drainOutput", "extras"}
    BY <1>6 DEF Reserve
  <2>2. FilesTyped'
    BY <1>6 DEF Reserve
  <2>3. \A q \in Runs \ {r} :
           /\ pc'[q] = pc[q] /\ want'[q] = want[q] /\ result'[q] = result[q]
           /\ proc'[q] = proc[q] /\ folder'[q] = folder[q]
           /\ (exitOk'[q] <=> exitOk[q]) /\ (gaveUp'[q] <=> gaveUp[q])
    BY <1>6 DEF Reserve
  <2> QED
    BY <2>1, <2>2, <2>3, KeptWithoutFile
<1>7. CASE Rollback(r)
  BY <1>7 DEF Rollback, NoPermit
<1>8. CASE TakePermit(r)
  BY <1>8 DEF TakePermit
<1>9. CASE CancelQueued(r)
  BY <1>9 DEF CancelQueued, NoPermit
<1>10. CASE GiveSlot(r)
  BY <1>10 DEF GiveSlot
<1>11. CASE GivePermit(r)
  BY <1>11 DEF GivePermit
<1>12. CASE Prepare(r)
  <2>1. place[r] = "nowhere" /\ place' = place
        /\ pc'[r] \notin {"drainOutput", "extras"}
    BY <1>12 DEF Prepare
  <2>2. FilesTyped'
    BY <1>12, ZenonT(60) DEF Prepare
  <2>3. \A q \in Runs \ {r} :
           /\ pc'[q] = pc[q] /\ want'[q] = want[q] /\ result'[q] = result[q]
           /\ proc'[q] = proc[q] /\ folder'[q] = folder[q]
           /\ (exitOk'[q] <=> exitOk[q]) /\ (gaveUp'[q] <=> gaveUp[q])
    BY <1>12 DEF Prepare
  <2> QED
    BY <2>1, <2>2, <2>3, KeptWithoutFile
<1>13. CASE SpawnProbe(r)
  <2>1. place[r] = "nowhere" /\ place' = place
        /\ pc'[r] \notin {"drainOutput", "extras"}
    BY <1>13 DEF SpawnProbe
  <2>2. FilesTyped'
    BY <1>13, ZenonT(60) DEF SpawnProbe
  <2>3. \A q \in Runs \ {r} :
           /\ pc'[q] = pc[q] /\ want'[q] = want[q] /\ result'[q] = result[q]
           /\ proc'[q] = proc[q] /\ folder'[q] = folder[q]
           /\ (exitOk'[q] <=> exitOk[q]) /\ (gaveUp'[q] <=> gaveUp[q])
    BY <1>13 DEF SpawnProbe
  <2> QED
    BY <2>1, <2>2, <2>3, KeptWithoutFile
<1>14. CASE TrackProbe(r)
  BY <1>14 DEF TrackProbe
<1>15. CASE ProbeEnds(r)
  <2>1. place[r] = "nowhere" /\ place' = place
        /\ pc'[r] \notin {"drainOutput", "extras"}
    BY <1>15 DEF ProbeEnds
  <2>2. FilesTyped'
    BY <1>15, ZenonT(60) DEF ProbeEnds
  <2>3. \A q \in Runs \ {r} :
           /\ pc'[q] = pc[q] /\ want'[q] = want[q] /\ result'[q] = result[q]
           /\ proc'[q] = proc[q] /\ folder'[q] = folder[q]
           /\ (exitOk'[q] <=> exitOk[q]) /\ (gaveUp'[q] <=> gaveUp[q])
    BY <1>15 DEF ProbeEnds
  <2> QED
    BY <2>1, <2>2, <2>3, KeptWithoutFile
<1>16. CASE DrainProbe(r)
  BY <1>16 DEF DrainProbe
<1>17. CASE Decide(r)
  BY <1>17, SMTT(30) DEF Decide
<1>18. CASE SpawnDownload(r)
  <2>1. place[r] = "nowhere" /\ place' = place
        /\ pc'[r] \notin {"drainOutput", "extras"}
    BY <1>18 DEF SpawnDownload
  <2>2. FilesTyped'
    <3>1. proc' \in [Runs -> {"none", "own", "zombie"}]
      BY <1>18 DEF SpawnDownload
    <3>2. exitOk' \in [Runs -> BOOLEAN]
      BY <1>18 DEF SpawnDownload
    <3>3. result' \in [Runs -> {"none", "ok", "cancelled", "failed"}]
      BY <1>18 DEF SpawnDownload
    <3> QED
      BY <1>18, <3>1, <3>2, <3>3 DEF SpawnDownload
  <2>3. \A q \in Runs \ {r} :
           /\ pc'[q] = pc[q] /\ want'[q] = want[q] /\ result'[q] = result[q]
           /\ proc'[q] = proc[q] /\ folder'[q] = folder[q]
           /\ (exitOk'[q] <=> exitOk[q]) /\ (gaveUp'[q] <=> gaveUp[q])
    BY <1>18 DEF SpawnDownload
  <2> QED
    BY <2>1, <2>2, <2>3, KeptWithoutFile
<1>19. CASE RecordPid(r)
  BY <1>19 DEF RecordPid
<1>20. CASE RequestKill(r)
  BY <1>20 DEF RequestKill, KillTree
<1>21. CASE KillAgain(r)
  BY <1>21 DEF KillAgain
<1>22. CASE Reap(r)
  BY <1>22 DEF Reap
<1>23. CASE Drained(r)
  BY <1>23 DEF Drained, Ending
<1>24. CASE PlaceFile(r)
  <2>1. place' \in [Runs -> Places]
    BY <1>24 DEF PlaceFile
  <2>2. folder' \in [Runs -> BOOLEAN]
    BY <1>24 DEF PlaceFile
  <2>3. result' \in [Runs -> {"none", "ok", "cancelled", "failed"}] /\ UNCHANGED <<exitOk, proc>>
    BY <1>24 DEF PlaceFile
  <2>4. FilesTyped'
    BY <2>1, <2>2, <2>3
  <2>5. \A q \in Runs \ {r} : Told(q)'
    BY <1>24 DEF PlaceFile
  <2>6. Told(r)'
    BY <1>24 DEF PlaceFile
  <2> QED
    BY <2>4, <2>5, <2>6
<1>25. CASE Finish(r)
  <2>1. place' \in [Runs -> Places]
    BY <1>25 DEF Finish
  <2>2. result' \in [Runs -> {"none", "ok", "cancelled", "failed"}]
        /\ UNCHANGED <<folder, exitOk, proc>>
    BY <1>25 DEF Finish
  <2>3. FilesTyped'
    BY <2>1, <2>2
  <2>4. \A q \in Runs \ {r} : Told(q)'
    BY <1>25 DEF Finish
  <2>5. Told(r)'
    BY <1>25 DEF Finish
  <2> QED
    BY <2>3, <2>4, <2>5
<1>26. CASE Cleanup(r)
  BY <1>26 DEF Cleanup
<1>27. CASE Unregister(r)
  BY <1>27 DEF Unregister
<1> QED
  BY <1>1, <1>2, <1>3, <1>4, <1>5, <1>6, <1>7, <1>8, <1>9, <1>10, <1>11, <1>12, <1>13, <1>14, <1>15, <1>16, <1>17, <1>18, <1>19, <1>20, <1>21, <1>22, <1>23, <1>24, <1>25, <1>26, <1>27
     DEF Run

LEMMA KeptWorld ==
  ASSUME KeptInv, (\E i \in Ids : Cancel(i)) \/ ExitSignal \/ ExitKill \/ ExitSweep \/ Exit
                  \/ Over \/ UNCHANGED vars
  PROVE  KeptInv'
<1>1. UNCHANGED <<place, folder, result, exitOk, gaveUp, pc, want>>
  BY DEF Cancel, ExitSignal, ExitKill, ExitSweep, Exit, Over, vars, callVars, gateVars, regVars,
         procVars, fileVars
<1>2. /\ proc' \in [Runs -> {"none", "own", "zombie"}]
      /\ \A r \in Runs : proc[r] = "none" => proc'[r] = "none"
  BY DEF Cancel, ExitSignal, ExitKill, ExitSweep, Exit, Over, vars, procVars, KillTree, KeptInv,
         FilesTyped
<1> QED
  BY <1>1, <1>2 DEF KeptInv, FilesTyped, FoldersTold, Told

\* A finished download is thrown away only by the user's cancel, or when
\* the run had given it up (yt_dlp/download/placement.rs), wherever it is
\* killed or fails.
THEOREM DownloadsAreKept == Spec => []DownloadKept
<1>1. Init => PlacesInv /\ KeptInv
  BY PlacesInit, KeptInit
<1>2. PlacesInv /\ KeptInv /\ [Next]_vars => (PlacesInv /\ KeptInv)'
  BY PlacesStep, KeptRun, KeptWorld DEF Next
<1>3. KeptInv => DownloadKept
  BY DEF KeptInv, FoldersTold, Told, DownloadKept
<1> QED
  BY <1>1, <1>2, <1>3, PTL DEF Spec

(***************************************************************************)
(* The gates.  With the places known, each step adds its run to the        *)
(* callers that a counter stands for, or takes it away, or neither, as it  *)
(* moves the counter.                                                      *)
(***************************************************************************)
Inside(g)  == {r \in Runs : g \in holds[r]}
Counted(g) == {r \in Runs : \/ want[r] = g /\ pc[r] \in {"rollback", "queued"}
                            \/ g \in holds[r] /\ ~(want[r] = g /\ pc[r] = "givePermit")}

CountsTyped == slots \in [Gates -> Int] /\ free \in [Gates -> Int]
CountsInv == CountsTyped /\ GatesKeepCount

LEMMA RunsCounted ==
  ASSUME NEW S \in SUBSET Runs, NEW r \in Runs
  PROVE  /\ IsFiniteSet(S) /\ Cardinality(S) \in Nat
         /\ r \notin S => Cardinality(S \cup {r}) = Cardinality(S) + 1
         /\ r \in S => Cardinality(S \ {r}) = Cardinality(S) - 1
<1>1. IsFiniteSet(S)
  BY FS_Subset
<1> QED
  BY <1>1, FS_CardinalityType, FS_AddElement, FS_RemoveElement

\* What a step of r does to the counters is what it does to r's place in
\* the sets they count.
CountsFollow(r) ==
  \A g \in Gates :
    /\ \/ (r \in Counted(g) <=> (r \in Counted(g))') /\ slots'[g] = slots[g]
       \/ r \notin Counted(g) /\ (r \in Counted(g))' /\ slots'[g] = slots[g] + 1
       \/ r \in Counted(g) /\ ~(r \in Counted(g))' /\ slots'[g] = slots[g] - 1
    /\ \/ (r \in Inside(g) <=> (r \in Inside(g))') /\ free'[g] = free[g]
       \/ r \notin Inside(g) /\ (r \in Inside(g))' /\ free'[g] = free[g] - 1
       \/ r \in Inside(g) /\ ~(r \in Inside(g))' /\ free'[g] = free[g] + 1

LEMMA SetsAgree ==
  ASSUME NEW S \in SUBSET Runs, NEW T \in SUBSET Runs, NEW r,
         \A q \in Runs \ {r} : q \in S <=> q \in T,
         r \in S <=> r \in T
  PROVE  T = S
  OBVIOUS

LEMMA CountsMove ==
  ASSUME CountsInv, CountsTyped', NEW r \in Runs, CountsFollow(r),
         \A q \in Runs \ {r} : pc'[q] = pc[q] /\ want'[q] = want[q] /\ holds'[q] = holds[q]
  PROVE  CountsInv'
<1> SUFFICES ASSUME NEW g \in Gates
             PROVE  /\ free'[g] + Cardinality(Inside(g)') = Permits[g]
                    /\ slots'[g] = Cardinality(Counted(g)')
  BY DEF CountsInv, GatesKeepCount, Inside, Counted
<1>1. /\ free[g] + Cardinality(Inside(g)) = Permits[g]
      /\ slots[g] = Cardinality(Counted(g))
      /\ slots[g] \in Int /\ free[g] \in Int /\ slots'[g] \in Int /\ free'[g] \in Int
  BY DEF CountsInv, CountsTyped, GatesKeepCount, Inside, Counted
<1>2. slots'[g] = Cardinality(Counted(g)')
  <2>1. Counted(g) \subseteq Runs /\ Counted(g)' \subseteq Runs
    BY DEF Counted
  <2>2. \A q \in Runs \ {r} : q \in Counted(g) <=> q \in Counted(g)'
    BY DEF Counted
  <2>3. CASE r \in Counted(g) <=> r \in Counted(g)'
    <3>1. Counted(g)' = Counted(g)
      BY <2>1, <2>2, <2>3, SetsAgree
    <3>2. slots'[g] = slots[g]
      BY <2>3 DEF CountsFollow
    <3> QED
      BY <1>1, <3>1, <3>2
  <2>4. CASE r \notin Counted(g) /\ r \in Counted(g)'
    <3>1. Counted(g)' = Counted(g) \cup {r}
      BY <2>1, <2>2, <2>4
    <3>2. slots'[g] = slots[g] + 1
      BY <2>4 DEF CountsFollow
    <3> QED
      BY <1>1, <2>1, <2>4, <3>1, <3>2, RunsCounted
  <2>5. CASE r \in Counted(g) /\ r \notin Counted(g)'
    <3>1. Counted(g)' = Counted(g) \ {r}
      BY <2>1, <2>2, <2>5
    <3>2. slots'[g] = slots[g] - 1
      BY <2>5 DEF CountsFollow
    <3> QED
      BY <1>1, <2>1, <2>5, <3>1, <3>2, RunsCounted
  <2> QED
    BY <2>3, <2>4, <2>5
<1>3. free'[g] + Cardinality(Inside(g)') = Permits[g]
  <2>1. Inside(g) \subseteq Runs /\ Inside(g)' \subseteq Runs
    BY DEF Inside
  <2>2. \A q \in Runs \ {r} : q \in Inside(g) <=> q \in Inside(g)'
    BY DEF Inside
  <2>3. CASE r \in Inside(g) <=> r \in Inside(g)'
    <3>1. Inside(g)' = Inside(g)
      BY <2>1, <2>2, <2>3, SetsAgree
    <3>2. free'[g] = free[g]
      BY <2>3 DEF CountsFollow
    <3> QED
      BY <1>1, <3>1, <3>2
  <2>4. CASE r \notin Inside(g) /\ r \in Inside(g)'
    <3>1. Inside(g)' = Inside(g) \cup {r}
      BY <2>1, <2>2, <2>4
    <3>2. free'[g] = free[g] - 1
      BY <2>4 DEF CountsFollow
    <3>3. Cardinality(Inside(g)') = Cardinality(Inside(g)) + 1 /\ Cardinality(Inside(g)) \in Nat
      BY <2>1, <2>4, <3>1, RunsCounted
    <3> QED
      BY <1>1, <3>2, <3>3
  <2>5. CASE r \in Inside(g) /\ r \notin Inside(g)'
    <3>1. Inside(g)' = Inside(g) \ {r}
      BY <2>1, <2>2, <2>5
    <3>2. free'[g] = free[g] + 1
      BY <2>5 DEF CountsFollow
    <3>3. Cardinality(Inside(g)') = Cardinality(Inside(g)) - 1 /\ Cardinality(Inside(g)) \in Nat
      BY <2>1, <2>5, <3>1, RunsCounted
    <3> QED
      BY <1>1, <3>2, <3>3
  <2> QED
    BY <2>3, <2>4, <2>5
<1> QED
  BY <1>2, <1>3

\* Each step of a run moves the counters by what it does to these sets.
LEMMA CountsRun ==
  ASSUME PlacesInv, CountsInv, NEW r \in Runs,
         RefuseInputs(r) \/ Register(r) \/ StartPlain(r) \/ Run(r) \/ Notice(r) \/ ChildExits(r)
  PROVE  CountsInv'
<1> USE DEF At, Goto, IsDownload, callVars, gateVars, regVars, procVars, fileVars
<1> DEFINE Frame == \A q \in Runs \ {r} :
                      pc'[q] = pc[q] /\ want'[q] = want[q] /\ holds'[q] = holds[q]
<1> SUFFICES Frame /\ CountsTyped' /\ CountsFollow(r)
  BY CountsMove
<1> USE DEF PlacesInv, RunsTyped, HoldsByPlace, Named, Base, Steps, Gates, Outside, Waiting, ProbeSteps,
            Leaving, DownloadSteps, CountsInv, CountsTyped, CountsFollow, Counted, Inside
<1>1. CASE RefuseInputs(r)
  BY <1>1 DEF RefuseInputs
<1>2. CASE Register(r)
  BY <1>2 DEF Register
<1>3. CASE StartPlain(r)
  BY <1>3 DEF StartPlain
<1>4. CASE Notice(r)
  BY <1>4 DEF Notice
<1>5. CASE ChildExits(r)
  BY <1>5 DEF ChildExits
<1>6. CASE Reserve(r)
  BY <1>6 DEF Reserve
<1>7. CASE Rollback(r)
  BY <1>7 DEF Rollback, NoPermit
<1>8. CASE TakePermit(r)
  BY <1>8 DEF TakePermit
<1>9. CASE CancelQueued(r)
  BY <1>9 DEF CancelQueued, NoPermit
<1>10. CASE GiveSlot(r)
  BY <1>10 DEF GiveSlot
<1>11. CASE GivePermit(r)
  BY <1>11 DEF GivePermit
<1>12. CASE Prepare(r)
  BY <1>12 DEF Prepare
<1>13. CASE SpawnProbe(r)
  BY <1>13 DEF SpawnProbe
<1>14. CASE TrackProbe(r)
  BY <1>14 DEF TrackProbe
<1>15. CASE ProbeEnds(r)
  BY <1>15 DEF ProbeEnds
<1>16. CASE DrainProbe(r)
  BY <1>16 DEF DrainProbe
<1>17. CASE Decide(r)
  BY <1>17 DEF Decide
<1>18. CASE SpawnDownload(r)
  BY <1>18 DEF SpawnDownload
<1>19. CASE RecordPid(r)
  BY <1>19 DEF RecordPid
<1>20. CASE RequestKill(r)
  BY <1>20 DEF RequestKill
<1>21. CASE KillAgain(r)
  BY <1>21 DEF KillAgain
<1>22. CASE Reap(r)
  BY <1>22 DEF Reap
<1>23. CASE Drained(r)
  BY <1>23 DEF Drained
<1>24. CASE PlaceFile(r)
  BY <1>24 DEF PlaceFile
<1>25. CASE Finish(r)
  BY <1>25 DEF Finish
<1>26. CASE Cleanup(r)
  BY <1>26 DEF Cleanup
<1>27. CASE Unregister(r)
  BY <1>27 DEF Unregister
<1> QED
  BY <1>1, <1>2, <1>3, <1>4, <1>5, <1>6, <1>7, <1>8, <1>9, <1>10, <1>11, <1>12, <1>13, <1>14, <1>15, <1>16, <1>17, <1>18, <1>19, <1>20, <1>21, <1>22, <1>23, <1>24, <1>25, <1>26, <1>27
     DEF Run

LEMMA CountsInit == Init => CountsInv
<1> SUFFICES ASSUME Init PROVE CountsInv
  OBVIOUS
<1>1. \A g \in Gates : Inside(g) = {} /\ Counted(g) = {}
  BY DEF Init, Inside, Counted
<1>2. Cardinality({}) = 0
  BY FS_EmptySet
<1>3. \A g \in Gates : slots[g] = 0 /\ free[g] = Permits[g] /\ Permits[g] \in Nat
  BY DEF Init
<1>4. GatesKeepCount
  <2> SUFFICES ASSUME NEW g \in Gates
               PROVE  /\ free[g] + Cardinality(Inside(g)) = Permits[g]
                      /\ slots[g] = Cardinality(Counted(g))
    BY DEF GatesKeepCount, Inside, Counted
  <2>1. Inside(g) = {} /\ Counted(g) = {}
    BY <1>1
  <2>2. Cardinality(Inside(g)) = 0 /\ Cardinality(Counted(g)) = 0
    BY <1>2, <2>1, Zenon
  <2>3. slots[g] = 0 /\ free[g] = Permits[g] /\ Permits[g] \in Nat
    BY <1>3
  <2> QED
    BY <2>2, <2>3
<1>5. CountsTyped
  BY DEF Init, CountsTyped
<1> QED
  BY <1>4, <1>5 DEF CountsInv

LEMMA CountsWorld ==
  ASSUME CountsInv, (\E i \in Ids : Cancel(i)) \/ ExitSignal \/ ExitKill \/ ExitSweep \/ Exit
                    \/ Over \/ UNCHANGED vars
  PROVE  CountsInv'
<1>1. UNCHANGED <<pc, want, holds, slots, free>>
  BY DEF Cancel, ExitSignal, ExitKill, ExitSweep, Exit, Over, vars, gateVars
<1> QED
  BY <1>1 DEF CountsInv, CountsTyped, GatesKeepCount

\* Neither gate loses or invents capacity (utils/bounded_semaphore.rs), for
\* any number of permits and callers, whichever way each of them leaves.
THEOREM GatesCount == Spec => []GatesKeepCount
<1>1. Init => PlacesInv /\ CountsInv
  BY PlacesInit, CountsInit
<1>2. PlacesInv /\ CountsInv /\ [Next]_vars => (PlacesInv /\ CountsInv)'
  BY PlacesStep, CountsRun, CountsWorld DEF Next
<1>3. CountsInv => GatesKeepCount
  BY DEF CountsInv
<1> QED
  BY <1>1, <1>2, <1>3, PTL DEF Spec

===============================================================================
