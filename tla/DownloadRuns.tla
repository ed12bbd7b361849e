---------------------------- MODULE DownloadRuns ----------------------------
(***************************************************************************)
(* The runs that start yt-dlp: downloads, and the probes that only read    *)
(* (format lists, comments, the metadata of a download).  A run registers  *)
(* under the id the webview gave it, so that it can be cancelled and be    *)
(* killed when the app exits; waits for a permit of a gate that bounds     *)
(* both how many run and how many wait; spawns a child and supervises it;  *)
(* and, when it is a download, places the file and keeps it when that      *)
(* fails.  Everything it took is given back on every way out.              *)
(*                                                                         *)
(* A run is a step of the code per atomic access to what runs share: the   *)
(* registry of runs, the registry of children, the two gates, the          *)
(* processes.  A pid stands for the run whose child had it.                *)
(***************************************************************************)
EXTENDS Naturals, Sequences, FiniteSets

CONSTANTS
  Runs,            \* the calls that start a run, each of them once
  Ids,             \* the run ids the webview may give
  MaxActive,       \* MAX_ACTIVE_RUNS
  Permits,         \* [Gates -> permits], how many of a gate run at once
  Ceiling,         \* [Gates -> Nat], how many may run or wait
  KillMayFail,     \* whether a tree kill may leave the child running
  Mixes            \* what a behaviour is asked to do: the kind of each call, if it is
                   \* made, and whether the app exits

Gates == {"downloads", "standalone"}

AllKinds == {"download", "probe", "plain"}   \* a plain probe has no run id

None == "none"

ASSUME RunsAssumption ==
  /\ MaxActive \in Nat \ {0}
  /\ Permits \in [Gates -> Nat \ {0}] /\ Ceiling \in [Gates -> Nat \ {0}]
  /\ KillMayFail \in BOOLEAN
  /\ Mixes \subseteq [calls : [Runs -> AllKinds \cup {None}], exits : BOOLEAN]
  /\ IsFiniteSet(Runs) /\ None \notin Runs \cup Ids

VARIABLES
  mix,        \* the member of Mixes that this behaviour is
  app,        \* open, then the steps of the exit handler, then gone
  registry,   \* of each id: the run registered under it
  pidOf,      \* the ids whose entry names the pid of its run's child
  tracked,    \* the runs whose child is in the process-wide registry
  doomed,     \* the pids the exit handler collected
  slots,      \* of each gate: the in-flight counter
  free,       \* of each gate: the permits nobody holds
  queue,      \* of each gate: the runs waiting for a permit, first come first served
  pc, kind, id, cancelled,      \* of each run: its place, kind, id and cancel flag
  want, holds,                  \* the gate it is at, the gates whose permit it has
  proc, exitOk,                 \* the process with its child's pid, how the child ended
  gaveUp, kills,                \* if the supervision gave up on it, how often it killed
  place, folder, result         \* its file, its run folder, what it returned

gateVars == <<slots, free, queue, holds>>
regVars  == <<registry, pidOf, tracked, doomed>>
procVars == <<proc, exitOk, gaveUp, kills>>
fileVars == <<place, folder>>
callVars == <<mix, kind, id>>
vars == <<app, gateVars, regVars, procVars, fileVars, callVars, pc, cancelled, want, result>>

Places == {"nowhere", "runFolder", "library", "recovered", "trash", "deleted"}

Steps == {"idle", "refused", "reserve", "rollback", "queued", "prepare", "spawn", "track",
          "wait", "drain", "giveSlot", "givePermit", "decide", "launch", "record", "supervise",
          "drainOutput", "place", "extras", "cleanup", "unregister", "ended"}

TypeOK ==
  /\ mix \in Mixes
  /\ app \in {"open", "kill", "sweep", "leave", "gone"}
  /\ registry \in [Ids -> Runs \cup {None}] /\ pidOf \subseteq Ids
  /\ tracked \subseteq Runs /\ doomed \subseteq Runs
  /\ slots \in [Gates -> Nat] /\ free \in [Gates -> Nat] /\ queue \in [Gates -> Seq(Runs)]
  /\ pc \in [Runs -> Steps] /\ kind \in [Runs -> AllKinds \cup {None}]
  /\ id \in [Runs -> Ids \cup {None}] /\ cancelled \in [Runs -> BOOLEAN]
  /\ want \in [Runs -> Gates] /\ holds \in [Runs -> SUBSET Gates]
  /\ proc \in [Runs -> {"none", "own", "zombie"}] /\ exitOk \in [Runs -> BOOLEAN]
  /\ gaveUp \in [Runs -> BOOLEAN] /\ kills \in [Runs -> 0..2]
  /\ place \in [Runs -> Places] /\ folder \in [Runs -> BOOLEAN]
  /\ result \in [Runs -> {"none", "ok", "cancelled", "failed"}]

Init ==
  /\ mix \in Mixes /\ kind = mix.calls
  /\ app = "open"
  /\ registry = [i \in Ids |-> None] /\ pidOf = {} /\ tracked = {} /\ doomed = {}
  /\ slots = [g \in Gates |-> 0] /\ free = Permits /\ queue = [g \in Gates |-> <<>>]
  /\ pc = [r \in Runs |-> "idle"] 
  /\ id = [r \in Runs |-> None] /\ cancelled = [r \in Runs |-> FALSE]
  /\ want = [r \in Runs |-> "standalone"] /\ holds = [r \in Runs |-> {}]
  /\ proc = [r \in Runs |-> "none"] /\ exitOk = [r \in Runs |-> FALSE]
  /\ gaveUp = [r \in Runs |-> FALSE] /\ kills = [r \in Runs |-> 0]
  /\ place = [r \in Runs |-> "nowhere"] /\ folder = [r \in Runs |-> FALSE]
  /\ result = [r \in Runs |-> "none"]

Alive == app # "gone"
Goto(r, step) == pc' = [pc EXCEPT ![r] = step]
At(r, step)   == Alive /\ pc[r] = step
Return(r, res) == result' = [result EXCEPT ![r] = res]
IsDownload(r) == kind[r] = "download"

-----------------------------------------------------------------------------
(* Registering.                                                            *)

(* A request whose arguments are refused, before anything is registered.   *)
RefuseInputs(r) ==
  /\ At(r, "idle") /\ kind[r] # None /\ Goto(r, "refused") /\ Return(r, "failed")
  /\ UNCHANGED <<app, gateVars, regVars, procVars, fileVars, callVars, cancelled, want>>

\* Mutant: the release guard is built before the registration, so a refused
\* duplicate releases the run it collided with.
RegisterReleases(r) ==
  /\ At(r, "idle") /\ kind[r] \in {"download", "probe"}
  /\ \E i \in Ids :
       LET taken == registry[i] # None IN
       /\ id' = [id EXCEPT ![r] = i]
       /\ want' = [want EXCEPT ![r] = IF IsDownload(r) THEN "downloads" ELSE "standalone"]
       /\ registry' = [registry EXCEPT ![i] = IF taken THEN None ELSE r]
       /\ IF taken THEN Goto(r, "refused") /\ Return(r, "failed")
          ELSE Goto(r, IF IsDownload(r) THEN "reserve" ELSE "prepare") /\ UNCHANGED result
  /\ UNCHANGED <<app, mix, kind, gateVars, pidOf, tracked, doomed, procVars, fileVars, cancelled>>

(* register_download_run: a duplicate id and a full registry are refused,  *)
(* and what another run registered under the id stays as it is.            *)
Register(r) ==
  /\ At(r, "idle") /\ kind[r] \in {"download", "probe"}
  /\ \E i \in Ids :
       LET taken == registry[i] # None
           full  == Cardinality({j \in Ids : registry[j] # None}) >= MaxActive
       IN  /\ id' = [id EXCEPT ![r] = i]
           /\ want' = [want EXCEPT ![r] = IF IsDownload(r) THEN "downloads" ELSE "standalone"]
           /\ IF taken \/ full
              THEN Goto(r, "refused") /\ Return(r, "failed") /\ UNCHANGED registry
              ELSE /\ registry' = [registry EXCEPT ![i] = r]
                   /\ Goto(r, IF IsDownload(r) THEN "reserve" ELSE "prepare")
                   /\ UNCHANGED result
  /\ UNCHANGED <<app, mix, kind, gateVars, pidOf, tracked, doomed, procVars, fileVars, cancelled>>

(* optional_cancellable_run without an id: nothing is registered.          *)
StartPlain(r) ==
  /\ At(r, "idle") /\ kind[r] = "plain"
  /\ Goto(r, "prepare")
  /\ UNCHANGED <<app, gateVars, regVars, procVars, fileVars, callVars, cancelled, want, result>>

(* cancel_media_download: the flag of the run registered under the id.     *)
Cancel(i) ==
  /\ Alive /\ registry[i] # None /\ ~cancelled[registry[i]]
  /\ cancelled' = [cancelled EXCEPT ![registry[i]] = TRUE]
  /\ UNCHANGED <<app, gateVars, regVars, procVars, fileVars, callVars, pc, want, result>>

-----------------------------------------------------------------------------
(* The gates: BoundedSemaphore.                                            *)

(* The counter is raised first; a caller that finds it at the ceiling has  *)
(* to take its own increment back.                                         *)
Reserve(r) ==
  /\ At(r, "reserve")
  /\ LET g == want[r] IN
     /\ slots' = [slots EXCEPT ![g] = @ + 1]
     /\ IF slots[g] >= Ceiling[g]
        THEN Goto(r, "rollback") /\ UNCHANGED queue
        ELSE Goto(r, "queued") /\ queue' = [queue EXCEPT ![g] = Append(@, r)]
  /\ UNCHANGED <<app, free, holds, regVars, procVars, fileVars, callVars, cancelled, want, result>>

(* Where a run goes that gets no permit of the gate it is at: a download   *)
(* waiting for its metadata still has its folder to clean up.              *)
NoPermit(r) == IF "downloads" \in holds[r] THEN "cleanup" ELSE "unregister"

Rollback(r) ==
  /\ At(r, "rollback")
  /\ slots' = [slots EXCEPT ![want[r]] = @ - 1]
  /\ Goto(r, NoPermit(r))
  /\ Return(r, IF "downloads" \in holds[r] /\ cancelled[r] THEN "cancelled" ELSE "failed")
  /\ UNCHANGED <<app, free, queue, holds, regVars, procVars, fileVars, callVars, cancelled, want>>

(* The permit goes to the run that has waited longest.  A download whose   *)
(* cancel and permit are ready at once may take either; a probe takes the  *)
(* cancel (its select! is biased).                                         *)
TakePermit(r) ==
  /\ At(r, "queued")
  /\ LET g == want[r] IN
     /\ free[g] > 0 /\ Head(queue[g]) = r
     /\ g = "standalone" => ~cancelled[r]
     /\ free'  = [free EXCEPT ![g] = @ - 1]
     /\ queue' = [queue EXCEPT ![g] = Tail(@)]
     /\ holds' = [holds EXCEPT ![r] = @ \cup {g}]
     /\ Goto(r, IF g = "downloads" THEN "prepare" ELSE "spawn")
  /\ UNCHANGED <<app, slots, regVars, procVars, fileVars, callVars, cancelled, want, result>>

\* Mutant: the waiter is counted by hand and nobody gives its slot back.
DropsWithoutSlot(r) ==
  /\ At(r, "queued") /\ cancelled[r]
  /\ queue' = [queue EXCEPT ![want[r]] = SelectSeq(@, LAMBDA x : x # r)]
  /\ Goto(r, NoPermit(r)) /\ Return(r, "cancelled")
  /\ UNCHANGED <<app, slots, free, holds, regVars, procVars, fileVars, callVars, cancelled, want>>

(* A cancelled run stops waiting: its future is dropped and the            *)
(* reservation gives the slot back.                                        *)
CancelQueued(r) ==
  /\ At(r, "queued") /\ cancelled[r]
  /\ LET g == want[r] IN
     /\ slots' = [slots EXCEPT ![g] = @ - 1]
     /\ queue' = [queue EXCEPT ![g] = SelectSeq(@, LAMBDA x : x # r)]
  /\ Goto(r, NoPermit(r)) /\ Return(r, "cancelled")
  /\ UNCHANGED <<app, free, holds, regVars, procVars, fileVars, callVars, cancelled, want>>

(* Dropping the permit lowers the counter, then frees the permit.          *)
GiveSlot(r) ==
  /\ At(r, "giveSlot")
  /\ slots' = [slots EXCEPT ![want[r]] = @ - 1]
  /\ Goto(r, "givePermit")
  /\ UNCHANGED <<app, free, queue, holds, regVars, procVars, fileVars, callVars, cancelled, want,
                 result>>

GivePermit(r) ==
  /\ At(r, "givePermit")
  /\ free'  = [free EXCEPT ![want[r]] = @ + 1]
  /\ holds' = [holds EXCEPT ![r] = @ \ {want[r]}]
  /\ Goto(r, IF want[r] = "standalone" /\ IsDownload(r) THEN "decide" ELSE "unregister")
  /\ UNCHANGED <<app, slots, queue, regVars, procVars, fileVars, callVars, cancelled, want, result>>

-----------------------------------------------------------------------------
(* The probe: a format list, the comments, or a download's metadata.       *)

(* Resolving the binaries and, for a download, the library and the run's   *)
(* own folder.  Any of it may fail; a download that fails before it has a  *)
(* folder has none to remove.                                              *)
Prepare(r) ==
  /\ At(r, "prepare")
  /\ \/ /\ Goto(r, "reserve") /\ want' = [want EXCEPT ![r] = "standalone"]
        /\ folder' = [folder EXCEPT ![r] = IsDownload(r)]
        /\ UNCHANGED result
     \/ /\ Goto(r, IF IsDownload(r) THEN "cleanup" ELSE "unregister")
        /\ Return(r, "failed") /\ UNCHANGED <<want, folder>>
  /\ UNCHANGED <<app, gateVars, regVars, procVars, place, callVars, cancelled>>

SpawnProbe(r) ==
  /\ At(r, "spawn")
  /\ \/ /\ proc' = [proc EXCEPT ![r] = "own"] /\ Goto(r, "track") /\ UNCHANGED <<exitOk, result>>
     \/ /\ Goto(r, "giveSlot") /\ Return(r, "failed")
        /\ exitOk' = [exitOk EXCEPT ![r] = FALSE] /\ UNCHANGED proc
  /\ UNCHANGED <<app, gateVars, regVars, gaveUp, kills, fileVars, callVars, cancelled, want>>

TrackProbe(r) ==
  /\ At(r, "track") /\ tracked' = tracked \cup {r} /\ Goto(r, "wait")
  /\ UNCHANGED <<app, gateVars, registry, pidOf, doomed, procVars, fileVars, callVars, cancelled,
                 want, result>>

(* The wait ends with the child, with a cancel or with the time limit. In  *)
(* the last two the child is killed by tree and directly, and awaited.     *)
ProbeEnds(r) ==
  /\ At(r, "wait")
  /\ \/ /\ proc[r] = "zombie" /\ Goto(r, "drain") /\ UNCHANGED <<result, exitOk>>
     \/ /\ cancelled[r] /\ Goto(r, "drain") /\ Return(r, "cancelled")
        /\ exitOk' = [exitOk EXCEPT ![r] = FALSE]
     \/ /\ Goto(r, "drain") /\ Return(r, "failed")
        /\ exitOk' = [exitOk EXCEPT ![r] = FALSE]
  /\ proc' = [proc EXCEPT ![r] = "none"]
  /\ UNCHANGED <<app, gateVars, regVars, gaveUp, kills, fileVars, callVars, cancelled, want>>

(* The readers are joined within a bound, the output is judged, and the    *)
(* guard forgets the child as the helper returns.                          *)
DrainProbe(r) ==
  /\ At(r, "drain") /\ tracked' = tracked \ {r} /\ Goto(r, "giveSlot")
  /\ \/ exitOk[r] /\ ~IsDownload(r) /\ Return(r, "ok")
     \/ exitOk[r] /\ IsDownload(r) /\ UNCHANGED result
     \/ Return(r, IF result[r] = "none" THEN "failed" ELSE result[r])
  /\ UNCHANGED <<app, gateVars, registry, pidOf, doomed, procVars, fileVars, callVars, cancelled,
                 want>>

-----------------------------------------------------------------------------
(* The download proper.                                                    *)

(* With the metadata read: a cancel is honoured, and a failure during one  *)
(* is reported as one; a format that is not in the metadata is refused.    *)
Decide(r) ==
  /\ At(r, "decide") /\ want' = [want EXCEPT ![r] = "downloads"]
  /\ \/ /\ cancelled[r] /\ Goto(r, "cleanup") /\ Return(r, "cancelled")
     \/ /\ ~cancelled[r] /\ result[r] = "none" /\ Goto(r, "launch") /\ UNCHANGED result
     \/ /\ ~cancelled[r] /\ Goto(r, "cleanup") /\ Return(r, "failed")
  /\ UNCHANGED <<app, gateVars, regVars, procVars, fileVars, callVars, cancelled>>

SpawnDownload(r) ==
  /\ At(r, "launch")
  /\ \/ /\ proc' = [proc EXCEPT ![r] = "own"] /\ Goto(r, "record") /\ UNCHANGED result
        /\ exitOk' = [exitOk EXCEPT ![r] = FALSE]
     \/ /\ Goto(r, "cleanup") /\ Return(r, "failed") /\ UNCHANGED <<proc, exitOk>>
  /\ UNCHANGED <<app, gateVars, regVars, gaveUp, kills, fileVars, callVars, cancelled, want>>

(* set_download_pid and the guard that forgets the pid, then the           *)
(* process-wide registry.                                                  *)
RecordPid(r) ==
  /\ At(r, "record")
  /\ IF id[r] \in pidOf
     THEN tracked' = tracked \cup {r} /\ Goto(r, "supervise") /\ UNCHANGED pidOf
     ELSE pidOf' = pidOf \cup {id[r]} /\ UNCHANGED <<tracked, pc>>
  /\ UNCHANGED <<app, gateVars, registry, doomed, procVars, fileVars, callVars, cancelled, want,
                 result>>

(* What the loop notices of a child that goes on: the run-time cap, and a  *)
(* silence in which its files stopped growing.  Neither once the user      *)
(* cancelled.                                                              *)
Notice(r) ==
  /\ At(r, "supervise") /\ ~cancelled[r] /\ ~gaveUp[r]
  /\ gaveUp' = [gaveUp EXCEPT ![r] = TRUE]
  /\ UNCHANGED <<app, gateVars, regVars, proc, exitOk, kills, fileVars, callVars, pc, cancelled, want,
                 result>>

(* kill_process_tree, which the code does not hear back from.              *)
KillTree(p, killed) ==
  \E failed \in SUBSET (IF KillMayFail THEN killed ELSE {}) :
    p' = [r \in Runs |-> IF r \in killed \ failed /\ p[r] = "own" THEN "zombie" ELSE p[r]]

RequestKill(r) ==
  /\ At(r, "supervise") /\ kills[r] = 0 /\ (cancelled[r] \/ gaveUp[r])
  /\ kills' = [kills EXCEPT ![r] = 1] /\ KillTree(proc, {r})
  /\ UNCHANGED <<app, gateVars, regVars, exitOk, gaveUp, fileVars, callVars, pc, cancelled, want, result>>

\* Mutant: the first kill is taken at its word.
TrustsKill(r) == FALSE /\ kills[r] = 1 /\ UNCHANGED vars

(* Ten seconds later the child is killed again, by tree and directly.      *)
KillAgain(r) ==
  /\ At(r, "supervise") /\ kills[r] = 1 /\ proc[r] = "own"
  /\ kills' = [kills EXCEPT ![r] = 2]
  /\ proc' = [proc EXCEPT ![r] = "zombie"]
  /\ UNCHANGED <<app, gateVars, regVars, exitOk, gaveUp, fileVars, callVars, pc, cancelled, want, result>>

Reap(r) ==
  /\ At(r, "supervise") /\ proc[r] = "zombie"
  /\ proc' = [proc EXCEPT ![r] = "none"] /\ Goto(r, "drainOutput")
  /\ place' = [place EXCEPT ![r] = IF exitOk[r] THEN "runFolder" ELSE @]
  /\ UNCHANGED <<app, gateVars, regVars, exitOk, gaveUp, kills, folder, callVars, cancelled, want, result>>

(* How the child ended: the run-time cap before a stall before a cancel    *)
(* before a failure, and a cancel that the loop did not see is honoured    *)
(* all the same.                                                           *)
Ending(r) ==
  CASE gaveUp[r]      -> "failed"
    [] kills[r] > 0  -> "cancelled"
    [] ~exitOk[r]    -> "failed"
    [] cancelled[r]  -> "cancelled"
    [] OTHER         -> "ok"

\* Mutant: the pid is left for the end of the run to forget.
KeepsPid(r) ==
  /\ At(r, "drainOutput")
  /\ tracked' = tracked \ {r}
  /\ IF Ending(r) = "ok" THEN Goto(r, "place") /\ UNCHANGED result
                         ELSE Goto(r, "cleanup") /\ Return(r, Ending(r))
  /\ UNCHANGED <<app, gateVars, registry, pidOf, doomed, procVars, fileVars, callVars, cancelled, want>>

(* The readers are let go, the pid is forgotten with the child.            *)
Drained(r) ==
  /\ At(r, "drainOutput")
  /\ tracked' = tracked \ {r} /\ pidOf' = pidOf \ {id[r]}
  /\ IF Ending(r) = "ok" THEN Goto(r, "place") /\ UNCHANGED result
                         ELSE Goto(r, "cleanup") /\ Return(r, Ending(r))
  /\ UNCHANGED <<app, gateVars, registry, doomed, procVars, fileVars, callVars, cancelled, want>>

\* Mutant: the run folder goes whatever became of the file.
PlacesOrDrops(r) ==
  /\ At(r, "place")
  /\ \/ place' = [place EXCEPT ![r] = "library"] /\ Goto(r, "extras") /\ UNCHANGED result
     \/ Goto(r, "cleanup") /\ Return(r, "failed") /\ UNCHANGED place
  /\ UNCHANGED <<app, gateVars, regVars, procVars, callVars, cancelled, want, folder>>

(* The file goes to the library.  When it cannot, it is kept in the        *)
(* recovered downloads; when that fails too, it stays in the run folder,   *)
(* which is then left alone.                                               *)
PlaceFile(r) ==
  /\ At(r, "place")
  /\ \/ /\ place' = [place EXCEPT ![r] = "library"] /\ Goto(r, "extras") /\ UNCHANGED <<result, folder>>
     \/ /\ place' = [place EXCEPT ![r] = "recovered"]
        /\ Goto(r, "cleanup") /\ Return(r, "failed") /\ UNCHANGED folder
     \/ /\ folder' = [folder EXCEPT ![r] = FALSE]
        /\ Goto(r, "cleanup") /\ Return(r, "failed") /\ UNCHANGED place
  /\ UNCHANGED <<app, gateVars, regVars, procVars, callVars, cancelled, want>>

(* The live chat and the thumbnail fail nothing.  A cancel that arrived by *)
(* the end of them sends the file to the trash; what cannot be moved stays *)
(* for the sweep of the next launch.                                       *)
Finish(r) ==
  /\ At(r, "extras") /\ Goto(r, "cleanup")
  /\ IF cancelled[r]
     THEN Return(r, "cancelled") /\ \E to \in {"trash", "library"} : place' = [place EXCEPT ![r] = to]
     ELSE Return(r, "ok") /\ UNCHANGED place
  /\ UNCHANGED <<app, gateVars, regVars, procVars, folder, callVars, cancelled, want>>

(* The run folder goes, with whatever is still in it.                      *)
Cleanup(r) ==
  /\ At(r, "cleanup")
  /\ place' = [place EXCEPT ![r] = IF folder[r] /\ @ = "runFolder" THEN "deleted" ELSE @]
  /\ folder' = [folder EXCEPT ![r] = FALSE]
  /\ want' = [want EXCEPT ![r] = "downloads"]
  /\ Goto(r, "giveSlot")
  /\ UNCHANGED <<app, gateVars, regVars, procVars, callVars, cancelled, result>>

(* The release guard, last.                                                *)
Unregister(r) ==
  /\ At(r, "unregister") /\ Goto(r, "ended")
  /\ registry' = IF id[r] = None THEN registry ELSE [registry EXCEPT ![id[r]] = None]
  /\ pidOf' = pidOf \ {id[r]}
  /\ UNCHANGED <<app, gateVars, tracked, doomed, procVars, fileVars, callVars, cancelled, want, result>>

-----------------------------------------------------------------------------
(* Processes, and the exit of the app.                                     *)

ChildExits(r) ==
  /\ Alive /\ proc[r] = "own"
  /\ proc' = [proc EXCEPT ![r] = "zombie"]
  /\ \E ok \in BOOLEAN : exitOk' = [exitOk EXCEPT ![r] = ok]
  /\ UNCHANGED <<app, gateVars, regVars, gaveUp, kills, fileVars, callVars, pc, cancelled, want, result>>

(* signal_cancel_all_and_collect_pids, under the lock of the registry.     *)
ExitSignal ==
  /\ app = "open" /\ mix.exits /\ app' = "kill"
  /\ cancelled' = [r \in Runs |-> cancelled[r] \/ \E i \in Ids : registry[i] = r]
  /\ doomed' = {registry[i] : i \in pidOf}
  /\ UNCHANGED <<gateVars, registry, pidOf, tracked, procVars, fileVars, callVars, pc, want, result>>

ExitKill ==
  /\ app = "kill" /\ app' = "sweep"
  /\ KillTree(proc, doomed) /\ doomed' = tracked
  /\ UNCHANGED <<gateVars, registry, pidOf, tracked, exitOk, gaveUp, kills, fileVars, callVars, pc,
                 cancelled, want, result>>

ExitSweep ==
  /\ app = "sweep" /\ app' = "leave"
  /\ KillTree(proc, doomed)
  /\ UNCHANGED <<gateVars, regVars, exitOk, gaveUp, kills, fileVars, callVars, pc, cancelled, want, result>>

(* The process ends, and every run with it, wherever it is.                *)
Exit ==
  /\ app = "leave" /\ app' = "gone"
  /\ UNCHANGED <<gateVars, regVars, procVars, fileVars, callVars, pc, cancelled, want, result>>

-----------------------------------------------------------------------------

Run(r) ==
  \/ Reserve(r) \/ Rollback(r) \/ TakePermit(r) \/ CancelQueued(r) \/ GiveSlot(r) \/ GivePermit(r)
  \/ Prepare(r) \/ SpawnProbe(r) \/ TrackProbe(r) \/ ProbeEnds(r) \/ DrainProbe(r)
  \/ Decide(r) \/ SpawnDownload(r) \/ RecordPid(r)
  \/ RequestKill(r) \/ KillAgain(r) \/ Reap(r) \/ Drained(r)
  \/ PlaceFile(r) \/ Finish(r) \/ Cleanup(r) \/ Unregister(r)

Over == /\ app = "gone" \/ \A r \in Runs : pc[r] \in {"ended", "refused"} \/ kind[r] = None
        /\ UNCHANGED vars

Next ==
  \/ \E r \in Runs : RefuseInputs(r) \/ Register(r) \/ StartPlain(r) \/ Run(r) \/ Notice(r)
                     \/ ChildExits(r)
  \/ \E i \in Ids : Cancel(i)
  \/ ExitSignal \/ ExitKill \/ ExitSweep \/ Exit \/ Over

(* The runtime polls every task that is ready; the run-time cap always     *)
(* comes; the exit handler runs to its end.                                *)
Fairness ==
  /\ \A r \in Runs : WF_vars(Run(r)) /\ WF_vars(Notice(r))
  /\ WF_vars(ExitKill \/ ExitSweep \/ Exit)

Spec == Init /\ [][Next]_vars /\ Fairness

-----------------------------------------------------------------------------
(* Properties.                                                             *)

(* A gate neither loses nor invents capacity, whichever way its callers    *)
(* leave: the counter is the number of callers that wait or run (and those *)
(* about to take their increment back), the permits are those nobody       *)
(* holds.  (utils/bounded_semaphore.rs)                                    *)
GatesKeepCount ==
  \A g \in Gates :
    /\ free[g] + Cardinality({r \in Runs : g \in holds[r]}) = Permits[g]
    /\ slots[g] = Cardinality({r \in Runs :
                      \/ want[r] = g /\ pc[r] \in {"rollback", "queued"}
                      \/ g \in holds[r] /\ ~(want[r] = g /\ pc[r] = "givePermit")})

(* From its registration to its end a run is the one its id names, so a    *)
(* cancel and the exit handler reach it and nobody else.  A refused        *)
(* duplicate takes nothing away from it.  (services/yt_dlp/registry.rs)    *)
RunsListed ==
  \A r \in Runs :
    id[r] # None /\ pc[r] \notin {"idle", "refused", "ended"} => registry[id[r]] = r

(* The exit handler finds a pid only while the run supervises the child    *)
(* that has it: never in the minutes in which the run places its file, nor *)
(* once it ended, when the pid may be another program's.                   *)
PidForgotten ==
  /\ \A i \in pidOf :
       registry[i] # None /\ pc[registry[i]] \in {"record", "supervise", "drainOutput"}
  /\ \A r \in tracked : pc[r] \in {"wait", "drain", "supervise", "drainOutput"}

(* The registry, the pids and the tracked children say which run is which, *)
(* at every moment a cancel or the exit handler may read them.             *)
RunsTracked == RunsListed /\ PidForgotten

(* A download that yt-dlp finished is thrown away only by the user's       *)
(* cancel, or when it finished after the run had given it up.  (placement) *)
DownloadKept ==
  \A r \in Runs : place[r] = "deleted" => result[r] = "cancelled" \/ gaveUp[r]

(* Every run ends: no two gates wait for one another, a queued run is      *)
(* served, a child that survives its kill is killed again.                 *)
EveryRunEnds ==
  \A r \in Runs :
    pc[r] # "idle" ~> (pc[r] \in {"ended", "refused"} \/ app = "gone")
=============================================================================
