---------------------------- MODULE LibraryMove ----------------------------
(***************************************************************************)
(* Moving the library to another folder, with everything that may run      *)
(* beside it: the writers that put a file in the library and then a row in *)
(* the database (a media creation, a picked thumbnail, a channel avatar    *)
(* download), the settings form whose saves rewrite the library path, and  *)
(* a crash at any step followed by a launch.                               *)
(*                                                                         *)
(* The move copies, checks the copy, writes a commit marker, removes the   *)
(* old folder and only then stores the new path, under three exclusions:   *)
(* the library gate (services/library/lock.rs), the creation gate          *)
(* (services/media_creation.rs) and the generation counter a LibraryPass   *)
(* compares.                                                               *)
(*                                                                         *)
(* What may go wrong, or run beside the move, in a behaviour is its set of *)
(* "risks", chosen once in Init from Scenarios: two switches that cannot   *)
(* both be on while the library stays found (README, section on findings)  *)
(* are put in different scenarios of one run.                              *)
(***************************************************************************)
EXTENDS Naturals, FiniteSets

CONSTANTS
    Dirs,         \* folders that can hold the library
    Files,        \* media, thumbnails and avatars, by content
    NoDir, NoFile,
    Writers,      \* concurrent commands that write into the library
    Scenarios,    \* the sets of risks a behaviour may be exposed to
    MaxSaves,     \* bound: settings toggled by the user
    MaxCrashes    \* bound: crashes

Risks == {"ownFiles",       \* a file of the user's own is in the library folder
          "markerRefused",  \* the commit marker cannot be written
          "removalStops",   \* the removal of the old folder fails partway
          "storeFails",     \* a settings write fails
          "clearFails",     \* the commit marker cannot be removed
          "picked",         \* thumbnails picked by the user are persisted
          "avatar",         \* channel avatars are downloaded
          "saveDuringMove", \* a setting is being saved while the library moves
          "secondMove",     \* the library is moved twice
          "crash"}          \* the process dies

ASSUME ScenariosAssumption == Scenarios \subseteq SUBSET Risks
ASSUME NoneAssumption == NoDir \notin Dirs /\ NoFile \notin Files
ASSUME BoundsAssumption == MaxSaves \in Nat /\ MaxCrashes \in Nat

VARIABLES
    content,      \* the managed files in each folder
    present,      \* the folders that exist
    stored,       \* app_settings.library_path
    marker,       \* library-migration-commit, a move or NoMarker
    rows,         \* the files the database names
    gate,         \* the holders of the library gate's read side
    generation,   \* MIGRATION_GENERATION
    mover,        \* migrate_library_directory
    form,         \* the settings update queue of the webview
    writer,       \* the library writers
    risks,        \* what this behaviour is exposed to
    cluttered,    \* folders with a file of the user's own in them
    moves, saves, crashes

disk == <<content, present, stored, marker, rows>>
setting == <<risks, cluttered>>
counters == <<setting, moves, saves, crashes>>
vars == <<disk, gate, generation, mover, form, writer, counters>>

NoMarker == [to |-> NoDir, from |-> NoDir]

MoverIdle == [pc |-> "idle", from |-> NoDir, to |-> NoDir, moved |-> FALSE]
FormIdle == [pc |-> "idle", task |-> "none", path |-> NoDir, to |-> NoDir,
             changed |-> FALSE]
Launching == [FormIdle EXCEPT !.pc = "probe", !.task = "launch"]
WriterIdle == [pc |-> "idle", kind |-> "none", file |-> NoFile, dir |-> NoDir,
               gen |-> 0]

(* The move holds the write side of the gate, from its acquisition to the  *)
(* drop of the guard.                                                      *)
Holding == {"copy", "check", "marker", "remove", "release"}

(* The move excludes media creations until the command returns.            *)
CreationsExcluded == mover.pc \notin {"idle", "persist"}
CreationRunning ==
    \E w \in Writers : writer[w].pc # "idle" /\ writer[w].kind = "creation"

(* The window is usable once the launch has read and stored its settings.  *)
Ready == form.task # "launch"

(* evaluate_recovery: the marker is acted on only while the settings still *)
(* name the folder the move left, and only when its target holds a file.   *)
Recovers(path) ==
    /\ marker # NoMarker
    /\ path = marker.from
    /\ path # marker.to
    /\ content[marker.to] # {}

(* The folder a launch would open now.                                     *)
Opened == IF Recovers(stored) THEN marker.to ELSE stored

-----------------------------------------------------------------------------
Init ==
    \E d \in Dirs, f \in Files :
        /\ content = [e \in Dirs |-> IF e = d THEN {f} ELSE {}]
        /\ present = {d}
        /\ stored = d
        /\ marker = NoMarker
        /\ rows = {f}
        /\ gate = {}
        /\ generation = 0
        /\ mover = MoverIdle
        /\ form = Launching
        /\ writer = [w \in Writers |-> WriterIdle]
        /\ risks \in Scenarios
        /\ cluttered = IF "ownFiles" \in risks THEN {d} ELSE {}
        /\ moves = 0 /\ saves = 0 /\ crashes = 0

-----------------------------------------------------------------------------
(* The move: commands/library.rs and services/library/migration.rs.        *)

(* The command refuses when a creation runs, the current folder is gone or *)
(* the destination holds something that is not the app's; it makes the     *)
(* destination folder before it waits for the gate.                        *)
StartMove(d) ==
    /\ mover.pc = "idle" /\ Ready /\ form.task # "path"
    /\ form.pc = "idle" \/ "saveDuringMove" \in risks
    /\ moves < (IF "secondMove" \in risks THEN 2 ELSE 1)
    /\ ~CreationRunning
    /\ stored \in present /\ d # stored /\ d \notin cluttered
    /\ mover' = [pc |-> "wait", from |-> stored, to |-> d, moved |-> FALSE]
    /\ present' = present \cup {d}
    /\ moves' = moves + 1
    /\ UNCHANGED <<content, stored, marker, rows, gate, generation, form, writer,
                   setting, saves, crashes>>

AcquireGate ==
    /\ mover.pc = "wait" /\ gate = {}
    /\ generation' = generation + 1
    /\ mover' = [mover EXCEPT !.pc = "copy"]
    /\ UNCHANGED <<disk, gate, form, writer, counters>>

(* Some files arrive whole. The copy reports success, or an error or the   *)
(* user's cancel ends it; what was copied stays.                           *)
CopyContents ==
    /\ mover.pc = "copy"
    /\ \E arrived \in SUBSET content[mover.from] :
          content' = [content EXCEPT ![mover.to] = @ \cup arrived]
    /\ \E next \in {"check", "release"} : mover' = [mover EXCEPT !.pc = next]
    /\ UNCHANGED <<present, stored, marker, rows, gate, generation, form, writer,
                   counters>>

\* Mutant: the copy is trusted.
CheckNothing ==
    /\ mover.pc = "check"
    /\ mover' = [mover EXCEPT !.pc = "marker"]
    /\ UNCHANGED <<disk, gate, generation, form, writer, counters>>

\* first_incomplete_copy: nothing is removed unless every file arrived.
CheckCopy ==
    /\ mover.pc = "check"
    /\ mover' = [mover EXCEPT !.pc =
          IF content[mover.from] \subseteq content[mover.to]
          THEN "marker" ELSE "release"]
    /\ UNCHANGED <<disk, gate, generation, form, writer, counters>>

\* Mutant: the removal goes on without its marker.
RemovesUnmarked ==
    /\ mover.pc = "marker"
    /\ marker' \in {marker, [to |-> mover.to, from |-> mover.from]}
    /\ mover' = [mover EXCEPT !.pc = "remove"]
    /\ UNCHANGED <<content, present, stored, rows, gate, generation, form, writer,
                   counters>>

(* A refused marker keeps the old folder; the move still succeeded.        *)
WriteMarker ==
    /\ mover.pc = "marker"
    /\ \/ /\ marker' = [to |-> mover.to, from |-> mover.from]
          /\ mover' = [mover EXCEPT !.pc = "remove"]
       \/ /\ "markerRefused" \in risks
          /\ marker' = marker
          /\ mover' = [mover EXCEPT !.pc = "release", !.moved = TRUE]
    /\ UNCHANGED <<content, present, stored, rows, gate, generation, form, writer,
                   counters>>

RemoveFile ==
    /\ mover.pc = "remove"
    /\ \E f \in content[mover.from] :
          content' = [content EXCEPT ![mover.from] = @ \ {f}]
    /\ UNCHANGED <<present, stored, marker, rows, gate, generation, mover, form,
                   writer, counters>>

(* remove_dir takes the old folder only when nothing is left in it.        *)
EndRemoval ==
    /\ mover.pc = "remove"
    /\ content[mover.from] = {} \/ "removalStops" \in risks
    /\ present' = IF content[mover.from] = {} /\ mover.from \notin cluttered
                  THEN present \ {mover.from} ELSE present
    /\ mover' = [mover EXCEPT !.pc = "release", !.moved = TRUE]
    /\ UNCHANGED <<content, stored, marker, rows, gate, generation, form, writer,
                   counters>>

ReleaseGate ==
    /\ mover.pc = "release"
    /\ generation' = generation + 1
    /\ mover' = IF mover.moved THEN [mover EXCEPT !.pc = "store"] ELSE MoverIdle
    /\ UNCHANGED <<disk, gate, form, writer, counters>>

(* store_migrated_library_path: best effort, creations still excluded.     *)
StorePath ==
    /\ mover.pc = "store"
    /\ \/ /\ stored' = mover.to
          /\ mover' = [mover EXCEPT !.pc = "clear"]
       \/ /\ "storeFails" \in risks
          /\ stored' = stored
          /\ mover' = [mover EXCEPT !.pc = "persist"]
    /\ UNCHANGED <<content, present, marker, rows, gate, generation, form, writer,
                   counters>>

(* clear_commit_marker, which only logs a failure.                         *)
ClearMarker ==
    \/ marker' = NoMarker
    \/ "clearFails" \in risks /\ marker' = marker

ClearAfterStore ==
    /\ mover.pc = "clear"
    /\ ClearMarker
    /\ mover' = [mover EXCEPT !.pc = "persist"]
    /\ UNCHANGED <<content, present, stored, rows, gate, generation, form, writer,
                   counters>>

(* The command has returned: the window queues its own save of the path.   *)
QueuePathSave ==
    /\ mover.pc = "persist" /\ form.pc = "idle"
    /\ form' = [FormIdle EXCEPT !.pc = "probe", !.task = "path", !.to = mover.to]
    /\ mover' = MoverIdle
    /\ UNCHANGED <<disk, gate, generation, writer, counters>>

Move ==
    \/ AcquireGate \/ CopyContents \/ CheckCopy \/ WriteMarker \/ RemoveFile
    \/ EndRemoval \/ ReleaseGate \/ StorePath \/ ClearAfterStore \/ QueuePathSave

-----------------------------------------------------------------------------
(* The settings form: get_app_settings (which settles an interrupted move) *)
(* followed by set_app_settings, one update at a time.                     *)

StartToggle ==
    /\ form.pc = "idle" /\ saves < MaxSaves
    /\ mover.pc = "idle" \/ "saveDuringMove" \in risks
    /\ form' = [FormIdle EXCEPT !.pc = "probe", !.task = "toggle"]
    /\ saves' = saves + 1
    /\ UNCHANGED <<disk, gate, generation, mover, writer, setting, moves, crashes>>

FormStep(next) ==
    /\ form' = next
    /\ UNCHANGED <<gate, generation, mover, writer, counters>>

Probe ==
    /\ form.pc = "probe"
    /\ FormStep([form EXCEPT !.pc = IF marker = NoMarker THEN "load" ELSE "read"])
    /\ UNCHANGED disk

ReadStored ==
    /\ form.pc = "read"
    /\ FormStep([form EXCEPT !.pc = "evaluate", !.path = stored])
    /\ UNCHANGED disk

(* The marker may have gone since it was probed: nothing is done then.     *)
Evaluate ==
    /\ form.pc = "evaluate"
    /\ FormStep(IF Recovers(form.path)
                THEN [form EXCEPT !.pc = "adopt", !.path = marker.to]
                ELSE [form EXCEPT !.pc = IF marker = NoMarker THEN "load"
                                         ELSE "unmark"])
    /\ UNCHANGED disk

(* A failed write of the adopted path leaves the marker for the next read. *)
Adopt ==
    /\ form.pc = "adopt"
    /\ \/ stored' = form.path /\ FormStep([form EXCEPT !.pc = "unmark"])
       \/ /\ "storeFails" \in risks
          /\ stored' = stored
          /\ FormStep([form EXCEPT !.pc = "load"])
    /\ UNCHANGED <<content, present, marker, rows>>

Unmark ==
    /\ form.pc = "unmark"
    /\ ClearMarker
    /\ FormStep([form EXCEPT !.pc = "load"])
    /\ UNCHANGED <<content, present, stored, rows>>

(* The settings read; a launch writes nothing back when the folder cannot  *)
(* be reached.                                                             *)
Load ==
    /\ form.pc = "load"
    /\ LET path == IF form.task = "path" THEN form.to ELSE stored
       IN  FormStep(IF form.task = "launch" /\ path \notin present
                    THEN FormIdle
                    ELSE [form EXCEPT !.pc = "compare", !.path = path])
    /\ UNCHANGED disk

(* A changed path is validated, which fails when the folder is gone. Every *)
(* folder the form can hold here was picked or stored in this session, so  *)
(* ensure_chosen accepts it.                                               *)
Compare ==
    /\ form.pc = "compare"
    /\ LET changed == form.path # stored
       IN  FormStep(IF changed /\ form.path \notin present
                    THEN FormIdle
                    ELSE [form EXCEPT !.pc = "write", !.changed = changed])
    /\ UNCHANGED disk

Save ==
    /\ form.pc = "write"
    /\ \/ /\ stored' = form.path
          /\ FormStep(IF form.changed THEN [form EXCEPT !.pc = "clear"]
                      ELSE FormIdle)
       \/ "storeFails" \in risks /\ stored' = stored /\ FormStep(FormIdle)
    /\ UNCHANGED <<content, present, marker, rows>>

ClearAfterSave ==
    /\ form.pc = "clear"
    /\ ClearMarker
    /\ FormStep(FormIdle)
    /\ UNCHANGED <<content, present, stored, rows>>

Form ==
    \/ Probe \/ ReadStored \/ Evaluate \/ Adopt \/ Unmark \/ Load \/ Compare
    \/ Save \/ ClearAfterSave

-----------------------------------------------------------------------------
(* The writers.                                                            *)

WriterStep(w, next) ==
    /\ writer' = [writer EXCEPT ![w] = next]
    /\ UNCHANGED <<generation, mover, form, counters>>

(* A creation waits for the creation gate before it reads the library      *)
(* path. The two others do not know of that gate.                          *)
StartWrite(w, k, f) ==
    /\ writer[w].pc = "idle" /\ Ready
    /\ k = "creation" \/ k \in risks
    /\ k = "creation" => ~CreationsExcluded
    /\ WriterStep(w, [WriterIdle EXCEPT !.pc = "read", !.kind = k, !.file = f])
    /\ UNCHANGED <<disk, gate>>

(* The avatar download begins its LibraryPass after the command has read   *)
(* the path it hands over, and resolves that folder right after.           *)
ReadLibrary(w) ==
    /\ writer[w].pc = "read"
    /\ WriterStep(w, [writer[w] EXCEPT !.dir = stored,
                        !.pc = IF @ = "read" /\ writer[w].kind = "avatar"
                               THEN "begin" ELSE "guard"])
    /\ UNCHANGED <<disk, gate>>

BeginPass(w) ==
    /\ writer[w].pc = "begin"
    /\ WriterStep(w, IF writer[w].dir \in present
                     THEN [writer[w] EXCEPT !.pc = "guard", !.gen = generation]
                     ELSE WriterIdle)
    /\ UNCHANGED <<disk, gate>>

\* Mutant: a plain file system call where the guard was.
TakeNoGuard(w) ==
    /\ writer[w].pc = "guard"
    /\ gate' = gate \cup {w}
    /\ WriterStep(w, [writer[w] EXCEPT !.pc = "write"])
    /\ UNCHANGED disk

(* The read side of a lock that prefers a waiting writer. A pass that a    *)
(* move got into stops.                                                    *)
TakeGuard(w) ==
    /\ writer[w].pc = "guard"
    /\ mover.pc \notin Holding \cup {"wait"}
    /\ IF writer[w].kind = "avatar" /\ writer[w].gen # generation
       THEN gate' = gate /\ WriterStep(w, WriterIdle)
       ELSE gate' = gate \cup {w} /\ WriterStep(w, [writer[w] EXCEPT !.pc = "write"])
    /\ UNCHANGED disk

\* Mutant: the guarded function takes the guard again, behind a waiting move.
WriteNested(w) ==
    /\ writer[w].pc = "write"
    /\ \/ mover.pc = "wait" /\ UNCHANGED vars
       \/ /\ mover.pc # "wait"
          /\ gate' = gate \ {w}
          /\ content' = IF writer[w].dir \in present
                        THEN [content EXCEPT ![writer[w].dir] = @ \cup {writer[w].file}]
                        ELSE content
          /\ WriterStep(w, IF writer[w].dir \in present
                           THEN [writer[w] EXCEPT !.pc = "row"] ELSE WriterIdle)
          /\ UNCHANGED <<present, stored, marker, rows>>

(* create_dir_in_existing_library does not bring a removed library back.   *)
WriteFile(w) ==
    /\ writer[w].pc = "write"
    /\ gate' = gate \ {w}
    /\ \/ /\ writer[w].dir \in present
          /\ content' = [content EXCEPT ![writer[w].dir] = @ \cup {writer[w].file}]
          /\ WriterStep(w, [writer[w] EXCEPT !.pc = "row"])
       \/ /\ writer[w].dir \notin present
          /\ content' = content
          /\ WriterStep(w, WriterIdle)
    /\ UNCHANGED <<present, stored, marker, rows>>

AddRow(w) ==
    /\ writer[w].pc = "row"
    /\ rows' = rows \cup {writer[w].file}
    /\ WriterStep(w, WriterIdle)
    /\ UNCHANGED <<content, present, stored, marker, gate>>

WriterAdvances(w) ==
    ReadLibrary(w) \/ BeginPass(w) \/ TakeGuard(w) \/ WriteFile(w) \/ AddRow(w)

-----------------------------------------------------------------------------
(* The process dies: the files, the settings and the rows are what is left.*)
Crash ==
    /\ "crash" \in risks /\ crashes < MaxCrashes
    /\ crashes' = crashes + 1
    /\ gate' = {} /\ generation' = 0
    /\ mover' = MoverIdle
    /\ form' = Launching
    /\ writer' = [w \in Writers |-> WriterIdle]
    /\ UNCHANGED <<disk, setting, moves, saves>>

Next ==
    \/ \E d \in Dirs : StartMove(d)
    \/ Move
    \/ StartToggle
    \/ Form
    \/ \E w \in Writers, k \in {"creation", "picked", "avatar"}, f \in Files :
          StartWrite(w, k, f)
    \/ \E w \in Writers : WriterAdvances(w)
    \/ Crash

Spec == Init /\ [][Next]_vars

(* Commands run to their end on the async runtime and its blocking pool.   *)
Fairness ==
    WF_vars(Move) /\ WF_vars(Form) /\ \A w \in Writers : WF_vars(WriterAdvances(w))

FairSpec == Spec /\ Fairness

-----------------------------------------------------------------------------
(* Shape of the state. The gate's two sides exclude each other: no writer  *)
(* is in while the move copies or removes (services/library/lock.rs).      *)
TypeOK ==
    /\ content \in [Dirs -> SUBSET Files]
    /\ present \subseteq Dirs
    /\ stored \in Dirs
    /\ marker \in [to : Dirs, from : Dirs] \cup {NoMarker}
    /\ rows \subseteq Files
    /\ gate = {w \in Writers : writer[w].pc = "write"}
    /\ mover.pc \in Holding => gate = {}
    /\ mover.pc \in Holding \cup {"wait", "store", "clear", "persist", "idle"}
    /\ form.pc \in {"idle", "probe", "read", "evaluate", "adopt", "unmark", "load",
                    "compare", "write", "clear"}
    /\ \A w \in Writers : writer[w].pc \in {"idle", "read", "begin", "guard", "write",
                                            "row"}

(* Whenever the process dies, the folder the next launch opens holds every *)
(* file the database names: a move in any of its steps, a save that raced  *)
(* it or a write that was late never leaves a row without its file.        *)
LibraryFound == rows \subseteq content[Opened]

(* A file leaves a folder only when the folder the next launch would open  *)
(* has it, rows or not: what the app never registered (an import that died *)
(* before its row) is moved, not dropped.                                  *)
MoveLosesNothing ==
    [][\A d \in Dirs : content[d] \ content'[d] \subseteq content'[Opened']]_vars

(* A fetched avatar is stored in the folder the settings name, or refused: *)
(* a move that completed while it was fetched is seen under the guard      *)
(* (services/thumbnail/download/mod.rs, LibraryPass).                      *)
AvatarsFollowTheLibrary ==
    [][\A w \in Writers :
          writer[w].kind = "avatar" /\ writer[w].pc = "write" /\ writer'[w].pc = "row"
          => writer[w].dir = stored]_vars

(* A move that waits for the gate gets it and ends, done, refused or       *)
(* cancelled, whatever the writers and the settings queue do.              *)
MoveEnds == (mover.pc # "idle") ~> (mover.pc = "idle")
=============================================================================
