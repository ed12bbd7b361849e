---------------------------- MODULE MediaLibrary ----------------------------
(***************************************************************************)
(* The rows of the database and the files of the library they name, under  *)
(* everything that writes or removes either: media creations (downloads,   *)
(* copies, moves), deletions of a media or a channel, avatar changes, the  *)
(* startup sweep of crash markers and the orphan removal of Diagnostics    *)
(* (services/media_creation.rs, services/library/{media,cleanup}.rs,       *)
(* services/pending_media.rs, commands/channels.rs).                       *)
(*                                                                         *)
(* Files are content-addressed, so a path stands for its content.  Every   *)
(* await, file operation and transaction is a step of its own; what holds  *)
(* steps together is what the code uses: MEDIA_REGISTRATION_LOCK (`lock`), *)
(* CREATION_GATE (a creation is inside it while its pc is not "idle") and  *)
(* the recounts.                                                           *)
(***************************************************************************)
EXTENDS Integers, FiniteSets

CONSTANTS Creators,      \* media creations that may run at the same time
          Users,         \* other commands of the user that may run then
          Sweeper, OrphanRemover, Nobody, \* three more names, of no creator or user
          Media, Thumbs, \* library paths of media files and of images
          NoThumb,       \* the absence of an image
          Channels,
          Kinds,         \* the creations of this instance
          HardLinks,     \* the volume has them, so a Move keeps its source
          RecountMayFail, \* a database error may hit a recount
          MarkerMayFail, \* the disk may refuse a write or unlink of a marker
          RemovalMayFail, \* ... or a removal of library files, or its count
          MaxAttempts,   \* MAX_MARKER_SWEEP_ATTEMPTS
          MaxRequests,   \* requests the user makes
          MaxCrashes     \* times the process dies, or is closed, at any point

Paths  == Media \cup Thumbs
Actors == Creators \cup Users \cup {Sweeper, OrphanRemover}

ASSUME NamesAssumption ==
  /\ Creators \cap Users = {}
  /\ Sweeper # OrphanRemover
  /\ {Sweeper, OrphanRemover} \cap (Creators \cup Users) = {}
  /\ Nobody \notin Actors
  /\ Media \cap Thumbs = {} /\ NoThumb \notin Paths
  /\ Kinds \subseteq {"download", "copy", "move"}
ASSUME SwitchesAssumption ==
  /\ HardLinks \in BOOLEAN /\ RecountMayFail \in BOOLEAN
  /\ MarkerMayFail \in BOOLEAN /\ RemovalMayFail \in BOOLEAN
ASSUME BoundsAssumption ==
  /\ MaxAttempts \in Nat \ {0} /\ MaxRequests \in Nat /\ MaxCrashes \in Nat

VARIABLES
  disk,       \* files in the library's managed folders
  trash,      \* files under .trash
  originals,  \* media the user still has outside the library, to be moved in
  recent,     \* files written within RECENT_WRITE_WINDOW
  channels, avatar, rows,        \* the database
  markers,    \* files of pending-media/, with what the process knows of them
  lock,       \* holder of MEDIA_REGISTRATION_LOCK
  pc, job, task,                 \* of each actor
  todo, sweeping,                \* the sweep's markers, and the one in hand
  requests, crashes

files == <<disk, trash, originals, recent>>
db    == <<channels, avatar, rows>>
sweep == <<todo, sweeping>>
vars  == <<files, db, markers, lock, pc, job, task, sweep, requests, crashes>>

CreatorSteps == {"idle", "thumb", "stage", "place", "mark", "sidecar",
                 "register", "record", "interim", "check", "insert", "clear",
                 "source", "putBack", "count", "recount", "remove", "close"}
UserSteps    == {"idle", "avatar", "acquire", "count", "recount", "remove"}
SweeperSteps == {"waiting", "next", "count", "recount", "remove", "settle",
                 "done"}
OrphanSteps  == {"idle", "list", "recount", "remove"}
Steps == CreatorSteps \cup UserSteps \cup SweeperSteps \cup OrphanSteps

Row    == [channel : Channels, media : Media, thumb : Thumbs \cup {NoThumb}]
Job    == [kind : Kinds, channel : Channels, media : Media,
           thumb : Thumbs \cup {NoThumb}, onlyCopy : BOOLEAN,
           registering : BOOLEAN]
Task   == [paths : SUBSET Paths, how : {"unlink", "trash"}, ok : BOOLEAN]
Marker == [owner : Creators \cup {Nobody}, step : {"placed", "registered", "left"},
           paths : SUBSET Paths, old : BOOLEAN, attempts : 0..MaxAttempts]
NoJob  == [kind |-> "none"]
NoTask == [paths |-> {}, how |-> "unlink", ok |-> TRUE]
NoMarker == [step |-> "none"]

TypeOK ==
  /\ disk \subseteq Paths /\ trash \subseteq Paths /\ recent \subseteq Paths
  /\ originals \subseteq Media
  /\ channels \subseteq Channels /\ rows \subseteq Row
  /\ avatar \in [Channels -> Thumbs \cup {NoThumb}]
  /\ markers \subseteq Marker
  /\ lock \in Actors \cup {Nobody}
  /\ pc \in [Actors -> Steps]
  /\ job \in [Creators -> Job \cup {NoJob}]
  /\ \A c \in Creators : pc[c] # "idle" => job[c] \in Job
  /\ task \in [Actors -> Task]
  /\ todo \subseteq Marker /\ sweeping \in Marker \cup {NoMarker}
  /\ requests \in 0..MaxRequests /\ crashes \in 0..MaxCrashes

-----------------------------------------------------------------------------
(* What the database refers to. *)

RowFiles(r) == {r.media, r.thumb} \ {NoThumb}
FilesOfRows == UNION {RowFiles(r) : r \in rows}
AvatarFiles == {avatar[ch] : ch \in channels} \ {NoThumb}
Referenced  == FilesOfRows \cup AvatarFiles

JobFiles(c)      == {job[c].media, job[c].thumb} \ {NoThumb}
Goto(a, step)    == pc' = [pc EXCEPT ![a] = step]
Write(p)         == /\ disk' = disk \cup {p}
                    /\ recent' = IF p \in disk THEN recent ELSE recent \cup {p}
Request          == requests < MaxRequests /\ requests' = requests + 1
Plan(a, paths, how) == task' = [task EXCEPT ![a] = [paths |-> paths, how |-> how, ok |-> TRUE]]

-----------------------------------------------------------------------------
(* The creation of a media, up to its registration.                        *)

\* create_media_async: the shared side of CREATION_GATE, then the channel.
Create(c, kind, ch, m) ==
  /\ Request /\ pc[c] = "idle"
  /\ pc[OrphanRemover] = "idle"
  /\ ch \in channels
  /\ job' = [job EXCEPT ![c] = [kind |-> kind, channel |-> ch, media |-> m,
                                thumb |-> NoThumb, onlyCopy |-> FALSE,
                                registering |-> FALSE]]
  /\ Goto(c, IF kind = "download" THEN "place" ELSE "thumb")
  /\ UNCHANGED <<files, db, markers, lock, task, sweep, crashes>>

\* The image of a creation, if there is one: before the media of a local
\* import, after that of a download.
StoreThumb(c) ==
  /\ pc[c] \in {"thumb", "sidecar"}
  /\ \/ \E t \in Thumbs : Write(t) /\ job' = [job EXCEPT ![c].thumb = t]
     \/ UNCHANGED <<disk, recent, job>>
  /\ Goto(c, IF pc[c] = "thumb" THEN "stage" ELSE "register")
  /\ UNCHANGED <<trash, originals, db, markers, lock, task, sweep, requests, crashes>>

\* stage_media_import_cancellable_sync: a Copy, or a Move whose source stays,
\* adopts the file already there or writes its own.
StageCopy(c) ==
  /\ pc[c] = "stage"
  /\ job[c].kind = "move" =>
       job[c].media \in originals /\ (HardLinks \/ job[c].media \in disk)
  /\ Write(job[c].media)
  /\ Goto(c, "register")
  /\ UNCHANGED <<trash, originals, db, markers, lock, job, task, sweep, requests, crashes>>

\* A Move on a volume without hard links renames the user's only copy.
StageRename(c) ==
  /\ pc[c] = "stage" /\ job[c].kind = "move" /\ ~HardLinks
  /\ job[c].media \in originals \ disk
  /\ Write(job[c].media)
  /\ originals' = originals \ {job[c].media}
  /\ job' = [job EXCEPT ![c].onlyCopy = TRUE]
  /\ Goto(c, "register")
  /\ UNCHANGED <<trash, db, markers, lock, task, sweep, requests, crashes>>

\* A staging that fails or is cancelled hands its image to the cleanup.
StageFails(c) ==
  /\ pc[c] = "stage"
  /\ IF job[c].thumb = NoThumb
     THEN Goto(c, "close") /\ UNCHANGED task
     ELSE Goto(c, "count") /\ Plan(c, {job[c].thumb}, "unlink")
  /\ UNCHANGED <<files, db, markers, lock, job, sweep, requests, crashes>>

\* place_downloaded_file.
Place(c) ==
  /\ pc[c] = "place"
  /\ \/ Write(job[c].media) /\ Goto(c, "mark")
     \/ Goto(c, "close") /\ UNCHANGED <<disk, recent>>
  /\ UNCHANGED <<trash, originals, db, markers, lock, job, task, sweep, requests, crashes>>

MarkerOf(c, step, paths) ==
  [owner |-> c, step |-> step, paths |-> paths, old |-> FALSE, attempts |-> 0]
Owned(c, step) == {m \in markers : m.owner = c /\ m.step = step}
\* A marker of this process that stays on disk although its creation ended.
Disowned(m) == [m EXCEPT !.owner = Nobody, !.step = "left"]
\* clear_pending_media_artifacts: never live again, gone unless the unlink fails.
Clear(gone) ==
  \/ markers' = markers \ gone
  \/ MarkerMayFail /\ markers' = (markers \ gone) \cup {Disowned(m) : m \in gone}

\* record_placement_marker, best effort.
MarkPlacement(c) ==
  /\ pc[c] = "mark"
  /\ \/ markers' = markers \cup {MarkerOf(c, "placed", {job[c].media})}
     \/ MarkerMayFail /\ UNCHANGED markers
  /\ Goto(c, "sidecar")
  /\ UNCHANGED <<files, db, lock, job, task, sweep, requests, crashes>>

\* discard_cancelled_placement: a cancel heard once the image was stored.
CancelPlaced(c) ==
  /\ pc[c] = "register" /\ job[c].kind = "download"
  /\ Plan(c, JobFiles(c), "trash") /\ Goto(c, "count")
  /\ UNCHANGED <<files, db, markers, lock, job, sweep, requests, crashes>>

-----------------------------------------------------------------------------
(* register_prepared_media, under MEDIA_REGISTRATION_LOCK.                 *)

BeginRegistration(c) ==
  /\ pc[c] = "register" /\ lock = Nobody
  /\ lock' = c /\ job' = [job EXCEPT ![c].registering = TRUE]
  /\ Goto(c, "record")
  /\ UNCHANGED <<files, db, markers, task, sweep, requests, crashes>>

\* Mutant: the only copy is handed to the cleanup like any other file.
DeletableAll(c) == JobFiles(c)

\* deletable_media_file: the only copy of a file is never named for removal.
Deletable(c) == JobFiles(c) \ (IF job[c].onlyCopy THEN {job[c].media} ELSE {})

RecordMarker(c) ==
  /\ pc[c] = "record"
  /\ \/ /\ Deletable(c) # {}
        /\ markers' = markers \cup {MarkerOf(c, "registered", Deletable(c))}
        /\ Goto(c, "interim")
     \/ /\ Deletable(c) = {} \/ MarkerMayFail
        /\ Goto(c, "check") /\ UNCHANGED markers
  /\ UNCHANGED <<files, db, lock, job, task, sweep, requests, crashes>>

ClearInterim(c) ==
  /\ pc[c] = "interim" /\ Clear(Owned(c, "placed"))
  /\ Goto(c, "check")
  /\ UNCHANGED <<files, db, lock, job, task, sweep, requests, crashes>>

\* Mutant: the media file is not looked for again.
CheckFilesBlindly(c) ==
  /\ pc[c] = "check" /\ Goto(c, "insert")
  /\ UNCHANGED <<files, db, markers, lock, job, task, sweep, requests, crashes>>

\* insert_prepared_media: the files are looked for again first.
CheckFiles(c) ==
  /\ pc[c] = "check"
  /\ IF job[c].media \in disk
     THEN /\ job' = IF job[c].thumb \in disk THEN job
                    ELSE [job EXCEPT ![c].thumb = NoThumb]
          /\ Goto(c, "insert")
     ELSE Goto(c, "putBack") /\ UNCHANGED job
  /\ UNCHANGED <<files, db, markers, lock, task, sweep, requests, crashes>>

\* (channel_id, file_path) is unique, channel_id is a foreign key.
Insert(c) ==
  /\ pc[c] = "insert" /\ job[c].channel \in channels
  /\ ~\E r \in rows : r.channel = job[c].channel /\ r.media = job[c].media
  /\ rows' = rows \cup {[channel |-> job[c].channel, media |-> job[c].media,
                         thumb |-> job[c].thumb]}
  /\ Goto(c, "clear")
  /\ UNCHANGED <<files, channels, avatar, markers, lock, job, task, sweep, requests, crashes>>

\* Refused as a duplicate, for its channel, or by the database.
InsertFails(c) ==
  /\ pc[c] = "insert" /\ Goto(c, "putBack")
  /\ UNCHANGED <<files, db, markers, lock, job, task, sweep, requests, crashes>>

ClearMarkers(c) ==
  /\ pc[c] = "clear" /\ Clear({m \in markers : m.owner = c})
  /\ Goto(c, "source")
  /\ UNCHANGED <<files, db, lock, job, task, sweep, requests, crashes>>

\* remove_move_source_best_effort.
RemoveSource(c) ==
  /\ pc[c] = "source"
  /\ \/ /\ job[c].kind = "move" /\ ~job[c].onlyCopy
        /\ originals' = originals \ {job[c].media}
     \/ /\ job[c].kind # "move" \/ job[c].onlyCopy \/ RemovalMayFail
        /\ UNCHANGED originals
  /\ Goto(c, "close")
  /\ UNCHANGED <<disk, trash, recent, db, markers, lock, job, task, sweep, requests, crashes>>

\* put_renamed_file_back, then the cleanup of the rest, into the trash.
PutBack(c) ==
  /\ pc[c] = "putBack"
  /\ IF job[c].onlyCopy /\ job[c].media \in disk \ originals
     THEN \/ /\ disk' = disk \ {job[c].media} /\ recent' = recent \ {job[c].media}
             /\ originals' = originals \cup {job[c].media}
          \/ RemovalMayFail /\ UNCHANGED <<disk, originals, recent>>
     ELSE UNCHANGED <<disk, originals, recent>>
  /\ IF Deletable(c) = {}
     THEN Goto(c, "close") /\ UNCHANGED task
     ELSE Goto(c, "count") /\ Plan(c, Deletable(c), "trash")
  /\ UNCHANGED <<trash, db, markers, lock, job, sweep, requests, crashes>>

\* The creation returns: its markers go once nothing of it is left behind,
\* and stay for the next launch's sweep otherwise.
Close(c) ==
  /\ pc[c] = "close"
  /\ IF task[c].ok
     THEN Clear({m \in markers : m.owner = c})
     ELSE markers' = {IF m.owner = c THEN Disowned(m) ELSE m : m \in markers}
  /\ lock' = IF lock = c THEN Nobody ELSE lock
  /\ job' = [job EXCEPT ![c] = NoJob]
  /\ task' = [task EXCEPT ![c] = NoTask]
  /\ Goto(c, "idle")
  /\ UNCHANGED <<files, db, sweep, requests, crashes>>

-----------------------------------------------------------------------------
(* The removal every path shares.                                          *)

Registering(a) == a \in Creators /\ job[a].registering

\* The end of a removal: the guard is dropped, except by a registration,
\* which still holds it for its markers.
EndRemoval(a, ok) ==
  /\ lock' = IF Registering(a) THEN lock ELSE Nobody
  /\ task' = [task EXCEPT ![a] = [NoTask EXCEPT !.ok = ok]]
  /\ Goto(a, IF a \in Creators THEN "close"
             ELSE IF a = Sweeper THEN "settle" ELSE "idle")

\* Mutant: a registration that cleans up waits for the lock it holds.
CountRelocking(a) ==
  /\ pc[a] = "count"
  /\ \/ lock = a /\ UNCHANGED vars
     \/ /\ lock = Nobody
        /\ Plan(a, task[a].paths \ Referenced, task[a].how)
        /\ lock' = a /\ Goto(a, "recount")
        /\ UNCHANGED <<files, db, markers, job, sweep, requests, crashes>>

\* {cleanup,trash}_unreferenced_artifacts: the lock, then the count.
Count(a) ==
  /\ pc[a] = "count" /\ lock \in {Nobody, a}
  /\ \/ /\ Plan(a, task[a].paths \ Referenced, task[a].how)
        /\ lock' = a /\ Goto(a, "recount")
     \/ RemovalMayFail /\ EndRemoval(a, FALSE)
  /\ UNCHANGED <<files, db, markers, job, sweep, requests, crashes>>

\* Mutant: a deletion relies on its recount and takes no lock.
AcquireNothing(a) ==
  /\ pc[a] = "acquire" /\ Goto(a, "recount")
  /\ UNCHANGED <<files, db, markers, lock, job, task, sweep, requests, crashes>>

\* execute_plan, of a deletion whose transaction made the plan.
Acquire(a) ==
  /\ pc[a] = "acquire" /\ lock = Nobody
  /\ lock' = a /\ Goto(a, "recount")
  /\ UNCHANGED <<files, db, markers, job, task, sweep, requests, crashes>>

\* drop_paths_referenced_again: a recount that fails keeps the decision.
Unanswered(a) == IF RecountMayFail THEN SUBSET task[a].paths ELSE {{}}
Recount(a) ==
  /\ pc[a] = "recount"
  /\ \E kept \in Unanswered(a) :
       Plan(a, (task[a].paths \ Referenced) \cup kept, task[a].how)
  /\ Goto(a, "remove")
  /\ UNCHANGED <<files, db, markers, lock, job, sweep, requests, crashes>>

\* remove_planned_artifacts_sync or move_orphans_to_trash_sync.
Removable(a) == IF RemovalMayFail THEN SUBSET task[a].paths ELSE {task[a].paths}
Remove(a) ==
  /\ pc[a] = "remove"
  /\ \E gone \in Removable(a) :
       /\ disk' = disk \ gone /\ recent' = recent \ gone
       /\ trash' = IF task[a].how = "trash" THEN trash \cup (gone \cap disk) ELSE trash
       /\ EndRemoval(a, gone = task[a].paths)
  /\ UNCHANGED <<originals, db, markers, job, sweep, requests, crashes>>

-----------------------------------------------------------------------------
(* What the user does to rows and avatars.  None of these transactions     *)
(* holds the lock; only the removal that follows does.                     *)

DeleteMedia(u, r) ==
  /\ Request /\ pc[u] = "idle" /\ r \in rows
  /\ rows' = rows \ {r} /\ UNCHANGED <<channels, avatar>>
  /\ Plan(u, RowFiles(r) \ Referenced', "unlink") /\ Goto(u, "acquire")
  /\ UNCHANGED <<files, markers, lock, job, sweep, crashes>>

DeleteChannel(u, ch) ==
  /\ Request /\ pc[u] = "idle" /\ ch \in channels
  /\ channels' = channels \ {ch} /\ avatar' = [avatar EXCEPT ![ch] = NoThumb]
  /\ rows' = {r \in rows : r.channel # ch}
  /\ Plan(u, Referenced \ Referenced', "unlink") /\ Goto(u, "acquire")
  /\ UNCHANGED <<files, markers, lock, job, sweep, crashes>>

\* persist_thumbnail_file: one command before the row that will name it.
StoreAvatar(u, t) ==
  /\ Request /\ pc[u] = "idle"
  /\ Write(t) /\ Plan(u, {t}, "unlink") /\ Goto(u, "avatar")
  /\ UNCHANGED <<trash, originals, db, markers, lock, job, sweep, crashes>>

\* replace_channel_avatar.
ReplaceAvatar(u, ch) ==
  /\ pc[u] = "avatar" /\ ch \in channels
  /\ \E t \in task[u].paths : avatar' = [avatar EXCEPT ![ch] = t]
  /\ UNCHANGED <<channels, rows>>
  /\ Plan(u, ({avatar[ch]} \ {NoThumb}) \ Referenced', "unlink")
  /\ Goto(u, "acquire")
  /\ UNCHANGED <<files, markers, lock, job, sweep, requests, crashes>>

\* insert_channel: a new id, which no creation under way can be naming.
InsertChannel(u, ch) ==
  /\ pc[u] = "avatar" /\ ch \notin channels
  /\ \A c \in Creators : pc[c] # "idle" => job[c].channel # ch
  /\ channels' = channels \cup {ch}
  /\ \E t \in task[u].paths : avatar' = [avatar EXCEPT ![ch] = t]
  /\ task' = [task EXCEPT ![u] = NoTask] /\ Goto(u, "idle")
  /\ UNCHANGED <<files, rows, markers, lock, job, sweep, requests, crashes>>

\* Refused: remove_unused_avatar.
RefuseChannel(u) ==
  /\ pc[u] = "avatar" /\ Goto(u, "count")
  /\ UNCHANGED <<files, db, markers, lock, job, task, sweep, requests, crashes>>

-----------------------------------------------------------------------------
(* sweep_pending_media_artifacts, once per launch.                         *)

\* Mutant: a marker is offered however often it failed.
ReadAllMarkers ==
  /\ pc[Sweeper] = "waiting"
  /\ todo' = {m \in markers : m.owner = Nobody /\ m.old}
  /\ Goto(Sweeper, "next")
  /\ UNCHANGED <<files, db, markers, lock, job, task, sweeping, requests, crashes>>

\* read_pending_markers, with marker_is_sweepable and the retry ceiling.
ReadMarkers ==
  /\ pc[Sweeper] = "waiting"
  /\ todo' = {m \in markers : m.owner = Nobody /\ m.old /\ m.attempts < MaxAttempts}
  /\ Goto(Sweeper, "next")
  /\ UNCHANGED <<files, db, markers, lock, job, task, sweeping, requests, crashes>>

\* The paths that creations of this session name are spared.
LivePaths == UNION {m.paths : m \in {n \in markers : n.owner # Nobody}}
SpareLive ==
  /\ pc[Sweeper] = "next"
  /\ \E m \in todo : /\ sweeping' = m /\ todo' = todo \ {m}
                     /\ Plan(Sweeper, m.paths \ LivePaths, "trash")
  /\ Goto(Sweeper, "count")
  /\ UNCHANGED <<files, db, markers, lock, job, requests, crashes>>

\* Mutant: a marker goes whether or not its files could be moved.
SettleAlways ==
  /\ pc[Sweeper] = "settle" /\ markers' = markers \ {sweeping}
  /\ sweeping' = NoMarker /\ task' = [task EXCEPT ![Sweeper] = NoTask]
  /\ Goto(Sweeper, "next")
  /\ UNCHANGED <<files, db, lock, job, todo, requests, crashes>>

\* A marker goes once what it names is handled; a failure is counted, which
\* also makes the marker newer than this process.
Settle ==
  /\ pc[Sweeper] = "settle"
  /\ \/ /\ task[Sweeper].ok /\ markers' = markers \ {sweeping}
     \/ /\ ~task[Sweeper].ok
        /\ markers' = (markers \ {sweeping}) \cup
              {[sweeping EXCEPT !.attempts = @ + 1, !.old = FALSE]}
     \/ MarkerMayFail /\ UNCHANGED markers
  /\ sweeping' = NoMarker /\ task' = [task EXCEPT ![Sweeper] = NoTask]
  /\ Goto(Sweeper, "next")
  /\ UNCHANGED <<files, db, lock, job, todo, requests, crashes>>

\* Mutant: the sweep may stop with markers left.
SweepStops ==
  /\ pc[Sweeper] = "next" /\ Goto(Sweeper, "done")
  /\ UNCHANGED <<files, db, markers, lock, job, task, sweep, requests, crashes>>

SweepDone ==
  /\ pc[Sweeper] = "next" /\ todo = {} /\ Goto(Sweeper, "done")
  /\ UNCHANGED <<files, db, markers, lock, job, task, sweep, requests, crashes>>

-----------------------------------------------------------------------------
(* remove_orphan_artifacts.                                                *)

\* Mutant: the orphan removal does not ask whether a creation runs.
ExcludeNothing ==
  /\ Request /\ pc[OrphanRemover] = "idle" /\ Goto(OrphanRemover, "list")
  /\ UNCHANGED <<files, db, markers, lock, job, task, sweep, crashes>>

\* try_exclude_creations, before the lock: refused while a creation runs.
ExcludeCreations ==
  /\ Request /\ pc[OrphanRemover] = "idle"
  /\ \A c \in Creators : pc[c] = "idle"
  /\ Goto(OrphanRemover, "list")
  /\ UNCHANGED <<files, db, markers, lock, job, task, sweep, crashes>>

\* orphan_removal_refusal, or nothing to do.
RefuseOrphans ==
  /\ pc[OrphanRemover] = "list" /\ lock = Nobody /\ Goto(OrphanRemover, "idle")
  /\ UNCHANGED <<files, db, markers, lock, job, task, sweep, requests, crashes>>

ListOrphans ==
  /\ pc[OrphanRemover] = "list" /\ lock = Nobody
  /\ lock' = OrphanRemover
  /\ Plan(OrphanRemover, disk \ (Referenced \cup recent), "trash")
  /\ Goto(OrphanRemover, "recount")
  /\ UNCHANGED <<files, db, markers, job, sweep, requests, crashes>>

\* An hour passes.  It is taken to be longer than an avatar's two commands.
Age ==
  /\ recent # {} /\ recent' = {}
  /\ \A u \in Users : pc[u] # "avatar"
  /\ UNCHANGED <<disk, trash, originals, db, markers, lock, pc, job, task, sweep, requests, crashes>>

-----------------------------------------------------------------------------
\* The process dies, or is closed, and is launched again.  A marker on disk
\* is then one of an earlier process.
Restart ==
  /\ crashes < MaxCrashes /\ crashes' = crashes + 1
  /\ markers' = {[m EXCEPT !.owner = Nobody, !.step = "left", !.old = TRUE] : m \in markers}
  /\ lock' = Nobody
  /\ pc' = [a \in Actors |-> IF a = Sweeper THEN "waiting" ELSE "idle"]
  /\ job' = [c \in Creators |-> NoJob]
  /\ task' = [a \in Actors |-> NoTask]
  /\ todo' = {} /\ sweeping' = NoMarker
  /\ UNCHANGED <<files, db, requests>>

Init ==
  /\ disk = {} /\ trash = {} /\ recent = {} /\ originals = Media
  /\ channels \in SUBSET Channels
  /\ avatar = [ch \in Channels |-> NoThumb] /\ rows = {} /\ markers = {}
  /\ lock = Nobody
  /\ pc = [a \in Actors |-> IF a = Sweeper THEN "waiting" ELSE "idle"]
  /\ job = [c \in Creators |-> NoJob]
  /\ task = [a \in Actors |-> NoTask]
  /\ todo = {} /\ sweeping = NoMarker
  /\ requests = 0 /\ crashes = 0

Register(c) ==
  \/ RecordMarker(c) \/ ClearInterim(c) \/ CheckFiles(c) \/ Insert(c)
  \/ InsertFails(c) \/ ClearMarkers(c) \/ RemoveSource(c) \/ PutBack(c)
Prepare(c) ==
  \/ StoreThumb(c) \/ StageCopy(c) \/ StageRename(c) \/ StageFails(c)
  \/ Place(c) \/ MarkPlacement(c) \/ CancelPlaced(c)
CreatorStep(c) == Prepare(c) \/ BeginRegistration(c) \/ Register(c) \/ Close(c)
Removal(a) == Count(a) \/ Acquire(a) \/ Recount(a) \/ Remove(a)
AvatarStep(u) ==
  \/ \E ch \in Channels : ReplaceAvatar(u, ch) \/ InsertChannel(u, ch)
  \/ RefuseChannel(u)
SweepStep == ReadMarkers \/ SpareLive \/ Settle \/ SweepDone
Requests ==
  \/ \E c \in Creators, kind \in Kinds, ch \in Channels, m \in Media :
       Create(c, kind, ch, m)
  \/ \E u \in Users :
       \/ \E r \in rows : DeleteMedia(u, r)
       \/ \E ch \in Channels : DeleteChannel(u, ch)
       \/ \E t \in Thumbs : StoreAvatar(u, t)
  \/ ExcludeCreations

\* Nothing is running and the user asks for nothing more.
Resting(a) == pc[a] \in {"idle", "done"}
Rest == /\ \A a \in Actors : Resting(a)
        /\ UNCHANGED vars

Next ==
  \/ Requests
  \/ \E c \in Creators : CreatorStep(c)
  \/ \E u \in Users : AvatarStep(u)
  \/ \E a \in Actors : Removal(a)
  \/ SweepStep \/ ListOrphans \/ RefuseOrphans \/ Age \/ Restart \/ Rest

Spec == Init /\ [][Next]_vars

\* What has begun goes on: the tasks run on the tokio runtime, and its mutex
\* serves its waiters in turn, so the lock is granted again and again to
\* whoever keeps asking.  Requests, the clock and the end of the process are
\* not promised.
FairSpec ==
  /\ Spec
  /\ \A c \in Creators : SF_vars(CreatorStep(c) \/ Removal(c))
  /\ \A u \in Users : SF_vars(AvatarStep(u) \/ Removal(u))
  /\ SF_vars(SweepStep \/ Removal(Sweeper))
  /\ SF_vars(ListOrphans \/ RefuseOrphans \/ Removal(OrphanRemover))

-----------------------------------------------------------------------------
(* Properties.                                                             *)

\* A media row never points at a file that is gone, neither its media file
\* nor its image, whatever runs at the same time (insert_prepared_media, and
\* "never a row pointing at a file that is gone" of docs/THREAT-MODEL.md).
RowFilesExist == FilesOfRows \subseteq disk

\* A Move that renamed the user's only copy into the library does not lose it
\* while it runs, registered or not: it is in the library, or back where the
\* user had it, and never among what is trashed or deleted
\* (deletable_media_file, put_renamed_file_back).
OnlyCopyKept ==
  \A c \in Creators : pc[c] # "idle" /\ job[c].onlyCopy =>
    job[c].media \in disk \cup originals

\* The source of a Move is given up only while the library has its content,
\* although the row may be deleted between the insert and the removal.
SourceGoneOnlyAfterCopy ==
  [][\A m \in originals \ originals' : m \in disk']_vars

\* What accounts for a file p of the library, other than the creation c.
Accounted(p, c) ==
  \/ p \notin disk \/ p \in Referenced
  \/ \E m \in markers : p \in m.paths
  \/ \E u \in Users : p \in task[u].paths
  \/ \E d \in Creators \ {c} : pc[d] # "idle" /\ p \in JobFiles(d)

\* A crash marker is given up only when each file it names is gone, is
\* referenced, or is named by something else that will deal with it
\* (cleanup_reconciled, and the order of record, insert and clear).
NothingForgotten ==
  [][\A m \in markers : \A p \in m.paths : Accounted(p, m.owner)']_vars

\* The orphan removal takes no file that a running creation has placed or is
\* about to adopt (CREATION_GATE).
OrphansSpareCreations ==
  [][pc[OrphanRemover] = "remove" =>
       \A c \in Creators : pc[c] # "idle" =>
         JobFiles(c) \cap (disk \ disk') = {}]_vars

\* Every creation, deletion, sweep and orphan removal that begins ends: the
\* gate and the lock, which creations and the orphan removal take in opposite
\* order, never leave them waiting on one another.
EveryOperationEnds == \A a \in Actors : ~Resting(a) ~> Resting(a)

\* Once the process stays up, no marker an earlier run left is still waiting
\* to be reconciled.
EveryLeftoverIsSwept == <>[](\A m \in markers : m.owner = Nobody => ~m.old)
=============================================================================
