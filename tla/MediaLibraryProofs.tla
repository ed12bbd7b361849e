------------------------- MODULE MediaLibraryProofs -------------------------
(***************************************************************************)
(* Proofs about MediaLibrary, for every number of creations, commands,     *)
(* files and channels, and every bound.                                    *)
(***************************************************************************)
EXTENDS MediaLibrary, TLAPS

(***************************************************************************)
(* Type correctness.  TypeOK alone is not inductive: Settle counts one     *)
(* more attempt of the marker in hand, which stays within MaxAttempts only *)
(* because ReadMarkers never offers a marker that has reached it.          *)
(***************************************************************************)
SweepTyped ==
  /\ pc[Sweeper] \in SweeperSteps
  /\ \A m \in todo : m.attempts < MaxAttempts
  /\ pc[Sweeper] \in {"count", "recount", "remove", "settle"} =>
       sweeping \in Marker /\ sweeping.attempts < MaxAttempts

\* A stored avatar that waits for its row is an image.
AvatarTyped == \A u \in Users : pc[u] = "avatar" => task[u].paths \subseteq Thumbs

InHandTyped == SweepTyped /\ AvatarTyped

Typed == TypeOK /\ InHandTyped

USE NamesAssumption, SwitchesAssumption, BoundsAssumption

\* The initial state is well typed.
LEMMA InitTyped == Init => Typed
  BY DEF Init, Typed, TypeOK, InHandTyped, SweepTyped, AvatarTyped, Steps, CreatorSteps, SweeperSteps,
         NoTask, Task, NoMarker, NoJob, Actors, Paths

\* A creation that is under way has a job, whose files are library paths.
LEMMA JobOfActive ==
  ASSUME TypeOK, NEW c \in Creators, pc[c] # "idle"
  PROVE  /\ job[c] \in Job
         /\ job[c].media \in Media /\ job[c].thumb \in Thumbs \cup {NoThumb}
         /\ JobFiles(c) \subseteq Paths
  BY DEF TypeOK, Job, JobFiles, Paths

\* A step of another actor than the sweep leaves what the sweep has in hand as
\* it was, and stores no avatar.
LEMMA InHandUntouched ==
  ASSUME Typed, NEW a \in Actors, a # Sweeper,
         NEW step, step # "avatar", Goto(a, step), UNCHANGED sweep,
         \A b \in Actors \ {a} : task'[b] = task[b]
  PROVE  InHandTyped'
  BY DEF Typed, TypeOK, InHandTyped, SweepTyped, AvatarTyped, Goto, sweep, Actors

\* A plan to remove library paths is a task.
LEMMA PlanTyped ==
  ASSUME TypeOK, NEW a \in Actors, NEW paths \in SUBSET Paths,
         NEW how \in {"unlink", "trash"}, Plan(a, paths, how)
  PROVE  task' \in [Actors -> Task]
  BY DEF TypeOK, Plan, Task

\* The steps of a creation up to its registration keep the types.
LEMMA PrepareTyped ==
  ASSUME Typed, NEW c \in Creators, Prepare(c) PROVE Typed'
<1> USE DEF Typed, TypeOK, InHandTyped, SweepTyped, AvatarTyped, Steps, CreatorSteps, Goto, Write, files,
            db, sweep, Actors, Paths
<1>1. CASE StoreThumb(c)
  BY <1>1 DEF StoreThumb, Job
<1>2. ASSUME pc[c] # "idle"
      PROVE  /\ job[c] \in Job /\ job[c].media \in Media /\ JobFiles(c) \subseteq Paths
             /\ job[c].thumb \in Thumbs \cup {NoThumb}
  BY <1>2, JobOfActive
<1>3. CASE StageCopy(c)
  BY <1>2, <1>3 DEF StageCopy
<1>4. CASE StageRename(c)
  <2>1. [job[c] EXCEPT !.onlyCopy = TRUE] \in Job
    BY <1>2, <1>4 DEF StageRename, Job
  <2>2. InHandTyped'
    BY <1>4, InHandUntouched DEF StageRename
  <2>3. job' \in [Creators -> Job \cup {NoJob}]
    BY <1>4, <2>1 DEF StageRename
  <2>4. disk' \subseteq Paths /\ recent' \subseteq Paths /\ originals' \subseteq Media
    BY <1>2, <1>4 DEF StageRename
  <2>5. \A d \in Creators : pc'[d] # "idle" => job'[d] \in Job
    BY <1>4, <2>1 DEF StageRename
  <2> QED BY <1>4, <2>2, <2>3, <2>4, <2>5 DEF StageRename
<1>5. CASE StageFails(c)
  <2>1. task' \in [Actors -> Task]
    BY <1>2, <1>5, PlanTyped DEF StageFails
  <2>2. InHandTyped'
    BY <1>5, InHandUntouched DEF StageFails, Plan
  <2> QED BY <1>5, <2>1, <2>2 DEF StageFails
<1>6. CASE Place(c)
  BY <1>2, <1>6 DEF Place
<1>7. CASE MarkPlacement(c)
  <2>1. MarkerOf(c, "placed", {job[c].media}) \in Marker
    BY <1>2, <1>7 DEF MarkPlacement, MarkerOf, Marker
  <2> QED BY <1>7, <2>1 DEF MarkPlacement
<1>8. CASE CancelPlaced(c)
  <2>1. task' \in [Actors -> Task]
    BY <1>2, <1>8, PlanTyped DEF CancelPlaced
  <2>2. InHandTyped'
    BY <1>8, InHandUntouched DEF CancelPlaced, Plan
  <2> QED BY <1>8, <2>1, <2>2 DEF CancelPlaced
<1> QED BY <1>1, <1>3, <1>4, <1>5, <1>6, <1>7, <1>8 DEF Prepare

\* A marker that its creation leaves behind is a marker.
LEMMA DisownedTyped ==
  ASSUME TypeOK PROVE \A m \in markers : Disowned(m) \in Marker
<1> SUFFICES ASSUME NEW m \in Marker PROVE Disowned(m) \in Marker
  BY DEF TypeOK
<1> QED BY DEF Disowned, Marker

\* Clear keeps the directory one of markers.
LEMMA ClearTyped ==
  ASSUME TypeOK, NEW gone \in SUBSET markers, Clear(gone)
  PROVE  markers' \subseteq Marker
  BY DisownedTyped DEF TypeOK, Clear

\* The steps of a registration keep the types.
LEMMA RegisterTyped ==
  ASSUME Typed, NEW c \in Creators, BeginRegistration(c) \/ Register(c) PROVE Typed'
<1> USE DEF Typed, TypeOK, Steps, CreatorSteps, Goto, files, db, Actors
<1>1. ASSUME pc[c] # "idle"
      PROVE  /\ job[c] \in Job /\ job[c].media \in Media /\ JobFiles(c) \subseteq Paths
             /\ job[c].thumb \in Thumbs \cup {NoThumb}
             /\ Deletable(c) \subseteq Paths
  BY <1>1, JobOfActive DEF Deletable
<1>2. CASE BeginRegistration(c)
  <2>1. [job[c] EXCEPT !.registering = TRUE] \in Job
    BY <1>1, <1>2 DEF BeginRegistration, Job
  <2>2. job' \in [Creators -> Job \cup {NoJob}]
    BY <1>2, <2>1 DEF BeginRegistration
  <2>3. InHandTyped'
    BY <1>2, InHandUntouched DEF BeginRegistration
  <2> QED BY <1>2, <2>1, <2>2, <2>3 DEF BeginRegistration, sweep
<1>3. CASE RecordMarker(c)
  <2>1. MarkerOf(c, "registered", Deletable(c)) \in Marker
    BY <1>1, <1>3 DEF RecordMarker, MarkerOf, Marker
  <2>2. markers' \subseteq Marker
    BY <1>3, <2>1 DEF RecordMarker
  <2>3. InHandTyped'
    BY <1>3, InHandUntouched DEF RecordMarker
  <2> QED BY <1>3, <2>2, <2>3 DEF RecordMarker, sweep
<1>4. CASE ClearInterim(c)
  <2>1. markers' \subseteq Marker
    BY <1>4, ClearTyped DEF ClearInterim, Owned
  <2>2. InHandTyped'
    BY <1>4, InHandUntouched DEF ClearInterim
  <2> QED BY <1>4, <2>1, <2>2 DEF ClearInterim, sweep
<1>5. CASE CheckFiles(c)
  <2>1. [job[c] EXCEPT !.thumb = NoThumb] \in Job
    BY <1>1, <1>5 DEF CheckFiles, Job
  <2>2. job' \in [Creators -> Job \cup {NoJob}]
    BY <1>5, <2>1 DEF CheckFiles
  <2>3. \A d \in Creators : pc'[d] # "idle" => job'[d] \in Job
    BY <1>1, <1>5, <2>1 DEF CheckFiles
  <2>4. InHandTyped'
    BY <1>5, InHandUntouched DEF CheckFiles
  <2> QED BY <1>5, <2>2, <2>3, <2>4 DEF CheckFiles, sweep
<1>6. CASE Insert(c)
  <2>1. rows' \subseteq Row
    BY <1>1, <1>6 DEF Insert, Row
  <2>2. InHandTyped'
    BY <1>6, InHandUntouched DEF Insert
  <2> QED BY <1>6, <2>1, <2>2 DEF Insert, sweep
<1>7. CASE InsertFails(c)
  <2>1. InHandTyped'
    BY <1>7, InHandUntouched DEF InsertFails
  <2> QED BY <1>7, <2>1 DEF InsertFails, sweep
<1>8. CASE ClearMarkers(c)
  <2>1. markers' \subseteq Marker
    BY <1>8, ClearTyped DEF ClearMarkers
  <2>2. InHandTyped'
    BY <1>8, InHandUntouched DEF ClearMarkers
  <2> QED BY <1>8, <2>1, <2>2 DEF ClearMarkers, sweep
<1>9. CASE RemoveSource(c)
  <2>1. InHandTyped'
    BY <1>9, InHandUntouched DEF RemoveSource
  <2> QED BY <1>9, <2>1 DEF RemoveSource, sweep
<1>10. CASE PutBack(c)
  <2>1. task' \in [Actors -> Task]
    BY <1>1, <1>10, PlanTyped DEF PutBack
  <2>2. disk' \subseteq Paths /\ recent' \subseteq Paths /\ originals' \subseteq Media
    BY <1>1, <1>10 DEF PutBack
  <2>3. InHandTyped'
    BY <1>10, InHandUntouched DEF PutBack, Plan
  <2>4. pc' \in [Actors -> Steps] /\ UNCHANGED <<trash, db, markers, lock, job, sweep, requests, crashes>>
    BY <1>10 DEF PutBack
  <2>5. \A d \in Creators : pc'[d] # "idle" => job'[d] \in Job
    BY <1>1, <1>10 DEF PutBack
  <2> QED BY <2>1, <2>2, <2>3, <2>4, <2>5 DEF sweep
<1> QED BY <1>2, <1>3, <1>4, <1>5, <1>6, <1>7, <1>8, <1>9, <1>10 DEF Register

\* The end of a creation keeps the types.
LEMMA CloseTyped ==
  ASSUME Typed, NEW c \in Creators, Close(c) PROVE Typed'
<1> USE DEF Typed, TypeOK, Steps, CreatorSteps, Goto, files, db, Actors
<1>1. \A m \in markers : Disowned(m) \in Marker
  BY DisownedTyped
<1>2. markers' \subseteq Marker
  <2>1. CASE task[c].ok
    BY <2>1, ClearTyped DEF Close
  <2>2. CASE ~task[c].ok
    BY <1>1, <2>2 DEF Close
  <2> QED BY <2>1, <2>2
<1>3. task' \in [Actors -> Task]
  BY DEF Close, NoTask, Task
<1>4. job' \in [Creators -> Job \cup {NoJob}]
  BY DEF Close
<1>5. \A d \in Creators : pc'[d] # "idle" => job'[d] \in Job
  BY DEF Close
<1>6. InHandTyped'
  BY InHandUntouched DEF Close
<1> QED BY <1>2, <1>3, <1>4, <1>5, <1>6 DEF Close, sweep

\* The shared removal keeps the types, also those of the sweep that runs it.
LEMMA RemovalTyped ==
  ASSUME Typed, NEW a \in Actors, Removal(a) PROVE Typed'
<1> USE DEF Typed, TypeOK, Steps, CreatorSteps, UserSteps, SweeperSteps,
            OrphanSteps, Goto, files, db, sweep, InHandTyped, SweepTyped, AvatarTyped
<1>1. ASSUME NEW ok \in BOOLEAN, EndRemoval(a, ok),
             pc[a] \in {"count", "remove"}, UNCHANGED <<job, sweep>>
      PROVE  /\ task' \in [Actors -> Task] /\ pc' \in [Actors -> Steps]
             /\ lock' \in Actors \cup {Nobody}
             /\ \A d \in Creators : pc'[d] # "idle" => job'[d] \in Job
             /\ InHandTyped'
  <2>1. [NoTask EXCEPT !.ok = ok] \in Task
    BY DEF NoTask, Task
  <2> QED BY <1>1, <2>1 DEF EndRemoval, Actors
<1>2. task[a].paths \subseteq Paths /\ task[a].how \in {"unlink", "trash"}
  BY DEF Task
<1>3. ASSUME NEW paths \in SUBSET Paths, Plan(a, paths, task[a].how)
      PROVE  task' \in [Actors -> Task]
  BY <1>2, <1>3, PlanTyped
<1>4. ASSUME NEW step \in {"recount", "remove"}, Goto(a, step),
             pc[a] \in {"count", "acquire", "recount"}, UNCHANGED sweep,
             \A b \in Actors \ {a} : task'[b] = task[b]
      PROVE  InHandTyped'
  BY <1>4, InHandUntouched DEF Actors
<1>5. CASE Count(a)
  <2>1. CASE EndRemoval(a, FALSE)
    BY <1>1, <1>5, <2>1 DEF Count
  <2>2. CASE ~EndRemoval(a, FALSE)
    <3>1. task[a].paths \ Referenced \in SUBSET Paths
      BY <1>2
    <3>2. Plan(a, task[a].paths \ Referenced, task[a].how)
      BY <1>5, <2>2 DEF Count
    <3>3. task' \in [Actors -> Task]
      BY <1>3, <3>1, <3>2
    <3>4. InHandTyped'
      BY <1>4, <1>5, <2>2, <3>2 DEF Count, Plan
    <3> HIDE DEF InHandTyped
    <3> QED BY <1>5, <2>2, <3>3, <3>4 DEF Count, Actors
  <2> QED BY <2>1, <2>2
<1>6. CASE Acquire(a)
  BY <1>6 DEF Acquire, Actors
<1>7. CASE Recount(a)
  <2>1. PICK kept \in Unanswered(a) :
          Plan(a, (task[a].paths \ Referenced) \cup kept, task[a].how)
    BY <1>7 DEF Recount
  <2>2. (task[a].paths \ Referenced) \cup kept \in SUBSET Paths
    BY <1>2 DEF Unanswered
  <2>3. task' \in [Actors -> Task]
    BY <1>3, <2>1, <2>2
  <2>4. InHandTyped'
    BY <1>4, <1>7, <2>1 DEF Recount, Plan
  <2> HIDE DEF InHandTyped
  <2> QED BY <1>7, <2>3, <2>4 DEF Recount, Actors
<1>8. CASE Remove(a)
  <2>1. PICK gone \in Removable(a) :
          /\ disk' = disk \ gone /\ recent' = recent \ gone
          /\ trash' = IF task[a].how = "trash" THEN trash \cup (gone \cap disk) ELSE trash
          /\ EndRemoval(a, gone = task[a].paths)
    BY <1>8 DEF Remove
  <2>2. disk' \subseteq Paths /\ recent' \subseteq Paths /\ trash' \subseteq Paths
    BY <2>1
  <2> QED BY <1>1, <1>8, <2>1, <2>2 DEF Remove
<1> QED BY <1>5, <1>6, <1>7, <1>8 DEF Removal

\* What the user asks for, and what those commands do, keeps the types.
LEMMA RequestsTyped ==
  ASSUME Typed, Requests PROVE Typed'
<1> USE DEF Typed, TypeOK, Steps, CreatorSteps, UserSteps, OrphanSteps, Goto,
            files, db, Request, Actors
<1>1. ASSUME Request PROVE requests' \in 0..MaxRequests
  BY <1>1
<1>3. ASSUME NEW c \in Creators, NEW kind \in Kinds, NEW ch \in Channels,
             NEW m \in Media, Create(c, kind, ch, m)
      PROVE  Typed'
  <2>1. [kind |-> kind, channel |-> ch, media |-> m, thumb |-> NoThumb,
         onlyCopy |-> FALSE, registering |-> FALSE] \in Job
    BY DEF Job
  <2>2. InHandTyped'
    BY <1>3, InHandUntouched DEF Create
  <2> QED BY <1>1, <1>3, <2>1, <2>2 DEF Create, sweep
<1>4. ASSUME NEW u \in Users, NEW r \in rows, DeleteMedia(u, r)
      PROVE  Typed'
  <2>1. RowFiles(r) \ Referenced' \in SUBSET Paths
    BY DEF RowFiles, Row, Paths
  <2>2. task' \in [Actors -> Task]
    BY <1>4, <2>1, PlanTyped DEF DeleteMedia
  <2>3. InHandTyped'
    BY <1>4, InHandUntouched DEF DeleteMedia, Plan
  <2> QED BY <1>1, <1>4, <2>2, <2>3 DEF DeleteMedia, sweep
<1>5. ASSUME NEW u \in Users, NEW ch \in Channels, DeleteChannel(u, ch)
      PROVE  Typed'
  <2>1. Referenced \ Referenced' \in SUBSET Paths
    <3>1. FilesOfRows \subseteq Paths
      BY DEF FilesOfRows, RowFiles, Row, Paths
    <3>2. AvatarFiles \subseteq Paths
      BY DEF AvatarFiles, Paths
    <3> QED BY <3>1, <3>2 DEF Referenced
  <2>2. task' \in [Actors -> Task]
    BY <1>5, <2>1, PlanTyped DEF DeleteChannel
  <2>3. InHandTyped'
    BY <1>5, InHandUntouched DEF DeleteChannel, Plan
  <2> QED BY <1>1, <1>5, <2>2, <2>3 DEF DeleteChannel, sweep
<1>6. ASSUME NEW u \in Users, NEW t \in Thumbs, StoreAvatar(u, t)
      PROVE  Typed'
  <2>1. task' \in [Actors -> Task]
    BY <1>6, PlanTyped DEF StoreAvatar, Paths
  <2>2. InHandTyped'
    BY <1>6 DEF StoreAvatar, Plan, InHandTyped, SweepTyped, AvatarTyped, sweep
  <2>3. disk' \subseteq Paths /\ recent' \subseteq Paths
    BY <1>6 DEF StoreAvatar, Write, Paths
  <2> QED BY <1>1, <1>6, <2>1, <2>2, <2>3 DEF StoreAvatar, sweep
<1>7. ASSUME ExcludeCreations PROVE Typed'
  <2>1. InHandTyped'
    BY <1>7, InHandUntouched DEF ExcludeCreations
  <2> QED BY <1>1, <1>7, <2>1 DEF ExcludeCreations, sweep
<1> QED BY <1>3, <1>4, <1>5, <1>6, <1>7 DEF Requests

\* The second command of an avatar keeps the types.
LEMMA AvatarStepTyped ==
  ASSUME Typed, NEW u \in Users, AvatarStep(u) PROVE Typed'
<1> USE DEF Typed, TypeOK, Steps, UserSteps, Goto, files, db, Actors
<1>1. ASSUME NEW ch \in Channels, ReplaceAvatar(u, ch) PROVE Typed'
  <2>1. ({avatar[ch]} \ {NoThumb}) \ Referenced' \in SUBSET Paths
    BY DEF Paths
  <2>2. task' \in [Actors -> Task]
    BY <1>1, <2>1, PlanTyped DEF ReplaceAvatar
  <2>3. InHandTyped'
    BY <1>1, InHandUntouched DEF ReplaceAvatar, Plan
  <2>4. avatar' \in [Channels -> Thumbs \cup {NoThumb}]
    BY <1>1 DEF ReplaceAvatar, InHandTyped, AvatarTyped
  <2> QED BY <1>1, <2>2, <2>3, <2>4 DEF ReplaceAvatar, sweep
<1>2. ASSUME NEW ch \in Channels, InsertChannel(u, ch) PROVE Typed'
  <2>1. task' \in [Actors -> Task]
    BY <1>2 DEF InsertChannel, NoTask, Task
  <2>2. InHandTyped'
    BY <1>2, InHandUntouched DEF InsertChannel
  <2>3. avatar' \in [Channels -> Thumbs \cup {NoThumb}]
    BY <1>2 DEF InsertChannel, InHandTyped, AvatarTyped
  <2> QED BY <1>2, <2>1, <2>2, <2>3 DEF InsertChannel, sweep
<1>3. CASE RefuseChannel(u)
  <2>1. InHandTyped'
    BY <1>3, InHandUntouched DEF RefuseChannel
  <2> QED BY <1>3, <2>1 DEF RefuseChannel, sweep
<1> QED BY <1>1, <1>2, <1>3 DEF AvatarStep

\* A failure is counted within the ceiling.
LEMMA AnotherAttemptTyped ==
  ASSUME NEW m \in Marker, m.attempts < MaxAttempts
  PROVE  [m EXCEPT !.attempts = @ + 1, !.old = FALSE] \in Marker
<1>1. m.attempts + 1 \in 0..MaxAttempts
  BY DEF Marker
<1> QED BY <1>1 DEF Marker

\* Markers found by a later process are still markers.
LEMMA RestartMarkersTyped ==
  ASSUME TypeOK, Restart PROVE markers' \subseteq Marker
<1> SUFFICES ASSUME NEW n \in markers' PROVE n \in Marker
  OBVIOUS
<1>1. PICK m \in markers :
        n = [m EXCEPT !.owner = Nobody, !.step = "left", !.old = TRUE]
  BY DEF Restart
<1>2. m \in Marker
  BY <1>1 DEF TypeOK
<1> QED BY <1>1, <1>2 DEF Marker

\* The startup sweep keeps the types: it counts an attempt only of a marker
\* that ReadMarkers took with an attempt to spare.
LEMMA SweepStepTyped ==
  ASSUME Typed, SweepStep PROVE Typed'
<1> USE DEF Typed, TypeOK, InHandTyped, SweepTyped, AvatarTyped, Steps, SweeperSteps, Goto, files, db,
            sweep, Actors
<1>1. CASE ReadMarkers
  BY <1>1 DEF ReadMarkers, Marker
<1>2. CASE SpareLive
  <2>1. PICK m \in todo : /\ sweeping' = m /\ todo' = todo \ {m}
                          /\ Plan(Sweeper, m.paths \ LivePaths, "trash")
    BY <1>2 DEF SpareLive
  <2>2. m.paths \ LivePaths \in SUBSET Paths
    BY <2>1 DEF Marker
  <2>3. task' \in [Actors -> Task]
    BY <2>1, <2>2, PlanTyped
  <2>4. InHandTyped'
    BY <1>2, <2>1 DEF SpareLive, Plan
  <2> HIDE DEF InHandTyped
  <2> QED BY <1>2, <2>1, <2>3, <2>4 DEF SpareLive
<1>3. CASE Settle
  <2>1. task' \in [Actors -> Task]
    BY <1>3 DEF Settle, NoTask, Task
  <2>2. sweeping \in Marker /\ sweeping.attempts < MaxAttempts
    BY <1>3 DEF Settle
  <2>3. [sweeping EXCEPT !.attempts = @ + 1, !.old = FALSE] \in Marker
    BY <2>2, AnotherAttemptTyped
  <2>4. markers' \subseteq Marker
    BY <1>3, <2>3 DEF Settle
  <2> QED BY <1>3, <2>1, <2>4 DEF Settle
<1>4. CASE SweepDone
  BY <1>4 DEF SweepDone
<1> QED BY <1>1, <1>2, <1>3, <1>4 DEF SweepStep

\* The orphan removal, the clock and a new launch keep the types.
LEMMA OtherStepsTyped ==
  ASSUME Typed, ListOrphans \/ RefuseOrphans \/ Age \/ Restart PROVE Typed'
<1> USE DEF Typed, TypeOK, Steps, CreatorSteps, OrphanSteps, SweeperSteps, Goto,
            files, db, Actors
<1>1. CASE ListOrphans
  <2>1. task' \in [Actors -> Task]
    BY <1>1, PlanTyped DEF ListOrphans
  <2>2. InHandTyped'
    BY <1>1, InHandUntouched DEF ListOrphans, Plan
  <2> QED BY <1>1, <2>1, <2>2 DEF ListOrphans, sweep
<1>2. CASE RefuseOrphans
  <2>1. InHandTyped'
    BY <1>2, InHandUntouched DEF RefuseOrphans
  <2> QED BY <1>2, <2>1 DEF RefuseOrphans, sweep
<1>3. CASE Age
  BY <1>3 DEF Age, sweep, InHandTyped, SweepTyped, AvatarTyped
<1>4. CASE Restart
  <2>1. markers' \subseteq Marker
    BY <1>4, RestartMarkersTyped
  <2>2. task' \in [Actors -> Task]
    BY <1>4 DEF Restart, NoTask, Task
  <2>3. pc' \in [Actors -> Steps] /\ pc'[Sweeper] = "waiting"
    BY <1>4 DEF Restart
  <2>4. InHandTyped'
    BY <1>4 DEF Restart, InHandTyped, SweepTyped, AvatarTyped
  <2>5. job' \in [Creators -> Job \cup {NoJob}]
    BY <1>4 DEF Restart
  <2>6. \A d \in Creators : pc'[d] = "idle"
    BY <1>4 DEF Restart
  <2>7. crashes' \in 0..MaxCrashes
    <3>1. crashes \in 0..MaxCrashes /\ crashes < MaxCrashes /\ crashes' = crashes + 1
      BY <1>4 DEF Restart
    <3> QED BY <3>1
  <2>8. /\ lock' = Nobody /\ todo' = {} /\ sweeping' = NoMarker
        /\ UNCHANGED <<files, db, requests>>
    BY <1>4 DEF Restart
  <2> HIDE DEF InHandTyped
  <2> QED BY <2>1, <2>2, <2>3, <2>4, <2>5, <2>6, <2>7, <2>8
<1> QED BY <1>1, <1>2, <1>3, <1>4

\* Every step keeps the types.
LEMMA NextTyped == Typed /\ [Next]_vars => Typed'
<1> SUFFICES ASSUME Typed, [Next]_vars PROVE Typed'
  OBVIOUS
<1>1. CASE UNCHANGED vars
  BY <1>1 DEF vars, files, db, sweep, Typed, TypeOK, InHandTyped, SweepTyped, AvatarTyped
<1>2. CASE Next
  BY <1>1, <1>2, RequestsTyped, PrepareTyped, RegisterTyped, CloseTyped,
     AvatarStepTyped, RemovalTyped, SweepStepTyped, OtherStepsTyped
     DEF Next, CreatorStep, Rest
<1> QED BY <1>1, <1>2

\* The variables always have their types: in particular a marker is never
\* tried more than MaxAttempts times (MAX_MARKER_SWEEP_ATTEMPTS), whatever
\* fails and however often the process dies.
THEOREM TypesKept == Spec => []TypeOK
<1>1. Spec => []Typed
  BY InitTyped, NextTyped, PTL DEF Spec
<1>2. Typed => TypeOK
  BY DEF Typed
<1> QED BY <1>1, <1>2, PTL

(***************************************************************************)
(* A media row never loses its files, on a volume with hard links and when *)
(* recounts succeed (neither condition can be dropped: README, section     *)
(* 6.2, names the constants).  RowFilesExist is not inductive: it          *)
(* rests on MEDIA_REGISTRATION_LOCK, which joins the look at the files to  *)
(* the insert, and the recount to the removal.                             *)
(***************************************************************************)
LockedSteps == {"record", "interim", "check", "insert", "clear", "source",
                "putBack", "recount", "remove"}

InCritical(a) ==
  \/ pc[a] \in LockedSteps
  \/ pc[a] # "idle" /\ Registering(a)

MutexInv    == \A a \in Actors : InCritical(a) => lock = a
CheckedInv  == \A c \in Creators : pc[c] = "insert" => JobFiles(c) \subseteq disk
PlannedInv  == \A a \in Actors : pc[a] = "remove" => task[a].paths \cap FilesOfRows = {}
NoRenameInv == \A c \in Creators : pc[c] # "idle" => ~job[c].onlyCopy

RowsInv == Typed /\ MutexInv /\ CheckedInv /\ PlannedInv /\ NoRenameInv /\ RowFilesExist

\* The step changes nothing of another actor.
OthersKeep(a) ==
  \A b \in Actors \ {a} :
    pc'[b] = pc[b] /\ task'[b] = task[b] /\ (b \in Creators => job'[b] = job[b])

\* Nobody is inside the lock at the start.
LEMMA InitRows == Init => RowsInv
<1> SUFFICES ASSUME Init PROVE RowsInv
  OBVIOUS
<1>1. Typed
  BY InitTyped
<1>2. /\ \A c \in Creators : pc[c] = "idle"
      /\ \A a \in Actors : pc[a] \in {"idle", "waiting"}
      /\ rows = {}
  BY DEF Init, Actors
<1>3. MutexInv
  BY <1>2 DEF MutexInv, InCritical, LockedSteps, Registering
<1>4. CheckedInv /\ PlannedInv /\ NoRenameInv
  BY <1>2 DEF CheckedInv, PlannedInv, NoRenameInv
<1>5. RowFilesExist
  BY <1>2 DEF RowFilesExist, FilesOfRows
<1> QED BY <1>1, <1>3, <1>4, <1>5 DEF RowsInv

\* The lock excludes: a step that touches it only while it is free or held by
\* the actor itself, and ends inside only with it in hand, keeps the others out.
LEMMA MutexStep ==
  ASSUME MutexInv, NEW a \in Actors, OthersKeep(a),
         lock' = lock \/ lock \in {Nobody, a},
         InCritical(a)' => lock' = a
  PROVE  MutexInv'
<1> SUFFICES ASSUME NEW b \in Actors, b # a, InCritical(b)' PROVE lock' = b
  BY DEF MutexInv
<1>1. InCritical(b)
  BY DEF OthersKeep, InCritical, Registering
<1>2. lock = b
  BY <1>1 DEF MutexInv
<1> QED BY <1>2, NamesAssumption

\* A row's files stay while no file goes and no row is added, and so does what
\* the others have looked at.
LEMMA QuietStep ==
  ASSUME RowsInv, NEW a \in Actors, OthersKeep(a),
         pc'[a] \notin {"insert", "remove"},
         disk \subseteq disk', rows' \subseteq rows,
         a \in Creators /\ pc'[a] # "idle" => ~job'[a].onlyCopy
  PROVE  CheckedInv' /\ PlannedInv' /\ NoRenameInv' /\ RowFilesExist'
<1>1. FilesOfRows' \subseteq FilesOfRows
  BY DEF FilesOfRows, RowFiles
<1>2. CheckedInv'
  BY DEF RowsInv, CheckedInv, OthersKeep, JobFiles, Actors
<1>3. PlannedInv'
  BY <1>1 DEF RowsInv, PlannedInv, OthersKeep
<1>4. NoRenameInv'
  BY DEF RowsInv, NoRenameInv, OthersKeep, Actors
<1>5. RowFilesExist'
  BY <1>1 DEF RowsInv, RowFilesExist
<1> QED BY <1>2, <1>3, <1>4, <1>5

\* A step that respects the lock, removes no file and adds no row.
LEMMA HarmlessStep ==
  ASSUME RowsInv, Typed', NEW a \in Actors, OthersKeep(a),
         InCritical(a)' => lock' = a,
         lock' = lock \/ lock \in {Nobody, a}, pc'[a] \notin {"insert", "remove"},
         disk \subseteq disk', rows' \subseteq rows,
         a \in Creators /\ pc'[a] # "idle" => ~job'[a].onlyCopy
  PROVE  RowsInv'
  BY QuietStep, MutexStep DEF RowsInv

\* ... in particular one that keeps the lock and the flag of a registration as
\* they were, and enters no locked step.
LEMMA UnlockedStep ==
  ASSUME RowsInv, Typed', NEW a \in Actors, OthersKeep(a), lock' = lock,
         pc'[a] \in LockedSteps => pc[a] \in LockedSteps,
         a \in Creators /\ pc'[a] # "idle" =>
           /\ pc[a] # "idle" /\ job'[a].registering = job[a].registering
           /\ job'[a].onlyCopy = job[a].onlyCopy,
         pc'[a] \notin {"insert", "remove"},
         disk \subseteq disk', rows' \subseteq rows
  PROVE  RowsInv'
<1>1. InCritical(a)' => InCritical(a)
  BY DEF InCritical, Registering
<1>2. InCritical(a)' => lock' = a
  BY <1>1 DEF RowsInv, MutexInv
<1>3. a \in Creators /\ pc'[a] # "idle" => ~job'[a].onlyCopy
  BY DEF RowsInv, NoRenameInv
<1> QED BY <1>2, <1>3, HarmlessStep

\* The steps of a creation up to its registration.
LEMMA PrepareRows ==
  ASSUME HardLinks, RowsInv, Typed', NEW c \in Creators, Prepare(c) PROVE RowsInv'
<1> USE DEF RowsInv, Typed, TypeOK, Actors, OthersKeep, Goto, Plan, LockedSteps,
            files, db, Write
<1> HIDE DEF RowsInv
<1>1. CASE StoreThumb(c)
  <2>1. job[c] \in Job
    BY <1>1, JobOfActive DEF RowsInv, StoreThumb
  <2>2. /\ job'[c].registering = job[c].registering
        /\ job'[c].onlyCopy = job[c].onlyCopy
        /\ \A d \in Creators \ {c} : job'[d] = job[d]
    BY <1>1, <2>1 DEF StoreThumb, RowsInv, Job
  <2>3. /\ pc[c] \in {"thumb", "sidecar"} /\ pc'[c] \in {"stage", "register"}
        /\ OthersKeep(c) /\ lock' = lock /\ disk \subseteq disk' /\ rows' = rows
    BY <1>1, <2>2 DEF StoreThumb, RowsInv
  <2> QED BY <2>2, <2>3, UnlockedStep
<1>2. CASE StageCopy(c)
  BY <1>2, UnlockedStep DEF StageCopy, RowsInv
<1>3. CASE StageRename(c)
  BY <1>3 DEF StageRename
<1>4. CASE StageFails(c)
  BY <1>4, UnlockedStep DEF StageFails, RowsInv
<1>5. CASE Place(c)
  BY <1>5, UnlockedStep DEF Place, RowsInv
<1>6. CASE MarkPlacement(c)
  BY <1>6, UnlockedStep DEF MarkPlacement, RowsInv
<1>7. CASE CancelPlaced(c)
  BY <1>7, UnlockedStep DEF CancelPlaced, RowsInv
<1> QED BY <1>1, <1>2, <1>3, <1>4, <1>5, <1>6, <1>7 DEF Prepare

\* A registration holds the lock from its look at the files to its last step.
LEMMA RegisterRows ==
  ASSUME HardLinks, RowsInv, Typed', NEW c \in Creators,
         BeginRegistration(c) \/ Register(c) \/ Close(c)
  PROVE  RowsInv'
<1> USE DEF Typed, TypeOK, Actors, OthersKeep, Goto, Plan, LockedSteps, files, db
<1>1. pc[c] # "idle" => job[c] \in Job /\ ~job[c].onlyCopy
  BY JobOfActive DEF RowsInv, NoRenameInv
<1>2. pc[c] \in LockedSteps => lock = c
  BY DEF RowsInv, MutexInv, InCritical
<1>3. CASE BeginRegistration(c)
  <2>1. job'[c].onlyCopy = job[c].onlyCopy
    BY <1>1, <1>3 DEF BeginRegistration, RowsInv, Job
  <2> QED BY <1>1, <1>3, <2>1, HarmlessStep DEF BeginRegistration, RowsInv
<1>4. CASE RecordMarker(c)
  BY <1>4, UnlockedStep DEF RecordMarker, RowsInv
<1>5. CASE ClearInterim(c)
  BY <1>5, UnlockedStep DEF ClearInterim, RowsInv
<1>6. CASE CheckFiles(c)
  <2>1. /\ job'[c].onlyCopy = job[c].onlyCopy
        /\ job'[c].registering = job[c].registering
        /\ job'[c].media = job[c].media
        /\ pc'[c] = "insert" =>
             job[c].media \in disk /\ job'[c].thumb \in disk \cup {NoThumb}
        /\ OthersKeep(c)
    BY <1>1, <1>6 DEF CheckFiles, RowsInv, Job
  <2>2. UNCHANGED <<disk, rows, lock, task>> /\ pc'[c] \in {"insert", "putBack"}
    BY <1>6 DEF CheckFiles, RowsInv
  <2>3. MutexInv'
    BY <1>2, <1>6, <2>1, <2>2, MutexStep DEF CheckFiles, RowsInv
  <2>4. CheckedInv'
    BY <2>1, <2>2 DEF RowsInv, CheckedInv, JobFiles
  <2>5. FilesOfRows' = FilesOfRows
    BY <2>2 DEF FilesOfRows
  <2>6. PlannedInv'
    BY <2>1, <2>2, <2>5 DEF RowsInv, PlannedInv
  <2>7. NoRenameInv'
    BY <1>1, <1>6, <2>1 DEF CheckFiles, RowsInv, NoRenameInv
  <2>8. RowFilesExist'
    BY <2>2, <2>5 DEF RowsInv, RowFilesExist
  <2> QED BY <2>3, <2>4, <2>6, <2>7, <2>8 DEF RowsInv
<1>7. CASE Insert(c)
  <2>1. JobFiles(c) \subseteq disk
    BY <1>7 DEF Insert, RowsInv, CheckedInv
  <2>2. FilesOfRows' \subseteq FilesOfRows \cup JobFiles(c)
    BY <1>7 DEF Insert, FilesOfRows, RowFiles, JobFiles
  <2>3. /\ UNCHANGED <<disk, lock, task, job>> /\ OthersKeep(c) /\ lock = c
        /\ pc[c] = "insert" /\ pc'[c] = "clear"
    BY <1>2, <1>7 DEF Insert, RowsInv
  <2>4. MutexInv'
    BY <2>3, MutexStep DEF RowsInv
  <2>5. CheckedInv'
    BY <2>3 DEF RowsInv, CheckedInv, JobFiles
  <2>6. \A a \in Actors : pc'[a] # "remove"
    <3>1. \A a \in Actors : pc[a] = "remove" => lock = a
      BY DEF RowsInv, MutexInv, InCritical
    <3> QED BY <2>3, <3>1
  <2>7. PlannedInv'
    BY <2>6 DEF PlannedInv
  <2>8. NoRenameInv'
    BY <1>1, <2>3 DEF RowsInv, NoRenameInv
  <2>9. RowFilesExist'
    BY <2>1, <2>2, <2>3 DEF RowsInv, RowFilesExist
  <2> QED BY <2>4, <2>5, <2>7, <2>8, <2>9 DEF RowsInv
<1>8. CASE InsertFails(c)
  BY <1>8, UnlockedStep DEF InsertFails, RowsInv
<1>9. CASE ClearMarkers(c)
  BY <1>9, UnlockedStep DEF ClearMarkers, RowsInv
<1>10. CASE RemoveSource(c)
  BY <1>10, UnlockedStep DEF RemoveSource, RowsInv
<1>11. CASE PutBack(c)
  <2>1. UNCHANGED <<disk, rows, lock, job>>
    BY <1>1, <1>11 DEF PutBack, RowsInv
  <2>2. OthersKeep(c) /\ pc'[c] \in {"count", "close"} /\ pc[c] = "putBack"
    BY <1>11 DEF PutBack, RowsInv
  <2> QED BY <2>1, <2>2, UnlockedStep
<1>12. CASE Close(c)
  BY <1>12, HarmlessStep DEF Close, RowsInv, InCritical
<1> QED BY <1>3, <1>4, <1>5, <1>6, <1>7, <1>8, <1>9, <1>10, <1>11, <1>12 DEF Register

\* The removal decides under the lock and removes under the same lock, so no
\* row it does not know of can appear in between.
LEMMA RemovalRows ==
  ASSUME ~RecountMayFail, RowsInv, Typed', NEW a \in Actors, Removal(a)
  PROVE  RowsInv'
<1> USE DEF Typed, TypeOK, OthersKeep, Goto, Plan, LockedSteps, files, db
<1>1. a \in Creators /\ pc[a] # "idle" => ~job[a].onlyCopy
  BY DEF RowsInv, NoRenameInv
<1>2. InCritical(a) => lock = a
  BY DEF RowsInv, MutexInv
<1>3. ASSUME NEW ok \in BOOLEAN, EndRemoval(a, ok), lock \in {Nobody, a},
             UNCHANGED <<rows, job>>, pc[a] \in {"count", "remove"}
      PROVE  /\ OthersKeep(a) /\ pc'[a] \in {"close", "settle", "idle"}
             /\ InCritical(a)' => lock' = a
             /\ lock' = lock \/ lock \in {Nobody, a}
             /\ a \in Creators /\ pc'[a] # "idle" => ~job'[a].onlyCopy
  BY <1>1, <1>2, <1>3 DEF EndRemoval, RowsInv, InCritical, Registering
<1>4. CASE Count(a)
  <2>1. CASE EndRemoval(a, FALSE)
    BY <1>3, <1>4, <2>1, HarmlessStep DEF Count
  <2>2. CASE ~EndRemoval(a, FALSE)
    BY <1>1, <1>4, <2>2, HarmlessStep DEF Count, RowsInv
  <2> QED BY <2>1, <2>2
<1>5. CASE Acquire(a)
  BY <1>1, <1>5, HarmlessStep DEF Acquire, RowsInv
<1>6. CASE Recount(a)
  <2>1. Plan(a, task[a].paths \ Referenced, task[a].how)
    BY <1>6 DEF Recount, Unanswered
  <2>2. /\ OthersKeep(a) /\ UNCHANGED <<disk, rows, lock, job>> /\ lock = a
        /\ pc[a] = "recount" /\ pc'[a] = "remove"
        /\ task'[a].paths \cap FilesOfRows = {}
    BY <1>2, <1>6, <2>1 DEF Recount, RowsInv, Referenced, InCritical
  <2>3. MutexInv'
    BY <2>2, MutexStep DEF RowsInv
  <2>4. FilesOfRows' = FilesOfRows
    BY <2>2 DEF FilesOfRows
  <2>5. PlannedInv'
    BY <2>2, <2>4 DEF RowsInv, PlannedInv
  <2>6. CheckedInv'
    BY <2>2 DEF RowsInv, CheckedInv, JobFiles, Actors
  <2>7. NoRenameInv'
    BY <1>1, <2>2 DEF RowsInv, NoRenameInv, Actors
  <2>8. RowFilesExist'
    BY <2>2, <2>4 DEF RowsInv, RowFilesExist
  <2> QED BY <2>3, <2>5, <2>6, <2>7, <2>8 DEF RowsInv
<1>7. CASE Remove(a)
  <2>1. PICK gone \in Removable(a) :
          disk' = disk \ gone /\ EndRemoval(a, gone = task[a].paths)
    BY <1>7 DEF Remove
  <2>2. gone \cap FilesOfRows = {}
    BY <1>7, <2>1 DEF Removable, Remove, RowsInv, PlannedInv
  <2>3. UNCHANGED <<rows, job>> /\ lock = a /\ pc[a] = "remove"
    BY <1>2, <1>7 DEF Remove, InCritical
  <2>4. /\ OthersKeep(a) /\ pc'[a] \in {"close", "settle", "idle"}
        /\ InCritical(a)' => lock' = a
        /\ a \in Creators /\ pc'[a] # "idle" => ~job'[a].onlyCopy
    BY <1>3, <2>1, <2>3
  <2>5. MutexInv'
    BY <2>3, <2>4, MutexStep DEF RowsInv
  <2>6. \A b \in Actors \ {a} : pc[b] \notin {"insert", "remove"}
    BY <2>3 DEF RowsInv, MutexInv, InCritical
  <2>7. CheckedInv' /\ PlannedInv'
    BY <2>4, <2>6 DEF CheckedInv, PlannedInv, Actors
  <2>8. NoRenameInv'
    BY <2>4 DEF RowsInv, NoRenameInv, Actors
  <2>9. FilesOfRows' = FilesOfRows
    BY <2>3 DEF FilesOfRows
  <2>10. RowFilesExist'
    BY <2>1, <2>2, <2>9 DEF RowsInv, RowFilesExist
  <2> QED BY <2>5, <2>7, <2>8, <2>10 DEF RowsInv
<1> QED BY <1>4, <1>5, <1>6, <1>7 DEF Removal

\* Transactions that delete rows run outside the lock, and may: what they do to
\* the rows never makes a file more needed.
LEMMA RequestsRows ==
  ASSUME RowsInv, Typed', Requests PROVE RowsInv'
<1> USE DEF Typed, TypeOK, Actors, OthersKeep, Goto, Plan, LockedSteps, files,
            db, Write, Request
<1>1. ASSUME NEW c \in Creators, NEW kind \in Kinds, NEW ch \in Channels,
             NEW m \in Media, Create(c, kind, ch, m)
      PROVE  RowsInv'
  <2>1. /\ job'[c].onlyCopy = FALSE /\ job'[c].registering = FALSE
        /\ pc'[c] \in {"place", "thumb"} /\ OthersKeep(c)
    BY <1>1 DEF Create, RowsInv
  <2>2. ~InCritical(c)'
    BY <2>1 DEF InCritical, Registering
  <2> QED BY <1>1, <2>1, <2>2, HarmlessStep DEF Create
<1>2. ASSUME NEW u \in Users, NEW r \in rows, DeleteMedia(u, r) PROVE RowsInv'
  BY <1>2, UnlockedStep DEF DeleteMedia, RowsInv
<1>3. ASSUME NEW u \in Users, NEW ch \in Channels, DeleteChannel(u, ch) PROVE RowsInv'
  BY <1>3, UnlockedStep DEF DeleteChannel, RowsInv
<1>4. ASSUME NEW u \in Users, NEW t \in Thumbs, StoreAvatar(u, t) PROVE RowsInv'
  BY <1>4, UnlockedStep DEF StoreAvatar, RowsInv
<1>5. ASSUME ExcludeCreations PROVE RowsInv'
  BY <1>5, UnlockedStep DEF ExcludeCreations, RowsInv
<1> QED BY <1>1, <1>2, <1>3, <1>4, <1>5 DEF Requests

\* The other steps outside the lock: avatars, the sweep's own bookkeeping, the
\* listing of orphans, the clock, a new launch.
LEMMA OtherRows ==
  ASSUME RowsInv, Typed',
         \/ \E u \in Users : AvatarStep(u)
         \/ SweepStep \/ ListOrphans \/ RefuseOrphans \/ Age \/ Restart
  PROVE  RowsInv'
<1> USE DEF Typed, TypeOK, Actors, OthersKeep, Goto, Plan, LockedSteps, files, db
<1>1. ASSUME NEW u \in Users, AvatarStep(u) PROVE RowsInv'
  <2>1. ASSUME NEW ch \in Channels, ReplaceAvatar(u, ch) PROVE RowsInv'
    BY <2>1, UnlockedStep DEF ReplaceAvatar, RowsInv
  <2>2. ASSUME NEW ch \in Channels, InsertChannel(u, ch) PROVE RowsInv'
    BY <2>2, UnlockedStep DEF InsertChannel, RowsInv
  <2>3. CASE RefuseChannel(u)
    BY <2>3, UnlockedStep DEF RefuseChannel, RowsInv
  <2> QED BY <1>1, <2>1, <2>2, <2>3 DEF AvatarStep
<1>2. CASE SweepStep
  <2>1. CASE ReadMarkers
    BY <2>1, UnlockedStep DEF ReadMarkers, RowsInv
  <2>2. CASE SpareLive
    BY <2>2, UnlockedStep DEF SpareLive, RowsInv
  <2>3. CASE Settle
    BY <2>3, UnlockedStep DEF Settle, RowsInv
  <2>4. CASE SweepDone
    BY <2>4, UnlockedStep DEF SweepDone, RowsInv
  <2> QED BY <1>2, <2>1, <2>2, <2>3, <2>4 DEF SweepStep
<1>3. CASE ListOrphans
  <2>1. /\ OthersKeep(OrphanRemover) /\ lock = Nobody /\ lock' = OrphanRemover
        /\ pc'[OrphanRemover] = "recount" /\ disk' = disk /\ rows' = rows
    BY <1>3 DEF ListOrphans, RowsInv
  <2> QED BY <2>1, HarmlessStep
<1>4. CASE RefuseOrphans
  BY <1>4, UnlockedStep DEF RefuseOrphans, RowsInv
<1>5. ASSUME Age \/ Restart PROVE RowsInv'
  <2>1. UNCHANGED <<disk, rows>> /\ FilesOfRows' = FilesOfRows
    BY <1>5 DEF Age, Restart, FilesOfRows
  <2>2. CASE Age
    BY <2>1, <2>2 DEF Age, RowsInv, MutexInv, CheckedInv, PlannedInv, NoRenameInv,
                      RowFilesExist, InCritical, Registering, JobFiles
  <2>3. CASE Restart
    <3>1. /\ \A a \in Actors : pc'[a] \in {"idle", "waiting"}
          /\ \A c \in Creators : pc'[c] = "idle"
      BY <2>3 DEF Restart
    <3>2. MutexInv'
      BY <3>1 DEF MutexInv, InCritical, Registering
    <3>3. CheckedInv' /\ PlannedInv' /\ NoRenameInv'
      BY <3>1 DEF CheckedInv, PlannedInv, NoRenameInv
    <3> QED BY <2>1, <3>2, <3>3 DEF RowsInv, RowFilesExist
  <2> QED BY <1>5, <2>2, <2>3
<1> QED BY <1>1, <1>2, <1>3, <1>4, <1>5

\* Every step keeps the lock's promise and the rows' files.
LEMMA NextRows ==
  ASSUME HardLinks, ~RecountMayFail PROVE RowsInv /\ [Next]_vars => RowsInv'
<1> SUFFICES ASSUME RowsInv, [Next]_vars PROVE RowsInv'
  OBVIOUS
<1>1. Typed'
  BY NextTyped DEF RowsInv
<1>2. CASE UNCHANGED vars
  <2>1. FilesOfRows' = FilesOfRows
    BY <1>2 DEF vars, files, db, FilesOfRows
  <2> QED BY <1>1, <1>2, <2>1
          DEF vars, files, db, RowsInv, MutexInv, CheckedInv, PlannedInv,
              NoRenameInv, RowFilesExist, InCritical, Registering, JobFiles
<1>3. CASE Next
  BY <1>1, <1>2, <1>3, RequestsRows, PrepareRows, RegisterRows, RemovalRows,
     OtherRows DEF Next, CreatorStep, Rest
<1> QED BY <1>2, <1>3

\* A media row never points at a file that is gone, however creations,
\* deletions, avatar changes, the sweep, the orphan removal and the end of the
\* process interleave (insert_prepared_media, drop_paths_referenced_again).
THEOREM RowsKeepTheirFiles ==
  ASSUME HardLinks, ~RecountMayFail PROVE Spec => []RowFilesExist
<1>1. Init => RowsInv
  BY InitRows
<1>2. RowsInv /\ [Next]_vars => RowsInv'
  BY NextRows
<1>3. RowsInv => RowFilesExist
  BY DEF RowsInv
<1> QED BY <1>1, <1>2, <1>3, PTL DEF Spec

(***************************************************************************)
(* A crash marker is given up only when somebody else answers for what it  *)
(* names.  Where no removal fails this takes no other condition.  A        *)
(* removal that failed is answered for by the marker its creation leaves   *)
(* behind, so it must be the removal of a creation that has one (README,   *)
(* section 6.2, on the others).                                            *)
(***************************************************************************)
AnsweredRemovals ==
  RemovalMayFail => HardLinks /\ Users = {} /\ Thumbs = {} /\ ~MarkerMayFail

MediaSteps == {"mark", "sidecar", "register", "record", "interim", "check",
               "insert", "putBack"}
ImageSteps == MediaSteps \cup {"stage"}
RemovalSteps == {"count", "recount", "remove"}

\* The creation d has written or adopted p, and will name it in a row or take
\* it away.
Owes(d, p) ==
  \/ pc[d] \in MediaSteps /\ p = job[d].media
  \/ pc[d] \in ImageSteps /\ p = job[d].thumb
  \/ p \in task[d].paths
Marks(d, p) == \E k \in markers : k.owner = d /\ p \in k.paths
\* It could not take p away, and its marker will stay.
Stuck(d, p) == pc[d] = "close" /\ ~task[d].ok /\ Marks(d, p)
\* A marker that this session left, which only the next one reads.
Left(p) == \E k \in markers : k.owner = Nobody /\ ~k.old /\ p \in k.paths
Planned(p) == \E u \in Users : p \in task[u].paths
Created(p) == \E d \in Creators : Owes(d, p) \/ Stuck(d, p)

Cared(p) == p \notin disk \/ p \in Referenced \/ Left(p) \/ Planned(p) \/ Created(p)

\* A creation's marker, while its creation runs.
MarkInv(k) ==
  k.owner \in Creators =>
    /\ pc[k.owner] # "idle" /\ ~k.old
    /\ \A p \in k.paths : Cared(p)
    /\ k.step = "placed" =>
         job[k.owner].kind = "download" /\ k.paths = {job[k.owner].media}

\* The marker in hand, but for what is still planned for it.
SweepInv ==
  /\ \A k \in todo : k.old /\ k.owner = Nobody
  /\ sweeping # NoMarker => sweeping.old /\ sweeping.owner = Nobody
  /\ pc[Sweeper] \in RemovalSteps =>
       \A p \in sweeping.paths \ task[Sweeper].paths : Cared(p)
  /\ pc[Sweeper] = "settle" /\ task[Sweeper].ok => \A p \in sweeping.paths : Cared(p)

TaskInv(a) ==
  /\ a \in Users =>
       /\ pc[a] = "idle" => task[a].paths = {}
       /\ pc[a] = "avatar" => \A p, q \in task[a].paths : p = q
  /\ a \in Creators /\ pc[a] \notin RemovalSteps => task[a].paths = {}

JobInv(c) ==
  pc[c] # "idle" =>
    /\ pc[c] \in {"thumb", "place", "mark", "sidecar"} => job[c].thumb = NoThumb
    /\ pc[c] \in {"thumb", "stage", "place", "mark", "sidecar"} => ~job[c].onlyCopy
    /\ job[c].onlyCopy => job[c].kind = "move" /\ ~HardLinks
    /\ pc[c] \in {"place", "mark", "sidecar"} => job[c].kind = "download"
    /\ pc[c] \in {"thumb", "stage"} => job[c].kind # "download"
    /\ pc[c] \in MediaSteps /\ job[c].onlyCopy => job[c].media \notin originals
    /\ pc[c] = "interim" =>
         \E k \in markers : k.owner = c /\ k.step = "registered" /\ Deletable(c) \subseteq k.paths
    /\ task[c].paths \subseteq JobFiles(c)

\* Where its removal may fail, a creation has marked what it may fail to remove.
FailInv(c) ==
  RemovalMayFail /\ pc[c] # "idle" =>
    /\ pc[c] \in RemovalSteps => \A p \in task[c].paths : Marks(c, p)
    /\ pc[c] \in {"sidecar", "register", "record"} /\ job[c].kind = "download" =>
         Marks(c, job[c].media)
    /\ pc[c] \in {"interim", "check", "insert", "putBack"} => Marks(c, job[c].media)

\* Two Moves never rename one file.
RenamedOnce ==
  \A c, d \in Creators :
    c # d /\ {pc[c], pc[d]} \subseteq MediaSteps /\ job[c].onlyCopy /\ job[d].onlyCopy =>
      job[c].media # job[d].media

CareInv ==
  /\ \A k \in markers : MarkInv(k)
  /\ SweepInv /\ RenamedOnce
  /\ \A a \in Actors : TaskInv(a)
  /\ \A c \in Creators : JobInv(c) /\ FailInv(c)

\* Nothing is owed at the start.
LEMMA InitCare == Init => CareInv
<1> SUFFICES ASSUME Init PROVE CareInv
  OBVIOUS
<1>1. /\ \A c \in Creators : pc[c] = "idle"
      /\ pc[Sweeper] = "waiting"
      /\ \A a \in Actors : task[a].paths = {}
      /\ markers = {} /\ todo = {} /\ sweeping = NoMarker
  BY DEF Init, Actors, NoTask
<1>2. SweepInv /\ RenamedOnce
  BY <1>1 DEF SweepInv, RemovalSteps, RenamedOnce, MediaSteps
<1>3. \A a \in Actors : TaskInv(a)
  BY <1>1 DEF TaskInv
<1>4. \A c \in Creators : JobInv(c) /\ FailInv(c)
  BY <1>1 DEF JobInv, FailInv
<1> QED BY <1>1, <1>2, <1>3, <1>4 DEF CareInv

\* A file stays cared for, if the step does so for what it disturbs.
LEMMA CaredStays ==
  ASSUME NEW p, Cared(p), NEW a \in Actors, OthersKeep(a),
         p \notin disk => p \notin disk' \/ Cared(p)',
         p \in Referenced => p \in Referenced' \/ Cared(p)',
         Left(p) => Left(p)' \/ Cared(p)',
         a \in Users /\ p \in task[a].paths => Cared(p)',
         a \in Creators /\ (Owes(a, p) \/ Stuck(a, p)) => Cared(p)',
         \A d \in Creators \ {a} : Marks(d, p) => Marks(d, p)'
  PROVE  Cared(p)'
<1>1. CASE Planned(p)
  <2>1. PICK u \in Users : p \in task[u].paths
    BY <1>1 DEF Planned
  <2>2. CASE u # a
    BY <2>1, <2>2 DEF OthersKeep, Actors, Cared, Planned
  <2> QED BY <2>1, <2>2
<1>2. CASE Created(p)
  <2>1. PICK d \in Creators : Owes(d, p) \/ Stuck(d, p)
    BY <1>2 DEF Created
  <2>2. CASE d # a
    <3>1. pc'[d] = pc[d] /\ job'[d] = job[d] /\ task'[d] = task[d]
      BY <2>2 DEF OthersKeep, Actors
    <3>2. (Owes(d, p) \/ Stuck(d, p))'
      BY <2>1, <2>2, <3>1 DEF Owes, Stuck
    <3> QED BY <3>2 DEF Cared, Created
  <2> QED BY <2>1, <2>2
<1> QED BY <1>1, <1>2 DEF Cared

\* What the database refers to depends on nothing else.
LEMMA SameReferences == ASSUME UNCHANGED db PROVE Referenced' = Referenced
BY DEF db, Referenced, FilesOfRows, AvatarFiles

\* A creation that writes or adopts a file owes it.
LEMMA PrepareCares ==
  ASSUME AnsweredRemovals, Typed, CareInv, NEW c \in Creators, Prepare(c), NEW p \in Paths, Cared(p)
  PROVE  Cared(p)'
<1> USE DEF OthersKeep, Goto, Plan, files, MediaSteps, ImageSteps, RemovalSteps
<1>0. /\ pc \in [Actors -> Steps] /\ job \in [Creators -> Job \cup {NoJob}]
      /\ task \in [Actors -> Task] /\ Creators \subseteq Actors /\ c \in Actors
      /\ c \notin Users /\ p # NoThumb
  BY DEF Typed, TypeOK, Actors
<1>1. /\ JobInv(c) /\ TaskInv(c) /\ pc[c] # "idle" /\ pc[c] # "close"
      /\ job[c] \in Job /\ job[c].media # NoThumb
  <2>1. pc[c] # "idle" /\ pc[c] # "close"
    BY DEF Prepare, StoreThumb, StageCopy, StageRename, StageFails, Place, MarkPlacement, CancelPlaced
  <2> QED BY <1>0, <2>1, JobOfActive DEF CareInv, Typed, Paths
<1>2. \A q : q = p /\ Owes(c, q)' => Cared(p)'
  BY DEF Cared, Created
<1>3. /\ Referenced' = Referenced /\ ~Stuck(c, p)
      /\ Left(p) => Left(p)'
      /\ \A d \in Creators : Marks(d, p) => Marks(d, p)'
  <2>1. UNCHANGED db /\ markers \subseteq markers'
    BY DEF Prepare, StoreThumb, StageCopy, StageRename, StageFails, Place, MarkPlacement, CancelPlaced
  <2> QED BY <1>1, <2>1, SameReferences DEF Left, Marks, Stuck
<1>4. CASE StoreThumb(c)
  <2>1. /\ pc'[c] \in {"stage", "register"} /\ task' = task
        /\ \A b \in Actors \ {c} : pc'[b] = pc[b]
    BY <1>0, <1>4 DEF StoreThumb
  <2>2. /\ job'[c].media = job[c].media /\ (disk' = disk \/ disk' = disk \cup {job'[c].thumb})
        /\ \A d \in Creators \ {c} : job'[d] = job[d]
    BY <1>0, <1>1, <1>4 DEF StoreThumb, Job, Write
  <2>3. p \notin disk /\ p \in disk' => Owes(c, p)'
    BY <2>1, <2>2 DEF Owes
  <2>4. Owes(c, p) => Owes(c, p)'
    BY <1>0, <1>1, <1>4, <2>1, <2>2 DEF StoreThumb, Owes, JobInv
  <2> QED BY <1>0, <1>2, <1>3, <2>1, <2>2, <2>3, <2>4, CaredStays
<1>5. CASE StageCopy(c) \/ StageRename(c)
  <2>1. /\ pc[c] = "stage" /\ pc'[c] = "register" /\ task' = task /\ disk' = disk \cup {job[c].media}
        /\ \A b \in Actors \ {c} : pc'[b] = pc[b]
    BY <1>0, <1>5 DEF StageCopy, StageRename, Write
  <2>2. /\ job'[c].media = job[c].media /\ job'[c].thumb = job[c].thumb
        /\ \A d \in Creators \ {c} : job'[d] = job[d]
    BY <1>0, <1>1, <1>5 DEF StageCopy, StageRename, Job
  <2>3. p \notin disk /\ p \in disk' => Owes(c, p)'
    BY <2>1, <2>2 DEF Owes
  <2>4. Owes(c, p) => Owes(c, p)'
    BY <2>1, <2>2 DEF Owes
  <2> QED BY <1>0, <1>2, <1>3, <2>1, <2>2, <2>3, <2>4, CaredStays
<1>6. CASE StageFails(c)
  <2>1. /\ pc[c] = "stage" /\ UNCHANGED <<disk, job>>
        /\ \A b \in Actors \ {c} : pc'[b] = pc[b] /\ task'[b] = task[b]
        /\ job[c].thumb # NoThumb => task'[c].paths = {job[c].thumb}
    BY <1>0, <1>6 DEF StageFails
  <2>2. Owes(c, p) => Owes(c, p)'
    BY <1>0, <1>1, <2>1 DEF Owes, TaskInv
  <2> QED BY <1>0, <1>2, <1>3, <2>1, <2>2, CaredStays
<1>7. CASE Place(c)
  <2>1. /\ pc[c] = "place" /\ UNCHANGED <<job, task>>
        /\ \A b \in Actors \ {c} : pc'[b] = pc[b]
        /\ \/ pc'[c] = "mark" /\ disk' = disk \cup {job[c].media}
           \/ disk' = disk
    BY <1>0, <1>7 DEF Place, Write
  <2>2. p \notin disk /\ p \in disk' => Owes(c, p)'
    BY <2>1 DEF Owes
  <2>3. ~Owes(c, p)
    BY <1>0, <1>1, <2>1 DEF Owes, TaskInv
  <2> QED BY <1>0, <1>2, <1>3, <2>1, <2>2, <2>3, CaredStays
<1>8. CASE MarkPlacement(c)
  <2>1. /\ pc[c] = "mark" /\ pc'[c] = "sidecar" /\ UNCHANGED <<job, task, disk>>
        /\ \A b \in Actors \ {c} : pc'[b] = pc[b]
    BY <1>0, <1>8 DEF MarkPlacement
  <2>2. Owes(c, p) => Owes(c, p)'
    BY <2>1 DEF Owes
  <2> QED BY <1>0, <1>2, <1>3, <2>1, <2>2, CaredStays
<1>9. CASE CancelPlaced(c)
  <2>1. /\ pc[c] = "register" /\ UNCHANGED <<job, disk>> /\ task'[c].paths = JobFiles(c)
        /\ \A b \in Actors \ {c} : pc'[b] = pc[b] /\ task'[b] = task[b]
    BY <1>0, <1>9 DEF CancelPlaced
  <2>2. Owes(c, p) => Owes(c, p)'
    BY <1>0, <1>1, <2>1 DEF Owes, TaskInv, JobFiles
  <2> QED BY <1>0, <1>2, <1>3, <2>1, <2>2, CaredStays
<1> QED BY <1>4, <1>5, <1>6, <1>7, <1>8, <1>9 DEF Prepare

\* A marker that a creation gives up, or leaves behind, is neither another
\* creation's nor one that was left before.
LEMMA OwnMarkersGo ==
  ASSUME NEW c \in Creators, NEW gone \in SUBSET markers, \A k \in gone : k.owner = c,
         \/ Clear(gone)
         \/ markers' = {IF k \in gone THEN Disowned(k) ELSE k : k \in markers}
  PROVE  markers \ gone \subseteq markers'
BY DEF Clear

\* A creation that closes owes nothing any more, and its marker stays where it
\* left something.
LEMMA CloseCares ==
  ASSUME Typed, CareInv, NEW c \in Creators, Close(c), NEW p \in Paths, Cared(p)
  PROVE  Cared(p)'
<1> USE DEF OthersKeep, Goto, Plan, files
<1> DEFINE gone == {k \in markers : k.owner = c}
<1>0. /\ pc \in [Actors -> Steps] /\ job \in [Creators -> Job \cup {NoJob}]
      /\ task \in [Actors -> Task] /\ Creators \subseteq Actors /\ c \in Actors
      /\ c \notin Users /\ Nobody # c
  BY DEF Typed, TypeOK, Actors
<1>1. /\ pc[c] = "close" /\ disk' = disk /\ Referenced' = Referenced
      /\ \A b \in Actors \ {c} : pc'[b] = pc[b] /\ task'[b] = task[b]
      /\ \A d \in Creators \ {c} : job'[d] = job[d]
  BY <1>0, SameReferences DEF Close
<1>2. markers \ gone \subseteq markers'
  <2>1. \/ Clear(gone)
        \/ markers' = {IF k \in gone THEN Disowned(k) ELSE k : k \in markers}
    BY DEF Close
  <2> HIDE DEF gone
  <2>2. gone \in SUBSET markers /\ \A k \in gone : k.owner = c
    BY DEF gone
  <2> QED BY <2>1, <2>2, OwnMarkersGo
<1>3. Left(p) => Left(p)'
  BY <1>0, <1>2 DEF Left
<1>4. \A d \in Creators \ {c} : Marks(d, p) => Marks(d, p)'
  BY <1>2 DEF Marks
<1>5. ~Owes(c, p)
  BY <1>0, <1>1 DEF Owes, CareInv, TaskInv, MediaSteps, ImageSteps, RemovalSteps
<1>6. ASSUME Stuck(c, p) PROVE Left(p)'
  <2>1. PICK k \in markers : k.owner = c /\ p \in k.paths
    BY <1>6 DEF Stuck, Marks
  <2>2. k \in Marker /\ ~k.old
    BY <2>1 DEF CareInv, MarkInv, Typed, TypeOK
  <2>3. Disowned(k).owner = Nobody /\ ~Disowned(k).old /\ p \in Disowned(k).paths
    BY <2>1, <2>2 DEF Disowned, Marker
  <2>4. Disowned(k) \in markers'
    BY <1>6, <2>1 DEF Stuck, Close
  <2> QED BY <2>3, <2>4 DEF Left
<1>7. Left(p)' => Cared(p)'
  BY DEF Cared
<1> QED BY <1>0, <1>1, <1>3, <1>4, <1>5, <1>6, <1>7, CaredStays

\* A registration hands what it owes to its row, or to its removal.
LEMMA RegisterCares ==
  ASSUME AnsweredRemovals, Typed, CareInv, NEW c \in Creators,
         BeginRegistration(c) \/ Register(c), NEW p \in Paths, Cared(p)
  PROVE  Cared(p)'
<1> USE DEF OthersKeep, Goto, Plan, files, MediaSteps, ImageSteps, RemovalSteps
<1>0. /\ pc \in [Actors -> Steps] /\ job \in [Creators -> Job \cup {NoJob}]
      /\ task \in [Actors -> Task] /\ Creators \subseteq Actors /\ c \in Actors
      /\ c \notin Users /\ p # NoThumb /\ Nobody # c
  BY DEF Typed, TypeOK, Actors
<1>1. /\ JobInv(c) /\ TaskInv(c) /\ pc[c] # "idle" /\ pc[c] \notin RemovalSteps \cup {"close"}
      /\ job[c] \in Job /\ job[c].media # NoThumb
  <2>1. pc[c] # "idle" /\ pc[c] \notin RemovalSteps \cup {"close"}
    BY DEF BeginRegistration, Register, RecordMarker, ClearInterim, CheckFiles, Insert, InsertFails,
           ClearMarkers, RemoveSource, PutBack
  <2> QED BY <1>0, <2>1, JobOfActive DEF CareInv, Typed, Paths
<1>2. Owes(c, p)' => Cared(p)'
  BY DEF Cared, Created
<1>3. ~Stuck(c, p) /\ p \notin task[c].paths
  BY <1>0, <1>1 DEF Stuck, TaskInv
<1>4. CASE BeginRegistration(c) \/ RecordMarker(c) \/ InsertFails(c)
  <2>1. /\ pc[c] \in {"register", "record", "insert"}
        /\ pc'[c] \in {"record", "interim", "check", "putBack"}
        /\ UNCHANGED <<disk, task>> /\ markers \subseteq markers'
        /\ \A b \in Actors \ {c} : pc'[b] = pc[b]
        /\ Referenced' = Referenced
    BY <1>0, <1>4, SameReferences DEF BeginRegistration, RecordMarker, InsertFails
  <2>2. /\ job'[c].media = job[c].media /\ job'[c].thumb = job[c].thumb
        /\ \A d \in Creators \ {c} : job'[d] = job[d]
    BY <1>0, <1>1, <1>4 DEF BeginRegistration, RecordMarker, InsertFails, Job
  <2>3. Owes(c, p) => Owes(c, p)'
    BY <2>1, <2>2 DEF Owes
  <2>4. (Left(p) => Left(p)') /\ \A d \in Creators : Marks(d, p) => Marks(d, p)'
    BY <2>1 DEF Left, Marks
  <2> QED BY <1>0, <1>2, <1>3, <2>1, <2>2, <2>3, <2>4, CaredStays
<1>5. CASE ClearInterim(c) \/ ClearMarkers(c)
  <2>1. /\ \/ pc[c] = "interim" /\ pc'[c] = "check"
           \/ pc[c] = "clear" /\ pc'[c] = "source"
        /\ UNCHANGED <<disk, task, job>>
        /\ \A b \in Actors \ {c} : pc'[b] = pc[b]
        /\ Referenced' = Referenced
    BY <1>0, <1>5, SameReferences DEF ClearInterim, ClearMarkers
  <2>2. PICK gone \in SUBSET markers : Clear(gone) /\ \A k \in gone : k.owner = c
    BY <1>5 DEF ClearInterim, ClearMarkers, Owned
  <2>3. markers \ gone \subseteq markers'
    BY <2>2, OwnMarkersGo
  <2>4. (Left(p) => Left(p)') /\ \A d \in Creators \ {c} : Marks(d, p) => Marks(d, p)'
    BY <1>0, <2>2, <2>3 DEF Left, Marks
  <2>5. Owes(c, p) => Owes(c, p)'
    BY <1>3, <2>1 DEF Owes
  <2> QED BY <1>0, <1>2, <1>3, <2>1, <2>4, <2>5, CaredStays
<1>6. CASE CheckFiles(c)
  <2>1. /\ pc[c] = "check" /\ pc'[c] \in {"insert", "putBack"}
        /\ UNCHANGED <<disk, task, markers>>
        /\ \A b \in Actors \ {c} : pc'[b] = pc[b]
        /\ Referenced' = Referenced
    BY <1>0, <1>6, SameReferences DEF CheckFiles
  <2>2. /\ job'[c].media = job[c].media
        /\ job'[c].thumb = job[c].thumb \/ job[c].thumb \notin disk
        /\ \A d \in Creators \ {c} : job'[d] = job[d]
    BY <1>0, <1>1, <1>6 DEF CheckFiles, Job
  <2>3. Owes(c, p) => Owes(c, p)' \/ p \notin disk'
    BY <1>3, <2>1, <2>2 DEF Owes
  <2>4. p \notin disk' => Cared(p)'
    BY DEF Cared
  <2>5. (Left(p) => Left(p)') /\ \A d \in Creators : Marks(d, p) => Marks(d, p)'
    BY <2>1 DEF Left, Marks
  <2> QED BY <1>0, <1>2, <1>3, <2>1, <2>2, <2>3, <2>4, <2>5, CaredStays
<1>7. CASE Insert(c)
  <2>1. /\ pc[c] = "insert"
        /\ UNCHANGED <<disk, task, markers, job, channels, avatar>>
        /\ \A b \in Actors \ {c} : pc'[b] = pc[b]
        /\ rows' = rows \cup {[channel |-> job[c].channel, media |-> job[c].media,
                               thumb |-> job[c].thumb]}
    BY <1>0, <1>7 DEF Insert
  <2>2. Referenced \subseteq Referenced'
    BY <2>1 DEF Referenced, FilesOfRows, AvatarFiles
  <2>3. JobFiles(c) \subseteq Referenced'
    <3> DEFINE r == [channel |-> job[c].channel, media |-> job[c].media, thumb |-> job[c].thumb]
    <3>1. RowFiles(r) = JobFiles(c)
      BY DEF RowFiles, JobFiles
    <3>2. r \in rows'
      BY <2>1
    <3> HIDE DEF r
    <3>3. JobFiles(c) \subseteq FilesOfRows'
      BY <3>1, <3>2 DEF FilesOfRows, RowFiles
    <3> QED BY <3>3 DEF Referenced
  <2>4. Owes(c, p) => p \in Referenced'
    BY <1>0, <1>3, <2>3 DEF Owes, JobFiles
  <2>5. p \in Referenced' => Cared(p)'
    BY DEF Cared
  <2>6. (Left(p) => Left(p)') /\ \A d \in Creators : Marks(d, p) => Marks(d, p)'
    BY <2>1 DEF Left, Marks
  <2> QED BY <1>0, <1>3, <2>1, <2>2, <2>4, <2>5, <2>6, CaredStays
<1>8. CASE RemoveSource(c)
  <2>1. /\ pc[c] = "source" /\ UNCHANGED <<disk, task, markers, job>>
        /\ \A b \in Actors \ {c} : pc'[b] = pc[b]
        /\ Referenced' = Referenced
    BY <1>0, <1>8, SameReferences DEF RemoveSource
  <2>2. ~Owes(c, p)
    BY <1>3, <2>1 DEF Owes
  <2>3. (Left(p) => Left(p)') /\ \A d \in Creators : Marks(d, p) => Marks(d, p)'
    BY <2>1 DEF Left, Marks
  <2> QED BY <1>0, <1>3, <2>1, <2>2, <2>3, CaredStays
<1>9. CASE PutBack(c)
  <2>1. /\ pc[c] = "putBack" /\ UNCHANGED <<markers, job>> /\ disk' \subseteq disk
        /\ \A b \in Actors \ {c} : pc'[b] = pc[b] /\ task'[b] = task[b]
        /\ Referenced' = Referenced
    BY <1>0, <1>9, SameReferences DEF PutBack
  <2>2. job[c].onlyCopy => job[c].media \notin disk'
    <3>1. job[c].onlyCopy => job[c].media \notin originals /\ ~RemovalMayFail
      BY <1>1, <2>1 DEF JobInv, AnsweredRemovals
    <3> QED BY <1>9, <3>1 DEF PutBack
  <2>3. Deletable(c) # {} => task'[c].paths = Deletable(c)
    BY <1>0, <1>9 DEF PutBack
  <2>4. Owes(c, p) => p \in task'[c].paths \/ p \notin disk'
    BY <1>0, <1>3, <2>2, <2>3 DEF Owes, Deletable, JobFiles
  <2>5. p \notin disk' => Cared(p)'
    BY DEF Cared
  <2>6. p \in task'[c].paths => Owes(c, p)'
    BY DEF Owes
  <2>7. (Left(p) => Left(p)') /\ \A d \in Creators : Marks(d, p) => Marks(d, p)'
    BY <2>1 DEF Left, Marks
  <2> QED BY <1>0, <1>2, <1>3, <2>1, <2>4, <2>5, <2>6, <2>7, CaredStays
<1> QED BY <1>4, <1>5, <1>6, <1>7, <1>8, <1>9 DEF Register

\* What a removal ends with, and what it changes of its plan.
LEMMA RemovalSays ==
  ASSUME Typed, NEW a \in Actors, Removal(a)
  PROVE  /\ pc[a] \in RemovalSteps \cup {"acquire"}
         /\ \A b \in Actors \ {a} : pc'[b] = pc[b] /\ task'[b] = task[b]
         /\ UNCHANGED <<job, markers, db, sweep, originals>>
         /\ disk' \subseteq disk
         /\ \/ /\ pc'[a] \in {"recount", "remove"}
               /\ task[a].paths \ task'[a].paths \subseteq Referenced
               /\ task'[a].paths \subseteq task[a].paths
            \/ /\ pc'[a] = (IF a \in Creators THEN "close"
                            ELSE IF a = Sweeper THEN "settle" ELSE "idle")
               /\ task'[a].paths = {} /\ pc[a] \in RemovalSteps
               /\ \/ task[a].paths \cap disk' = {} /\ task'[a].ok
                  \/ RemovalMayFail /\ ~task'[a].ok
<1> USE DEF Goto, Plan, files, RemovalSteps
<1>0. pc \in [Actors -> Steps] /\ task \in [Actors -> Task]
  BY DEF Typed, TypeOK
<1>1. /\ pc[a] \in RemovalSteps \cup {"acquire"}
      /\ UNCHANGED <<job, markers, db, sweep, originals>>
      /\ disk' \subseteq disk
  BY DEF Removal, Count, Acquire, Recount, Remove, sweep
<1>2. ASSUME NEW ok \in BOOLEAN, EndRemoval(a, ok)
      PROVE  /\ \A b \in Actors \ {a} : pc'[b] = pc[b] /\ task'[b] = task[b]
             /\ pc'[a] = (IF a \in Creators THEN "close"
                          ELSE IF a = Sweeper THEN "settle" ELSE "idle")
             /\ task'[a].paths = {} /\ task'[a].ok = ok
  BY <1>0, <1>2 DEF EndRemoval, NoTask
<1>3. CASE Count(a)
  <2>1. CASE Plan(a, task[a].paths \ Referenced, task[a].how) /\ Goto(a, "recount")
    BY <1>0, <1>1, <2>1
  <2>2. CASE RemovalMayFail /\ EndRemoval(a, FALSE)
    BY <1>1, <1>2, <1>3, <2>2 DEF Count
  <2> QED BY <1>3, <2>1, <2>2 DEF Count
<1>4. CASE Acquire(a)
  BY <1>0, <1>1, <1>4 DEF Acquire
<1>5. CASE Recount(a)
  <2>1. PICK kept \in SUBSET task[a].paths :
          Plan(a, (task[a].paths \ Referenced) \cup kept, task[a].how)
    BY <1>5 DEF Recount, Unanswered
  <2> QED BY <1>0, <1>1, <1>5, <2>1 DEF Recount
<1>6. CASE Remove(a)
  <2>1. PICK gone \in Removable(a) :
          disk' = disk \ gone /\ EndRemoval(a, gone = task[a].paths)
    BY <1>6 DEF Remove
  <2>2. gone = task[a].paths \/ RemovalMayFail
    BY <2>1 DEF Removable
  <2>3. /\ \A b \in Actors \ {a} : pc'[b] = pc[b] /\ task'[b] = task[b]
        /\ pc'[a] = (IF a \in Creators THEN "close"
                     ELSE IF a = Sweeper THEN "settle" ELSE "idle")
        /\ task'[a].paths = {} /\ task'[a].ok = (gone = task[a].paths)
    BY <1>2, <2>1
  <2>4. pc[a] \in RemovalSteps
    BY <1>6 DEF Remove
  <2> QED BY <1>1, <2>1, <2>2, <2>3, <2>4
<1> QED BY <1>3, <1>4, <1>5, <1>6 DEF Removal

\* A removal drops what is referenced, and takes the rest away or leaves it to
\* a marker.
LEMMA RemovalCares ==
  ASSUME AnsweredRemovals, Typed, CareInv, NEW a \in Actors, Removal(a), NEW p \in Paths, Cared(p)
  PROVE  Cared(p)'
<1>1. /\ \A b \in Actors \ {a} : pc'[b] = pc[b] /\ task'[b] = task[b]
      /\ UNCHANGED <<job, markers>> /\ disk' \subseteq disk
      /\ Referenced' = Referenced
      /\ pc[a] \in RemovalSteps \cup {"acquire"}
  BY RemovalSays, SameReferences
<1>2. OthersKeep(a)
  BY <1>1 DEF OthersKeep
<1>3. /\ Left(p) => Left(p)'
      /\ \A d \in Creators : Marks(d, p) => Marks(d, p)'
  BY <1>1 DEF Left, Marks
<1>4. p \notin disk' \/ p \in Referenced' => Cared(p)'
  BY DEF Cared
<1>5. a \in Creators => ~Stuck(a, p) /\ (Owes(a, p) => p \in task[a].paths /\ pc[a] \in RemovalSteps)
  <2>1. a \in Creators /\ pc[a] = "acquire" => task[a].paths = {}
    BY DEF CareInv, TaskInv, RemovalSteps
  <2> QED BY <1>1, <2>1 DEF Stuck, Owes, RemovalSteps, MediaSteps, ImageSteps
<1>6. ASSUME a \in Creators \cup Users, p \in task[a].paths,
             a \in Creators => pc[a] \in RemovalSteps
      PROVE  Cared(p)'
  <2>1. CASE p \in task'[a].paths
    <3>1. CASE a \in Creators
      BY <2>1, <3>1 DEF Cared, Created, Owes
    <3>2. CASE a \in Users
      BY <2>1, <3>2 DEF Cared, Planned
    <3> QED BY <1>6, <3>1, <3>2
  <2>2. CASE p \notin task'[a].paths
    <3>1. \/ p \in Referenced
          \/ p \notin disk'
          \/ RemovalMayFail /\ ~task'[a].ok /\ (a \in Creators => pc'[a] = "close")
      BY <1>6, <2>2, RemovalSays
    <3>2. ASSUME RemovalMayFail, ~task'[a].ok, a \in Creators => pc'[a] = "close"
          PROVE  Cared(p)'
      <4>1. a \in Creators
        BY <1>6, <3>2 DEF AnsweredRemovals
      <4>2. Marks(a, p)
        BY <1>6, <3>2, <4>1 DEF CareInv, FailInv, RemovalSteps
      <4>3. Stuck(a, p)'
        BY <1>3, <3>2, <4>1, <4>2 DEF Stuck
      <4> QED BY <4>1, <4>3 DEF Cared, Created
    <3> QED BY <1>1, <1>4, <3>1, <3>2
  <2> QED BY <2>1, <2>2
<1> QED BY <1>1, <1>2, <1>3, <1>5, <1>6, CaredStays

\* A deletion plans what it makes unreferenced, and what an avatar's command
\* stored is planned until a channel names it.
LEMMA CommandCares ==
  ASSUME Typed, CareInv, Requests \/ (\E u \in Users : AvatarStep(u)), NEW p \in Paths, Cared(p)
  PROVE  Cared(p)'
<1> USE DEF OthersKeep, Goto, Plan, files, sweep
<1>0. /\ pc \in [Actors -> Steps] /\ task \in [Actors -> Task]
      /\ job \in [Creators -> Job \cup {NoJob}]
      /\ Creators \subseteq Actors /\ Users \subseteq Actors \ Creators
      /\ OrphanRemover \in Actors /\ OrphanRemover \notin Creators \cup Users
      /\ p # NoThumb /\ avatar \in [Channels -> Thumbs \cup {NoThumb}]
      /\ NoThumb \notin Thumbs /\ channels \subseteq Channels
  BY DEF Typed, TypeOK, Actors, Paths
<1>1. UNCHANGED markers
  BY DEF Requests, Create, DeleteMedia, DeleteChannel, StoreAvatar, ExcludeCreations,
         AvatarStep, ReplaceAvatar, InsertChannel, RefuseChannel
<1>2. (Left(p) => Left(p)') /\ \A d \in Creators : Marks(d, p) => Marks(d, p)'
  BY <1>1 DEF Left, Marks
<1>3. ASSUME NEW u \in Users, p \in task'[u].paths \/ p \in Referenced' PROVE Cared(p)'
  BY <1>3 DEF Cared, Planned
<1>4. ASSUME NEW c \in Creators, NEW kind \in Kinds, NEW ch \in Channels,
             NEW m \in Media, Create(c, kind, ch, m)
      PROVE  Cared(p)'
  <2>1. /\ pc[c] = "idle" /\ UNCHANGED <<disk, task, db>> /\ OthersKeep(c) /\ c \notin Users
    BY <1>0, <1>4 DEF Create
  <2>2. ~Owes(c, p) /\ ~Stuck(c, p)
    BY <1>0, <2>1 DEF CareInv, TaskInv, Owes, Stuck, MediaSteps, ImageSteps, RemovalSteps
  <2>3. Referenced' = Referenced
    BY <2>1, SameReferences
  <2> QED BY <1>0, <1>2, <2>1, <2>2, <2>3, CaredStays
<1>5. ASSUME NEW u \in Users, NEW r \in rows, DeleteMedia(u, r) PROVE Cared(p)'
  <2>1. /\ pc[u] = "idle" /\ UNCHANGED <<disk, channels, avatar>> /\ OthersKeep(u)
        /\ rows' = rows \ {r} /\ task'[u].paths = RowFiles(r) \ Referenced'
    BY <1>0, <1>5 DEF DeleteMedia
  <2>2. p \in Referenced => p \in Referenced' \/ p \in RowFiles(r)
    BY <2>1 DEF Referenced, FilesOfRows, AvatarFiles
  <2>3. task[u].paths = {}
    BY <1>0, <2>1 DEF CareInv, TaskInv
  <2> QED BY <1>0, <1>2, <1>3, <2>1, <2>2, <2>3, CaredStays
<1>6. ASSUME NEW u \in Users, NEW ch \in Channels, DeleteChannel(u, ch) PROVE Cared(p)'
  <2>1. /\ pc[u] = "idle" /\ UNCHANGED disk /\ OthersKeep(u)
        /\ task'[u].paths = Referenced \ Referenced'
    BY <1>0, <1>6 DEF DeleteChannel
  <2>2. task[u].paths = {}
    BY <1>0, <2>1 DEF CareInv, TaskInv
  <2> QED BY <1>0, <1>2, <1>3, <2>1, <2>2, CaredStays
<1>7. ASSUME NEW u \in Users, NEW t \in Thumbs, StoreAvatar(u, t) PROVE Cared(p)'
  <2>1. /\ pc[u] = "idle" /\ UNCHANGED db /\ OthersKeep(u)
        /\ disk' = disk \cup {t} /\ task'[u].paths = {t}
    BY <1>0, <1>7 DEF StoreAvatar, Write
  <2>2. task[u].paths = {} /\ Referenced' = Referenced
    BY <1>0, <2>1, SameReferences DEF CareInv, TaskInv
  <2> QED BY <1>0, <1>2, <1>3, <2>1, <2>2, CaredStays
<1>8. CASE ExcludeCreations
  <2>1. UNCHANGED <<disk, db>> /\ OthersKeep(OrphanRemover)
    BY <1>0, <1>8 DEF ExcludeCreations
  <2>2. Referenced' = Referenced
    BY <2>1, SameReferences
  <2> QED BY <1>0, <1>2, <2>1, <2>2, CaredStays
<1>9. ASSUME NEW u \in Users, NEW ch \in Channels, ReplaceAvatar(u, ch) PROVE Cared(p)'
  <2>1. PICK t \in task[u].paths : avatar' = [avatar EXCEPT ![ch] = t]
    BY <1>9 DEF ReplaceAvatar
  <2>2. /\ pc[u] = "avatar" /\ ch \in channels /\ UNCHANGED <<disk, rows, channels>> /\ OthersKeep(u)
        /\ task'[u].paths = ({avatar[ch]} \ {NoThumb}) \ Referenced'
    BY <1>0, <1>9 DEF ReplaceAvatar
  <2>3. t \in Referenced' /\ t \in Thumbs
    <3>1. t \in Thumbs
      BY <2>2 DEF Typed, InHandTyped, AvatarTyped
    <3> QED BY <1>0, <2>1, <2>2, <3>1 DEF Referenced, AvatarFiles
  <2>4. p \in task[u].paths => p \in Referenced'
    BY <1>0, <2>1, <2>2, <2>3 DEF CareInv, TaskInv
  <2>5. p \in Referenced => p \in Referenced' \/ p = avatar[ch]
    BY <1>0, <2>1, <2>2 DEF Referenced, FilesOfRows, AvatarFiles
  <2> QED BY <1>0, <1>2, <1>3, <2>2, <2>4, <2>5, CaredStays
<1>10. ASSUME NEW u \in Users, NEW ch \in Channels, InsertChannel(u, ch) PROVE Cared(p)'
  <2>1. PICK t \in task[u].paths : avatar' = [avatar EXCEPT ![ch] = t]
    BY <1>10 DEF InsertChannel
  <2>2. /\ pc[u] = "avatar" /\ ch \notin channels /\ channels' = channels \cup {ch}
        /\ UNCHANGED <<disk, rows>> /\ OthersKeep(u)
    BY <1>0, <1>10 DEF InsertChannel
  <2>3. t \in Referenced'
    <3>1. t \in Thumbs
      BY <2>2 DEF Typed, InHandTyped, AvatarTyped
    <3> QED BY <1>0, <2>1, <2>2, <3>1 DEF Referenced, AvatarFiles
  <2>4. p \in task[u].paths => p \in Referenced'
    BY <1>0, <2>1, <2>2, <2>3 DEF CareInv, TaskInv
  <2>5. p \in Referenced => p \in Referenced'
    BY <1>0, <2>1, <2>2 DEF Referenced, FilesOfRows, AvatarFiles
  <2> QED BY <1>0, <1>2, <1>3, <2>2, <2>4, <2>5, CaredStays
<1>11. ASSUME NEW u \in Users, RefuseChannel(u) PROVE Cared(p)'
  <2>1. UNCHANGED <<disk, db, task>> /\ OthersKeep(u)
    BY <1>0, <1>11 DEF RefuseChannel
  <2>2. Referenced' = Referenced
    BY <2>1, SameReferences
  <2> QED BY <1>0, <1>2, <1>3, <2>1, <2>2, CaredStays
<1> QED BY <1>4, <1>5, <1>6, <1>7, <1>8, <1>9, <1>10, <1>11 DEF Requests, AvatarStep

\* The sweep gives up no marker of this session, and the rest touches nothing.
LEMMA OtherCares ==
  ASSUME Typed, CareInv, SweepStep \/ ListOrphans \/ RefuseOrphans \/ Age,
         NEW p \in Paths, Cared(p)
  PROVE  Cared(p)'
<1> USE DEF OthersKeep, Goto, Plan, files
<1>0. /\ pc \in [Actors -> Steps] /\ task \in [Actors -> Task]
      /\ Sweeper \in Actors /\ OrphanRemover \in Actors
      /\ {Sweeper, OrphanRemover} \cap (Creators \cup Users) = {}
      /\ Nobody \notin Creators
  BY DEF Typed, TypeOK, Actors
<1>1. UNCHANGED <<disk, job>> /\ Referenced' = Referenced
  BY SameReferences DEF SweepStep, ReadMarkers, SpareLive, Settle, SweepDone, ListOrphans,
                        RefuseOrphans, Age
<1>2. \E a \in {Sweeper, OrphanRemover} : OthersKeep(a)
  BY <1>0, <1>1 DEF SweepStep, ReadMarkers, SpareLive, Settle, SweepDone, ListOrphans,
                    RefuseOrphans, Age
<1>3. \A k \in markers : k \in markers' \/ (k.owner = Nobody /\ k.old)
  <2>1. CASE Settle
    <3>1. sweeping \in Marker
      BY <2>1 DEF Settle, Typed, InHandTyped, SweepTyped
    <3>2. sweeping.old /\ sweeping.owner = Nobody
      BY <3>1 DEF CareInv, SweepInv, Marker, NoMarker
    <3> QED BY <2>1, <3>2 DEF Settle
  <2>2. CASE ~Settle
    BY <2>2 DEF SweepStep, ReadMarkers, SpareLive, SweepDone, ListOrphans, RefuseOrphans, Age
  <2> QED BY <2>1, <2>2
<1>4. Left(p) => Left(p)'
  BY <1>3 DEF Left
<1>5. \A d \in Creators : Marks(d, p) => Marks(d, p)'
  BY <1>0, <1>3 DEF Marks
<1> QED BY <1>0, <1>1, <1>2, <1>4, <1>5, CaredStays

\* A step keeps what is known, if it keeps files cared for, gives up no marker
\* of another creation, and what it leaves of its own actor is in order.
LEMMA CareStep ==
  ASSUME Typed, CareInv, NEW a \in Actors, OthersKeep(a),
         \A p \in Paths : Cared(p) => Cared(p)',
         \A k \in markers' : k \in markers \/ k.owner \notin Creators \/ MarkInv(k)',
         \A k \in markers : k.owner \in Creators \ {a} => k \in markers',
         a \in Creators =>
           \/ pc'[a] # "idle" /\ job'[a].kind = job[a].kind /\ job'[a].media = job[a].media
           \/ \A k \in markers' : k.owner # a,
         \A c \in Creators \ {a} :
           job[c].media \in originals' /\ pc[c] \in MediaSteps /\ job[c].onlyCopy =>
             job[c].media \in originals,
         SweepInv', RenamedOnce', TaskInv(a)', a \in Creators => JobInv(a)' /\ FailInv(a)'
  PROVE  CareInv'
<1>1. \A b \in Actors \ {a} :
        pc'[b] = pc[b] /\ task'[b] = task[b] /\ (b \in Creators => job'[b] = job[b])
  BY DEF OthersKeep
<1>2. ASSUME NEW k \in markers' PROVE MarkInv(k)'
  <2>1. CASE k \in markers /\ k.owner \in Creators
    <3>1. k.paths \subseteq Paths /\ MarkInv(k)
      BY <2>1 DEF Typed, TypeOK, Marker, CareInv
    <3>2. \A p \in k.paths : Cared(p)'
      BY <2>1, <3>1 DEF MarkInv
    <3>3. /\ pc'[k.owner] # "idle"
          /\ job'[k.owner].kind = job[k.owner].kind /\ job'[k.owner].media = job[k.owner].media
      <4>1. CASE k.owner = a
        BY <2>1, <4>1
      <4>2. CASE k.owner # a
        BY <1>1, <2>1, <3>1, <4>2 DEF MarkInv, Actors
      <4> QED BY <4>1, <4>2
    <3> QED BY <2>1, <3>1, <3>2, <3>3 DEF MarkInv
  <2>2. CASE k.owner \notin Creators
    BY <2>2 DEF MarkInv
  <2> QED BY <2>1, <2>2
<1>3. ASSUME NEW c \in Creators \ {a} PROVE JobInv(c)' /\ FailInv(c)'
  <2>1. pc'[c] = pc[c] /\ task'[c] = task[c] /\ job'[c] = job[c] /\ JobInv(c) /\ FailInv(c)
    BY <1>1 DEF CareInv, Actors
  <2>2. \A p : Marks(c, p) => Marks(c, p)'
    BY DEF Marks
  <2>3. \A k \in markers : k.owner = c => k \in markers'
    OBVIOUS
  <2>4. Deletable(c)' = Deletable(c) /\ JobFiles(c)' = JobFiles(c)
    BY <2>1 DEF Deletable, JobFiles
  <2>5. FailInv(c)'
    BY <2>1, <2>2 DEF FailInv
  <2>6. pc[c] # "idle" /\ pc[c] = "interim" =>
         \E k \in markers' : k.owner = c /\ k.step = "registered" /\ Deletable(c)' \subseteq k.paths
    BY <2>1, <2>3, <2>4 DEF JobInv
  <2>7. JobInv(c)'
    BY <2>1, <2>4, <2>6 DEF JobInv
  <2> QED BY <2>5, <2>7
<1>4. \A b \in Actors \ {a} : TaskInv(b)'
  BY <1>1 DEF CareInv, TaskInv
<1> QED BY <1>2, <1>3, <1>4 DEF CareInv

\* The sweep's marker stays in order while another actor moves.
LEMMA SweepStays ==
  ASSUME Typed, CareInv, NEW a \in Actors, a # Sweeper, OthersKeep(a), UNCHANGED sweep,
         \A p \in Paths : Cared(p) => Cared(p)'
  PROVE  SweepInv'
<1>1. pc'[Sweeper] = pc[Sweeper] /\ task'[Sweeper] = task[Sweeper]
  BY DEF OthersKeep, Actors
<1>2. pc[Sweeper] \in RemovalSteps \cup {"settle"} => sweeping.paths \subseteq Paths
  BY DEF Typed, InHandTyped, SweepTyped, Marker, RemovalSteps
<1> QED BY <1>1, <1>2 DEF CareInv, SweepInv, sweep, RemovalSteps

\* No step but the rename itself has a creation hold a renamed file.
LEMMA RenamedStays ==
  ASSUME CareInv, NEW a \in Actors, OthersKeep(a),
         a \in Creators /\ pc'[a] \in MediaSteps /\ job'[a].onlyCopy =>
           pc[a] \in MediaSteps /\ job[a].onlyCopy /\ job'[a].media = job[a].media
  PROVE  RenamedOnce'
BY DEF CareInv, RenamedOnce, OthersKeep, Actors

\* The steps of a creation up to its registration.
LEMMA PrepareCare ==
  ASSUME AnsweredRemovals, Typed, CareInv, NEW c \in Creators, Prepare(c)
  PROVE  CareInv'
<1> USE DEF OthersKeep, Goto, Plan, files
<1>0. /\ pc \in [Actors -> Steps] /\ job \in [Creators -> Job \cup {NoJob}]
      /\ task \in [Actors -> Task] /\ Creators \subseteq Actors /\ c \in Actors
      /\ c \notin Users /\ c # Sweeper /\ Nobody # c
  BY DEF Typed, TypeOK, Actors
<1>1. /\ JobInv(c) /\ TaskInv(c) /\ FailInv(c) /\ pc[c] # "idle"
      /\ job[c] \in Job /\ job[c].media # NoThumb /\ job[c].media \in Media
      /\ RemovalMayFail => job[c].thumb = NoThumb /\ JobFiles(c) = {job[c].media}
  <2>1. pc[c] # "idle"
    BY DEF Prepare, StoreThumb, StageCopy, StageRename, StageFails, Place, MarkPlacement, CancelPlaced
  <2>2. job[c] \in Job /\ job[c].media \in Media /\ job[c].thumb \in Thumbs \cup {NoThumb}
    BY <1>0, <2>1, JobOfActive DEF Typed
  <2> QED BY <1>0, <2>1, <2>2 DEF CareInv, Paths, AnsweredRemovals, JobFiles
<1>2. \A p \in Paths : Cared(p) => Cared(p)'
  BY PrepareCares
<1>3. CASE StoreThumb(c)
  <2>1. /\ \/ pc[c] = "thumb" /\ pc'[c] = "stage"
           \/ pc[c] = "sidecar" /\ pc'[c] = "register"
        /\ UNCHANGED <<originals, markers, task, sweep>>
        /\ \A b \in Actors \ {c} : pc'[b] = pc[b]
    BY <1>0, <1>3 DEF StoreThumb
  <2>2. /\ job'[c].media = job[c].media /\ job'[c].kind = job[c].kind
        /\ job'[c].onlyCopy = job[c].onlyCopy
        /\ \A d \in Creators \ {c} : job'[d] = job[d]
    BY <1>0, <1>1, <1>3 DEF StoreThumb, Job
  <2>3. SweepInv' /\ RenamedOnce'
    BY <1>0, <1>1, <1>2, <2>1, <2>2, SweepStays, RenamedStays DEF JobInv, MediaSteps
  <2>4. TaskInv(c)' /\ task[c].paths = {}
    BY <1>0, <1>1, <2>1 DEF TaskInv, RemovalSteps
  <2>5. JobInv(c)'
    BY <1>1, <2>1, <2>2, <2>4 DEF JobInv
  <2>6. FailInv(c)'
    BY <1>1, <2>1, <2>2, <2>4 DEF FailInv, Marks, JobInv, RemovalSteps
  <2> QED BY <1>0, <1>2, <2>1, <2>2, <2>3, <2>4, <2>5, <2>6, CareStep
<1>4. CASE StageCopy(c)
  <2>1. /\ pc[c] = "stage" /\ pc'[c] = "register"
        /\ UNCHANGED <<originals, markers, task, sweep, job>>
        /\ \A b \in Actors \ {c} : pc'[b] = pc[b]
    BY <1>0, <1>4 DEF StageCopy
  <2>2. SweepInv' /\ RenamedOnce'
    BY <1>0, <1>1, <1>2, <2>1, SweepStays, RenamedStays DEF JobInv, MediaSteps
  <2>3. TaskInv(c)' /\ task[c].paths = {}
    BY <1>0, <1>1, <2>1 DEF TaskInv, RemovalSteps
  <2>4. JobInv(c)'
    BY <1>1, <2>1, <2>3 DEF JobInv
  <2>5. FailInv(c)'
    BY <1>1, <2>1 DEF FailInv, JobInv, RemovalSteps
  <2> QED BY <1>0, <1>2, <2>1, <2>2, <2>3, <2>4, <2>5, CareStep
<1>5. CASE StageRename(c)
  <2>1. /\ pc[c] = "stage" /\ pc'[c] = "register" /\ ~HardLinks /\ job[c].kind = "move"
        /\ job[c].media \in originals /\ originals' = originals \ {job[c].media}
        /\ UNCHANGED <<markers, task, sweep>>
        /\ \A b \in Actors \ {c} : pc'[b] = pc[b]
    BY <1>0, <1>5 DEF StageRename
  <2>2. /\ job'[c].media = job[c].media /\ job'[c].kind = job[c].kind
        /\ job'[c].onlyCopy
        /\ \A d \in Creators \ {c} : job'[d] = job[d]
    BY <1>0, <1>1, <1>5 DEF StageRename, Job
  <2>3. \A d \in Creators \ {c} :
          pc[d] \in MediaSteps /\ job[d].onlyCopy => job[d].media # job[c].media
    BY <2>1 DEF CareInv, JobInv, MediaSteps
  <2>4. RenamedOnce'
    BY <1>0, <2>1, <2>2, <2>3 DEF CareInv, RenamedOnce
  <2>5. SweepInv'
    BY <1>0, <1>2, <2>1, <2>2, SweepStays
  <2>6. TaskInv(c)' /\ task[c].paths = {}
    BY <1>0, <1>1, <2>1 DEF TaskInv, RemovalSteps
  <2>7. JobInv(c)'
    BY <1>1, <2>1, <2>2, <2>6 DEF JobInv
  <2>8. FailInv(c)'
    BY <2>1, <2>2 DEF FailInv, RemovalSteps
  <2> QED BY <1>0, <1>2, <2>1, <2>2, <2>4, <2>5, <2>6, <2>7, <2>8, CareStep
<1>6. CASE StageFails(c)
  <2>1. /\ pc[c] = "stage" /\ UNCHANGED <<originals, markers, sweep, job>>
        /\ \A b \in Actors \ {c} : pc'[b] = pc[b] /\ task'[b] = task[b]
        /\ \/ pc'[c] = "close" /\ task' = task
           \/ pc'[c] = "count" /\ task'[c].paths = {job[c].thumb} /\ job[c].thumb # NoThumb
    BY <1>0, <1>6 DEF StageFails
  <2>2. SweepInv' /\ RenamedOnce'
    BY <1>0, <1>2, <2>1, SweepStays, RenamedStays DEF MediaSteps
  <2>3. TaskInv(c)' /\ task[c].paths = {}
    BY <1>0, <1>1, <2>1 DEF TaskInv, RemovalSteps
  <2>4. JobInv(c)'
    BY <1>1, <2>1, <2>3 DEF JobInv, JobFiles, MediaSteps
  <2>5. FailInv(c)'
    BY <1>1, <2>1 DEF FailInv, RemovalSteps
  <2> QED BY <1>0, <1>2, <2>1, <2>2, <2>3, <2>4, <2>5, CareStep
<1>7. CASE Place(c)
  <2>1. /\ pc[c] = "place" /\ pc'[c] \in {"mark", "close"}
        /\ UNCHANGED <<originals, markers, task, sweep, job>>
        /\ \A b \in Actors \ {c} : pc'[b] = pc[b]
    BY <1>0, <1>7 DEF Place
  <2>2. SweepInv' /\ RenamedOnce'
    BY <1>0, <1>1, <1>2, <2>1, SweepStays, RenamedStays DEF JobInv, MediaSteps
  <2>3. TaskInv(c)' /\ task[c].paths = {}
    BY <1>0, <1>1, <2>1 DEF TaskInv, RemovalSteps
  <2>4. JobInv(c)'
    BY <1>1, <2>1, <2>3 DEF JobInv, MediaSteps
  <2>5. FailInv(c)'
    BY <2>1 DEF FailInv, RemovalSteps
  <2> QED BY <1>0, <1>2, <2>1, <2>2, <2>3, <2>4, <2>5, CareStep
<1>8. CASE MarkPlacement(c)
  <2>0. PICK k : k = MarkerOf(c, "placed", {job[c].media})
    OBVIOUS
  <2>1. /\ pc[c] = "mark" /\ pc'[c] = "sidecar"
        /\ UNCHANGED <<originals, task, sweep, job>>
        /\ \A b \in Actors \ {c} : pc'[b] = pc[b]
        /\ \/ markers' = markers \cup {k}
           \/ MarkerMayFail /\ markers' = markers
    BY <1>0, <1>8, <2>0 DEF MarkPlacement
  <2>2. SweepInv' /\ RenamedOnce'
    BY <1>0, <1>1, <1>2, <2>1, SweepStays, RenamedStays DEF JobInv, MediaSteps
  <2>3. TaskInv(c)' /\ task[c].paths = {}
    BY <1>0, <1>1, <2>1 DEF TaskInv, RemovalSteps
  <2>4. JobInv(c)'
    BY <1>1, <2>1, <2>3 DEF JobInv, MediaSteps
  <2>5. k.owner = c /\ k.step = "placed" /\ ~k.old /\ k.paths = {job[c].media}
    BY <2>0 DEF MarkerOf
  <2>6. MarkInv(k)'
    <3>1. Owes(c, job[c].media)'
      BY <2>1 DEF Owes, MediaSteps
    <3>2. Cared(job[c].media)'
      BY <3>1 DEF Cared, Created
    <3> QED BY <1>1, <2>1, <2>5, <3>2 DEF MarkInv, JobInv
  <2>7. FailInv(c)'
    <3>1. RemovalMayFail => Marks(c, job[c].media)'
      BY <2>1, <2>5 DEF Marks, AnsweredRemovals
    <3> QED BY <2>1, <3>1 DEF FailInv, RemovalSteps
  <2>8. \A j \in markers' : j \in markers \/ MarkInv(j)'
    BY <2>1, <2>6
  <2> QED BY <1>0, <1>2, <2>1, <2>2, <2>3, <2>4, <2>7, <2>8, CareStep
<1>9. CASE CancelPlaced(c)
  <2>1. /\ pc[c] = "register" /\ pc'[c] = "count" /\ job[c].kind = "download"
        /\ UNCHANGED <<originals, markers, sweep, job>>
        /\ \A b \in Actors \ {c} : pc'[b] = pc[b] /\ task'[b] = task[b]
        /\ task'[c].paths = JobFiles(c)
    BY <1>0, <1>9 DEF CancelPlaced
  <2>2. SweepInv' /\ RenamedOnce'
    BY <1>0, <1>2, <2>1, SweepStays, RenamedStays DEF MediaSteps
  <2>3. TaskInv(c)'
    BY <1>0, <2>1 DEF TaskInv, RemovalSteps
  <2>4. JobInv(c)'
    BY <1>1, <2>1 DEF JobInv, JobFiles, MediaSteps
  <2>5. FailInv(c)'
    BY <1>1, <2>1 DEF FailInv, Marks, RemovalSteps
  <2> QED BY <1>0, <1>2, <2>1, <2>2, <2>3, <2>4, <2>5, CareStep
<1> QED BY <1>3, <1>4, <1>5, <1>6, <1>7, <1>8, <1>9 DEF Prepare

\* The steps of a registration.  The marker of a placement goes when the one of
\* the registration, which names as much, is on disk.
LEMMA RegisterCare ==
  ASSUME AnsweredRemovals, Typed, CareInv, NEW c \in Creators,
         BeginRegistration(c) \/ Register(c)
  PROVE  CareInv'
<1> USE DEF OthersKeep, Goto, Plan, files
<1>0. /\ pc \in [Actors -> Steps] /\ job \in [Creators -> Job \cup {NoJob}]
      /\ task \in [Actors -> Task] /\ Creators \subseteq Actors /\ c \in Actors
      /\ c \notin Users /\ c # Sweeper /\ Nobody \notin Creators
  BY DEF Typed, TypeOK, Actors
<1>1. /\ JobInv(c) /\ TaskInv(c) /\ FailInv(c) /\ pc[c] # "idle" /\ task[c].paths = {}
      /\ job[c] \in Job /\ job[c].media # NoThumb /\ job[c].media \in Media
      /\ RemovalMayFail => /\ JobFiles(c) = {job[c].media} /\ ~job[c].onlyCopy /\ ~MarkerMayFail
                           /\ Deletable(c) = {job[c].media}
  <2>1. pc[c] # "idle" /\ pc[c] \notin RemovalSteps
    BY DEF BeginRegistration, Register, RecordMarker, ClearInterim, CheckFiles, Insert, InsertFails,
           ClearMarkers, RemoveSource, PutBack, RemovalSteps
  <2>2. job[c] \in Job /\ job[c].media \in Media /\ job[c].thumb \in Thumbs \cup {NoThumb}
    BY <1>0, <2>1, JobOfActive DEF Typed
  <2>3. RemovalMayFail => JobFiles(c) = {job[c].media} /\ ~job[c].onlyCopy /\ ~MarkerMayFail
    BY <2>1, <2>2 DEF CareInv, Paths, AnsweredRemovals, JobFiles, JobInv
  <2> QED BY <1>0, <2>1, <2>2, <2>3 DEF CareInv, Paths, Deletable, TaskInv
<1>2. \A p \in Paths : Cared(p) => Cared(p)'
  BY RegisterCares
<1>3. CASE BeginRegistration(c)
  <2>1. /\ pc[c] = "register" /\ pc'[c] = "record"
        /\ UNCHANGED <<originals, markers, task, sweep>>
        /\ \A b \in Actors \ {c} : pc'[b] = pc[b]
    BY <1>0, <1>3 DEF BeginRegistration
  <2>2. /\ job'[c].media = job[c].media /\ job'[c].kind = job[c].kind
        /\ job'[c].onlyCopy = job[c].onlyCopy
        /\ \A d \in Creators \ {c} : job'[d] = job[d]
    BY <1>0, <1>1, <1>3 DEF BeginRegistration, Job
  <2>3. SweepInv' /\ RenamedOnce' /\ TaskInv(c)'
    BY <1>0, <1>1, <1>2, <2>1, <2>2, SweepStays, RenamedStays DEF MediaSteps, TaskInv
  <2>4. JobInv(c)'
    BY <1>1, <2>1, <2>2 DEF JobInv, MediaSteps
  <2>5. FailInv(c)'
    BY <1>1, <2>1, <2>2 DEF FailInv, Marks, RemovalSteps
  <2> QED BY <1>0, <1>2, <2>1, <2>2, <2>3, <2>4, <2>5, CareStep
<1>4. CASE RecordMarker(c)
  <2>1. PICK k : k = MarkerOf(c, "registered", Deletable(c))
    OBVIOUS
  <2>2. /\ pc[c] = "record" /\ pc'[c] \in {"interim", "check"}
        /\ UNCHANGED <<originals, task, sweep, job>>
        /\ \A b \in Actors \ {c} : pc'[b] = pc[b]
        /\ \/ markers' = markers \cup {k} /\ pc'[c] = "interim"
           \/ /\ markers' = markers /\ pc'[c] = "check"
              /\ Deletable(c) = {} \/ MarkerMayFail
    BY <1>0, <1>4, <2>1 DEF RecordMarker
  <2>3. SweepInv' /\ RenamedOnce' /\ TaskInv(c)'
    BY <1>0, <1>1, <1>2, <2>2, SweepStays, RenamedStays DEF MediaSteps, TaskInv
  <2>4. k.owner = c /\ k.step = "registered" /\ ~k.old /\ k.paths = Deletable(c)
    BY <2>1 DEF MarkerOf
  <2>5. MarkInv(k)'
    <3>1. \A p \in Deletable(c) : Owes(c, p)'
      BY <2>2 DEF Owes, MediaSteps, ImageSteps, Deletable, JobFiles
    <3>2. \A p \in k.paths : Cared(p)'
      BY <2>4, <3>1 DEF Cared, Created
    <3> QED BY <2>2, <2>4, <3>2 DEF MarkInv
  <2>6. Deletable(c)' = Deletable(c)
    BY <2>2 DEF Deletable, JobFiles
  <2>7. JobInv(c)'
    BY <1>1, <2>2, <2>4, <2>6 DEF JobInv, MediaSteps
  <2>8. FailInv(c)'
    <3>1. RemovalMayFail => Marks(c, job[c].media)'
      BY <1>1, <2>2, <2>4 DEF Marks
    <3> QED BY <2>2, <3>1 DEF FailInv, RemovalSteps
  <2>9. \A j \in markers' : j \in markers \/ MarkInv(j)'
    BY <2>2, <2>5
  <2> QED BY <1>0, <1>2, <2>2, <2>3, <2>7, <2>8, <2>9, CareStep
<1>5. CASE ClearInterim(c)
  <2>1. /\ pc[c] = "interim" /\ pc'[c] = "check" /\ Clear(Owned(c, "placed"))
        /\ UNCHANGED <<originals, task, sweep, job>>
        /\ \A b \in Actors \ {c} : pc'[b] = pc[b]
    BY <1>0, <1>5 DEF ClearInterim
  <2>2. SweepInv' /\ RenamedOnce' /\ TaskInv(c)'
    BY <1>0, <1>1, <1>2, <2>1, SweepStays, RenamedStays DEF MediaSteps, TaskInv
  <2>3. \A k \in markers : k \in markers' \/ (k.owner = c /\ k.step = "placed")
    BY <2>1 DEF Clear, Owned
  <2>4. \A k \in markers' : k \in markers \/ k.owner \notin Creators
    <3>1. \A k \in Marker : Disowned(k).owner = Nobody
      BY DEF Disowned, Marker
    <3>2. Owned(c, "placed") \subseteq Marker
      BY DEF Owned, Typed, TypeOK
    <3> QED BY <1>0, <2>1, <3>1, <3>2 DEF Clear
  <2>5. JobInv(c)'
    BY <1>1, <2>1 DEF JobInv, MediaSteps
  <2>6. FailInv(c)'
    <3>1. PICK k \in markers : k.owner = c /\ k.step = "registered" /\ Deletable(c) \subseteq k.paths
      BY <1>1, <2>1 DEF JobInv
    <3>2. k \in markers' /\ job' = job
      BY <2>1, <2>3, <3>1
    <3>3. RemovalMayFail => Marks(c, job[c].media)'
      BY <1>1, <3>1, <3>2 DEF Marks
    <3> QED BY <2>1, <3>3 DEF FailInv, RemovalSteps
  <2> QED BY <1>0, <1>2, <2>1, <2>2, <2>3, <2>4, <2>5, <2>6, CareStep
<1>6. CASE CheckFiles(c)
  <2>1. /\ pc[c] = "check" /\ pc'[c] \in {"insert", "putBack"}
        /\ UNCHANGED <<originals, markers, task, sweep>>
        /\ \A b \in Actors \ {c} : pc'[b] = pc[b]
    BY <1>0, <1>6 DEF CheckFiles
  <2>2. /\ job'[c].media = job[c].media /\ job'[c].kind = job[c].kind
        /\ job'[c].onlyCopy = job[c].onlyCopy
        /\ \A d \in Creators \ {c} : job'[d] = job[d]
    BY <1>0, <1>1, <1>6 DEF CheckFiles, Job
  <2>3. SweepInv' /\ RenamedOnce' /\ TaskInv(c)'
    BY <1>0, <1>1, <1>2, <2>1, <2>2, SweepStays, RenamedStays DEF MediaSteps, TaskInv
  <2>4. JobInv(c)'
    BY <1>1, <2>1, <2>2 DEF JobInv, MediaSteps
  <2>5. FailInv(c)'
    BY <1>1, <2>1, <2>2 DEF FailInv, Marks, RemovalSteps
  <2> QED BY <1>0, <1>2, <2>1, <2>2, <2>3, <2>4, <2>5, CareStep
<1>7. CASE Insert(c) \/ InsertFails(c) \/ RemoveSource(c)
  <2>1. /\ \/ pc[c] = "insert" /\ pc'[c] \in {"clear", "putBack"}
           \/ pc[c] = "source" /\ pc'[c] = "close"
        /\ UNCHANGED <<markers, task, sweep, job>> /\ originals' \subseteq originals
        /\ \A b \in Actors \ {c} : pc'[b] = pc[b]
    BY <1>0, <1>7 DEF Insert, InsertFails, RemoveSource
  <2>2. SweepInv' /\ RenamedOnce' /\ TaskInv(c)'
    BY <1>0, <1>1, <1>2, <2>1, SweepStays, RenamedStays DEF MediaSteps, TaskInv
  <2>3. JobInv(c)'
    BY <1>1, <2>1 DEF JobInv, MediaSteps
  <2>4. FailInv(c)'
    BY <1>1, <2>1 DEF FailInv, Marks, RemovalSteps
  <2> QED BY <1>0, <1>2, <2>1, <2>2, <2>3, <2>4, CareStep
<1>8. CASE ClearMarkers(c)
  <2>1. /\ pc[c] = "clear" /\ pc'[c] = "source" /\ Clear({m \in markers : m.owner = c})
        /\ UNCHANGED <<originals, task, sweep, job>>
        /\ \A b \in Actors \ {c} : pc'[b] = pc[b]
    BY <1>0, <1>8 DEF ClearMarkers
  <2>2. SweepInv' /\ RenamedOnce' /\ TaskInv(c)'
    BY <1>0, <1>1, <1>2, <2>1, SweepStays, RenamedStays DEF MediaSteps, TaskInv
  <2>3. \A k \in markers : k \in markers' \/ k.owner = c
    BY <2>1 DEF Clear
  <2>4. \A k \in markers' : k \in markers \/ k.owner \notin Creators
    <3>1. \A k \in Marker : Disowned(k).owner = Nobody
      BY DEF Disowned, Marker
    <3>2. markers \subseteq Marker
      BY DEF Typed, TypeOK
    <3> QED BY <1>0, <2>1, <3>1, <3>2 DEF Clear
  <2>5. JobInv(c)' /\ FailInv(c)'
    BY <1>1, <2>1 DEF JobInv, FailInv, MediaSteps, RemovalSteps
  <2> QED BY <1>0, <1>2, <2>1, <2>2, <2>3, <2>4, <2>5, CareStep
<1>9. CASE PutBack(c)
  <2>1. /\ pc[c] = "putBack" /\ UNCHANGED <<markers, sweep, job>>
        /\ \A b \in Actors \ {c} : pc'[b] = pc[b] /\ task'[b] = task[b]
        /\ \/ pc'[c] = "close" /\ task' = task
           \/ pc'[c] = "count" /\ task'[c].paths = Deletable(c)
    BY <1>0, <1>9 DEF PutBack
  <2>2. \/ originals' = originals
        \/ job[c].onlyCopy /\ originals' = originals \cup {job[c].media}
    BY <1>9 DEF PutBack
  <2>3. SweepInv' /\ RenamedOnce' /\ TaskInv(c)'
    BY <1>0, <1>1, <1>2, <2>1, SweepStays, RenamedStays DEF MediaSteps, TaskInv, RemovalSteps
  <2>4. \A d \in Creators \ {c} :
          job[d].media \in originals' /\ pc[d] \in MediaSteps /\ job[d].onlyCopy =>
            job[d].media \in originals
    BY <2>1, <2>2 DEF CareInv, RenamedOnce, MediaSteps
  <2>5. JobInv(c)'
    BY <1>1, <2>1 DEF JobInv, JobFiles, Deletable, MediaSteps
  <2>6. FailInv(c)'
    BY <1>1, <2>1 DEF FailInv, Marks, RemovalSteps
  <2> QED BY <1>0, <1>2, <2>1, <2>3, <2>4, <2>5, <2>6, CareStep
<1> QED BY <1>3, <1>4, <1>5, <1>6, <1>7, <1>8, <1>9 DEF Register

\* A creation that closes has no marker any more.
LEMMA CloseCare ==
  ASSUME Typed, CareInv, NEW c \in Creators, Close(c) PROVE CareInv'
<1> USE DEF OthersKeep, Goto, files
<1>0. /\ pc \in [Actors -> Steps] /\ job \in [Creators -> Job \cup {NoJob}]
      /\ task \in [Actors -> Task] /\ Creators \subseteq Actors /\ c \in Actors
      /\ c \notin Users /\ c # Sweeper /\ Nobody \notin Creators /\ markers \subseteq Marker
  BY DEF Typed, TypeOK, Actors
<1>1. \A p \in Paths : Cared(p) => Cared(p)'
  BY CloseCares
<1>2. /\ pc[c] = "close" /\ pc'[c] = "idle" /\ task'[c].paths = {}
      /\ UNCHANGED <<originals, sweep>>
      /\ \A b \in Actors \ {c} : pc'[b] = pc[b] /\ task'[b] = task[b]
      /\ \A d \in Creators \ {c} : job'[d] = job[d]
  BY <1>0 DEF Close, NoTask
<1>3. SweepInv' /\ RenamedOnce' /\ TaskInv(c)'
  BY <1>0, <1>1, <1>2, SweepStays, RenamedStays DEF MediaSteps, TaskInv
<1>4. JobInv(c)' /\ FailInv(c)'
  BY <1>2 DEF JobInv, FailInv
<1>5. \A k \in Marker : Disowned(k).owner = Nobody
  BY DEF Disowned, Marker
<1>6. /\ \A k \in markers : k \in markers' \/ k.owner = c
      /\ \A k \in markers' : (k \in markers /\ k.owner # c) \/ k.owner = Nobody
  BY <1>0, <1>5 DEF Close, Clear
<1> QED BY <1>0, <1>1, <1>2, <1>3, <1>4, <1>6, CareStep

\* A removal keeps what is left of its plan marked.
LEMMA RemovalCare ==
  ASSUME AnsweredRemovals, Typed, CareInv, NEW a \in Actors, Removal(a) PROVE CareInv'
<1>0. /\ pc \in [Actors -> Steps] /\ Creators \subseteq Actors
      /\ Creators \cap Users = {} /\ Sweeper \notin Creators \cup Users
  BY DEF Typed, TypeOK, Actors
<1>1. \A p \in Paths : Cared(p) => Cared(p)'
  BY RemovalCares
<1>2. /\ \A b \in Actors \ {a} : pc'[b] = pc[b] /\ task'[b] = task[b]
      /\ UNCHANGED <<job, markers, sweep, originals>>
      /\ pc[a] \in RemovalSteps \cup {"acquire"}
  BY RemovalSays
<1>3. OthersKeep(a)
  BY <1>2 DEF OthersKeep
<1>4. /\ pc'[a] \in {"recount", "remove", "close", "settle", "idle"}
      /\ a \in Creators => pc'[a] \in {"recount", "remove", "close"}
      /\ task'[a].paths \subseteq task[a].paths
      /\ pc'[a] \in {"close", "settle", "idle"} => task'[a].paths = {}
  BY RemovalSays
<1>5. RenamedOnce'
  BY <1>3, <1>4, RenamedStays DEF MediaSteps
<1>6. TaskInv(a)'
  BY <1>0, <1>4 DEF TaskInv, RemovalSteps
<1>7. ASSUME a \in Creators PROVE JobInv(a)' /\ FailInv(a)'
  <2>1. JobInv(a) /\ FailInv(a) /\ TaskInv(a)
    BY <1>7 DEF CareInv
  <2>2. JobInv(a)'
    BY <1>2, <1>4, <1>7, <2>1 DEF JobInv, JobFiles, MediaSteps, RemovalSteps
  <2>3. FailInv(a)'
    BY <1>2, <1>4, <1>7, <2>1 DEF FailInv, Marks, TaskInv, RemovalSteps
  <2> QED BY <2>2, <2>3
<1>8. SweepInv'
  <2>1. CASE a = Sweeper
    <3>1. pc[Sweeper] \in RemovalSteps /\ sweeping \in Marker
      BY <1>2, <2>1 DEF Typed, InHandTyped, SweepTyped, SweeperSteps, RemovalSteps
    <3>2. ASSUME NEW p \in sweeping.paths,
                 \/ pc'[a] \in {"recount", "remove"} /\ p \notin task'[a].paths
                 \/ pc'[a] = "settle" /\ task'[a].ok
          PROVE  Cared(p)'
      <4>1. p \in Paths
        BY <3>1, <3>2 DEF Marker
      <4>2. p \notin task[a].paths => Cared(p)
        BY <2>1, <3>1, <3>2 DEF CareInv, SweepInv
      <4>3. p \in task[a].paths => p \in Referenced \/ p \notin disk'
        BY <1>0, <2>1, <3>2, RemovalSays
      <4>4. p \in Referenced => Cared(p)
        BY DEF Cared
      <4>5. p \notin disk' => Cared(p)'
        BY DEF Cared
      <4> QED BY <1>1, <4>1, <4>2, <4>3, <4>4, <4>5
    <3>3. pc'[a] \in {"recount", "remove", "settle"}
      BY <1>0, <2>1, RemovalSays
    <3>4. /\ \A k \in todo' : k.old /\ k.owner = Nobody
          /\ sweeping' # NoMarker => sweeping'.old /\ sweeping'.owner = Nobody
      BY <1>2 DEF CareInv, SweepInv, sweep
    <3>5. sweeping' = sweeping
      BY <1>2 DEF sweep
    <3> QED BY <2>1, <3>2, <3>3, <3>4, <3>5 DEF SweepInv, RemovalSteps
  <2>2. CASE a # Sweeper
    BY <1>1, <1>2, <1>3, <2>2, SweepStays
  <2> QED BY <2>1, <2>2
<1>9. a \in Creators => pc'[a] # "idle"
  BY <1>4
<1> QED BY <1>1, <1>2, <1>3, <1>5, <1>6, <1>7, <1>8, <1>9, CareStep

\* What is asked for, and avatars: a command holds one stored image at most.
LEMMA CommandCare ==
  ASSUME Typed, CareInv, Requests \/ \E u \in Users : AvatarStep(u) PROVE CareInv'
<1> USE DEF OthersKeep, Goto, Plan, files
<1>0. /\ pc \in [Actors -> Steps] /\ task \in [Actors -> Task]
      /\ job \in [Creators -> Job \cup {NoJob}]
      /\ Creators \subseteq Actors /\ Users \subseteq Actors \ Creators
      /\ OrphanRemover \in Actors /\ Sweeper \notin Creators \cup Users \cup {OrphanRemover}
      /\ OrphanRemover \notin Creators \cup Users
  BY DEF Typed, TypeOK, Actors
<1>1. \A p \in Paths : Cared(p) => Cared(p)'
  BY CommandCares
<1>2. UNCHANGED <<originals, markers, sweep>>
  BY DEF Requests, Create, DeleteMedia, DeleteChannel, StoreAvatar, ExcludeCreations,
         AvatarStep, ReplaceAvatar, InsertChannel, RefuseChannel
<1>3. ASSUME NEW a \in Actors \ Creators, a # Sweeper, OthersKeep(a), TaskInv(a)'
      PROVE  CareInv'
  <2>1. SweepInv' /\ RenamedOnce'
    BY <1>1, <1>2, <1>3, SweepStays, RenamedStays
  <2> QED BY <1>1, <1>2, <1>3, <2>1, CareStep
<1>4. ASSUME NEW c \in Creators, NEW kind \in Kinds, NEW ch \in Channels,
             NEW m \in Media, Create(c, kind, ch, m)
      PROVE  CareInv'
  <2>1. /\ pc[c] = "idle" /\ UNCHANGED task
        /\ \/ pc'[c] = "place" /\ job'[c].kind = "download"
           \/ pc'[c] = "thumb" /\ job'[c].kind # "download"
        /\ ~job'[c].onlyCopy /\ job'[c].thumb = NoThumb
        /\ OthersKeep(c)
    BY <1>0, <1>4 DEF Create
  <2>2. task[c].paths = {} /\ TaskInv(c)'
    BY <1>0, <2>1 DEF CareInv, TaskInv, RemovalSteps
  <2>3. JobInv(c)' /\ FailInv(c)'
    BY <2>1, <2>2 DEF JobInv, FailInv, MediaSteps, RemovalSteps
  <2>4. SweepInv' /\ RenamedOnce'
    BY <1>0, <1>1, <1>2, <2>1, SweepStays, RenamedStays
  <2>5. \A k \in markers' : k.owner # c
    BY <1>2, <2>1 DEF CareInv, MarkInv
  <2> QED BY <1>0, <1>1, <1>2, <2>1, <2>2, <2>3, <2>4, <2>5, CareStep
<1>5. ASSUME NEW u \in Users, NEW r \in rows, DeleteMedia(u, r) PROVE CareInv'
  <2>1. OthersKeep(u) /\ pc'[u] = "acquire"
    BY <1>0, <1>5 DEF DeleteMedia
  <2> QED BY <1>0, <1>3, <2>1 DEF TaskInv
<1>6. ASSUME NEW u \in Users, NEW ch \in Channels, DeleteChannel(u, ch) PROVE CareInv'
  <2>1. OthersKeep(u) /\ pc'[u] = "acquire"
    BY <1>0, <1>6 DEF DeleteChannel
  <2> QED BY <1>0, <1>3, <2>1 DEF TaskInv
<1>7. ASSUME NEW u \in Users, NEW t \in Thumbs, StoreAvatar(u, t) PROVE CareInv'
  <2>1. OthersKeep(u) /\ pc'[u] = "avatar" /\ task'[u].paths = {t}
    BY <1>0, <1>7 DEF StoreAvatar
  <2> QED BY <1>0, <1>3, <2>1 DEF TaskInv
<1>8. CASE ExcludeCreations
  <2>1. OthersKeep(OrphanRemover)
    BY <1>0, <1>8 DEF ExcludeCreations
  <2> QED BY <1>0, <1>3, <2>1 DEF TaskInv
<1>9. ASSUME NEW u \in Users, AvatarStep(u) PROVE CareInv'
  <2>1. /\ OthersKeep(u)
        /\ pc'[u] \in {"acquire", "count"} \/ (pc'[u] = "idle" /\ task'[u].paths = {})
    BY <1>0, <1>9 DEF AvatarStep, ReplaceAvatar, InsertChannel, RefuseChannel, NoTask
  <2> QED BY <1>0, <1>3, <2>1 DEF TaskInv
<1> QED BY <1>4, <1>5, <1>6, <1>7, <1>8, <1>9 DEF Requests

\* The sweep reads only markers of an earlier launch, and spares what a
\* creation's marker names.
LEMMA SweepCare ==
  ASSUME Typed, CareInv, SweepStep PROVE CareInv'
<1> USE DEF OthersKeep, Goto, Plan, files
<1>0. /\ pc \in [Actors -> Steps] /\ task \in [Actors -> Task]
      /\ Sweeper \in Actors /\ Sweeper \notin Creators \cup Users /\ Nobody \notin Creators
      /\ markers \subseteq Marker
  BY DEF Typed, TypeOK, Actors
<1>1. \A p \in Paths : Cared(p) => Cared(p)'
  BY OtherCares
<1>2. UNCHANGED <<originals, job>> /\ OthersKeep(Sweeper)
  BY <1>0 DEF SweepStep, ReadMarkers, SpareLive, Settle, SweepDone
<1>3. RenamedOnce' /\ TaskInv(Sweeper)'
  BY <1>0, <1>2, RenamedStays DEF TaskInv
<1>4. CASE ReadMarkers
  <2>1. /\ pc'[Sweeper] = "next" /\ UNCHANGED <<markers, sweeping>>
        /\ \A k \in todo' : k.old /\ k.owner = Nobody
    BY <1>0, <1>4 DEF ReadMarkers
  <2>2. SweepInv'
    BY <2>1 DEF CareInv, SweepInv, RemovalSteps
  <2> QED BY <1>0, <1>1, <1>2, <1>3, <2>1, <2>2, CareStep
<1>5. CASE SpareLive
  <2>1. PICK k \in todo : /\ sweeping' = k /\ todo' = todo \ {k}
                          /\ task'[Sweeper].paths = k.paths \ LivePaths
    BY <1>0, <1>5 DEF SpareLive
  <2>2. pc'[Sweeper] = "count" /\ UNCHANGED markers /\ k.paths \subseteq Paths
    BY <1>0, <1>5 DEF SpareLive, Typed, TypeOK, Marker
  <2>3. ASSUME NEW p \in k.paths, p \in LivePaths PROVE Cared(p)'
    <3>1. PICK n \in markers : n.owner # Nobody /\ p \in n.paths
      BY <2>3 DEF LivePaths
    <3>2. n.owner \in Creators
      BY <1>0, <3>1 DEF Marker
    <3>3. Cared(p)
      BY <3>1, <3>2 DEF CareInv, MarkInv
    <3> QED BY <1>1, <2>2, <3>3
  <2>4. \A j \in todo' \cup {k} : j.old /\ j.owner = Nobody
    BY <2>1 DEF CareInv, SweepInv
  <2>5. SweepInv'
    BY <2>1, <2>2, <2>3, <2>4 DEF SweepInv, RemovalSteps
  <2> QED BY <1>0, <1>1, <1>2, <1>3, <2>2, <2>5, CareStep
<1>6. CASE Settle
  <2>1. sweeping \in Marker
    BY <1>6 DEF Settle, Typed, InHandTyped, SweepTyped
  <2>2. sweeping.owner = Nobody
    BY <2>1 DEF CareInv, SweepInv, Marker, NoMarker
  <2>3. [sweeping EXCEPT !.attempts = @ + 1, !.old = FALSE].owner = Nobody
    BY <2>1, <2>2 DEF Marker
  <2>4. /\ \A k \in markers' : k \in markers \/ k.owner = Nobody
        /\ \A k \in markers : k \in markers' \/ k.owner = Nobody
    BY <1>6, <2>2, <2>3 DEF Settle
  <2>5. pc'[Sweeper] = "next" /\ todo' = todo /\ sweeping' = NoMarker
    BY <1>0, <1>6 DEF Settle
  <2>6. SweepInv'
    BY <2>5 DEF CareInv, SweepInv, RemovalSteps
  <2> QED BY <1>0, <1>1, <1>2, <1>3, <2>4, <2>6, CareStep
<1>7. CASE SweepDone
  <2>1. pc'[Sweeper] = "done" /\ UNCHANGED <<markers, sweep>>
    BY <1>0, <1>7 DEF SweepDone
  <2>2. SweepInv'
    BY <2>1 DEF CareInv, SweepInv, RemovalSteps, sweep
  <2> QED BY <1>0, <1>1, <1>2, <1>3, <2>1, <2>2, CareStep
<1> QED BY <1>4, <1>5, <1>6, <1>7 DEF SweepStep

\* The listing of orphans and the clock.
LEMMA OrphanCare ==
  ASSUME Typed, CareInv, ListOrphans \/ RefuseOrphans \/ Age PROVE CareInv'
<1> USE DEF OthersKeep, Goto, Plan, files
<1>0. /\ pc \in [Actors -> Steps] /\ task \in [Actors -> Task]
      /\ OrphanRemover \in Actors /\ OrphanRemover \notin Creators \cup Users
      /\ OrphanRemover # Sweeper
  BY DEF Typed, TypeOK, Actors
<1>1. \A p \in Paths : Cared(p) => Cared(p)'
  BY OtherCares
<1>2. UNCHANGED <<originals, job, markers, sweep>> /\ OthersKeep(OrphanRemover)
  BY <1>0 DEF ListOrphans, RefuseOrphans, Age
<1>3. RenamedOnce' /\ SweepInv' /\ TaskInv(OrphanRemover)'
  BY <1>0, <1>1, <1>2, RenamedStays, SweepStays DEF TaskInv
<1> QED BY <1>0, <1>1, <1>2, <1>3, CareStep

\* A new launch: every marker is one of an earlier process, and nothing runs.
LEMMA RestartCare ==
  ASSUME Typed, Restart PROVE CareInv'
<1>1. /\ \A c \in Creators : pc'[c] = "idle"
      /\ pc'[Sweeper] = "waiting"
      /\ \A a \in Actors : pc'[a] \in {"idle", "waiting"} /\ task'[a].paths = {}
      /\ todo' = {} /\ sweeping' = NoMarker
  BY DEF Restart, Actors, NoTask
<1>2. \A k \in markers' : k.owner = Nobody
  <2>1. \A m \in Marker : [m EXCEPT !.owner = Nobody, !.step = "left", !.old = TRUE].owner = Nobody
    BY DEF Marker
  <2> QED BY <2>1 DEF Restart, Typed, TypeOK
<1>3. \A k \in markers' : MarkInv(k)'
  BY <1>2 DEF MarkInv, Actors
<1>4. SweepInv' /\ RenamedOnce'
  BY <1>1 DEF SweepInv, RemovalSteps, RenamedOnce, MediaSteps
<1>5. \A a \in Actors : TaskInv(a)'
  BY <1>1 DEF TaskInv
<1>6. \A c \in Creators : JobInv(c)' /\ FailInv(c)'
  BY <1>1 DEF JobInv, FailInv
<1> QED BY <1>3, <1>4, <1>5, <1>6 DEF CareInv

\* Every step keeps the marked files cared for.
LEMMA NextCare ==
  AnsweredRemovals /\ Typed /\ CareInv /\ [Next]_vars => CareInv'
<1> SUFFICES ASSUME AnsweredRemovals, Typed, CareInv, [Next]_vars PROVE CareInv'
  OBVIOUS
<1>1. CASE UNCHANGED vars
  <2>1. Referenced' = Referenced
    BY <1>1, SameReferences DEF vars
  <2>2. /\ \A d \in Creators : \A p : Owes(d, p)' = Owes(d, p) /\ Stuck(d, p)' = Stuck(d, p)
        /\ \A p : Left(p)' = Left(p) /\ Planned(p)' = Planned(p)
    BY <1>1 DEF vars, files, Owes, Stuck, Marks, Left, Planned
  <2>3. \A p : Created(p)' = Created(p)
    BY <2>2 DEF Created
  <2>4. \A p : Cared(p) => Cared(p)'
    BY <1>1, <2>1, <2>2, <2>3 DEF vars, files, Cared
  <2>5. (\A k \in markers : MarkInv(k))'
    BY <1>1, <2>4 DEF vars, files, CareInv, MarkInv
  <2>6. SweepInv' /\ RenamedOnce'
    BY <1>1, <2>4 DEF vars, files, sweep, CareInv, SweepInv, RenamedOnce
  <2>7. (\A a \in Actors : TaskInv(a))'
    BY <1>1 DEF vars, files, CareInv, TaskInv
  <2>8. (\A c \in Creators : JobInv(c) /\ FailInv(c))'
    BY <1>1 DEF vars, files, CareInv, JobInv, FailInv, Marks, Deletable, JobFiles
  <2> QED BY <2>5, <2>6, <2>7, <2>8 DEF CareInv
<1>2. CASE Next
  <2>1. ASSUME NEW c \in Creators, CreatorStep(c) PROVE CareInv'
    BY <2>1, PrepareCare, RegisterCare, CloseCare DEF CreatorStep
  <2>2. ASSUME NEW a \in Actors, Removal(a) PROVE CareInv'
    BY <2>2, RemovalCare
  <2>3. CASE Rest
    BY <1>1, <2>3 DEF Rest
  <2> QED BY <1>2, <2>1, <2>2, <2>3, CommandCare, SweepCare, OrphanCare, RestartCare DEF Next
<1> QED BY <1>1, <1>2

\* A file that is cared for is accounted for without a creation that owes
\* nothing any more.
LEMMA AccountedFor ==
  ASSUME NEW p \in Paths, NEW c, Cared(p)', c \in Creators => ~(Owes(c, p) \/ Stuck(c, p))',
         Typed', CareInv'
  PROVE  Accounted(p, c)'
<1>1. CASE p \notin disk' \/ p \in Referenced' \/ Left(p)' \/ Planned(p)'
  BY <1>1 DEF Accounted, Left, Planned
<1>2. CASE Created(p)'
  <2>1. PICK d \in Creators : (Owes(d, p) \/ Stuck(d, p))'
    BY <1>2 DEF Created
  <2>2. CASE Stuck(d, p)'
    BY <2>2 DEF Stuck, Marks, Accounted
  <2>3. CASE Owes(d, p)'
    <3>1. pc'[d] # "idle"
      BY <2>3 DEF Owes, CareInv, TaskInv, MediaSteps, ImageSteps, RemovalSteps, Actors
    <3>2. task'[d].paths \subseteq JobFiles(d)'
      BY <3>1 DEF CareInv, JobInv
    <3>3. job'[d].media \in JobFiles(d)' /\ (job'[d].thumb \in JobFiles(d)' \/ job'[d].thumb = NoThumb)
      BY <3>1 DEF JobFiles, Typed, TypeOK, Job, Paths
    <3> QED BY <2>1, <2>3, <3>1, <3>2, <3>3 DEF Owes, Accounted
  <2> QED BY <2>1, <2>2, <2>3
<1> QED BY <1>1, <1>2 DEF Cared

\* A marker goes when its creation owes nothing, or the sweep has settled it;
\* or another one of the same creation names its files.
LEMMA MarkerGivenUp ==
  ASSUME AnsweredRemovals, Typed, CareInv, Typed', CareInv', Next,
         NEW m \in markers, NEW p \in m.paths
  PROVE  Accounted(p, m.owner)'
<1> USE DEF Goto, files
<1>0. /\ pc \in [Actors -> Steps] /\ Creators \subseteq Actors /\ Nobody \notin Creators
      /\ m \in Marker /\ p \in Paths /\ m.owner \in Creators \cup {Nobody}
  BY DEF Typed, TypeOK, Actors, Marker
<1>1. ASSUME NEW k \in markers', p \in k.paths PROVE Accounted(p, m.owner)'
  BY <1>1 DEF Accounted
<1>2. CASE m \in markers'
  BY <1>1, <1>2
<1>3. ASSUME NEW c \in Creators, m.owner = c, pc'[c] \in {"source", "idle"},
             Cared(p)'
      PROVE  Accounted(p, m.owner)'
  <2>1. ~(Owes(c, p) \/ Stuck(c, p))'
    BY <1>0, <1>3 DEF CareInv, TaskInv, Owes, Stuck, MediaSteps, ImageSteps, RemovalSteps
  <2> QED BY <1>0, <1>3, <2>1, AccountedFor
<1>4. ASSUME NEW c \in Creators, m.owner = c PROVE Cared(p)
  BY <1>4 DEF CareInv, MarkInv
<1>5. ASSUME NEW c \in Creators, ClearInterim(c), m \notin markers'
      PROVE  Accounted(p, m.owner)'
  <2>1. m \in Owned(c, "placed")
    BY <1>5 DEF ClearInterim, Clear
  <2>2. /\ m.owner = c /\ m.step = "placed" /\ m.paths = {job[c].media}
        /\ job[c].kind = "download"
    BY <2>1 DEF Owned, CareInv, MarkInv
  <2>3. pc[c] = "interim" /\ job[c] \in Job /\ JobInv(c)
    BY <1>5, JobOfActive DEF ClearInterim, Typed, CareInv
  <2>4. PICK k \in markers : k.owner = c /\ k.step = "registered" /\ Deletable(c) \subseteq k.paths
    BY <2>3 DEF JobInv
  <2>5. job[c].media \in Deletable(c)
    BY <1>0, <2>2, <2>3 DEF JobInv, Deletable, JobFiles, Paths
  <2>6. k \in markers'
    BY <1>5, <2>4 DEF ClearInterim, Clear, Owned
  <2> QED BY <1>1, <2>2, <2>4, <2>5, <2>6
<1>6. ASSUME NEW c \in Creators, ClearMarkers(c) \/ Close(c), m \notin markers'
      PROVE  Accounted(p, m.owner)'
  <2>1. m.owner = c
    BY <1>6 DEF ClearMarkers, Close, Clear
  <2>2. pc'[c] \in {"source", "idle"}
    BY <1>0, <1>6 DEF ClearMarkers, Close
  <2>3. Cared(p)'
    <3>1. CASE ClearMarkers(c)
      BY <1>0, <1>4, <2>1, <3>1, RegisterCares DEF Register
    <3>2. CASE Close(c)
      BY <1>0, <1>4, <2>1, <3>2, CloseCares
    <3> QED BY <1>6, <3>1, <3>2
  <2> QED BY <1>3, <2>1, <2>2, <2>3
<1>7. ASSUME Settle, m \notin markers' PROVE Accounted(p, m.owner)'
  <2>1. m = sweeping /\ sweeping \in Marker
    BY <1>7 DEF Settle, Typed, InHandTyped, SweepTyped
  <2>2. m.owner = Nobody
    BY <2>1 DEF CareInv, SweepInv, Marker, NoMarker
  <2>3. CASE task[Sweeper].ok
    <3>1. Cared(p)
      BY <1>7, <2>1, <2>3 DEF Settle, CareInv, SweepInv
    <3>2. Cared(p)'
      BY <1>0, <1>7, <3>1, OtherCares DEF SweepStep
    <3> QED BY <1>0, <2>2, <3>2, AccountedFor
  <2>4. CASE ~task[Sweeper].ok
    <3>1. [sweeping EXCEPT !.attempts = @ + 1, !.old = FALSE].paths = m.paths
      BY <2>1 DEF Marker
    <3>2. [sweeping EXCEPT !.attempts = @ + 1, !.old = FALSE] \in markers'
      BY <1>7, <2>1, <2>4 DEF Settle
    <3> QED BY <1>1, <3>1, <3>2
  <2> QED BY <2>3, <2>4
<1>8. CASE Restart
  <2>1. [m EXCEPT !.owner = Nobody, !.step = "left", !.old = TRUE] \in markers'
    BY <1>8 DEF Restart
  <2>2. [m EXCEPT !.owner = Nobody, !.step = "left", !.old = TRUE].paths = m.paths
    BY <1>0 DEF Marker
  <2> QED BY <1>1, <2>1, <2>2
<1>9. ASSUME m \notin markers'
      PROVE  \/ \E c \in Creators : ClearInterim(c) \/ ClearMarkers(c) \/ Close(c)
             \/ Settle \/ Restart
  BY <1>9 DEF Next, Requests, Create, DeleteMedia, DeleteChannel, StoreAvatar, ExcludeCreations,
         CreatorStep, Prepare, StoreThumb, StageCopy, StageRename, StageFails, Place, MarkPlacement,
         CancelPlaced, BeginRegistration, Register, RecordMarker, CheckFiles,
         Insert, InsertFails, RemoveSource, PutBack, AvatarStep, ReplaceAvatar, InsertChannel,
         RefuseChannel, Removal, Count, Acquire, Recount, Remove, SweepStep, ReadMarkers,
         SpareLive, SweepDone, ListOrphans, RefuseOrphans, Age, Rest, vars
<1> QED BY <1>2, <1>5, <1>6, <1>7, <1>8, <1>9

\* A crash marker is given up only when each file it names is gone, referenced,
\* or somebody else's to deal with: wherever no removal fails, whatever markers
\* and recounts do; and where removals may fail, for creations that have a
\* marker and nobody else to remove (cleanup_reconciled, and the order of
\* record, insert and clear).
THEOREM MarkersAnswered ==
  ASSUME AnsweredRemovals PROVE Spec => NothingForgotten
<1>1. Init => Typed /\ CareInv
  BY InitTyped, InitCare
<1>2. Typed /\ CareInv /\ [Next]_vars => (Typed /\ CareInv)'
  BY NextTyped, NextCare
<1>3. Typed /\ CareInv /\ (Typed /\ CareInv)' /\ [Next]_vars =>
        [\A m \in markers : \A p \in m.paths : Accounted(p, m.owner)']_vars
  BY MarkerGivenUp
<1> QED BY <1>1, <1>2, <1>3, PTL DEF Spec, NothingForgotten

(***************************************************************************)
(* What the two guards of MediaLibrary are worth by themselves, whatever   *)
(* the volume, the recounts and the disk do: the registration lock keeps   *)
(* the library's copy in place until the source of a Move is given up, and *)
(* the creation gate keeps the orphan removal from files of a creation.    *)
(* Together they keep the only copy of a file that Moves have renamed.     *)
(***************************************************************************)

(***************************************************************************)
(* The source of a Move.  The look at the files comes two steps before the *)
(* removal of the source, and a file goes only in a locked step.  So the   *)
(* copy that was seen is still there, although its row may not be.         *)
(***************************************************************************)
SeenSteps == {"insert", "clear", "source"}

SeenInv == \A c \in Creators : pc[c] \in SeenSteps => job[c].media \in disk

LockInv == Typed /\ MutexInv /\ SeenInv

\* No creation has looked at a file yet.
LEMMA InitLock == Init => LockInv
<1> SUFFICES ASSUME Init PROVE LockInv
  OBVIOUS
<1>1. Typed /\ MutexInv
  BY InitRows DEF RowsInv
<1>2. \A c \in Creators : pc[c] = "idle"
  BY DEF Init, Actors
<1>3. SeenInv
  BY <1>2 DEF SeenInv, SeenSteps
<1> QED BY <1>1, <1>3 DEF LockInv

\* A step inside the lock, or one that removes no file, leaves what the other
\* creations have seen.
LEMMA LockedStep ==
  ASSUME LockInv, Typed', NEW a \in Actors, OthersKeep(a),
         InCritical(a)' => lock' = a,
         lock' = lock \/ lock \in {Nobody, a},
         disk \subseteq disk' \/ lock = a,
         a \in Creators /\ pc'[a] \in SeenSteps => job'[a].media \in disk'
  PROVE  LockInv'
<1>1. MutexInv'
  BY MutexStep DEF LockInv
<1>2. ASSUME NEW c \in Creators, c # a, pc'[c] \in SeenSteps
      PROVE  job'[c].media \in disk'
  <2>1. c \in Actors /\ pc[c] \in SeenSteps /\ job'[c] = job[c]
    BY <1>2 DEF OthersKeep, Actors
  <2>2. lock = c
    BY <2>1 DEF LockInv, MutexInv, InCritical, LockedSteps, SeenSteps
  <2>3. disk \subseteq disk'
    BY <1>2, <2>2
  <2> QED BY <2>1, <2>3 DEF LockInv, SeenInv
<1>3. SeenInv'
  BY <1>2 DEF SeenInv
<1> QED BY <1>1, <1>3 DEF LockInv

\* ... in particular one that enters no locked step and keeps the lock, the
\* files and the flag of a registration.
LEMMA FreeStep ==
  ASSUME LockInv, Typed', NEW a \in Actors, OthersKeep(a), lock' = lock,
         pc'[a] \in LockedSteps => pc[a] \in LockedSteps,
         a \in Creators /\ pc'[a] # "idle" =>
           pc[a] # "idle" /\ job'[a].registering = job[a].registering,
         disk \subseteq disk',
         a \in Creators /\ pc'[a] \in SeenSteps =>
           pc[a] \in SeenSteps /\ job'[a].media = job[a].media
  PROVE  LockInv'
<1>1. InCritical(a)' => InCritical(a)
  BY DEF InCritical, Registering
<1>2. InCritical(a)' => lock' = a
  BY <1>1 DEF LockInv, MutexInv
<1>3. a \in Creators /\ pc'[a] \in SeenSteps => job'[a].media \in disk'
  BY DEF LockInv, SeenInv
<1> QED BY <1>2, <1>3, LockedStep

\* The steps of a creation up to its registration.
LEMMA PrepareLock ==
  ASSUME LockInv, Typed', NEW c \in Creators, Prepare(c) PROVE LockInv'
<1> USE DEF Typed, TypeOK, Actors, OthersKeep, Goto, Plan, LockedSteps, SeenSteps, files, db, Write
<1>1. pc[c] # "idle" => job[c] \in Job
  BY JobOfActive DEF LockInv
<1>2. CASE StoreThumb(c)
  <2>1. /\ job'[c].registering = job[c].registering
        /\ \A d \in Creators \ {c} : job'[d] = job[d]
    BY <1>1, <1>2 DEF StoreThumb, LockInv, Job
  <2> QED BY <1>2, <2>1, FreeStep DEF StoreThumb, LockInv
<1>3. CASE StageCopy(c)
  BY <1>3, FreeStep DEF StageCopy, LockInv
<1>4. CASE StageRename(c)
  <2>1. /\ job'[c].registering = job[c].registering
        /\ \A d \in Creators \ {c} : job'[d] = job[d]
    BY <1>1, <1>4 DEF StageRename, LockInv, Job
  <2> QED BY <1>4, <2>1, FreeStep DEF StageRename, LockInv
<1>5. CASE StageFails(c)
  BY <1>5, FreeStep DEF StageFails, LockInv
<1>6. CASE Place(c)
  BY <1>6, FreeStep DEF Place, LockInv
<1>7. CASE MarkPlacement(c)
  BY <1>7, FreeStep DEF MarkPlacement, LockInv
<1>8. CASE CancelPlaced(c)
  BY <1>8, FreeStep DEF CancelPlaced, LockInv
<1> QED BY <1>2, <1>3, <1>4, <1>5, <1>6, <1>7, <1>8 DEF Prepare

\* A registration looks at the files inside the lock, and takes a renamed file
\* out of the library only where it has not seen it.
LEMMA RegisterLock ==
  ASSUME LockInv, Typed', NEW c \in Creators,
         BeginRegistration(c) \/ Register(c) \/ Close(c)
  PROVE  LockInv'
<1> USE DEF Typed, TypeOK, Actors, OthersKeep, Goto, Plan, LockedSteps, SeenSteps, files, db
<1>1. pc[c] # "idle" => job[c] \in Job
  BY JobOfActive DEF LockInv
<1>2. pc[c] \in LockedSteps => lock = c
  BY DEF LockInv, MutexInv, InCritical
<1>3. CASE BeginRegistration(c)
  BY <1>3, LockedStep DEF BeginRegistration, LockInv
<1>4. CASE RecordMarker(c)
  BY <1>4, FreeStep DEF RecordMarker, LockInv
<1>5. CASE ClearInterim(c)
  BY <1>5, FreeStep DEF ClearInterim, LockInv
<1>6. CASE CheckFiles(c)
  <2>1. /\ job'[c].registering = job[c].registering
        /\ job'[c].media = job[c].media
        /\ pc'[c] = "insert" => job[c].media \in disk
        /\ OthersKeep(c)
    BY <1>1, <1>6 DEF CheckFiles, LockInv, Job
  <2>2. UNCHANGED <<disk, lock>> /\ pc'[c] \in {"insert", "putBack"} /\ lock = c
    BY <1>2, <1>6 DEF CheckFiles, LockInv
  <2> QED BY <2>1, <2>2, LockedStep
<1>7. CASE Insert(c)
  BY <1>7, FreeStep DEF Insert, LockInv
<1>8. CASE InsertFails(c)
  BY <1>8, FreeStep DEF InsertFails, LockInv
<1>9. CASE ClearMarkers(c)
  BY <1>9, FreeStep DEF ClearMarkers, LockInv
<1>10. CASE RemoveSource(c)
  BY <1>10, FreeStep DEF RemoveSource, LockInv
<1>11. CASE PutBack(c)
  <2>1. /\ OthersKeep(c) /\ pc'[c] \in {"count", "close"} /\ job' = job
        /\ lock = c /\ lock' = lock
    BY <1>2, <1>11 DEF PutBack, LockInv
  <2> QED BY <2>1, LockedStep
<1>12. CASE Close(c)
  BY <1>12, LockedStep DEF Close, LockInv, InCritical
<1> QED BY <1>3, <1>4, <1>5, <1>6, <1>7, <1>8, <1>9, <1>10, <1>11, <1>12 DEF Register

\* A removal takes files only with the lock in hand.
LEMMA RemovalLock ==
  ASSUME LockInv, Typed', NEW a \in Actors, Removal(a) PROVE LockInv'
<1> USE DEF Typed, TypeOK, OthersKeep, Goto, Plan, LockedSteps, SeenSteps, files, db
<1>1. InCritical(a) => lock = a
  BY DEF LockInv, MutexInv
<1>2. ASSUME NEW ok \in BOOLEAN, EndRemoval(a, ok), lock \in {Nobody, a},
             UNCHANGED job, pc[a] \in {"count", "remove"}
      PROVE  /\ OthersKeep(a) /\ pc'[a] \in {"close", "settle", "idle"}
             /\ InCritical(a)' => lock' = a
             /\ lock' = lock \/ lock \in {Nobody, a}
  BY <1>1, <1>2 DEF EndRemoval, LockInv, InCritical, Registering
<1>3. CASE Count(a)
  <2>1. CASE EndRemoval(a, FALSE)
    BY <1>2, <1>3, <2>1, LockedStep DEF Count
  <2>2. CASE ~EndRemoval(a, FALSE)
    BY <1>3, <2>2, LockedStep DEF Count, LockInv
  <2> QED BY <2>1, <2>2
<1>4. CASE Acquire(a)
  BY <1>4, LockedStep DEF Acquire, LockInv
<1>5. CASE Recount(a)
  <2>1. /\ OthersKeep(a) /\ UNCHANGED <<disk, lock, job>> /\ lock = a
        /\ pc'[a] = "remove"
    BY <1>1, <1>5 DEF Recount, LockInv, InCritical
  <2> QED BY <2>1, LockedStep
<1>6. CASE Remove(a)
  <2>1. PICK gone \in Removable(a) : EndRemoval(a, gone = task[a].paths)
    BY <1>6 DEF Remove
  <2>2. job' = job /\ lock = a /\ pc[a] = "remove"
    BY <1>1, <1>6 DEF Remove, InCritical
  <2> QED BY <1>2, <2>1, <2>2, LockedStep
<1> QED BY <1>3, <1>4, <1>5, <1>6 DEF Removal

\* Requests, avatars, the sweep's bookkeeping and the listing of orphans remove
\* no file; a new launch has seen none.
LEMMA OtherLock ==
  ASSUME LockInv, Typed',
         \/ Requests \/ \E u \in Users : AvatarStep(u)
         \/ SweepStep \/ ListOrphans \/ RefuseOrphans \/ Age \/ Restart
  PROVE  LockInv'
<1> USE DEF Typed, TypeOK, Actors, OthersKeep, Goto, Plan, LockedSteps, SeenSteps, files, db, Write, Request
<1>1. CASE Requests
  <2>1. ASSUME NEW c \in Creators, NEW kind \in Kinds, NEW ch \in Channels,
               NEW m \in Media, Create(c, kind, ch, m)
        PROVE  LockInv'
    <3>1. /\ job'[c].registering = FALSE /\ pc'[c] \in {"place", "thumb"}
          /\ OthersKeep(c) /\ UNCHANGED <<disk, lock>>
      BY <2>1 DEF Create, LockInv
    <3>2. ~InCritical(c)'
      BY <3>1 DEF InCritical, Registering
    <3> QED BY <3>1, <3>2, LockedStep
  <2>2. ASSUME NEW u \in Users, NEW r \in rows, DeleteMedia(u, r) PROVE LockInv'
    BY <2>2, FreeStep DEF DeleteMedia, LockInv
  <2>3. ASSUME NEW u \in Users, NEW ch \in Channels, DeleteChannel(u, ch) PROVE LockInv'
    BY <2>3, FreeStep DEF DeleteChannel, LockInv
  <2>4. ASSUME NEW u \in Users, NEW t \in Thumbs, StoreAvatar(u, t) PROVE LockInv'
    BY <2>4, FreeStep DEF StoreAvatar, LockInv
  <2>5. CASE ExcludeCreations
    BY <2>5, FreeStep DEF ExcludeCreations, LockInv
  <2> QED BY <1>1, <2>1, <2>2, <2>3, <2>4, <2>5 DEF Requests
<1>2. ASSUME NEW u \in Users, AvatarStep(u) PROVE LockInv'
  <2>1. ASSUME NEW ch \in Channels, ReplaceAvatar(u, ch) PROVE LockInv'
    BY <2>1, FreeStep DEF ReplaceAvatar, LockInv
  <2>2. ASSUME NEW ch \in Channels, InsertChannel(u, ch) PROVE LockInv'
    BY <2>2, FreeStep DEF InsertChannel, LockInv
  <2>3. CASE RefuseChannel(u)
    BY <2>3, FreeStep DEF RefuseChannel, LockInv
  <2> QED BY <1>2, <2>1, <2>2, <2>3 DEF AvatarStep
<1>3. CASE SweepStep
  BY <1>3, FreeStep DEF SweepStep, ReadMarkers, SpareLive, Settle, SweepDone, LockInv
<1>4. CASE ListOrphans
  BY <1>4, LockedStep DEF ListOrphans, LockInv
<1>5. CASE RefuseOrphans
  BY <1>5, FreeStep DEF RefuseOrphans, LockInv
<1>6. CASE Age
  BY <1>6 DEF Age, LockInv, MutexInv, SeenInv, InCritical, Registering
<1>7. CASE Restart
  <2>1. /\ \A a \in Actors : pc'[a] \in {"idle", "waiting"}
        /\ \A c \in Creators : pc'[c] = "idle"
    BY <1>7 DEF Restart
  <2>2. MutexInv' /\ SeenInv'
    BY <2>1 DEF MutexInv, SeenInv, InCritical, Registering
  <2> QED BY <2>2 DEF LockInv
<1> QED BY <1>1, <1>2, <1>3, <1>4, <1>5, <1>6, <1>7

\* Every step keeps the lock's promise and what was seen under it.
LEMMA NextLock == LockInv /\ [Next]_vars => LockInv'
<1> SUFFICES ASSUME LockInv, [Next]_vars PROVE LockInv'
  OBVIOUS
<1>1. Typed'
  BY NextTyped DEF LockInv
<1>2. CASE UNCHANGED vars
  BY <1>1, <1>2 DEF vars, files, db, LockInv, MutexInv, SeenInv, InCritical, Registering
<1>3. CASE Next
  BY <1>1, <1>2, <1>3, PrepareLock, RegisterLock, RemovalLock, OtherLock
     DEF Next, CreatorStep, Rest
<1> QED BY <1>2, <1>3

\* Two steps give an original up: the rename into the library, which puts the
\* file there, and the removal of a source whose copy was seen.
LEMMA SourceStep ==
  ASSUME LockInv, Next, NEW m \in originals \ originals' PROVE m \in disk'
<1> USE DEF files, db
<1>1. PICK c \in Creators : StageRename(c) \/ RemoveSource(c) \/ PutBack(c)
  BY DEF Next, Requests, Create, DeleteMedia, DeleteChannel, StoreAvatar, ExcludeCreations,
         CreatorStep, Prepare, StoreThumb, StageCopy, StageFails, Place, MarkPlacement,
         CancelPlaced, BeginRegistration, Register, RecordMarker, ClearInterim, CheckFiles,
         Insert, InsertFails, ClearMarkers, Close, AvatarStep, ReplaceAvatar, InsertChannel,
         RefuseChannel, Removal, Count, Acquire, Recount, Remove, SweepStep, ReadMarkers,
         SpareLive, Settle, SweepDone, ListOrphans, RefuseOrphans, Age, Restart, Rest, vars
<1>2. CASE StageRename(c)
  BY <1>2 DEF StageRename, Write
<1>3. CASE RemoveSource(c)
  <2>1. job[c].media \in disk /\ disk' = disk
    BY <1>3 DEF RemoveSource, LockInv, SeenInv, SeenSteps
  <2> QED BY <1>3, <2>1 DEF RemoveSource
<1>4. CASE PutBack(c)
  BY <1>4 DEF PutBack
<1> QED BY <1>1, <1>2, <1>3, <1>4

\* The source of a Move is given up only while the library has its content,
\* whatever is deleted, swept or refused at the same time
\* (remove_move_source_best_effort, under MEDIA_REGISTRATION_LOCK).
THEOREM SourcesOutlived == Spec => SourceGoneOnlyAfterCopy
<1>1. Init => LockInv
  BY InitLock
<1>2. LockInv /\ [Next]_vars => LockInv'
  BY NextLock
<1>3. LockInv /\ [Next]_vars => [\A m \in originals \ originals' : m \in disk']_vars
  BY SourceStep
<1> QED BY <1>1, <1>2, <1>3, PTL DEF Spec, SourceGoneOnlyAfterCopy

(***************************************************************************)
(* The creation gate.  The orphan removal begins only while no creation    *)
(* runs, and a creation begins only while the removal does not.            *)
(***************************************************************************)
GateInv == pc[OrphanRemover] # "idle" => \A c \in Creators : pc[c] = "idle"

\* A creation that is under way, or a command, changes no other place, and a
\* creation that is over does not start again.
LEMMA CreatorMoves ==
  ASSUME Typed, NEW c \in Creators, CreatorStep(c) \/ Removal(c)
  PROVE  /\ pc[c] # "idle"
         /\ \A b \in Actors \ {c} : pc'[b] = pc[b]
<1> USE DEF Typed, TypeOK, Goto
<1>1. CASE Prepare(c)
  BY <1>1 DEF Prepare, StoreThumb, StageCopy, StageRename, StageFails, Place, MarkPlacement,
              CancelPlaced
<1>2. CASE BeginRegistration(c)
  BY <1>2 DEF BeginRegistration
<1>3. CASE Register(c)
  BY <1>3 DEF Register, RecordMarker, ClearInterim, CheckFiles, Insert, InsertFails,
              ClearMarkers, RemoveSource, PutBack
<1>4. CASE Close(c)
  BY <1>4 DEF Close
<1>5. CASE Removal(c)
  BY <1>5 DEF Removal, Count, Acquire, Recount, Remove, EndRemoval
<1> QED BY <1>1, <1>2, <1>3, <1>4, <1>5 DEF CreatorStep

\* A command, the sweep and the orphan removal itself start no creation.
LEMMA OthersMove ==
  ASSUME Typed,
         \/ \E u \in Users : AvatarStep(u)
         \/ \E a \in Actors \ Creators : Removal(a)
         \/ SweepStep \/ ListOrphans \/ RefuseOrphans \/ Age
  PROVE  /\ \A c \in Creators : pc'[c] = pc[c]
         /\ pc'[OrphanRemover] # "idle" => pc[OrphanRemover] # "idle"
<1> USE DEF Typed, TypeOK, Goto, Actors
<1>1. ASSUME NEW u \in Users, AvatarStep(u)
      PROVE  \A b \in Actors \ {u} : pc'[b] = pc[b]
  BY <1>1 DEF AvatarStep, ReplaceAvatar, InsertChannel, RefuseChannel
<1>2. ASSUME NEW a \in Actors \ Creators, Removal(a)
      PROVE  pc[a] # "idle" /\ \A b \in Actors \ {a} : pc'[b] = pc[b]
  BY <1>2 DEF Removal, Count, Acquire, Recount, Remove, EndRemoval
<1>3. CASE SweepStep
  BY <1>3 DEF SweepStep, ReadMarkers, SpareLive, Settle, SweepDone
<1>4. CASE ListOrphans \/ RefuseOrphans \/ Age
  BY <1>4 DEF ListOrphans, RefuseOrphans, Age
<1> QED BY <1>1, <1>2, <1>3, <1>4

\* What is asked for: a creation keeps out the removal, and the removal a
\* creation.
LEMMA RequestsGate ==
  ASSUME Typed, GateInv, Requests PROVE GateInv'
<1> USE DEF Typed, TypeOK, Goto, Actors, GateInv
<1>1. ASSUME NEW c \in Creators, NEW kind \in Kinds, NEW ch \in Channels,
             NEW m \in Media, Create(c, kind, ch, m)
      PROVE  GateInv'
  BY <1>1 DEF Create
<1>2. ASSUME NEW u \in Users,
             \/ \E r \in rows : DeleteMedia(u, r)
             \/ \E ch \in Channels : DeleteChannel(u, ch)
             \/ \E t \in Thumbs : StoreAvatar(u, t)
      PROVE  GateInv'
  BY <1>2, ZenonT(60) DEF DeleteMedia, DeleteChannel, StoreAvatar
<1>3. CASE ExcludeCreations
  BY <1>3 DEF ExcludeCreations
<1> QED BY <1>1, <1>2, <1>3 DEF Requests

\* Every step keeps the gate's promise.
LEMMA NextGate == Typed /\ GateInv /\ [Next]_vars => GateInv'
<1> SUFFICES ASSUME Typed, GateInv, [Next]_vars PROVE GateInv'
  OBVIOUS
<1>1. CASE UNCHANGED vars
  BY <1>1 DEF vars, GateInv
<1>2. CASE Requests
  BY <1>2, RequestsGate
<1>3. ASSUME NEW c \in Creators, CreatorStep(c) \/ Removal(c) PROVE GateInv'
  BY <1>3, CreatorMoves DEF GateInv, Actors
<1>4. ASSUME \/ \E u \in Users : AvatarStep(u)
             \/ \E a \in Actors \ Creators : Removal(a)
             \/ SweepStep \/ ListOrphans \/ RefuseOrphans \/ Age
      PROVE  GateInv'
  BY <1>4, OthersMove DEF GateInv
<1>5. CASE Restart
  BY <1>5 DEF Restart, GateInv, Actors
<1> QED BY <1>1, <1>2, <1>3, <1>4, <1>5 DEF Next, Rest, Actors

\* The orphan removal takes no file of a running creation: none runs from its
\* listing to its last unlink (CREATION_GATE, try_exclude_creations).
THEOREM OrphansWait == Spec => OrphansSpareCreations
<1>1. Init => Typed /\ GateInv
  BY InitTyped DEF Init, GateInv, Actors
<1>2. Typed /\ GateInv /\ [Next]_vars => (Typed /\ GateInv)'
  BY NextTyped, NextGate
<1>3. Typed /\ GateInv /\ [Next]_vars =>
        [pc[OrphanRemover] = "remove" =>
           \A c \in Creators : pc[c] # "idle" => JobFiles(c) \cap (disk \ disk') = {}]_vars
  BY DEF GateInv
<1> QED BY <1>1, <1>2, <1>3, PTL DEF Spec, OrphansSpareCreations

(***************************************************************************)
(* The only copy of a file, where every creation is a Move and the volume  *)
(* has no hard links, so that each Move renames it.  (With copies or       *)
(* downloads beside it the property is false: README, section 6.1.)  A     *)
(* file that lies at its source, or that a Move has renamed and not        *)
(* registered, is named by no row, no removal and no marker.  So nobody    *)
(* but the creation itself takes it away, and nobody else may rename it.   *)
(***************************************************************************)
OnlyRenamingMoves == ~HardLinks /\ Kinds \subseteq {"move"}

Hidden(m) ==
  /\ \A r \in rows : r.media # m
  /\ \A a \in Actors : m \notin task[a].paths
  /\ \A k \in markers \cup todo : m \notin k.paths
  /\ sweeping # NoMarker => m \notin sweeping.paths

\* From the rename to the insert of the row, or to the return to the source.
HeldSteps == {"register", "record", "interim", "check", "insert", "putBack"}
Held(c)   == pc[c] \in HeldSteps
Secret    == originals \cup {job[c].media : c \in {d \in Creators : Held(d)}}

\* What is known of one creation.
RenamedInv(c) ==
  /\ pc[c] \notin {"place", "mark", "sidecar"}
  /\ pc[c] \in {"thumb", "stage"} => ~job[c].onlyCopy
  /\ Held(c) => job[c].onlyCopy /\ job[c].media \in disk
  /\ Held(c) /\ pc[c] # "register" => job[c].registering
  /\ pc[c] # "idle" /\ ~Held(c) /\ job[c].onlyCopy =>
       /\ job[c].registering
       /\ job[c].media \in disk \cup originals
       /\ job[c].media \notin task[c].paths

ApartInv == originals \cap disk = {}
HiddenInv == \A m \in Secret : Hidden(m)
OneHolds  == \A c, d \in Creators : c # d /\ Held(c) /\ Held(d) => job[c].media # job[d].media

CopyInv ==
  ApartInv /\ HiddenInv /\ OneHolds /\ \A c \in Creators : RenamedInv(c)

LEMMA InitCopy == Init => CopyInv
<1> SUFFICES ASSUME Init PROVE CopyInv
  OBVIOUS
<1>1. /\ \A c \in Creators : pc[c] = "idle"
      /\ \A a \in Actors : task[a].paths = {}
      /\ rows = {} /\ markers = {} /\ todo = {} /\ sweeping = NoMarker /\ disk = {}
  BY DEF Init, Actors, NoTask
<1>2. ApartInv /\ HiddenInv /\ OneHolds
  BY <1>1 DEF ApartInv, HiddenInv, OneHolds, Held, HeldSteps, Hidden
<1>3. \A c \in Creators : RenamedInv(c)
  BY <1>1 DEF RenamedInv, Held, HeldSteps
<1> QED BY <1>2, <1>3 DEF CopyInv

\* Secrets are media files.
LEMMA SecretMedia == ASSUME Typed PROVE Secret \subseteq Media
BY JobOfActive DEF Typed, TypeOK, Secret, Held, HeldSteps

\* A step keeps what is known of the others, if it takes no file from them and
\* makes nothing secret that is not hidden.
LEMMA CopyStep ==
  ASSUME Typed, CopyInv, NEW a \in Actors, OthersKeep(a),
         \A m \in Secret' : Hidden(m)',
         originals' \cap disk' = {},
         \A c \in Creators \ {a} : Held(c) => job[c].media \in disk',
         \A c \in Creators \ {a} :
           pc[c] # "idle" /\ ~Held(c) /\ job[c].onlyCopy => job[c].media \in disk' \cup originals',
         a \in Creators => RenamedInv(a)',
         a \in Creators /\ Held(a)' =>
           \A d \in Creators \ {a} : Held(d) => job[d].media # job'[a].media
  PROVE  CopyInv'
<1>1. \A c \in Creators \ {a} : pc'[c] = pc[c] /\ job'[c] = job[c] /\ task'[c] = task[c]
  BY DEF OthersKeep, Actors
<1>2. \A c \in Creators \ {a} : RenamedInv(c)'
  BY <1>1 DEF CopyInv, RenamedInv, Held
<1>3. OneHolds'
  BY <1>1 DEF CopyInv, OneHolds, Held
<1>4. HiddenInv' /\ ApartInv'
  BY DEF HiddenInv, ApartInv
<1> QED BY <1>2, <1>3, <1>4 DEF CopyInv

\* A file stays hidden if the step adds no row of it and plans nothing for it.
LEMMA HiddenStep ==
  ASSUME Typed, NEW m, Hidden(m), NEW a \in Actors,
         \A b \in Actors \ {a} : task'[b] = task[b],
         m \notin task'[a].paths,
         \A r \in rows' : r \in rows \/ r.media # m,
         UNCHANGED <<markers, todo, sweeping>>
  PROVE  Hidden(m)'
BY DEF Hidden

\* The steps of a creation up to its registration: only a file that lies at its
\* source is renamed, so no two creations hold one.
LEMMA PrepareCopy ==
  ASSUME OnlyRenamingMoves, Typed, CopyInv, NEW c \in Creators, Prepare(c)
  PROVE  CopyInv'
<1> USE DEF OthersKeep, Goto, Plan, files, db
<1>0. /\ pc \in [Actors -> Steps] /\ job \in [Creators -> Job \cup {NoJob}]
      /\ task \in [Actors -> Task] /\ Creators \subseteq Actors /\ c \in Actors
      /\ originals \cap disk = {} /\ ~HardLinks
  BY DEF Typed, TypeOK, Actors, CopyInv, ApartInv, OnlyRenamingMoves
<1>1. pc[c] # "idle" => job[c] \in Job /\ job[c].kind = "move" /\ job[c].media \in Media
  BY JobOfActive DEF Typed, Job, OnlyRenamingMoves
<1>2. RenamedInv(c) /\ (\A m \in Secret : m \in Media /\ Hidden(m))
  BY SecretMedia DEF CopyInv, HiddenInv
<1>3. \A d \in Creators : Held(d) => job[d].media \in disk
  BY DEF CopyInv, RenamedInv
<1>4. \A d \in Creators : pc[d] # "idle" /\ ~Held(d) /\ job[d].onlyCopy =>
        job[d].media \in disk \cup originals
  BY DEF CopyInv, RenamedInv
<1>5. CASE StoreThumb(c)
  <2>1. /\ pc[c] = "thumb" /\ pc'[c] = "stage"
        /\ UNCHANGED <<originals, rows, markers, todo, sweeping, task>>
        /\ \A b \in Actors \ {c} : pc'[b] = pc[b]
    BY <1>0, <1>2, <1>5 DEF StoreThumb, RenamedInv, sweep
  <2>2. /\ job'[c].onlyCopy = job[c].onlyCopy
        /\ \A d \in Creators \ {c} : job'[d] = job[d]
    BY <1>0, <1>1, <1>5 DEF StoreThumb, Job
  <2>3. disk \subseteq disk' /\ disk' \subseteq disk \cup Thumbs
    BY <1>5 DEF StoreThumb, Write
  <2>4. originals' \cap disk' = {}
    BY <1>0, <2>1, <2>3 DEF Typed, TypeOK
  <2>5. Secret' \subseteq Secret
    BY <1>0, <2>1, <2>2 DEF Secret, Held, HeldSteps
  <2>6. \A m \in Secret' : Hidden(m)'
    BY <1>2, <2>1, <2>5 DEF Hidden
  <2>7. RenamedInv(c)' /\ ~Held(c)'
    BY <1>2, <2>1, <2>2 DEF RenamedInv, Held, HeldSteps
  <2> QED BY <1>0, <1>3, <1>4, <2>1, <2>2, <2>3, <2>4, <2>6, <2>7, CopyStep
<1>6. CASE StageCopy(c)
  BY <1>0, <1>1, <1>6 DEF StageCopy
<1>7. CASE StageRename(c)
  <2> DEFINE m == job[c].media
  <2>1. /\ pc[c] = "stage" /\ pc'[c] = "register" /\ m \in originals
        /\ originals' = originals \ {m} /\ disk' = disk \cup {m}
        /\ UNCHANGED <<rows, markers, todo, sweeping, task>>
        /\ \A b \in Actors \ {c} : pc'[b] = pc[b]
    BY <1>0, <1>7 DEF StageRename, sweep, Write
  <2>2. /\ job'[c].onlyCopy = TRUE /\ job'[c].media = m
        /\ \A d \in Creators \ {c} : job'[d] = job[d]
    BY <1>0, <1>1, <1>7 DEF StageRename, Job
  <2>3. Secret' \subseteq Secret
    BY <1>0, <2>1, <2>2 DEF Secret, Held, HeldSteps
  <2>4. \A n \in Secret' : Hidden(n)'
    BY <1>2, <2>1, <2>3 DEF Hidden
  <2>5. RenamedInv(c)'
    BY <1>2, <2>1, <2>2 DEF RenamedInv, Held, HeldSteps
  <2>6. \A d \in Creators \ {c} : Held(d) => job[d].media # job'[c].media
    BY <1>0, <1>3, <2>1, <2>2
  <2>7. originals' \cap disk' = {}
    BY <1>0, <2>1
  <2>8. \A d \in Creators \ {c} : job[d].media \in disk \cup originals =>
          job[d].media \in disk' \cup originals'
    BY <2>1
  <2> QED BY <1>0, <1>3, <1>4, <2>1, <2>2, <2>4, <2>5, <2>6, <2>7, <2>8, CopyStep
<1>8. CASE StageFails(c)
  <2>1. /\ pc[c] = "stage" /\ pc'[c] \in {"close", "count"} /\ task'[c].paths \subseteq task[c].paths \cup {job[c].thumb}
        /\ UNCHANGED <<disk, originals, rows, markers, todo, sweeping, job>>
        /\ \A b \in Actors \ {c} : pc'[b] = pc[b] /\ task'[b] = task[b]
        /\ job[c].thumb = NoThumb => task' = task
    BY <1>0, <1>8 DEF StageFails, sweep
  <2>2. job[c].thumb \notin Media \/ task' = task
    BY <1>1, <2>1, JobOfActive DEF Typed
  <2>3. Secret' \subseteq Secret
    BY <1>0, <2>1 DEF Secret, Held, HeldSteps
  <2>4. ASSUME NEW n \in Secret' PROVE Hidden(n)'
    BY <1>0, <1>2, <2>1, <2>2, <2>3, HiddenStep DEF Hidden
  <2>5. RenamedInv(c)' /\ ~Held(c)'
    BY <1>2, <2>1 DEF RenamedInv, Held, HeldSteps
  <2> QED BY <1>0, <1>3, <1>4, <2>1, <2>4, <2>5, CopyStep
<1>9. CASE Place(c) \/ MarkPlacement(c) \/ CancelPlaced(c)
  BY <1>1, <1>2, <1>9 DEF Place, MarkPlacement, CancelPlaced, RenamedInv
<1> QED BY <1>5, <1>6, <1>7, <1>8, <1>9 DEF Prepare

\* Giving a marker up, or leaving it to the next launch, names no other file.
LEMMA Cleared ==
  ASSUME Typed, NEW gone \in SUBSET markers,
         \/ Clear(gone)
         \/ markers' = {IF m \in gone THEN Disowned(m) ELSE m : m \in markers}
  PROVE  \A k \in markers' : \E j \in markers : k.paths = j.paths
<1>1. \A m \in gone : m \in Marker
  BY DEF Typed, TypeOK
<1>2. \A m \in Marker : Disowned(m).paths = m.paths
  BY DEF Disowned, Marker
<1>3. \A m \in gone : Disowned(m).paths = m.paths
  BY <1>1, <1>2
<1> QED BY <1>3 DEF Clear

\* The steps of a registration.  Its own file is the one it may put back, or
\* name in a row.
LEMMA RegisterCopy ==
  ASSUME OnlyRenamingMoves, LockInv, CopyInv, NEW c \in Creators,
         BeginRegistration(c) \/ Register(c) \/ Close(c)
  PROVE  CopyInv'
<1> USE DEF OthersKeep, Goto, Plan, files, db
<1> DEFINE m == job[c].media
<1>0. /\ pc \in [Actors -> Steps] /\ job \in [Creators -> Job \cup {NoJob}]
      /\ task \in [Actors -> Task] /\ Creators \subseteq Actors /\ c \in Actors
      /\ originals \cap disk = {} /\ Typed
  BY DEF LockInv, Typed, TypeOK, Actors, CopyInv, ApartInv
<1>1. /\ pc[c] # "idle"
      /\ job[c] \in Job /\ m \in Media /\ job[c].thumb \notin Media
  <2>1. pc[c] # "idle"
    BY DEF BeginRegistration, Register, RecordMarker, ClearInterim, CheckFiles, Insert,
       InsertFails, ClearMarkers, RemoveSource, PutBack, Close
  <2> QED BY <1>0, <2>1, JobOfActive DEF Typed, Paths
<1>2. RenamedInv(c) /\ OneHolds /\ \A n \in Secret : n \in Media /\ Hidden(n)
  BY <1>0, SecretMedia DEF CopyInv, HiddenInv
<1>3. \A d \in Creators : Held(d) => job[d].media \in disk
  BY DEF CopyInv, RenamedInv
<1>4. \A d \in Creators : pc[d] # "idle" /\ ~Held(d) /\ job[d].onlyCopy =>
        job[d].media \in disk \cup originals /\ lock = d
  BY <1>0 DEF CopyInv, RenamedInv, LockInv, MutexInv, InCritical, Registering
<1>5. pc[c] \in LockedSteps => lock = c
  BY <1>0 DEF LockInv, MutexInv, InCritical
<1>6. Held(c) => Deletable(c) \subseteq {job[c].thumb} /\ m \in disk /\ m \in Secret
  BY <1>1, <1>2 DEF RenamedInv, Deletable, JobFiles, Secret
<1>7. CASE BeginRegistration(c)
  <2>1. /\ pc[c] = "register" /\ pc'[c] = "record"
        /\ UNCHANGED <<disk, originals, rows, markers, todo, sweeping, task>>
        /\ \A b \in Actors \ {c} : pc'[b] = pc[b]
    BY <1>0, <1>7 DEF BeginRegistration, sweep
  <2>2. /\ job'[c].onlyCopy = job[c].onlyCopy /\ job'[c].media = m /\ job'[c].registering
        /\ \A d \in Creators \ {c} : job'[d] = job[d]
    BY <1>0, <1>1, <1>7 DEF BeginRegistration, Job
  <2>3. Secret' \subseteq Secret
    BY <1>0, <2>1, <2>2 DEF Secret, Held, HeldSteps
  <2>4. \A n \in Secret' : Hidden(n)'
    BY <1>2, <2>1, <2>3 DEF Hidden
  <2>5. RenamedInv(c)' /\ Held(c)
    BY <1>2, <2>1, <2>2 DEF RenamedInv, Held, HeldSteps
  <2> QED BY <1>0, <1>2, <1>3, <1>4, <2>1, <2>2, <2>4, <2>5, CopyStep DEF OneHolds
<1>8. CASE RecordMarker(c) \/ ClearInterim(c) \/ InsertFails(c)
  <2>1. /\ Held(c) /\ Held(c)' /\ pc[c] # "register" /\ pc'[c] # "register"
        /\ UNCHANGED <<disk, originals, rows, todo, sweeping, task, job>>
        /\ \A b \in Actors \ {c} : pc'[b] = pc[b]
    BY <1>0, <1>8 DEF RecordMarker, ClearInterim, InsertFails, sweep, Held, HeldSteps
  <2>2. \A k \in markers' : k.paths = Deletable(c) \/ \E j \in markers : k.paths = j.paths
    <3>1. CASE RecordMarker(c)
      BY <3>1 DEF RecordMarker, MarkerOf
    <3>2. CASE ClearInterim(c)
      BY <1>0, <3>2, Cleared DEF ClearInterim, Owned
    <3>3. CASE InsertFails(c)
      BY <3>3 DEF InsertFails
    <3> QED BY <1>8, <3>1, <3>2, <3>3
  <2>3. Secret' \subseteq Secret
    BY <1>0, <2>1 DEF Secret, Held
  <2>4. \A n \in Secret' : Hidden(n)'
    BY <1>1, <1>2, <1>6, <2>1, <2>2, <2>3 DEF Hidden
  <2>5. RenamedInv(c)'
    BY <1>2, <2>1 DEF RenamedInv, Held, HeldSteps
  <2> QED BY <1>0, <1>2, <1>3, <1>4, <2>1, <2>4, <2>5, CopyStep DEF OneHolds
<1>9. CASE CheckFiles(c)
  <2>1. /\ pc[c] = "check" /\ pc'[c] = "insert" /\ Held(c)
        /\ UNCHANGED <<disk, originals, rows, markers, todo, sweeping, task>>
        /\ \A b \in Actors \ {c} : pc'[b] = pc[b]
    BY <1>0, <1>6, <1>9 DEF CheckFiles, sweep, Held, HeldSteps
  <2>2. /\ job'[c].onlyCopy = job[c].onlyCopy /\ job'[c].media = m
        /\ job'[c].registering = job[c].registering
        /\ \A d \in Creators \ {c} : job'[d] = job[d]
    BY <1>0, <1>1, <1>9 DEF CheckFiles, Job
  <2>3. Secret' \subseteq Secret
    BY <1>0, <2>1, <2>2 DEF Secret, Held, HeldSteps
  <2>4. \A n \in Secret' : Hidden(n)'
    BY <1>2, <2>1, <2>3 DEF Hidden
  <2>5. RenamedInv(c)'
    BY <1>2, <2>1, <2>2 DEF RenamedInv, Held, HeldSteps
  <2> QED BY <1>0, <1>2, <1>3, <1>4, <2>1, <2>2, <2>4, <2>5, CopyStep DEF OneHolds
<1>10. CASE Insert(c)
  <2>1. /\ pc[c] = "insert" /\ pc'[c] = "clear" /\ Held(c) /\ ~Held(c)'
        /\ UNCHANGED <<disk, originals, markers, todo, sweeping, task, job>>
        /\ \A b \in Actors \ {c} : pc'[b] = pc[b]
        /\ \A r \in rows' : r \in rows \/ r.media = m
    BY <1>0, <1>10 DEF Insert, sweep, Held, HeldSteps
  <2>2. Secret' \subseteq Secret /\ m \notin Secret'
    BY <1>0, <1>2, <1>6, <2>1 DEF Secret, Held, OneHolds
  <2>3. \A n \in Secret' : Hidden(n)'
    BY <1>2, <2>1, <2>2 DEF Hidden
  <2>4. RenamedInv(c)'
    BY <1>0, <1>2, <1>6, <2>1 DEF RenamedInv, Held, HeldSteps, Hidden
  <2> QED BY <1>0, <1>3, <1>4, <2>1, <2>3, <2>4, CopyStep
<1>11. CASE ClearMarkers(c) \/ RemoveSource(c)
  <2>1. /\ pc[c] \in {"clear", "source"} /\ pc'[c] \in {"source", "close"} /\ ~Held(c) /\ ~Held(c)'
        /\ UNCHANGED <<disk, rows, todo, sweeping, task, job>>
        /\ \A b \in Actors \ {c} : pc'[b] = pc[b]
        /\ originals' = originals \/ (~job[c].onlyCopy /\ originals' \subseteq originals)
    BY <1>0, <1>11 DEF ClearMarkers, RemoveSource, sweep, Held, HeldSteps
  <2>2. lock = c
    BY <1>5, <2>1 DEF LockedSteps
  <2>3. \A k \in markers' : \E j \in markers : k.paths = j.paths
    <3>1. CASE ClearMarkers(c)
      <4>1. {k \in markers : k.owner = c} \in SUBSET markers
        OBVIOUS
      <4> QED BY <1>0, <3>1, <4>1, Cleared DEF ClearMarkers
    <3>2. CASE RemoveSource(c)
      BY <3>2 DEF RemoveSource
    <3> QED BY <1>11, <3>1, <3>2
  <2>4. Secret' \subseteq Secret
    BY <1>0, <2>1 DEF Secret, Held
  <2>5. \A n \in Secret' : Hidden(n)'
    BY <1>2, <2>1, <2>3, <2>4 DEF Hidden
  <2>6. RenamedInv(c)'
    BY <1>2, <2>1 DEF RenamedInv, Held
  <2> QED BY <1>0, <1>3, <1>4, <2>1, <2>2, <2>5, <2>6, CopyStep
<1>12. CASE PutBack(c)
  <2>1. /\ pc[c] = "putBack" /\ pc'[c] \in {"count", "close"} /\ Held(c) /\ ~Held(c)' /\ lock = c
        /\ UNCHANGED <<rows, markers, todo, sweeping, job>>
        /\ \A b \in Actors \ {c} : pc'[b] = pc[b] /\ task'[b] = task[b]
    BY <1>0, <1>5, <1>12 DEF PutBack, sweep, Held, HeldSteps, LockedSteps
  <2>2. \/ UNCHANGED <<disk, originals>>
        \/ disk' = disk \ {m} /\ originals' = originals \cup {m}
    BY <1>12 DEF PutBack
  <2>3. m \notin task'[c].paths /\ (\A n \in task'[c].paths : n \in task[c].paths \/ n \notin Media)
    <3>1. m \notin task[c].paths
      BY <1>0, <1>2, <1>6, <2>1 DEF Hidden
    <3>2. task' = task \/ task'[c].paths = Deletable(c)
      BY <1>0, <1>12 DEF PutBack
    <3> QED BY <1>1, <1>6, <2>1, <3>1, <3>2
  <2>4. Secret' \subseteq Secret
    BY <1>0, <1>6, <2>1, <2>2 DEF Secret, Held
  <2>5. ASSUME NEW n \in Secret' PROVE Hidden(n)'
    <3>1. n \notin task'[c].paths
      BY <1>0, <1>2, <2>3, <2>4 DEF Hidden
    <3> QED BY <1>0, <1>2, <2>1, <2>4, <3>1, HiddenStep
  <2>6. RenamedInv(c)'
    BY <1>2, <1>6, <2>1, <2>2, <2>3 DEF RenamedInv, Held
  <2>7. originals' \cap disk' = {}
    BY <1>0, <2>2
  <2>8. \A d \in Creators \ {c} : Held(d) => job[d].media \in disk'
    BY <1>2, <1>3, <2>1, <2>2 DEF OneHolds
  <2>9. \A d \in Creators \ {c} : ~(pc[d] # "idle" /\ ~Held(d) /\ job[d].onlyCopy)
    BY <1>4, <2>1
  <2> QED BY <1>0, <2>1, <2>5, <2>6, <2>7, <2>8, <2>9, CopyStep
<1>13. CASE Close(c)
  <2>1. /\ pc[c] = "close" /\ pc'[c] = "idle" /\ ~Held(c) /\ ~Held(c)'
        /\ UNCHANGED <<disk, originals, rows, todo, sweeping>> /\ task'[c].paths = {}
        /\ \A b \in Actors \ {c} : pc'[b] = pc[b] /\ task'[b] = task[b]
        /\ \A d \in Creators \ {c} : job'[d] = job[d]
    BY <1>0, <1>13 DEF Close, sweep, Held, HeldSteps, NoTask
  <2>2. \A k \in markers' : \E j \in markers : k.paths = j.paths
    <3> DEFINE gone == {k \in markers : k.owner = c}
    <3>1. \/ Clear(gone)
          \/ markers' = {IF k \in gone THEN Disowned(k) ELSE k : k \in markers}
      BY <1>13 DEF Close
    <3> HIDE DEF gone
    <3>2. gone \in SUBSET markers
      BY DEF gone
    <3> QED BY <1>0, <3>1, <3>2, Cleared
  <2>3. Secret' \subseteq Secret
    BY <1>0, <2>1 DEF Secret, Held
  <2>4. \A n \in Secret' : Hidden(n)'
    BY <1>2, <2>1, <2>2, <2>3 DEF Hidden
  <2>5. RenamedInv(c)'
    BY <2>1 DEF RenamedInv, Held
  <2> QED BY <1>0, <1>3, <1>4, <2>1, <2>4, <2>5, CopyStep
<1> QED BY <1>7, <1>8, <1>9, <1>10, <1>11, <1>12, <1>13 DEF Register

\* A removal takes no hidden file; and where a registration cleans up after the
\* return of its file, it holds the lock that every removal needs.
LEMMA RemovalCopy ==
  ASSUME OnlyRenamingMoves, LockInv, CopyInv, NEW a \in Actors, Removal(a)
  PROVE  CopyInv'
<1> USE DEF OthersKeep, Goto, Plan, files, db
<1>0. /\ pc \in [Actors -> Steps] /\ task \in [Actors -> Task]
      /\ Creators \subseteq Actors /\ originals \cap disk = {} /\ Typed
  BY DEF LockInv, Typed, TypeOK, Actors, CopyInv, ApartInv
<1>1. \A n \in Secret : n \in Media /\ Hidden(n)
  BY <1>0, SecretMedia DEF CopyInv, HiddenInv
<1>2. /\ pc[a] \in {"count", "acquire", "recount", "remove"}
      /\ UNCHANGED <<originals, rows, markers, todo, sweeping, job>>
  BY DEF Removal, Count, Acquire, Recount, Remove, sweep
<1>3. /\ \A b \in Actors \ {a} : pc'[b] = pc[b] /\ task'[b] = task[b]
      /\ pc'[a] \in {"recount", "remove", "close", "settle", "idle"}
      /\ a \in Creators => pc'[a] \in {"recount", "remove", "close"}
      /\ task'[a].paths \subseteq task[a].paths
  <2>1. ASSUME NEW ok \in BOOLEAN, EndRemoval(a, ok)
        PROVE  /\ \A b \in Actors \ {a} : pc'[b] = pc[b] /\ task'[b] = task[b]
               /\ pc'[a] \in {"close", "settle", "idle"}
               /\ a \in Creators => pc'[a] = "close"
               /\ task'[a].paths = {}
    BY <1>0, <2>1 DEF EndRemoval, NoTask
  <2>2. CASE Count(a)
    <3>1. CASE EndRemoval(a, FALSE)
      BY <2>1, <3>1
    <3>2. CASE Plan(a, task[a].paths \ Referenced, task[a].how) /\ Goto(a, "recount")
      BY <1>0, <3>2
    <3> QED BY <2>2, <3>1, <3>2 DEF Count
  <2>3. CASE Acquire(a)
    BY <1>0, <2>3 DEF Acquire
  <2>4. CASE Recount(a)
    BY <1>0, <2>4 DEF Recount, Unanswered
  <2>5. CASE Remove(a)
    <3>1. PICK gone \in Removable(a) : EndRemoval(a, gone = task[a].paths)
      BY <2>5 DEF Remove
    <3> QED BY <2>1, <3>1
  <2> QED BY <2>2, <2>3, <2>4, <2>5 DEF Removal
<1>4. \/ disk' = disk
      \/ disk \ task[a].paths \subseteq disk' /\ disk' \subseteq disk /\ lock = a
  <2>1. CASE Remove(a)
    <3>1. PICK gone \in Removable(a) : disk' = disk \ gone
      BY <2>1 DEF Remove
    <3>2. lock = a
      BY <2>1 DEF Remove, LockInv, MutexInv, InCritical, LockedSteps
    <3> QED BY <3>1, <3>2 DEF Removable
  <2>2. CASE ~Remove(a)
    BY <2>2 DEF Removal, Count, Acquire, Recount
  <2> QED BY <2>1, <2>2
<1>5. a \in Creators => ~Held(a) /\ ~Held(a)'
  BY <1>2, <1>3 DEF Held, HeldSteps
<1>6. Secret' \subseteq Secret
  BY <1>2, <1>3, <1>5 DEF Secret, Held, Actors
<1>7. ASSUME NEW n \in Secret' PROVE Hidden(n)'
  <2>1. n \notin task'[a].paths
    BY <1>1, <1>3, <1>6 DEF Hidden
  <2> QED BY <1>0, <1>1, <1>2, <1>3, <1>6, <2>1, HiddenStep
<1>8. \A c \in Creators \ {a} : Held(c) => job[c].media \in disk'
  <2>1. \A c \in Creators \ {a} : Held(c) => job[c].media \in disk \ task[a].paths
    BY <1>1 DEF CopyInv, RenamedInv, Secret, Hidden
  <2> QED BY <1>4, <2>1
<1>9. ASSUME NEW c \in Creators \ {a}, pc[c] # "idle", ~Held(c), job[c].onlyCopy
      PROVE  job[c].media \in disk' \cup originals'
  <2>1. job[c].registering /\ job[c].media \in disk \cup originals
    BY <1>9 DEF CopyInv, RenamedInv
  <2>2. lock = c
    BY <1>0, <1>9, <2>1 DEF LockInv, MutexInv, InCritical, Registering
  <2> QED BY <1>2, <1>4, <2>1, <2>2
<1>10. ASSUME a \in Creators PROVE RenamedInv(a)'
  <2>1. job'[a].onlyCopy => /\ job'[a].registering /\ job'[a].media \in disk' \cup originals'
                            /\ job'[a].media \notin task'[a].paths
    BY <1>2, <1>3, <1>4, <1>5, <1>10 DEF CopyInv, RenamedInv
  <2> QED BY <1>3, <1>5, <1>10, <2>1 DEF RenamedInv
<1>11. OthersKeep(a) /\ originals' \cap disk' = {}
  BY <1>0, <1>2, <1>3, <1>4
<1> QED BY <1>0, <1>5, <1>7, <1>8, <1>9, <1>10, <1>11, CopyStep

\* Who is no creation keeps what is known of the creations, if it takes no file
\* and names no hidden one.
LEMMA OutsideCopy ==
  ASSUME Typed, CopyInv, NEW a \in Actors \ Creators, OthersKeep(a),
         originals' = originals, disk \subseteq disk', disk' \subseteq disk \cup Thumbs,
         \A n \in Secret : Hidden(n)'
  PROVE  CopyInv'
<1>1. \A c \in Creators : pc'[c] = pc[c] /\ job'[c] = job[c]
  BY DEF OthersKeep, Actors
<1>2. Secret' = Secret
  BY <1>1 DEF Secret, Held
<1>3. originals' \cap disk' = {}
  BY DEF CopyInv, ApartInv, Typed, TypeOK
<1>4. \A c \in Creators : Held(c) => job[c].media \in disk'
  BY DEF CopyInv, RenamedInv
<1>5. \A c \in Creators : pc[c] # "idle" /\ ~Held(c) /\ job[c].onlyCopy =>
        job[c].media \in disk' \cup originals'
  BY DEF CopyInv, RenamedInv
<1> QED BY <1>2, <1>3, <1>4, <1>5, CopyStep

\* ... in particular a command whose plan names no hidden file.
LEMMA CommandCopy ==
  ASSUME Typed, CopyInv, NEW a \in Actors \ Creators, OthersKeep(a),
         UNCHANGED <<originals, markers, todo, sweeping>>, rows' \subseteq rows,
         disk \subseteq disk', disk' \subseteq disk \cup Thumbs,
         task'[a].paths \cap Secret = {}
  PROVE  CopyInv'
<1>1. ASSUME NEW n \in Secret PROVE Hidden(n)'
  <2>1. Hidden(n) /\ n \notin task'[a].paths
    BY DEF CopyInv, HiddenInv
  <2>2. \A b \in Actors \ {a} : task'[b] = task[b]
    BY DEF OthersKeep
  <2> QED BY <2>1, <2>2, HiddenStep
<1> QED BY <1>1, OutsideCopy

\* What is asked for: a deletion plans what rows and avatars named, and no row
\* names a hidden file.
LEMMA RequestsCopy ==
  ASSUME OnlyRenamingMoves, Typed, CopyInv, Requests PROVE CopyInv'
<1> USE DEF OthersKeep, Goto, Plan, files, db, sweep
<1>0. /\ pc \in [Actors -> Steps] /\ task \in [Actors -> Task]
      /\ job \in [Creators -> Job \cup {NoJob}]
      /\ Creators \subseteq Actors /\ Users \subseteq Actors \ Creators
      /\ OrphanRemover \in Actors \ Creators
      /\ Media \cap (Thumbs \cup {NoThumb}) = {}
  BY DEF Typed, TypeOK, Actors, Paths
<1>1. \A n \in Secret : n \in Media /\ Hidden(n)
  BY SecretMedia DEF CopyInv, HiddenInv
<1>2. ASSUME NEW c \in Creators, NEW kind \in Kinds, NEW ch \in Channels,
             NEW m \in Media, Create(c, kind, ch, m)
      PROVE  CopyInv'
  <2>1. /\ pc'[c] = "thumb" /\ ~job'[c].onlyCopy /\ kind = "move"
        /\ UNCHANGED <<disk, originals, rows, markers, todo, sweeping, task>>
        /\ OthersKeep(c)
    BY <1>0, <1>2 DEF Create, OnlyRenamingMoves
  <2>2. ~Held(c)' /\ RenamedInv(c)'
    BY <2>1 DEF Held, HeldSteps, RenamedInv
  <2>3. Secret' \subseteq Secret
    BY <1>0, <2>1, <2>2 DEF Secret, Held
  <2>4. \A n \in Secret' : Hidden(n)'
    BY <1>1, <2>1, <2>3 DEF Hidden
  <2>5. originals' \cap disk' = {}
    BY <2>1 DEF CopyInv, ApartInv
  <2>6. \A d \in Creators : Held(d) => job[d].media \in disk'
    BY <2>1 DEF CopyInv, RenamedInv
  <2>7. \A d \in Creators : pc[d] # "idle" /\ ~Held(d) /\ job[d].onlyCopy =>
          job[d].media \in disk' \cup originals'
    BY <2>1 DEF CopyInv, RenamedInv
  <2> QED BY <1>0, <2>1, <2>2, <2>4, <2>5, <2>6, <2>7, CopyStep
<1>3. ASSUME NEW u \in Users, NEW r \in rows, DeleteMedia(u, r) PROVE CopyInv'
  <2>1. RowFiles(r) \cap Secret = {}
    BY <1>0, <1>1 DEF Typed, TypeOK, Row, RowFiles, Hidden
  <2>2. task'[u].paths \cap Secret = {} /\ OthersKeep(u) /\ rows' \subseteq rows
    BY <1>0, <1>3, <2>1 DEF DeleteMedia
  <2> QED BY <1>0, <1>3, <2>2, CommandCopy DEF DeleteMedia
<1>4. ASSUME NEW u \in Users, NEW ch \in Channels, DeleteChannel(u, ch) PROVE CopyInv'
  <2>1. FilesOfRows \cap Secret = {}
    <3>1. \A r \in rows : RowFiles(r) \cap Secret = {}
      BY <1>0, <1>1 DEF Typed, TypeOK, Row, RowFiles, Hidden
    <3> QED BY <3>1 DEF FilesOfRows
  <2>2. AvatarFiles \cap Secret = {}
    BY <1>0, <1>1 DEF Typed, TypeOK, AvatarFiles
  <2>3. task'[u].paths \cap Secret = {} /\ OthersKeep(u) /\ rows' \subseteq rows
    BY <1>0, <1>4, <2>1, <2>2 DEF DeleteChannel, Referenced
  <2> QED BY <1>0, <1>4, <2>3, CommandCopy DEF DeleteChannel
<1>5. ASSUME NEW u \in Users, NEW t \in Thumbs, StoreAvatar(u, t) PROVE CopyInv'
  <2>1. task'[u].paths \cap Secret = {} /\ OthersKeep(u) /\ disk' = disk \cup {t}
    BY <1>0, <1>1, <1>5 DEF StoreAvatar, Write
  <2> QED BY <1>0, <1>5, <2>1, CommandCopy DEF StoreAvatar
<1>6. CASE ExcludeCreations
  <2>1. task'[OrphanRemover].paths \cap Secret = {} /\ OthersKeep(OrphanRemover)
    BY <1>0, <1>1, <1>6 DEF ExcludeCreations, Hidden
  <2> QED BY <1>0, <1>6, <2>1, CommandCopy DEF ExcludeCreations
<1> QED BY <1>2, <1>3, <1>4, <1>5, <1>6 DEF Requests

\* Avatars are images, before their row and after.
LEMMA AvatarCopy ==
  ASSUME Typed, CopyInv, NEW u \in Users, AvatarStep(u) PROVE CopyInv'
<1> USE DEF OthersKeep, Goto, Plan, files, db, sweep
<1>0. /\ pc \in [Actors -> Steps] /\ task \in [Actors -> Task]
      /\ u \in Actors \ Creators
      /\ Media \cap (Thumbs \cup {NoThumb}) = {} /\ Secret \subseteq Media
  BY SecretMedia DEF Typed, TypeOK, Actors, Paths
<1>1. ASSUME NEW ch \in Channels, ReplaceAvatar(u, ch) PROVE CopyInv'
  <2>1. task'[u].paths \cap Secret = {} /\ OthersKeep(u)
    BY <1>0, <1>1 DEF ReplaceAvatar, Typed, TypeOK
  <2> QED BY <1>0, <1>1, <2>1, CommandCopy DEF ReplaceAvatar
<1>2. ASSUME NEW ch \in Channels, InsertChannel(u, ch) PROVE CopyInv'
  <2>1. task'[u].paths \cap Secret = {} /\ OthersKeep(u)
    BY <1>0, <1>2 DEF InsertChannel, NoTask
  <2> QED BY <1>0, <1>2, <2>1, CommandCopy DEF InsertChannel
<1>3. CASE RefuseChannel(u)
  <2>1. task'[u].paths \cap Secret = {} /\ OthersKeep(u)
    BY <1>0, <1>3 DEF RefuseChannel, Typed, InHandTyped, AvatarTyped
  <2> QED BY <1>0, <1>3, <2>1, CommandCopy DEF RefuseChannel
<1> QED BY <1>1, <1>2, <1>3 DEF AvatarStep

\* The sweep takes its plan from a marker, and a marker names no hidden file.
LEMMA SweepCopy ==
  ASSUME Typed, CopyInv, SweepStep PROVE CopyInv'
<1> USE DEF OthersKeep, Goto, Plan, files, db, sweep
<1>0. /\ pc \in [Actors -> Steps] /\ task \in [Actors -> Task]
      /\ Sweeper \in Actors \ Creators
  BY DEF Typed, TypeOK, Actors
<1>1. UNCHANGED <<originals, disk, rows>> /\ OthersKeep(Sweeper)
  BY <1>0 DEF SweepStep, ReadMarkers, SpareLive, Settle, SweepDone
<1>2. ASSUME NEW n, Hidden(n) PROVE Hidden(n)'
  <2>1. CASE ReadMarkers
    BY <1>2, <2>1 DEF ReadMarkers, Hidden
  <2>2. CASE SpareLive
    <3>1. PICK k \in todo : /\ sweeping' = k /\ todo' = todo \ {k}
                            /\ task'[Sweeper].paths \subseteq k.paths
      BY <1>0, <2>2 DEF SpareLive
    <3>2. n \notin k.paths
      BY <1>2, <3>1 DEF Hidden
    <3>3. \A a \in Actors : n \notin task'[a].paths
      BY <1>1, <1>2, <3>1, <3>2 DEF Hidden
    <3> QED BY <1>1, <1>2, <2>2, <3>1, <3>2, <3>3 DEF SpareLive, Hidden
  <2>3. CASE Settle
    <3>1. sweeping \in Marker
      BY <2>3 DEF Settle, Typed, InHandTyped, SweepTyped
    <3>2. [sweeping EXCEPT !.attempts = @ + 1, !.old = FALSE].paths = sweeping.paths
      BY <3>1 DEF Marker
    <3>3. sweeping # NoMarker
      BY <3>1 DEF Marker, NoMarker
    <3>4. \A k \in markers' : k \in markers \/ k.paths = sweeping.paths
      BY <2>3, <3>2 DEF Settle
    <3>5. \A a \in Actors : n \notin task'[a].paths
      BY <1>0, <1>1, <1>2, <2>3 DEF Settle, Hidden, NoTask
    <3> QED BY <1>1, <1>2, <2>3, <3>3, <3>4, <3>5 DEF Settle, Hidden
  <2>4. CASE SweepDone
    BY <1>2, <2>4 DEF SweepDone, Hidden
  <2> QED BY <2>1, <2>2, <2>3, <2>4 DEF SweepStep
<1>3. \A n \in Secret : Hidden(n)'
  BY <1>2 DEF CopyInv, HiddenInv
<1> QED BY <1>0, <1>1, <1>3, OutsideCopy

\* The orphan removal lists files while no creation runs, so none of them is a
\* secret of one.
LEMMA OrphanCopy ==
  ASSUME Typed, GateInv, CopyInv, ListOrphans \/ RefuseOrphans PROVE CopyInv'
<1> USE DEF OthersKeep, Goto, Plan, files, db, sweep
<1>0. /\ pc \in [Actors -> Steps] /\ task \in [Actors -> Task]
      /\ OrphanRemover \in Actors \ Creators
  BY DEF Typed, TypeOK, Actors
<1>1. Secret = originals
  BY DEF ListOrphans, RefuseOrphans, GateInv, Secret, Held, HeldSteps
<1>2. UNCHANGED <<originals, markers, todo, sweeping, rows, disk>> /\ OthersKeep(OrphanRemover)
  BY <1>0 DEF ListOrphans, RefuseOrphans
<1>3. task'[OrphanRemover].paths \cap Secret = {}
  <2>1. CASE ListOrphans
    BY <1>0, <1>1, <2>1 DEF ListOrphans, CopyInv, ApartInv
  <2>2. CASE RefuseOrphans
    BY <1>0, <2>2 DEF RefuseOrphans, CopyInv, HiddenInv, Hidden
  <2> QED BY <2>1, <2>2
<1> QED BY <1>0, <1>2, <1>3, CommandCopy

\* The clock names no file, and a new launch plans for none.
LEMMA RestartCopy ==
  ASSUME Typed, CopyInv, Restart PROVE CopyInv'
<1> USE DEF files, db
<1>1. /\ \A c \in Creators : pc'[c] = "idle"
      /\ \A a \in Actors : task'[a].paths = {}
      /\ todo' = {} /\ sweeping' = NoMarker
      /\ UNCHANGED <<disk, originals, rows>>
  BY DEF Restart, Actors, NoTask
<1>2. \A k \in markers' : \E j \in markers : k.paths = j.paths
  <2>1. \A m \in Marker : [m EXCEPT !.owner = Nobody, !.step = "left", !.old = TRUE].paths = m.paths
    BY DEF Marker
  <2>2. markers' = {[m EXCEPT !.owner = Nobody, !.step = "left", !.old = TRUE] : m \in markers}
    BY DEF Restart
  <2>3. markers \subseteq Marker
    BY DEF Typed, TypeOK
  <2> QED BY <2>1, <2>2, <2>3
<1>3. Secret' = originals
  BY <1>1 DEF Secret, Held, HeldSteps
<1>4. HiddenInv'
  BY <1>1, <1>2, <1>3 DEF CopyInv, HiddenInv, Secret, Hidden
<1>5. \A c \in Creators : RenamedInv(c)'
  BY <1>1 DEF RenamedInv, Held, HeldSteps
<1>6. ApartInv' /\ OneHolds'
  BY <1>1 DEF CopyInv, ApartInv, OneHolds, Held, HeldSteps
<1> QED BY <1>4, <1>5, <1>6 DEF CopyInv

\* Every step keeps the hidden files hidden.
LEMMA NextCopy ==
  OnlyRenamingMoves /\ LockInv /\ GateInv /\ CopyInv /\ [Next]_vars => CopyInv'
<1> SUFFICES ASSUME OnlyRenamingMoves, LockInv, GateInv, CopyInv, [Next]_vars
             PROVE  CopyInv'
  OBVIOUS
<1>0. Typed
  BY DEF LockInv
<1>1. CASE UNCHANGED <<disk, originals, rows, markers, pc, job, task, todo, sweeping>>
  BY <1>1 DEF CopyInv, ApartInv, HiddenInv, OneHolds, RenamedInv, Held, Hidden, Secret
<1>2. CASE Next
  <2>1. CASE Requests
    BY <1>0, <2>1, RequestsCopy
  <2>2. ASSUME NEW c \in Creators, CreatorStep(c) PROVE CopyInv'
    BY <1>0, <2>2, PrepareCopy, RegisterCopy DEF CreatorStep
  <2>3. ASSUME NEW u \in Users, AvatarStep(u) PROVE CopyInv'
    BY <1>0, <2>3, AvatarCopy
  <2>4. ASSUME NEW a \in Actors, Removal(a) PROVE CopyInv'
    BY <2>4, RemovalCopy
  <2>5. CASE SweepStep
    BY <1>0, <2>5, SweepCopy
  <2>6. CASE ListOrphans \/ RefuseOrphans
    BY <1>0, <2>6, OrphanCopy
  <2>7. CASE Restart
    BY <1>0, <2>7, RestartCopy
  <2>8. CASE Age \/ Rest
    BY <1>1, <2>8 DEF Age, Rest, vars, files, db, sweep
  <2> QED BY <1>2, <2>1, <2>2, <2>3, <2>4, <2>5, <2>6, <2>7, <2>8 DEF Next
<1> QED BY <1>1, <1>2 DEF vars, files, db, sweep

\* Where every creation is a Move that renames its file, the only copy of a
\* file is in the library or at its source as long as its Move runs, whatever
\* is deleted, swept, refused or put back, and whichever removal fails
\* (deletable_media_file, put_renamed_file_back).
THEOREM OnlyCopySurvives ==
  ASSUME OnlyRenamingMoves PROVE Spec => []OnlyCopyKept
<1> DEFINE IInv == LockInv /\ GateInv /\ CopyInv
<1>1. Init => IInv
  BY InitLock, InitCopy DEF Init, GateInv, Actors
<1>2. IInv /\ [Next]_vars => IInv'
  BY NextLock, NextGate, NextCopy DEF LockInv
<1>3. IInv => OnlyCopyKept
  BY DEF CopyInv, RenamedInv, OnlyCopyKept
<1> QED BY <1>1, <1>2, <1>3, PTL DEF Spec

=============================================================================
