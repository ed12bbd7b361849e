------------------------- MODULE LibraryMoveProofs -------------------------
(***************************************************************************)
(* Why the library is found after a crash at any step of a move, for every *)
(* set of folders, files and writers, and any number of saves and crashes. *)
(***************************************************************************)
EXTENDS LibraryMove, TLAPS

USE NoneAssumption

\* What the proof allows to go wrong: no settings write fails, none is under
\* way when a move starts, and only creations write into the library.
CalmRisks == {"ownFiles", "markerRefused", "removalStops", "secondMove", "crash"}
CalmScenarios == Scenarios \subseteq SUBSET CalmRisks

MoverType ==
  [pc : Holding \cup {"wait", "store", "clear", "persist", "idle"},
   from : Dirs \cup {NoDir}, to : Dirs \cup {NoDir}, moved : BOOLEAN]
FormType ==
  [pc : {"idle", "probe", "read", "evaluate", "adopt", "unmark", "load", "compare",
         "write", "clear"},
   task : {"none", "launch", "toggle", "path"},
   path : Dirs \cup {NoDir}, to : Dirs \cup {NoDir}, changed : BOOLEAN]
WriterType ==
  [pc : {"idle", "read", "begin", "guard", "write", "row"},
   kind : {"none", "creation", "picked", "avatar"},
   file : Files \cup {NoFile}, dir : Dirs \cup {NoDir}, gen : {0}]

Typed ==
  /\ content \in [Dirs -> SUBSET Files] /\ stored \in Dirs
  /\ marker \in [to : Dirs, from : Dirs] \cup {NoMarker}
  /\ mover \in MoverType /\ form \in FormType /\ writer \in [Writers -> WriterType]
  /\ risks \subseteq CalmRisks

\* Writers, the move and the settings form take turns: a creation runs
\* beside no move, and a move beside no save.
TurnsTaken ==
  /\ \A w \in Writers : writer[w].pc # "idle" =>
       /\ writer[w].kind = "creation" /\ writer[w].file \in Files
       /\ mover.pc \in {"idle", "persist"} /\ Ready
  /\ form.pc = "idle" <=> form.task = "none"
  /\ mover.pc # "idle" => form.pc = "idle"

\* The copy was found complete, and is not yet the library.
Copied == \/ mover.pc \in {"marker", "remove", "store"}
          \/ mover.pc = "release" /\ mover.moved

\* Where the move is: the old folder stays the setting until the path is
\* stored, and it is emptied only under the marker, which names the move.
MoveOnItsWay ==
  mover.pc # "idle" =>
    /\ mover.from \in Dirs /\ mover.to \in Dirs /\ mover.from # mover.to
    /\ stored = IF mover.pc \in {"clear", "persist"} THEN mover.to ELSE mover.from
    /\ Copied => content[mover.from] \subseteq content[mover.to]
    /\ mover.moved => mover.pc \in {"release", "store", "clear", "persist"}
    /\ mover.pc = "remove" => marker # NoMarker
    /\ marker # NoMarker =>
         /\ marker = [to |-> mover.to, from |-> mover.from]
         /\ Copied \/ mover.pc = "clear"
         /\ mover.pc # "marker"

\* With no move under way only a launch meets a marker, and it settles it
\* before it saves anything.
FormOnItsWay ==
  mover.pc = "idle" =>
    /\ marker # NoMarker =>
         form.task = "launch" /\ form.pc \in {"probe", "read", "evaluate", "adopt", "unmark"}
    /\ form.pc \in {"evaluate", "compare", "write"} => form.path = stored
    /\ form.pc = "adopt"  => Recovers(stored) /\ form.path = marker.to
    /\ form.pc = "unmark" => ~Recovers(stored)
    /\ form.task = "path" => form.to = stored

\* A creation holds the folder the settings name, and its file is there
\* before its row.
WritersAtHome ==
  \A w \in Writers :
    /\ writer[w].pc \in {"guard", "write", "row"} => writer[w].dir = stored
    /\ writer[w].pc = "row" => writer[w].file \in content[stored]
    /\ writer[w].pc # "begin"

MoveInv ==
  /\ Typed /\ TurnsTaken /\ MoveOnItsWay /\ FormOnItsWay /\ WritersAtHome /\ LibraryFound

LEMMA InitMove == CalmScenarios /\ Init => MoveInv
<1> SUFFICES ASSUME CalmScenarios, Init PROVE MoveInv
  OBVIOUS
<1>1. PICK d \in Dirs, f \in Files :
        /\ content = [e \in Dirs |-> IF e = d THEN {f} ELSE {}]
        /\ stored = d /\ rows = {f}
  BY DEF Init
<1>2. /\ marker = NoMarker /\ mover = MoverIdle /\ form = Launching
      /\ writer = [w \in Writers |-> WriterIdle] /\ generation = 0
      /\ risks \in Scenarios
  BY DEF Init
<1>3. Typed
  <2>1. content \in [Dirs -> SUBSET Files] /\ stored \in Dirs /\ risks \subseteq CalmRisks
    BY <1>1, <1>2 DEF CalmScenarios
  <2>2. mover \in MoverType
    BY <1>2 DEF MoverIdle, MoverType
  <2>3. form \in FormType
    BY <1>2 DEF Launching, FormIdle, FormType
  <2>4. writer \in [Writers -> WriterType]
    BY <1>2 DEF WriterIdle, WriterType
  <2> QED
    BY <1>2, <2>1, <2>2, <2>3, <2>4 DEF Typed
<1>4. TurnsTaken /\ WritersAtHome
  BY <1>2 DEF TurnsTaken, WritersAtHome, Ready, MoverIdle, Launching, FormIdle, WriterIdle
<1>5. MoveOnItsWay /\ FormOnItsWay
  BY <1>2 DEF MoveOnItsWay, FormOnItsWay, MoverIdle, Launching, FormIdle
<1>6. LibraryFound
  BY <1>1, <1>2 DEF LibraryFound, Opened, Recovers
<1> QED
  BY <1>3, <1>4, <1>5, <1>6 DEF MoveInv

(***************************************************************************)
(* What a step has to show: the move beside an idle form and no writers,   *)
(* the form beside an idle move, a writer beside both.                     *)
(***************************************************************************)
LEMMA MoveAfter ==
  ASSUME MoveInv, mover.pc \notin {"idle", "persist"}, UNCHANGED <<form, writer>>,
         Typed', MoveOnItsWay', mover'.pc = "idle" => marker' = NoMarker, LibraryFound'
  PROVE  MoveInv'
<1>1. /\ form.pc = "idle" /\ form.task = "none"
      /\ \A w \in Writers : writer[w].pc = "idle"
  BY DEF MoveInv, TurnsTaken
<1>2. TurnsTaken' /\ WritersAtHome'
  BY <1>1 DEF TurnsTaken, WritersAtHome
<1>3. FormOnItsWay'
  BY <1>1 DEF FormOnItsWay
<1> QED
  BY <1>2, <1>3 DEF MoveInv

LEMMA FormAfter ==
  ASSUME MoveInv, form.pc # "idle", UNCHANGED <<content, mover, writer>>, Typed',
         form'.task \in {form.task, "none"}, form'.pc = "idle" <=> form'.task = "none",
         stored' = stored \/ form.task = "launch", FormOnItsWay', LibraryFound'
  PROVE  MoveInv'
<1>1. mover.pc = "idle" /\ (form.task = "launch" => \A w \in Writers : writer[w].pc = "idle")
  BY DEF MoveInv, TurnsTaken, Ready
<1>2. TurnsTaken'
  BY <1>1 DEF MoveInv, TurnsTaken, Ready
<1>3. MoveOnItsWay'
  BY <1>1 DEF MoveOnItsWay
<1>4. WritersAtHome'
  BY <1>1 DEF MoveInv, WritersAtHome
<1> QED
  BY <1>2, <1>3, <1>4 DEF MoveInv

\* No move is in doubt while a creation writes: what the settings name is
\* what a launch would open.
LEMMA WritersSettled ==
  ASSUME MoveInv, NEW w \in Writers, writer[w].pc # "idle"
  PROVE  marker = NoMarker /\ rows \subseteq content[stored]
<1>1. mover.pc \in {"idle", "persist"} /\ Ready
  BY DEF MoveInv, TurnsTaken
<1>2. marker = NoMarker
  BY <1>1 DEF MoveInv, MoveOnItsWay, FormOnItsWay, Copied, Ready
<1> QED
  BY <1>2 DEF MoveInv, LibraryFound, Opened, Recovers

LEMMA WriterAfter ==
  ASSUME MoveInv, NEW w \in Writers, writer[w].pc # "idle",
         UNCHANGED <<stored, marker, mover, form, risks>>,
         content' \in [Dirs -> SUBSET Files], content[stored] \subseteq content'[stored],
         \A f \in rows' : f \in rows \/ (writer[w].pc = "row" /\ f = writer[w].file),
         writer' \in [Writers -> WriterType],
         \A v \in Writers \ {w} : writer'[v] = writer[v],
         \/ writer'[w] = WriterIdle
         \/ /\ writer'[w].kind = writer[w].kind /\ writer'[w].file = writer[w].file
            /\ writer'[w].dir = stored /\ writer'[w].pc # "begin"
            /\ writer'[w].pc = "row" => writer'[w].file \in content'[stored]
  PROVE  MoveInv'
<1>1. /\ writer \in [Writers -> WriterType] /\ writer[w].file \in Files
      /\ content \in [Dirs -> SUBSET Files] /\ stored \in Dirs
  BY DEF MoveInv, Typed, TurnsTaken
<1>2. writer'[w].pc # "idle" => writer'[w] # WriterIdle
  BY DEF WriterIdle
<1>3. Typed'
  BY DEF MoveInv, Typed
<1>4. TurnsTaken' /\ WritersAtHome'
  <2>1. ASSUME NEW v \in Writers, v # w
        PROVE  /\ writer'[v] = writer[v]
               /\ writer[v].pc = "row" => writer[v].file \in content'[stored]
    BY <1>1, <2>1 DEF MoveInv, WritersAtHome
  <2>2. writer'[w].pc # "idle" =>
          /\ writer'[w].kind = "creation" /\ writer'[w].file \in Files
          /\ writer'[w].dir = stored
          /\ writer'[w].pc = "row" => writer'[w].file \in content'[stored]
    BY <1>1, <1>2 DEF MoveInv, TurnsTaken
  <2>3. writer'[w].pc # "begin"
    BY DEF WriterIdle
  <2>4. mover.pc \in {"idle", "persist"} /\ Ready
    BY DEF MoveInv, TurnsTaken
  <2>5. TurnsTaken'
    BY <2>1, <2>2, <2>4 DEF MoveInv, TurnsTaken, Ready
  <2>6. WritersAtHome'
    BY <2>1, <2>2, <2>3 DEF MoveInv, WritersAtHome
  <2> QED
    BY <2>5, <2>6
<1>5. mover.pc \in {"idle", "persist"} /\ marker = NoMarker /\ rows \subseteq content[stored]
  BY WritersSettled DEF MoveInv, TurnsTaken
<1>6. MoveOnItsWay' /\ FormOnItsWay'
  BY <1>5 DEF MoveInv, MoveOnItsWay, FormOnItsWay, Copied, Recovers
<1>7. LibraryFound'
  <2>1. rows' \subseteq content'[stored]
    BY <1>1, <1>5 DEF MoveInv, WritersAtHome
  <2> QED
    BY <1>5, <2>1 DEF LibraryFound, Opened, Recovers
<1> QED
  BY <1>3, <1>4, <1>6, <1>7 DEF MoveInv

(***************************************************************************)
(* The writers.                                                            *)
(***************************************************************************)
LEMMA WriterMoves ==
  ASSUME MoveInv, NEW w \in Writers, WriterAdvances(w)
  PROVE  MoveInv'
<1>1. /\ writer \in [Writers -> WriterType] /\ writer[w] \in WriterType /\ stored \in Dirs
      /\ writer[w].pc # "idle" => writer[w].kind = "creation"
      /\ writer[w].pc # "begin"
      /\ writer[w].pc \in {"guard", "write", "row"} => writer[w].dir = stored
  BY DEF MoveInv, Typed, TurnsTaken, WritersAtHome
<1>2. CASE ReadLibrary(w)
  <2>1. /\ writer' = [writer EXCEPT ![w] = [writer[w] EXCEPT !.dir = stored, !.pc = "guard"]]
        /\ writer[w].pc = "read" /\ content' = content /\ rows' = rows
        /\ UNCHANGED <<stored, marker, mover, form, risks>>
    BY <1>1, <1>2 DEF ReadLibrary, WriterStep, disk, counters, setting
  <2>2. [writer[w] EXCEPT !.dir = stored, !.pc = "guard"] \in WriterType
    BY <1>1 DEF WriterType
  <2>3. /\ writer' \in [Writers -> WriterType]
        /\ \A v \in Writers \ {w} : writer'[v] = writer[v]
    BY <1>1, <2>1, <2>2
  <2>4. /\ writer'[w].kind = writer[w].kind /\ writer'[w].file = writer[w].file
        /\ writer'[w].dir = stored /\ writer'[w].pc = "guard"
    BY <1>1, <2>1 DEF WriterType
  <2>5. /\ writer[w].pc # "idle" /\ content' = content /\ rows' = rows
        /\ UNCHANGED <<stored, marker, mover, form, risks>>
    BY <2>1
  <2>6. content' \in [Dirs -> SUBSET Files]
    BY <2>5 DEF MoveInv, Typed
  <2> QED
    BY <2>3, <2>4, <2>5, <2>6, WriterAfter
<1>3. CASE TakeGuard(w)
  <2>1. /\ writer' = [writer EXCEPT ![w] = [writer[w] EXCEPT !.pc = "write"]]
        /\ writer[w].pc = "guard" /\ content' = content /\ rows' = rows
        /\ UNCHANGED <<stored, marker, mover, form, risks>>
    BY <1>1, <1>3 DEF TakeGuard, WriterStep, disk, counters, setting
  <2>2. [writer[w] EXCEPT !.pc = "write"] \in WriterType
    BY <1>1 DEF WriterType
  <2>3. /\ writer' \in [Writers -> WriterType]
        /\ \A v \in Writers \ {w} : writer'[v] = writer[v]
    BY <1>1, <2>1, <2>2
  <2>4. /\ writer'[w].kind = writer[w].kind /\ writer'[w].file = writer[w].file
        /\ writer'[w].dir = stored /\ writer'[w].pc = "write"
    BY <1>1, <2>1 DEF WriterType
  <2>5. /\ writer[w].pc # "idle" /\ content' = content /\ rows' = rows
        /\ UNCHANGED <<stored, marker, mover, form, risks>>
    BY <2>1
  <2>6. content' \in [Dirs -> SUBSET Files]
    BY <2>5 DEF MoveInv, Typed
  <2> QED
    BY <2>3, <2>4, <2>5, <2>6, WriterAfter
<1>4. CASE WriteFile(w)
  <2>1. writer[w].pc = "write" /\ UNCHANGED <<rows, stored, marker, mover, form, setting>>
    BY <1>4 DEF WriteFile, WriterStep, counters
  <2>2. CASE content' = content /\ writer' = [writer EXCEPT ![w] = WriterIdle]
    <3>1. WriterIdle \in WriterType
      BY DEF WriterIdle, WriterType
    <3>2. /\ writer' \in [Writers -> WriterType] /\ writer'[w] = WriterIdle
          /\ \A v \in Writers \ {w} : writer'[v] = writer[v]
      BY <1>1, <2>2, <3>1
    <3>3. content' \in [Dirs -> SUBSET Files] /\ content[stored] \subseteq content'[stored]
      BY <2>1, <2>2 DEF MoveInv, Typed
    <3> QED
      BY <2>1, <3>2, <3>3, WriterAfter DEF setting
  <2>3. CASE /\ content' = [content EXCEPT ![writer[w].dir] = @ \cup {writer[w].file}]
             /\ writer' = [writer EXCEPT ![w] = [writer[w] EXCEPT !.pc = "row"]]
    <3>1. [writer[w] EXCEPT !.pc = "row"] \in WriterType
      BY <1>1 DEF WriterType
    <3>2. /\ writer' \in [Writers -> WriterType]
          /\ \A v \in Writers \ {w} : writer'[v] = writer[v]
      BY <1>1, <2>3, <3>1
    <3>3. /\ writer'[w].kind = writer[w].kind /\ writer'[w].file = writer[w].file
          /\ writer'[w].dir = stored /\ writer'[w].pc = "row"
      BY <1>1, <2>1, <2>3 DEF WriterType
    <3>4. content' = [content EXCEPT ![stored] = @ \cup {writer[w].file}]
      BY <1>1, <2>1, <2>3
    <3>5. /\ content' \in [Dirs -> SUBSET Files] /\ content[stored] \subseteq content'[stored]
          /\ writer'[w].file \in content'[stored]
      BY <1>1, <2>1, <3>3, <3>4 DEF MoveInv, Typed, TurnsTaken
    <3> QED
      BY <2>1, <3>2, <3>3, <3>5, WriterAfter DEF setting
  <2> QED
    BY <1>4, <2>2, <2>3 DEF WriteFile, WriterStep
<1>6. CASE AddRow(w)
  <2>1. /\ writer[w].pc = "row" /\ rows' = rows \cup {writer[w].file}
        /\ content' = content /\ writer' = [writer EXCEPT ![w] = WriterIdle]
        /\ UNCHANGED <<stored, marker, mover, form, setting>>
    BY <1>6 DEF AddRow, WriterStep, counters
  <2>2. WriterIdle \in WriterType
    BY DEF WriterIdle, WriterType
  <2>3. /\ writer' \in [Writers -> WriterType] /\ writer'[w] = WriterIdle
        /\ \A v \in Writers \ {w} : writer'[v] = writer[v]
    BY <1>1, <2>1, <2>2
  <2>4. content' \in [Dirs -> SUBSET Files]
    BY <2>1 DEF MoveInv, Typed
  <2> QED
    BY <2>1, <2>3, <2>4, WriterAfter DEF setting
<1>5. ~BeginPass(w)
  BY <1>1 DEF BeginPass
<1> QED
  BY <1>2, <1>3, <1>4, <1>5, <1>6 DEF WriterAdvances

(***************************************************************************)
(* The move.                                                               *)
(***************************************************************************)
\* What the move is doing has its types, and is unchanged beside its step.
LEMMA MoveFacts ==
  ASSUME MoveInv, mover.pc # "idle"
  PROVE  /\ mover \in MoverType /\ mover.from \in Dirs /\ mover.to \in Dirs
         /\ mover.from # mover.to /\ form.pc = "idle"
         /\ content \in [Dirs -> SUBSET Files] /\ stored \in Dirs
         /\ stored = IF mover.pc \in {"clear", "persist"} THEN mover.to ELSE mover.from
         /\ Copied => content[mover.from] \subseteq content[mover.to]
         /\ mover.moved => mover.pc \in {"release", "store", "clear", "persist"}
         /\ mover.pc = "remove" => marker # NoMarker
         /\ marker # NoMarker => /\ marker = [to |-> mover.to, from |-> mover.from]
                                 /\ Copied \/ mover.pc = "clear"
                                 /\ mover.pc # "marker"
         /\ [to |-> mover.to, from |-> mover.from] # NoMarker
  BY DEF MoveInv, Typed, TurnsTaken, MoveOnItsWay, NoMarker

\* Whatever folder a launch would open, the rows' files are in the old
\* folder until the copy is trusted, and in the new one from then on.
LEMMA RowsOnTheWay ==
  ASSUME MoveInv, mover.pc # "idle"
  PROVE  /\ ~Copied => rows \subseteq content[stored]
         /\ Copied => rows \subseteq content[mover.to]
<1>1. CASE marker = NoMarker
  BY <1>1, MoveFacts DEF MoveInv, LibraryFound, Opened, Recovers, Copied
<1>2. CASE marker # NoMarker
  BY <1>2, MoveFacts DEF MoveInv, LibraryFound, Opened, Recovers, Copied
<1> QED
  BY <1>1, <1>2

\* The steps before the copy is trusted, and the return of a move that gave
\* up: the old folder is the library and stays as it is.
LEMMA CopySteps ==
  ASSUME MoveInv, AcquireGate \/ CopyContents \/ CheckCopy
  PROVE  MoveInv'
<1>1. /\ mover.pc \in {"wait", "copy", "check"}
      /\ UNCHANGED <<form, writer, rows, stored, marker, setting>>
      /\ \E p \in {"copy", "check", "marker", "release"} : mover' = [mover EXCEPT !.pc = p]
  BY DEF AcquireGate, CopyContents, CheckCopy, disk, counters
<1>2. /\ mover' \in MoverType /\ mover'.from = mover.from /\ mover'.to = mover.to
      /\ ~mover'.moved /\ mover'.pc \in {"copy", "check", "marker", "release"}
      /\ marker = NoMarker /\ rows \subseteq content[mover.from]
  BY <1>1, MoveFacts, RowsOnTheWay DEF MoverType, Holding, Copied
<1>3. content' \in [Dirs -> SUBSET Files] /\ content'[mover.from] = content[mover.from]
  BY <1>1, MoveFacts DEF AcquireGate, CopyContents, CheckCopy, disk
<1>4. mover'.pc = "marker" => content'[mover.from] \subseteq content'[mover.to]
  <2>1. CASE AcquireGate \/ CopyContents
    BY <2>1, <1>1, MoveFacts DEF AcquireGate, CopyContents, MoverType
  <2>2. CASE CheckCopy
    BY <2>2, <1>1, MoveFacts DEF CheckCopy, MoverType, disk
  <2> QED
    BY <2>1, <2>2
<1>5. Typed'
  BY <1>1, <1>2, <1>3 DEF MoveInv, Typed, setting
<1>6. MoveOnItsWay'
  BY <1>1, <1>2, <1>3, <1>4, MoveFacts DEF MoveOnItsWay, Copied
<1>7. LibraryFound'
  BY <1>1, <1>2, <1>3, MoveFacts DEF LibraryFound, Opened, Recovers
<1> QED
  BY <1>1, <1>2, <1>5, <1>6, <1>7, MoveAfter

LEMMA MarkerStep ==
  ASSUME MoveInv, WriteMarker
  PROVE  MoveInv'
<1>1. /\ mover.pc = "marker" /\ UNCHANGED <<content, form, writer, rows, stored, setting>>
  BY DEF WriteMarker, counters
<1>2. marker = NoMarker /\ stored = mover.from /\ rows \subseteq content[mover.to]
  BY <1>1, MoveFacts, RowsOnTheWay DEF Copied
<1>3. /\ mover' \in MoverType /\ mover'.from = mover.from /\ mover'.to = mover.to
      /\ \/ mover'.pc = "remove" /\ ~mover'.moved
            /\ marker' = [to |-> mover.to, from |-> mover.from]
         \/ mover'.pc = "release" /\ mover'.moved /\ marker' = NoMarker
  BY <1>1, <1>2, MoveFacts DEF WriteMarker, MoverType, Holding
<1>4. Typed'
  BY <1>1, <1>3, MoveFacts DEF MoveInv, Typed, setting
<1>5. content[mover.from] \subseteq content[mover.to]
  BY <1>1, MoveFacts DEF Copied
<1>6. MoveOnItsWay'
  BY <1>1, <1>2, <1>3, <1>5, MoveFacts DEF MoveOnItsWay, Copied
<1>7. LibraryFound'
  <2>1. CASE marker' = NoMarker
    BY <1>1, <1>2, <2>1 DEF MoveInv, LibraryFound, Opened, Recovers
  <2>2. CASE marker' = [to |-> mover.to, from |-> mover.from]
    BY <1>1, <1>2, <1>5, <2>2, MoveFacts, RowsOnTheWay DEF LibraryFound, Opened, Recovers, Copied
  <2> QED
    BY <1>3, <2>1, <2>2
<1> QED
  BY <1>1, <1>3, <1>4, <1>6, <1>7, MoveAfter

LEMMA RemovalSteps ==
  ASSUME MoveInv, RemoveFile \/ EndRemoval
  PROVE  MoveInv'
<1>1. mover.pc = "remove" /\ UNCHANGED <<form, writer, rows, stored, marker, setting>>
  BY DEF RemoveFile, EndRemoval, counters
<1>2. /\ marker = [to |-> mover.to, from |-> mover.from] /\ stored = mover.from
      /\ content[mover.from] \subseteq content[mover.to] /\ rows \subseteq content[mover.to]
  BY <1>1, MoveFacts, RowsOnTheWay DEF Copied
<1>3. /\ content' \in [Dirs -> SUBSET Files] /\ content'[mover.to] = content[mover.to]
      /\ content'[mover.from] \subseteq content[mover.from]
  BY MoveFacts, <1>1 DEF RemoveFile, EndRemoval
<1>4. /\ mover' \in MoverType /\ mover'.from = mover.from /\ mover'.to = mover.to
      /\ \/ mover' = mover
         \/ mover'.pc = "release" /\ mover'.moved
  BY <1>1, MoveFacts DEF RemoveFile, EndRemoval, MoverType, Holding
<1>5. Typed'
  BY <1>1, <1>3, <1>4 DEF MoveInv, Typed, setting
<1>6. MoveOnItsWay'
  BY <1>1, <1>2, <1>3, <1>4, MoveFacts DEF MoveOnItsWay, Copied
<1>7. LibraryFound'
  BY <1>1, <1>2, <1>3, MoveFacts DEF LibraryFound, Opened, Recovers
<1> QED
  BY <1>1, <1>4, <1>5, <1>6, <1>7, MoveAfter

\* The path is stored before the marker goes, so a launch finds the new
\* folder by one or by the other.
LEMMA ReleaseStep ==
  ASSUME MoveInv, ReleaseGate
  PROVE  MoveInv'
<1>1. mover.pc = "release" /\ UNCHANGED <<content, form, writer, rows, stored, marker, setting>>
  BY DEF ReleaseGate, disk, counters
<1>2. LibraryFound'
  BY <1>1 DEF MoveInv, LibraryFound, Opened, Recovers
<1>3. CASE mover.moved
  <2>1. /\ mover' \in MoverType /\ mover'.from = mover.from /\ mover'.to = mover.to
        /\ mover'.pc = "store" /\ mover'.moved
    BY <1>1, <1>3, MoveFacts DEF ReleaseGate, MoverType
  <2>2. Typed'
    BY <1>1, <2>1 DEF MoveInv, Typed, setting
  <2>3. MoveOnItsWay'
    BY <1>1, <1>3, <2>1, MoveFacts DEF MoveOnItsWay, Copied
  <2> QED
    BY <1>1, <1>2, <2>1, <2>2, <2>3, MoveAfter
<1>4. CASE ~mover.moved
  <2>1. mover' = MoverIdle
    BY <1>4 DEF ReleaseGate
  <2>2. mover' \in MoverType /\ mover'.pc = "idle"
    BY <2>1 DEF MoverIdle, MoverType
  <2>3. marker = NoMarker
    BY <1>1, <1>4, MoveFacts DEF Copied
  <2>4. Typed'
    BY <1>1, <2>2 DEF MoveInv, Typed, setting
  <2>5. MoveOnItsWay'
    BY <2>2 DEF MoveOnItsWay
  <2> QED
    BY <1>1, <1>2, <2>2, <2>3, <2>4, <2>5, MoveAfter
<1> QED
  BY <1>3, <1>4

LEMMA StoreStep ==
  ASSUME MoveInv, StorePath
  PROVE  MoveInv'
<1>1. mover.pc = "store" /\ UNCHANGED <<content, form, writer, rows, marker, setting>>
  BY DEF StorePath, counters
<1>2. "storeFails" \notin risks
  BY DEF MoveInv, Typed, CalmRisks
<1>3. /\ stored' = mover.to /\ mover' \in MoverType /\ mover'.pc = "clear"
      /\ mover'.from = mover.from /\ mover'.to = mover.to
  BY <1>1, <1>2, MoveFacts DEF StorePath, MoverType
<1>4. Typed'
  BY <1>1, <1>3, MoveFacts DEF MoveInv, Typed, setting
<1>5. MoveOnItsWay'
  BY <1>1, <1>3, MoveFacts DEF MoveOnItsWay, Copied
<1>6. rows \subseteq content[mover.to]
  BY <1>1, RowsOnTheWay DEF Copied
<1>7. LibraryFound'
  BY <1>1, <1>3, <1>6, MoveFacts DEF LibraryFound, Opened, Recovers
<1> QED
  BY <1>1, <1>3, <1>4, <1>5, <1>7, MoveAfter

LEMMA ClearStep ==
  ASSUME MoveInv, ClearAfterStore
  PROVE  MoveInv'
<1>1. mover.pc = "clear" /\ UNCHANGED <<content, form, writer, rows, stored, setting>>
  BY DEF ClearAfterStore, counters
<1>2. "clearFails" \notin risks
  BY DEF MoveInv, Typed, CalmRisks
<1>3. /\ marker' = NoMarker /\ mover' \in MoverType /\ mover'.pc = "persist"
      /\ mover'.from = mover.from /\ mover'.to = mover.to
  BY <1>1, <1>2, MoveFacts DEF ClearAfterStore, ClearMarker, MoverType
<1>4. Typed'
  BY <1>1, <1>3 DEF MoveInv, Typed, setting
<1>5. MoveOnItsWay'
  BY <1>1, <1>3, MoveFacts DEF MoveOnItsWay, Copied
<1>6. rows \subseteq content[stored]
  BY <1>1, RowsOnTheWay DEF Copied
<1>7. LibraryFound'
  BY <1>1, <1>3, <1>6 DEF LibraryFound, Opened, Recovers
<1> QED
  BY <1>1, <1>3, <1>4, <1>5, <1>7, MoveAfter

\* Creations may run again by then: the folder their writes go to is the one
\* the window saves once more.
LEMMA QueueStep ==
  ASSUME MoveInv, QueuePathSave
  PROVE  MoveInv'
<1>1. /\ mover.pc = "persist" /\ form.pc = "idle"
      /\ UNCHANGED <<content, writer, rows, stored, marker, setting>>
      /\ form' = [FormIdle EXCEPT !.pc = "probe", !.task = "path", !.to = mover.to]
      /\ mover' = MoverIdle
  BY DEF QueuePathSave, disk, counters
<1>2. /\ form' \in FormType /\ form'.pc = "probe" /\ form'.task = "path"
      /\ form'.to = mover.to
  BY <1>1, MoveFacts DEF FormIdle, FormType
<1>3. mover' \in MoverType /\ mover'.pc = "idle"
  BY <1>1 DEF MoverIdle, MoverType
<1>4. stored = mover.to /\ marker = NoMarker
  BY <1>1, MoveFacts DEF Copied
<1>5. Typed'
  BY <1>1, <1>2, <1>3 DEF MoveInv, Typed, setting
<1>6. TurnsTaken'
  BY <1>1, <1>2, <1>3 DEF MoveInv, TurnsTaken, Ready
<1>7. MoveOnItsWay' /\ FormOnItsWay'
  BY <1>1, <1>2, <1>3, <1>4 DEF MoveOnItsWay, FormOnItsWay
<1>8. WritersAtHome' /\ LibraryFound'
  BY <1>1 DEF MoveInv, WritersAtHome, LibraryFound, Opened, Recovers
<1> QED
  BY <1>5, <1>6, <1>7, <1>8 DEF MoveInv

\* A move starts with no save and no creation under way.
LEMMA StartStep ==
  ASSUME MoveInv, NEW d \in Dirs, StartMove(d)
  PROVE  MoveInv'
<1>1. /\ mover.pc = "idle" /\ form.pc = "idle" /\ d # stored
      /\ UNCHANGED <<content, form, writer, rows, stored, marker, setting>>
      /\ mover' = [pc |-> "wait", from |-> stored, to |-> d, moved |-> FALSE]
      /\ ~CreationRunning
  BY DEF StartMove, MoveInv, Typed, CalmRisks
<1>2. marker = NoMarker
  BY <1>1 DEF MoveInv, FormOnItsWay
<1>3. \A w \in Writers : writer[w].pc = "idle"
  BY <1>1 DEF CreationRunning, MoveInv, TurnsTaken
<1>4. /\ mover' \in MoverType /\ mover'.pc = "wait" /\ mover'.from = stored
      /\ mover'.to = d /\ ~mover'.moved
  BY <1>1 DEF MoverType, MoveInv, Typed
<1>5. Typed'
  BY <1>1, <1>4 DEF MoveInv, Typed, setting
<1>6. TurnsTaken' /\ WritersAtHome'
  BY <1>1, <1>3 DEF MoveInv, TurnsTaken, WritersAtHome
<1>7. MoveOnItsWay' /\ FormOnItsWay'
  BY <1>1, <1>2, <1>4 DEF MoveInv, Typed, MoveOnItsWay, FormOnItsWay, Copied
<1>8. LibraryFound'
  BY <1>1 DEF MoveInv, LibraryFound, Opened, Recovers
<1> QED
  BY <1>5, <1>6, <1>7, <1>8 DEF MoveInv

(***************************************************************************)
(* The settings form.                                                      *)
(***************************************************************************)
\* What the form knows while it works, with no move under way.
LEMMA FormFacts ==
  ASSUME MoveInv, form.pc # "idle"
  PROVE  /\ form \in FormType /\ stored \in Dirs /\ mover.pc = "idle"
         /\ form.task # "none"
         /\ marker \in [to : Dirs, from : Dirs] \cup {NoMarker}
         /\ marker # NoMarker =>
              /\ form.task = "launch"
              /\ form.pc \in {"probe", "read", "evaluate", "adopt", "unmark"}
         /\ form.pc \in {"evaluate", "compare", "write"} => form.path = stored
         /\ form.pc = "adopt" => Recovers(stored) /\ form.path = marker.to
         /\ form.pc = "unmark" => ~Recovers(stored)
         /\ form.task = "path" => form.to = stored
         /\ risks \subseteq CalmRisks
  BY DEF MoveInv, Typed, TurnsTaken, FormOnItsWay

\* A step that only reads: what it decided has to fit the marker.
LEMMA FormReads ==
  ASSUME MoveInv, form.pc # "idle",
         UNCHANGED <<content, stored, marker, rows, mover, writer, risks>>,
         form' \in FormType, form'.task \in {form.task, "none"}, form'.to = form.to,
         form'.pc = "idle" <=> form'.task = "none", FormOnItsWay'
  PROVE  MoveInv'
<1>1. Typed'
  BY DEF MoveInv, Typed
<1>2. LibraryFound'
  BY DEF MoveInv, LibraryFound, Opened, Recovers
<1> QED
  BY <1>1, <1>2, FormAfter

\* The form answers and is idle again.
LEMMA FormEnds ==
  ASSUME form' = FormIdle
  PROVE  form' \in FormType /\ form'.pc = "idle" /\ form'.task = "none"
  BY DEF FormIdle, FormType

LEMMA SettleSteps ==
  ASSUME MoveInv, Probe \/ ReadStored \/ Evaluate
  PROVE  MoveInv'
<1>1. /\ form.pc \in {"probe", "read", "evaluate"}
      /\ UNCHANGED <<content, stored, marker, rows, mover, writer, risks>>
  BY DEF Probe, ReadStored, Evaluate, FormStep, disk, counters, setting
<1>2. /\ form' \in FormType /\ form'.task = form.task /\ form'.to = form.to
      /\ form'.pc \in {"load", "read", "evaluate", "adopt", "unmark"}
  <2>1. CASE Probe
    BY <1>1, <2>1, FormFacts DEF Probe, FormStep, FormType
  <2>2. CASE ReadStored
    BY <1>1, <2>2, FormFacts DEF ReadStored, FormStep, FormType
  <2>3. CASE Evaluate
    <3>1. CASE Recovers(form.path)
      BY <1>1, <2>3, <3>1, FormFacts DEF Evaluate, FormStep, FormType, Recovers
    <3>2. CASE ~Recovers(form.path)
      BY <1>1, <2>3, <3>2, FormFacts DEF Evaluate, FormStep, FormType
    <3> QED
      BY <3>1, <3>2
  <2> QED
    BY <2>1, <2>2, <2>3
<1>3. Recovers(stored)' <=> Recovers(stored)
  BY <1>1 DEF Recovers
<1>4. /\ form'.pc = "load" => marker = NoMarker
      /\ form'.pc = "evaluate" => form'.path = stored
      /\ form'.pc = "adopt" => Recovers(stored) /\ form'.path = marker.to
      /\ form'.pc = "unmark" => ~Recovers(stored)
  <2>1. CASE Probe
    BY <1>1, <2>1, FormFacts DEF Probe, FormStep, FormType
  <2>2. CASE ReadStored
    BY <1>1, <2>2, FormFacts DEF ReadStored, FormStep, FormType
  <2>3. CASE Evaluate
    BY <1>1, <2>3, FormFacts DEF Evaluate, FormStep, FormType
  <2> QED
    BY <2>1, <2>2, <2>3
<1>5. FormOnItsWay'
  BY <1>1, <1>2, <1>3, <1>4, FormFacts DEF FormOnItsWay
<1> QED
  BY <1>1, <1>2, <1>5, FormReads, FormFacts

\* The window saves the path it has just read, which is the one stored.
LEMMA LoadSteps ==
  ASSUME MoveInv, Load \/ Compare
  PROVE  MoveInv'
<1>1. /\ form.pc \in {"load", "compare"}
      /\ UNCHANGED <<content, stored, marker, rows, mover, writer, risks>>
  BY DEF Load, Compare, FormStep, disk, counters, setting
<1>2. marker = NoMarker
  BY <1>1, FormFacts
<1>3. CASE form' = FormIdle
  <2>1. FormOnItsWay'
    BY <1>1, <1>2, <1>3, FormEnds DEF FormOnItsWay
  <2>2. Typed' /\ LibraryFound'
    BY <1>1, <1>3, FormEnds DEF MoveInv, Typed, LibraryFound, Opened, Recovers
  <2> QED
    BY <1>1, <1>3, <2>1, <2>2, FormEnds, FormAfter
<1>4. CASE form' # FormIdle
  <2>1. /\ form' \in FormType /\ form'.task = form.task /\ form'.to = form.to
        /\ form'.pc \in {"compare", "write"} /\ form'.path = stored
    <3>1. CASE Load
      BY <1>1, <1>4, <3>1, FormFacts DEF Load, FormStep, FormType
    <3>2. CASE Compare
      BY <1>1, <1>4, <3>2, FormFacts DEF Compare, FormStep, FormType
    <3> QED
      BY <3>1, <3>2
  <2>2. FormOnItsWay'
    BY <1>1, <1>2, <2>1, FormFacts DEF FormOnItsWay
  <2> QED
    BY <1>1, <2>1, <2>2, FormReads, FormFacts
<1> QED
  BY <1>3, <1>4

\* Adopting the new path opens the folder the marker already stood for.
LEMMA AdoptStep ==
  ASSUME MoveInv, Adopt
  PROVE  MoveInv'
<1>1. /\ form.pc = "adopt" /\ "storeFails" \notin risks
      /\ UNCHANGED <<content, marker, rows, mover, writer, risks>>
  BY FormFacts DEF Adopt, FormStep, counters, setting, CalmRisks
<1>2. stored' = marker.to /\ marker.to \in Dirs /\ form' = [form EXCEPT !.pc = "unmark"]
  BY <1>1, FormFacts DEF Adopt, FormStep, Recovers
<1>3. /\ form' \in FormType /\ form'.task = "launch" /\ form'.pc = "unmark"
      /\ form.task = "launch"
  BY <1>1, <1>2, FormFacts DEF FormType, Recovers
<1>4. Typed'
  BY <1>1, <1>2, <1>3 DEF MoveInv, Typed
<1>5. FormOnItsWay'
  BY <1>1, <1>2, <1>3 DEF FormOnItsWay, Recovers
<1>6. LibraryFound'
  BY <1>1, <1>2, FormFacts DEF MoveInv, LibraryFound, Opened, Recovers
<1> QED
  BY <1>1, <1>3, <1>4, <1>5, <1>6, FormAfter

\* The marker goes only once it no longer decides what a launch opens.
LEMMA UnmarkStep ==
  ASSUME MoveInv, Unmark
  PROVE  MoveInv'
<1>1. /\ form.pc = "unmark" /\ "clearFails" \notin risks
      /\ UNCHANGED <<content, stored, rows, mover, writer, risks>>
      /\ form' = [form EXCEPT !.pc = "load"]
  BY FormFacts DEF Unmark, FormStep, counters, setting, CalmRisks
<1>2. marker' = NoMarker
  BY <1>1 DEF Unmark, ClearMarker
<1>3. form' \in FormType /\ form'.task = form.task /\ form'.pc = "load" /\ form'.to = form.to
  BY <1>1, FormFacts DEF FormType
<1>4. Typed'
  BY <1>1, <1>2, <1>3 DEF MoveInv, Typed
<1>5. FormOnItsWay'
  BY <1>1, <1>2, <1>3, FormFacts DEF FormOnItsWay
<1>6. LibraryFound'
  BY <1>1, <1>2, FormFacts DEF MoveInv, LibraryFound, Opened, Recovers
<1> QED
  BY <1>1, <1>3, <1>4, <1>5, <1>6, FormAfter, FormFacts

LEMMA SaveSteps ==
  ASSUME MoveInv, Save \/ ClearAfterSave
  PROVE  MoveInv'
<1>1. /\ form.pc \in {"write", "clear"} /\ "storeFails" \notin risks /\ "clearFails" \notin risks
      /\ UNCHANGED <<content, rows, mover, writer, risks>>
  BY FormFacts DEF Save, ClearAfterSave, FormStep, counters, setting, CalmRisks
<1>2. marker = NoMarker /\ marker' = NoMarker /\ stored' = stored
  BY <1>1, FormFacts DEF Save, ClearAfterSave, ClearMarker
<1>3. \/ form' = FormIdle
      \/ form' = [form EXCEPT !.pc = "clear"]
  BY <1>1 DEF Save, ClearAfterSave, FormStep
<1>4. /\ form' \in FormType /\ form'.task \in {form.task, "none"}
      /\ form'.pc \in {"idle", "clear"} /\ (form'.pc = "idle" <=> form'.task = "none")
      /\ form'.task = "path" => form'.to = form.to
  BY <1>1, <1>3, FormEnds, FormFacts DEF FormType
<1>5. Typed'
  BY <1>1, <1>2, <1>4 DEF MoveInv, Typed
<1>6. FormOnItsWay'
  BY <1>1, <1>2, <1>4, FormFacts DEF FormOnItsWay
<1>7. LibraryFound'
  BY <1>1, <1>2 DEF MoveInv, LibraryFound, Opened, Recovers
<1> QED
  BY <1>1, <1>2, <1>4, <1>5, <1>6, <1>7, FormAfter

LEMMA ToggleStep ==
  ASSUME MoveInv, StartToggle
  PROVE  MoveInv'
<1>1. /\ form.pc = "idle" /\ mover.pc = "idle"
      /\ UNCHANGED <<content, stored, marker, rows, mover, writer, risks>>
      /\ form' = [FormIdle EXCEPT !.pc = "probe", !.task = "toggle"]
  BY DEF StartToggle, MoveInv, Typed, CalmRisks, disk, setting
<1>2. /\ form' \in FormType /\ form'.pc = "probe" /\ form'.task = "toggle"
      /\ marker = NoMarker
  BY <1>1 DEF FormIdle, FormType, MoveInv, FormOnItsWay
<1>3. Typed'
  BY <1>1, <1>2 DEF MoveInv, Typed
<1>4. TurnsTaken'
  BY <1>1, <1>2 DEF MoveInv, TurnsTaken, Ready
<1>5. MoveOnItsWay' /\ FormOnItsWay'
  BY <1>1, <1>2 DEF MoveOnItsWay, FormOnItsWay
<1>6. WritersAtHome' /\ LibraryFound'
  BY <1>1 DEF MoveInv, WritersAtHome, LibraryFound, Opened, Recovers
<1> QED
  BY <1>3, <1>4, <1>5, <1>6 DEF MoveInv

\* Only creations write, and one starts only while no move runs.
LEMMA WriteStep ==
  ASSUME MoveInv, NEW w \in Writers, NEW k \in {"creation", "picked", "avatar"},
         NEW f \in Files, StartWrite(w, k, f)
  PROVE  MoveInv'
<1>1. /\ writer[w].pc = "idle" /\ k = "creation" /\ mover.pc \in {"idle", "persist"} /\ Ready
      /\ writer' = [writer EXCEPT ![w] =
                      [WriterIdle EXCEPT !.pc = "read", !.kind = k, !.file = f]]
      /\ UNCHANGED <<content, stored, marker, rows, mover, form, risks>>
  BY DEF StartWrite, WriterStep, MoveInv, Typed, CalmRisks, CreationsExcluded, disk,
         counters, setting
<1>2. [WriterIdle EXCEPT !.pc = "read", !.kind = k, !.file = f] \in WriterType
  BY DEF WriterIdle, WriterType
<1>3. /\ writer' \in [Writers -> WriterType]
      /\ writer'[w] = [WriterIdle EXCEPT !.pc = "read", !.kind = k, !.file = f]
      /\ \A v \in Writers \ {w} : writer'[v] = writer[v]
  BY <1>1, <1>2 DEF MoveInv, Typed
<1>4. writer'[w].pc = "read" /\ writer'[w].kind = "creation" /\ writer'[w].file = f
  BY <1>1, <1>3 DEF WriterIdle
<1>5. Typed'
  BY <1>1, <1>3 DEF MoveInv, Typed
<1>6. TurnsTaken'
  BY <1>1, <1>3, <1>4 DEF MoveInv, TurnsTaken, Ready
<1>7. MoveOnItsWay' /\ FormOnItsWay' /\ LibraryFound'
  BY <1>1 DEF MoveInv, MoveOnItsWay, FormOnItsWay, LibraryFound, Copied, Opened, Recovers
<1>8. WritersAtHome'
  BY <1>1, <1>3, <1>4 DEF MoveInv, WritersAtHome
<1> QED
  BY <1>5, <1>6, <1>7, <1>8 DEF MoveInv

\* A crash forgets who was doing what: the launch that follows meets what
\* the move had left, which LibraryFound says is enough.
LEMMA CrashStep ==
  ASSUME MoveInv, Crash
  PROVE  MoveInv'
<1>1. /\ UNCHANGED <<content, stored, marker, rows, risks>> /\ mover' = MoverIdle
      /\ form' = Launching /\ writer' = [w \in Writers |-> WriterIdle]
  BY DEF Crash, disk, setting
<1>2. mover' \in MoverType /\ form' \in FormType /\ writer' \in [Writers -> WriterType]
  BY <1>1 DEF MoverIdle, MoverType, Launching, FormIdle, FormType, WriterIdle, WriterType
<1>3. Typed' /\ LibraryFound'
  BY <1>1, <1>2 DEF MoveInv, Typed, LibraryFound, Opened, Recovers
<1>4. /\ mover'.pc = "idle" /\ form'.pc = "probe" /\ form'.task = "launch"
      /\ \A w \in Writers : writer'[w].pc = "idle"
  BY <1>1 DEF MoverIdle, Launching, FormIdle, WriterIdle
<1>5. TurnsTaken' /\ MoveOnItsWay' /\ FormOnItsWay' /\ WritersAtHome'
  BY <1>4 DEF TurnsTaken, MoveOnItsWay, FormOnItsWay, WritersAtHome
<1> QED
  BY <1>3, <1>5 DEF MoveInv

LEMMA NextMove == MoveInv /\ [Next]_vars => MoveInv'
<1> SUFFICES ASSUME MoveInv, [Next]_vars PROVE MoveInv'
  OBVIOUS
<1>1. CASE \E d \in Dirs : StartMove(d)
  BY <1>1, StartStep
<1>2. CASE Move
  BY <1>2, CopySteps, MarkerStep, RemovalSteps, ReleaseStep, StoreStep, ClearStep, QueueStep
     DEF Move
<1>3. CASE StartToggle
  BY <1>3, ToggleStep
<1>4. CASE Form
  BY <1>4, SettleSteps, LoadSteps, AdoptStep, UnmarkStep, SaveSteps DEF Form
<1>5. CASE \E w \in Writers, k \in {"creation", "picked", "avatar"}, f \in Files :
             StartWrite(w, k, f)
  BY <1>5, WriteStep
<1>6. CASE \E w \in Writers : WriterAdvances(w)
  BY <1>6, WriterMoves
<1>7. CASE Crash
  BY <1>7, CrashStep
<1>8. CASE UNCHANGED vars
  <2>1. UNCHANGED <<content, stored, marker, rows, mover, form, writer, risks>>
    BY <1>8 DEF vars, disk, counters, setting
  <2>2. Typed' /\ TurnsTaken' /\ LibraryFound'
    BY <2>1 DEF MoveInv, Typed, TurnsTaken, Ready, LibraryFound, Opened, Recovers
  <2>3. MoveOnItsWay' /\ FormOnItsWay' /\ WritersAtHome'
    BY <2>1 DEF MoveInv, MoveOnItsWay, Copied, FormOnItsWay, WritersAtHome, Recovers
  <2> QED
    BY <2>2, <2>3 DEF MoveInv
<1> QED
  BY <1>1, <1>2, <1>3, <1>4, <1>5, <1>6, <1>7, <1>8 DEF Next

(***************************************************************************)
(* The results.                                                            *)
(***************************************************************************)
\* However often the library is moved, and at whatever step the process dies,
\* the folder the next launch opens holds every file the database names: the
\* copy, its check, the commit marker, the removal and the stored path
\* (services/library/migration.rs) come in an order that leaves no moment
\* without a complete library behind the settings or behind the marker.
THEOREM MovedLibraryFound ==
  ASSUME CalmScenarios
  PROVE  Spec => []LibraryFound
<1>1. Init => MoveInv
  BY InitMove
<1>2. MoveInv => LibraryFound
  BY DEF MoveInv
<1> QED
  BY <1>1, <1>2, NextMove, PTL DEF Spec

\* What a step takes out of a folder is in the folder a launch would open:
\* only the removal takes anything, from a folder whose copy is complete and
\* whose marker names that copy.
LEMMA StepLosesNothing ==
  ASSUME MoveInv, [Next]_vars, NEW d \in Dirs
  PROVE  content[d] \ content'[d] \subseteq content'[Opened']
<1>1. CASE content[d] \subseteq content'[d]
  BY <1>1
<1>2. CASE RemoveFile
  <2>1. mover.pc = "remove" /\ UNCHANGED <<stored, marker>>
    BY <1>2 DEF RemoveFile
  <2>2. /\ marker = [to |-> mover.to, from |-> mover.from] /\ stored = mover.from
        /\ content[mover.from] \subseteq content[mover.to] /\ mover.from # mover.to
        /\ marker # NoMarker
    BY <2>1, MoveFacts DEF Copied
  <2>3. PICK f \in content[mover.from] : content' = [content EXCEPT ![mover.from] = @ \ {f}]
    BY <1>2 DEF RemoveFile
  <2>4. /\ content'[mover.to] = content[mover.to] /\ f \in content'[mover.to]
        /\ content[d] \ content'[d] \subseteq {f}
    BY <2>1, <2>2, <2>3, MoveFacts
  <2>5. Opened' = mover.to
    BY <2>1, <2>2, <2>4 DEF Opened, Recovers
  <2> QED
    BY <2>4, <2>5
<1>3. CASE ~RemoveFile
  <2>1. content \in [Dirs -> SUBSET Files]
    BY DEF MoveInv, Typed
  <2>2. CASE UNCHANGED content
    BY <1>1, <2>2
  <2>3. CASE CopyContents
    BY <1>1, <2>1, <2>3 DEF CopyContents
  <2>4. CASE \E w \in Writers : WriteFile(w)
    BY <1>1, <2>1, <2>4 DEF WriteFile
  <2>5. \/ UNCHANGED content \/ CopyContents \/ \E w \in Writers : WriteFile(w)
    <3>1. CASE Move
      BY <1>3, <3>1 DEF Move, AcquireGate, CheckCopy, WriteMarker, EndRemoval, ReleaseGate,
         StorePath, ClearAfterStore, QueuePathSave, disk
    <3>2. CASE Form
      BY <3>2 DEF Form, Probe, ReadStored, Evaluate, Adopt, Unmark, Load, Compare, Save,
         ClearAfterSave, disk
    <3>3. CASE \E w \in Writers : WriterAdvances(w)
      BY <3>3 DEF WriterAdvances, ReadLibrary, BeginPass, TakeGuard, AddRow, disk
    <3>4. CASE \/ \E e \in Dirs : StartMove(e)
               \/ StartToggle \/ Crash \/ UNCHANGED vars
               \/ \E w \in Writers, k \in {"creation", "picked", "avatar"}, f \in Files :
                     StartWrite(w, k, f)
      BY <3>4 DEF StartMove, StartToggle, Crash, StartWrite, disk, vars
    <3> QED
      BY <3>1, <3>2, <3>3, <3>4 DEF Next
  <2> QED
    BY <2>2, <2>3, <2>4, <2>5
<1> QED
  BY <1>2, <1>3

\* A file leaves a folder only when the folder the next launch would open has
\* it, registered in the database or not (remove_old_library_contents runs behind
\* first_incomplete_copy and the commit marker).
THEOREM MovesLoseNothing ==
  ASSUME CalmScenarios
  PROVE  Spec => MoveLosesNothing
<1>1. Init => MoveInv
  BY InitMove
<1>2. MoveInv /\ [Next]_vars => \A d \in Dirs : content[d] \ content'[d] \subseteq content'[Opened']
  BY StepLosesNothing
<1> QED
  BY <1>1, <1>2, NextMove, PTL DEF Spec, MoveLosesNothing

=============================================================================
