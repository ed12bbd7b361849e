--------------------------- MODULE PlayerProgress ---------------------------
(***************************************************************************)
(* How far a media was watched: the position the player remembers and      *)
(* saves (hooks/media/use-media-progress-persistence.ts), the copies of    *)
(* the row that the list and the player hold (use-media-library.ts,        *)
(* use-media-player.ts, hooks/home/use-home-player-actions.ts), and the    *)
(* row itself (services/video_repository/mod.rs).                          *)
(*                                                                         *)
(* Saves and marks are sent, take effect and are answered at three         *)
(* moments, those of other requests between them and in any order.         *)
(***************************************************************************)
EXTENDS Naturals, FiniteSetsExt

CONSTANTS
    Media,
    End,               \* the positions of a media are 0 .. End
    ProgressBudgets    \* bound: [opens, moves, marks, failures], the most of each in one behaviour

VARIABLES
    row,       \* the media in the database: pos and watched
    item,      \* the copy of it in the list
    active,    \* the copy of it in the player, or none
    view,      \* the mounted player: the last position seen, what was loaded and reported
    pending,   \* positions to put in the list when the player closes
    saves,     \* in flight
    marks,     \* in flight
    left,      \* what the budget of this behaviour still allows
    final,     \* history: the position the player showed last, unless the media was marked since
    disorder,  \* history: media whose requests overtook one another, or failed
    relisted   \* history: media whose late save was listed although it is watched

vars == <<row, item, active, view, pending, saves, marks, left, final, disorder, relisted>>
history == <<final, disorder, relisted>>

NoPosition == End + 1
NoMedia == [media |-> 0, pos |-> 0, watched |-> FALSE]
NoView == [last |-> 0, loaded |-> FALSE, completed |-> FALSE]

Init ==
    /\ row \in [Media -> {[pos |-> 0, watched |-> FALSE], [pos |-> 1, watched |-> FALSE],
                          [pos |-> 0, watched |-> TRUE]}]
    /\ item = row
    /\ active = NoMedia /\ view = NoView
    /\ pending = [m \in Media |-> NoPosition]
    /\ saves = {} /\ marks = {}
    /\ left \in ProgressBudgets
    /\ final = pending /\ disorder = {} /\ relisted = {}

isOpen == active.media # 0
Marking(m) == \E k \in marks : k.media = m

(***************************************************************************)
(* The player remembers a position and saves it.                           *)
(***************************************************************************)

\* the order among those of a media in flight, as they were sent and as they took effect
After(turns) == Max({0} \cup turns) + 1

Save(m, p, back) ==
    [media |-> m, pos |-> p, back |-> back, done |-> 0,
     turn |-> After({s.turn : s \in {t \in saves : t.media = m}})]

\* a watched media has no position to save
persistProgress(p) ==
    IF isOpen /\ ~active.watched THEN {Save(active.media, p, FALSE)} ELSE {}

\* Mutant: the last position starts at the beginning.
seededAtStart(m) == 0

\* an early close saves what was stored
seeded(m) == IF item[m].watched THEN 0 ELSE item[m].pos

openPlayer(m) ==
    /\ ~isOpen /\ left.opens > 0
    /\ left' = [left EXCEPT !.opens = @ - 1]
    /\ active' = [media |-> m, pos |-> item[m].pos, watched |-> item[m].watched]
    /\ view' = [last |-> seeded(m), loaded |-> FALSE, completed |-> FALSE]
    /\ final' = [final EXCEPT ![m] = IF item[m].watched \/ Marking(m) THEN NoPosition ELSE item[m].pos]
    /\ UNCHANGED <<row, item, pending, saves, marks, disorder, relisted>>

\* the media element reports a position
remember(p) ==
    /\ isOpen /\ left.moves > 0
    /\ left' = [left EXCEPT !.moves = @ - 1]
    /\ view' = [view EXCEPT !.last = p, !.loaded = TRUE]
    /\ final' = [final EXCEPT ![active.media] =
                    IF active.watched \/ Marking(active.media) THEN NoPosition ELSE p]

\* saved at most every ten seconds
handleTimeUpdate(p) ==
    /\ remember(p)
    /\ \/ UNCHANGED saves
       \/ saves' = saves \cup persistProgress(p)
    /\ UNCHANGED <<row, item, active, pending, marks, disorder, relisted>>

\* a pause, a seek
handleFlush(p) ==
    /\ remember(p)
    /\ saves' = saves \cup persistProgress(p)
    /\ UNCHANGED <<row, item, active, pending, marks, disorder, relisted>>

\* the window is hidden
handleHide ==
    /\ isOpen /\ left.moves > 0
    /\ left' = [left EXCEPT !.moves = @ - 1]
    /\ saves' = saves \cup persistProgress(view.last)
    /\ UNCHANGED <<row, item, active, view, pending, marks, history>>

Mark(m, w) == [media |-> m, watched |-> w, done |-> 0]

\* the end is reported once as completion and otherwise saved as any position
handleEnded ==
    /\ isOpen /\ left.moves > 0
    /\ left' = [left EXCEPT !.moves = @ - 1]
    /\ IF ~active.watched /\ ~view.completed
       THEN /\ view' = [last |-> End, loaded |-> TRUE, completed |-> TRUE]
            /\ marks' = marks \cup (IF Marking(active.media) THEN {} ELSE {Mark(active.media, TRUE)})
            /\ final' = [final EXCEPT ![active.media] = NoPosition]
            /\ UNCHANGED saves
       ELSE /\ view' = [view EXCEPT !.last = End, !.loaded = TRUE]
            /\ saves' = saves \cup persistProgress(End)
            /\ final' = [final EXCEPT ![active.media] =
                            IF active.watched \/ Marking(active.media) THEN NoPosition ELSE End]
            /\ UNCHANGED marks
    /\ UNCHANGED <<row, item, active, pending, disorder, relisted>>

(***************************************************************************)
(* The player closes.                                                      *)
(***************************************************************************)

\* Mutant: a watched row is given the position too.
overAnyRow(stash, list) ==
    [m \in Media |-> IF stash[m] = NoPosition THEN list[m] ELSE [list[m] EXCEPT !.pos = stash[m]]]

\* what was stashed while it played goes into the list, a watched row excepted
reconciled(stash, list) ==
    [m \in Media |-> IF stash[m] = NoPosition \/ list[m].watched THEN list[m]
                     ELSE [list[m] EXCEPT !.pos = stash[m]]]

\* the view saves its last position as it goes
closed(stash, list, inFlight) ==
    IF ~isOpen THEN pending' = stash /\ item' = list /\ saves' = inFlight /\ UNCHANGED <<active, view>>
    ELSE /\ active' = NoMedia /\ view' = NoView
         /\ saves' = inFlight \cup persistProgress(view.last)
         /\ item' = reconciled(stash, list)
         /\ pending' = [m \in Media |-> NoPosition]

\* another channel, a jump, a delete
closePlayer ==
    /\ isOpen
    /\ closed(pending, item, saves)
    /\ UNCHANGED <<row, marks, left, history>>

\* the Back button saves where the element is, which is at the start until it has loaded, and closes
\* when that is answered
Back ==
    /\ isOpen /\ ~active.watched
    /\ \A s \in saves : s.back => s.media # active.media         \* bound: pressed once
    /\ saves' = saves \cup {Save(active.media, IF view.loaded THEN view.last ELSE 0, TRUE)}
    /\ UNCHANGED <<row, item, active, view, pending, marks, left, history>>

(***************************************************************************)
(* The requests.                                                           *)
(***************************************************************************)

\* Mutant: a late save reaches a row that is watched.
AnyRow(s) == [row EXCEPT ![s.media].pos = s.pos]

\* a watched row has no position
update_media_progress(s) == IF row[s.media].watched THEN row ELSE [row EXCEPT ![s.media].pos = s.pos]

Effect(m) == After({q.done : q \in {t \in saves \cup marks : t.media = m}})

SaveDone(s) ==
    /\ s \in saves /\ s.done = 0
    /\ row' = update_media_progress(s)
    /\ saves' = (saves \ {s}) \cup {[s EXCEPT !.done = Effect(s.media)]}
    /\ disorder' = IF \E t \in saves : t.media = s.media /\ t.done = 0 /\ t.turn < s.turn
                   THEN disorder \cup {s.media} ELSE disorder
    /\ UNCHANGED <<item, active, view, pending, marks, left, final, relisted>>

\* answers come in the order the requests took effect
Overtakes(q) == \E t \in saves \cup marks : t.media = q.media /\ t.done \in 1 .. q.done - 1

saveMediaProgress(s) ==
    /\ s \in saves /\ s.done > 0
    /\ disorder' = IF Overtakes(s) THEN disorder \cup {s.media} ELSE disorder
    /\ LET playing == active.media = s.media
           stash == IF playing THEN [pending EXCEPT ![s.media] = s.pos] ELSE pending
           list == IF playing THEN item ELSE [item EXCEPT ![s.media].pos = s.pos]
       IN /\ relisted' = IF ~playing /\ item[s.media].watched THEN relisted \cup {s.media} ELSE relisted
          /\ IF s.back THEN closed(stash, list, saves \ {s})
             ELSE /\ pending' = stash /\ item' = list /\ saves' = saves \ {s}
                  /\ active' = IF playing THEN [active EXCEPT !.pos = s.pos] ELSE active
                  /\ UNCHANGED view
    /\ UNCHANGED <<row, marks, left, final>>

SaveFails(s) ==
    /\ s \in saves /\ s.done = 0 /\ left.failures > 0
    /\ left' = [left EXCEPT !.failures = @ - 1]
    /\ disorder' = disorder \cup {s.media}
    /\ IF s.back THEN closed(pending, item, saves \ {s})
       ELSE saves' = saves \ {s} /\ UNCHANGED <<item, active, view, pending>>
    /\ UNCHANGED <<row, marks, final, relisted>>

\* the button of the card while the player is closed, the one of the player while it is open
SendMark(m) ==
    /\ left.marks > 0 /\ ~Marking(m)
    /\ active.media \in {0, m}
    /\ left' = [left EXCEPT !.marks = @ - 1]
    /\ marks' = marks \cup {Mark(m, ~(IF isOpen THEN active.watched ELSE item[m].watched))}
    /\ final' = [final EXCEPT ![m] = NoPosition]
    /\ UNCHANGED <<row, item, active, view, pending, saves, disorder, relisted>>

\* Mutant: the position of a watched row stays.
FlagOnly(r, w) == [r EXCEPT !.watched = w]

\* mark_media_as_watched puts the row back to its start, mark_media_as_unwatched leaves it there
Marked(r, w) == [r EXCEPT !.watched = w, !.pos = IF w THEN 0 ELSE @]

MarkDone(k) ==
    /\ k \in marks /\ k.done = 0
    /\ row' = [row EXCEPT ![k.media] = Marked(@, k.watched)]
    /\ marks' = (marks \ {k}) \cup {[k EXCEPT !.done = Effect(k.media)]}
    /\ UNCHANGED <<item, active, view, pending, saves, left, final, disorder, relisted>>

\* the copies follow
MarkAnswered(k) ==
    /\ k \in marks /\ k.done > 0
    /\ marks' = marks \ {k}
    /\ item' = [item EXCEPT ![k.media] = Marked(@, k.watched)]
    /\ active' = IF active.media = k.media THEN Marked(active, k.watched) ELSE active
    /\ disorder' = IF Overtakes(k) THEN disorder \cup {k.media} ELSE disorder
    /\ UNCHANGED <<row, view, pending, saves, left, final, relisted>>

MarkFails(k) ==
    /\ k \in marks /\ k.done = 0 /\ left.failures > 0
    /\ left' = [left EXCEPT !.failures = @ - 1]
    /\ marks' = marks \ {k}
    /\ UNCHANGED <<row, item, active, view, pending, saves, history>>

Next ==
    \/ \E m \in Media : openPlayer(m) \/ SendMark(m)
    \/ \E p \in 0 .. End : handleTimeUpdate(p) \/ handleFlush(p)
    \/ handleHide \/ handleEnded \/ closePlayer \/ Back
    \/ \E s \in saves : SaveDone(s) \/ saveMediaProgress(s) \/ SaveFails(s)
    \/ \E k \in marks : MarkDone(k) \/ MarkAnswered(k) \/ MarkFails(k)

Spec == Init /\ [][Next]_vars

(***************************************************************************)
(* Properties.                                                             *)
(***************************************************************************)

Quiet == ~isOpen /\ saves = {} /\ marks = {}

\* A watched media starts from its beginning, however late a save of its position takes effect.
WatchedFromStart == \A m \in Media : row[m].watched => row[m].pos = 0

\* When the player is closed and its saves are in, in the order they were sent, the row of a media
\* that was not marked since has the position the player showed last.
PositionKept ==
    Quiet => \A m \in Media \ disorder :
       final[m] # NoPosition /\ ~row[m].watched => row[m].pos = final[m]

\* The list then shows what a reload would, except after a late save that was listed for a watched
\* media (README 6.2).
ListTells == Quiet => \A m \in Media \ (disorder \cup relisted) : item[m] = row[m]
=============================================================================
