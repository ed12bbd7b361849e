------------------------------ MODULE Previews ------------------------------
(***************************************************************************)
(* The preview folder of the cache: thumbnails FFmpeg makes of a media the *)
(* user chose, images the user picked, staged there, what uses them, and   *)
(* the startup sweep by age (services/thumbnail/temp.rs, picked.rs,        *)
(* generate_and_store_thumbnail of services/media_creation.rs,             *)
(* commands/thumbnail.rs, cleanup_dir_children of temp_cleanup.rs).        *)
(*                                                                         *)
(* A file is named after the content it was made from, and one that is     *)
(* there is answered without another look at it.  The chosen file is the   *)
(* user's and may change at any time.                                      *)
(***************************************************************************)
EXTENDS Naturals, FiniteSets

CONSTANTS
    Makers,                 \* calls under way: a form's preview, an import, a picked image
    Versions,               \* the contents the chosen file may have
    PREVIEW_PERMITS, PREVIEW_IN_FLIGHT,   \* PREVIEW_SEMAPHORE
    Troubles                \* bound: [edits, deaths, refusals] of a behaviour

VARIABLES
    chosen,      \* the content of the chosen file
    previews,    \* the folder: [name, kind, by, of, whole, old, left]
    maker,       \* Makers -> [pc, how, name]
    gate,        \* PREVIEW_SEMAPHORE: [running, inFlight]
    swept,       \* this launch's sweep is over
    trouble,     \* what remains of the budget
    persisted,   \* the images the library was given
    changed,     \* history: names whose source changed after it was hashed
    gone         \* history: calls whose answer was removed, for another of the same content or for its age

vars == <<chosen, previews, maker, gate, swept, trouble, persisted, changed, gone>>

None == "none"
Idle == [pc |-> "idle", how |-> None, name |-> None]
Refused == trouble.refusals > 0 /\ trouble' = [trouble EXCEPT !.refusals = @ - 1]

Init ==
    /\ chosen \in Versions
    /\ previews = {}
    /\ maker = [m \in Makers |-> Idle]
    /\ gate = [running |-> 0, inFlight |-> 0]
    /\ swept = FALSE
    /\ trouble \in Troubles
    /\ persisted = {} /\ changed = {} /\ gone = {}

Goes(m, pc) == maker' = [maker EXCEPT ![m].pc = pc]

\* A form's preview holds a permit until it is answered, whatever the answer.
Releases(m) ==
    gate' = IF maker[m].how = "preview"
            THEN [running |-> gate.running - 1, inFlight |-> gate.inFlight - 1] ELSE gate
Over == [Idle EXCEPT !.pc = "over"]     \* bound: each call once a launch
Fails(m) == maker' = [maker EXCEPT ![m] = Over] /\ Releases(m)

\* the staged copy and the preview never share a name
KindOf(m) == IF maker[m].how = "picked" THEN "staged" ELSE "preview"
Final(m) == {f \in previews : f.kind = KindOf(m) /\ f.name = maker[m].name}

\* Mutant: two runs for one content write under one name.
OnePartial(m) == {f \in previews : f.kind = "partial" /\ f.name = maker[m].name}

partial_thumbnail_file_name(m) == {f \in previews : f.kind = "partial" /\ f.by = m /\ ~f.left}

Writes(m, of, whole) ==
    [name |-> maker[m].name, kind |-> "partial", by |-> m, of |-> of, whole |-> whole, old |-> FALSE, left |-> FALSE]

(***************************************************************************)
(* Making one.                                                             *)
(***************************************************************************)

\* commands/thumbnail.rs: too many at once are refused; an import and a staging take no permit.
generate_temporary_thumbnail(m) ==
    /\ maker[m].pc = "idle"
    /\ \/ /\ gate.inFlight < PREVIEW_IN_FLIGHT
          /\ gate' = [gate EXCEPT !.inFlight = @ + 1]
          /\ maker' = [maker EXCEPT ![m] = [Idle EXCEPT !.pc = "wait", !.how = "preview"]]
       \/ /\ \E how \in {"import", "picked"} :
                maker' = [maker EXCEPT ![m] = [Idle EXCEPT !.pc = "hash", !.how = how]]
          /\ UNCHANGED gate
    /\ UNCHANGED <<chosen, previews, swept, trouble, persisted, changed, gone>>

PREVIEW_SEMAPHORE(m) ==
    /\ maker[m].pc = "wait"
    /\ gate.running < PREVIEW_PERMITS
    /\ gate' = [gate EXCEPT !.running = @ + 1]
    /\ Goes(m, "hash")
    /\ UNCHANGED <<chosen, previews, swept, trouble, persisted, changed, gone>>

\* The whole file is read to name what is made of it.
Names(m) ==
    /\ \/ maker' = [maker EXCEPT ![m].name = chosen, ![m].pc = "named"] /\ UNCHANGED gate
       \/ Fails(m)
    /\ UNCHANGED <<chosen, previews, swept, trouble, persisted, changed, gone>>

\* A source that is refused or cannot be read ends here, and an import that was cancelled meanwhile.
file_hash_cancellable(m) == maker[m].pc = "hash" /\ maker[m].how # "picked" /\ Names(m)

\* An image that is too large, or none by its bytes, ends here.
validate_picked_thumbnail_path(m) == maker[m].pc = "hash" /\ maker[m].how = "picked" /\ Names(m)

\* What is there is answered as it is; otherwise another file starts to be written.
Reuses(m) ==
    /\ IF Final(m) # {}
       THEN Goes(m, "shown") /\ Releases(m) /\ UNCHANGED previews
       ELSE /\ Goes(m, "run")
            /\ previews' = (previews \ partial_thumbnail_file_name(m)) \cup {Writes(m, maker[m].name, FALSE)}
            /\ UNCHANGED gate
    /\ UNCHANGED <<chosen, swept, trouble, persisted, changed, gone>>

\* FFmpeg starts
generate_temporary_thumbnail_cancellable_sync(m) ==
    maker[m].pc = "named" /\ maker[m].how # "picked" /\ Reuses(m)

\* the copy starts, under a scratch name of its own
stage_manual_thumbnail_sync(m) == maker[m].pc = "named" /\ maker[m].how = "picked" /\ Reuses(m)

\* It ends with a whole image of what it read, or fails, is killed at its deadline, or leaves
\* nothing of use.
run_tracked_ffmpeg(m) ==
    /\ maker[m].pc = "run"
    /\ \/ /\ previews' = (previews \ partial_thumbnail_file_name(m)) \cup {Writes(m, chosen, TRUE)}
          /\ Goes(m, "place")
       \/ Goes(m, "failed") /\ UNCHANGED previews
    /\ UNCHANGED <<chosen, gate, swept, trouble, persisted, changed, gone>>

RemovePartial(m) ==
    /\ maker[m].pc = "failed"
    /\ \/ previews' = previews \ partial_thumbnail_file_name(m) /\ UNCHANGED trouble
       \/ /\ Refused
          /\ previews' = (previews \ partial_thumbnail_file_name(m))
                 \cup {[f EXCEPT !.left = TRUE] : f \in partial_thumbnail_file_name(m)}
    /\ Fails(m)
    /\ UNCHANGED <<chosen, swept, persisted, changed, gone>>

\* Mutant: FFmpeg's file is taken as it stands when the call gives up on it.
EvenPartOfIt(m) == maker[m].pc \in {"place", "failed"}

Finished(m) == maker[m].pc = "place"

rename_retrying(m) ==
    /\ Finished(m)
    /\ \/ /\ previews' = (previews \ (Final(m) \cup partial_thumbnail_file_name(m)))
                 \cup {[f EXCEPT !.kind = KindOf(m), !.by = None] : f \in partial_thumbnail_file_name(m)}
          /\ Goes(m, "shown") /\ Releases(m)
          /\ UNCHANGED trouble
       \/ Refused /\ Goes(m, "failed") /\ UNCHANGED <<previews, gate>>
    /\ UNCHANGED <<chosen, swept, persisted, changed, gone>>

(***************************************************************************)
(* Using one.                                                              *)
(***************************************************************************)

\* An import stores what it made; a form may, when its media is created.
persist_thumbnail_file(m) ==
    /\ maker[m].pc = "shown"
    /\ persisted' = persisted \cup {[whole |-> f.whole, of |-> f.of, name |-> f.name] : f \in Final(m)}
    /\ maker' = [maker EXCEPT ![m].pc = "drop"]
    /\ UNCHANGED <<chosen, previews, gate, swept, trouble, changed, gone>>

\* An import's is removed whether it was stored or not, a form's when it is put aside. Another call
\* may have been answered with the same file.
delete_temporary_thumbnail_sync(m) ==
    /\ maker[m].pc = "drop" \/ (maker[m].pc = "shown" /\ maker[m].how # "import")
    /\ \/ /\ previews' = previews \ Final(m)
          /\ gone' = (gone \cup {k \in Makers : maker[k].pc = "shown" /\ Final(k) = Final(m)}) \ {m}
          /\ UNCHANGED trouble
       \/ Refused /\ gone' = gone \ {m} /\ UNCHANGED previews
    /\ maker' = [maker EXCEPT ![m] = Over]
    /\ UNCHANGED <<chosen, gate, swept, persisted, changed>>

(***************************************************************************)
(* The user's file, and the life of the process.                           *)
(***************************************************************************)

Edit ==
    /\ trouble.edits > 0
    /\ trouble' = [trouble EXCEPT !.edits = @ - 1]
    /\ chosen' \in Versions \ {chosen}
    /\ changed' = changed \cup {maker[m].name : m \in {k \in Makers : maker[k].pc \in {"named", "run"}}}
    /\ UNCHANGED <<previews, maker, gate, swept, persisted, gone>>

\* The app dies and is started again, at once or a week later. FFmpeg goes with it.
AppDies ==
    /\ trouble.deaths > 0
    /\ trouble' = [trouble EXCEPT !.deaths = @ - 1]
    /\ maker' = [m \in Makers |-> Idle]
    /\ gate' = [running |-> 0, inFlight |-> 0]
    /\ swept' = FALSE
    /\ \E weekLater \in BOOLEAN :
          previews' = {[f EXCEPT !.left = f.kind = "partial", !.old = @ \/ weekLater] : f \in previews}
    /\ gone' = {}
    /\ UNCHANGED <<chosen, persisted, changed>>

is_older_than_threshold(f) == f.old

\* Half a minute into the session, by age alone: an old preview may just have been answered again.
cleanup_dir_children ==
    /\ ~swept
    /\ swept' = TRUE
    /\ LET out == {f \in previews : is_older_than_threshold(f)}
       IN  \E held \in SUBSET out :
             /\ IF held = {} THEN UNCHANGED trouble ELSE Refused
             /\ previews' = (previews \ out) \cup held
             /\ gone' = gone \cup {m \in Makers : maker[m].pc = "shown" /\ Final(m) \cap (out \ held) # {}}
    /\ UNCHANGED <<chosen, maker, gate, persisted, changed>>

Next ==
    \/ \E m \in Makers :
          \/ generate_temporary_thumbnail(m) \/ PREVIEW_SEMAPHORE(m) \/ file_hash_cancellable(m)
          \/ validate_picked_thumbnail_path(m) \/ generate_temporary_thumbnail_cancellable_sync(m)
          \/ stage_manual_thumbnail_sync(m) \/ run_tracked_ffmpeg(m) \/ RemovePartial(m)
          \/ rename_retrying(m) \/ persist_thumbnail_file(m) \/ delete_temporary_thumbnail_sync(m)
    \/ Edit \/ AppDies \/ cleanup_dir_children

Spec == Init /\ [][Next]_vars

-----------------------------------------------------------------------------
\* What is answered, and what the library is given, is a whole image of the content its name tells,
\* unless the user's file changed after it was hashed; and an answer stands until its file is
\* removed for another call of the same content or for its age.
PreviewsWhole ==
    /\ \A f \in {g \in previews : g.kind # "partial"} \cup persisted :
          f.whole /\ (f.of = f.name \/ f.name \in changed)
    /\ \A m \in Makers : maker[m].pc = "shown" => Final(m) # {} \/ m \in gone

\* What FFmpeg writes is there only while its call is, unless the app died or the removal was
\* refused; and a run under way keeps its file.
PartialsGone ==
    /\ \A f \in previews : f.kind = "partial" /\ ~f.left => maker[f.by].pc \in {"run", "place", "failed"}
    /\ \A m \in Makers : maker[m].pc = "place" => partial_thumbnail_file_name(m) # {}

\* Every permit and every place in the queue comes back.
PreviewsCounted ==
    LET of(pcs) == Cardinality({m \in Makers : maker[m].how = "preview" /\ maker[m].pc \in pcs})
        working == {"hash", "named", "run", "place", "failed"}
    IN  gate = [running |-> of(working), inFlight |-> of(working \cup {"wait"})]
=============================================================================
