----------------------------- MODULE AddMediaRun -----------------------------
(***************************************************************************)
(* Adding a media from the modal: the formats that are loaded for an       *)
(* address (hooks/use-yt-dlp-format-loader.ts), the creation that is sent  *)
(* and followed through its download, its row and its comments             *)
(* (hooks/use-add-media-workflow.ts, services/media-service.ts), the       *)
(* terminal and the events that stop it (hooks/use-yt-dlp-events.ts), and  *)
(* the Cancel that finds the run by its id.                                *)
(*                                                                         *)
(* Events and answers travel apart, and a run is known to the backend a    *)
(* moment after it was asked for.                                          *)
(***************************************************************************)
EXTENDS Naturals, FiniteSets

CONSTANTS
    Urls,
    RunBudgets         \* bound: [opens, edits, adds, cancels, selects], the most of each in one behaviour

VARIABLES
    addMediaOpen,
    form,          \* the source, the address, and the address the formats were loaded for
    loader,        \* the load in flight, if any, whether it is current and registered
    terminal,      \* the run it follows, whether that is running, how it ended
    creation,      \* the media being added
    refs,          \* localImportRunIdRef, commentsRunIdRef
    registry,      \* the runs the backend knows
    stopped,       \* the runs it was told to stop
    events,        \* of runs that ended, on their way
    cancels,       \* on their way, and between their two tries
    isCancelling,
    left,          \* what the budget of this behaviour still allows
    pressed        \* history: the runs Cancel was pressed for while the modal showed them

vars == <<addMediaOpen, form, loader, terminal, creation, refs, registry, stopped, events, cancels,
          isCancelling, left, pressed>>
backend == <<registry, stopped, events>>

None == "none"
NoRun == 0
FORMAT_LOADER_RUN_ID == 1
NoForm == [mode |-> "local", url |-> None, formats |-> None]
NoLoad == [busy |-> FALSE, current |-> FALSE, url |-> None, registered |-> FALSE]
NoCreation == [busy |-> FALSE, mode |-> "local", url |-> None, formats |-> None, run |-> NoRun,
               comments |-> NoRun, stage |-> None]

Quiet(outcome) == [run |-> NoRun, running |-> FALSE, outcome |-> outcome]

Init ==
    /\ addMediaOpen = FALSE
    /\ form = NoForm /\ loader = NoLoad
    /\ terminal = Quiet(None)
    /\ creation = NoCreation
    /\ refs = [local |-> NoRun, comments |-> NoRun]
    /\ registry = {} /\ stopped = {} /\ events = {} /\ cancels = {}
    /\ isCancelling = FALSE
    /\ left \in RunBudgets
    /\ pressed = {}

isYtDlpRunning == terminal.running
isModalLocked == creation.busy \/ isYtDlpRunning \/ isCancelling \/ loader.busy

(***************************************************************************)
(* The form.                                                               *)
(***************************************************************************)

startRun(run) == [run |-> run, running |-> TRUE, outcome |-> None]

\* Mutant: another address keeps the formats there are.
FormatsKept == form.formats

FormatsAfterEdit == None

\* the formats and the terminal were of the address before
edited(f) ==
    /\ form' = f
    /\ loader' = [loader EXCEPT !.current = FALSE]
    /\ terminal' = Quiet(None)

OpenModal ==
    /\ ~addMediaOpen /\ left.opens > 0
    /\ left' = [left EXCEPT !.opens = @ - 1]
    /\ addMediaOpen' = TRUE
    /\ edited(NoForm)
    /\ UNCHANGED <<creation, refs, backend, cancels, isCancelling, pressed>>

closeAddMediaModal ==
    /\ addMediaOpen /\ ~isModalLocked
    /\ addMediaOpen' = FALSE
    /\ edited(NoForm)
    /\ isCancelling' = FALSE
    /\ UNCHANGED <<creation, refs, backend, cancels, left, pressed>>

setMediaUrl(u) ==
    /\ addMediaOpen /\ ~isModalLocked /\ left.edits > 0 /\ form.url # u
    /\ left' = [left EXCEPT !.edits = @ - 1]
    /\ edited([mode |-> "yt-dlp", url |-> u, formats |-> FormatsAfterEdit])
    /\ UNCHANGED <<addMediaOpen, creation, refs, backend, cancels, isCancelling, pressed>>

\* Mutant: a selection changed from elsewhere closes whatever there is.
AnyModal == TRUE

\* a creation in flight keeps its modal and its terminal
mayClose == ~creation.busy /\ ~isYtDlpRunning

SelectChannel ==
    /\ mayClose /\ left.selects > 0
    /\ left' = [left EXCEPT !.selects = @ - 1]
    /\ addMediaOpen' = FALSE
    /\ edited(IF addMediaOpen THEN NoForm ELSE form)
    /\ isCancelling' = FALSE
    /\ UNCHANGED <<creation, refs, backend, cancels, pressed>>

(***************************************************************************)
(* The formats of an address.                                              *)
(***************************************************************************)

loadYtDlpFormats ==
    /\ addMediaOpen /\ ~isModalLocked /\ form.url # None
    /\ loader' = [busy |-> TRUE, current |-> TRUE, url |-> form.url, registered |-> FALSE]
    /\ terminal' = startRun(FORMAT_LOADER_RUN_ID)
    /\ UNCHANGED <<addMediaOpen, form, creation, refs, backend, cancels, isCancelling, left, pressed>>

LoadRegistered ==
    /\ loader.busy /\ ~loader.registered
    /\ loader' = [loader EXCEPT !.registered = TRUE]
    /\ registry' = registry \cup {FORMAT_LOADER_RUN_ID}
    /\ UNCHANGED <<addMediaOpen, form, terminal, creation, refs, stopped, events, cancels, isCancelling,
                   left, pressed>>

\* Mutant: the terminal of a load that failed is not stopped.
StillRunning(outcome) == IF outcome = "failed" THEN terminal ELSE Quiet(outcome)

markStopped(outcome) == Quiet(outcome)

\* a load that was stopped fails
LoadAnswered(found) ==
    /\ loader.busy /\ loader.registered
    /\ found => FORMAT_LOADER_RUN_ID \notin stopped
    /\ loader' = NoLoad
    /\ registry' = registry \ {FORMAT_LOADER_RUN_ID}
    /\ stopped' = stopped \ {FORMAT_LOADER_RUN_ID}
    /\ IF loader.current
       THEN /\ form' = [form EXCEPT !.formats = IF found THEN loader.url ELSE None]
            /\ terminal' = markStopped(IF found THEN "finished" ELSE "failed")
       ELSE UNCHANGED <<form, terminal>>
    /\ UNCHANGED <<addMediaOpen, creation, refs, events, cancels, isCancelling, left, pressed>>

(***************************************************************************)
(* The creation.                                                           *)
(***************************************************************************)

\* two ids of its own for each creation
RunId == 2 * left.adds
\* Mutant: the comments go under the id of the download.
SameRun == RunId

CommentsRun == 2 * left.adds + 1

addMedia(mode) ==
    /\ addMediaOpen /\ ~isModalLocked /\ left.adds > 0
    /\ mode = "yt-dlp" => form.formats # None
    /\ left' = [left EXCEPT !.adds = @ - 1]
    /\ creation' = [busy |-> TRUE, mode |-> mode, url |-> form.url, formats |-> form.formats,
                    run |-> RunId, comments |-> CommentsRun, stage |-> "sent"]
    /\ refs' = [refs EXCEPT !.local = IF mode = "local" THEN RunId ELSE @]
    /\ terminal' = IF mode = "yt-dlp" THEN startRun(RunId) ELSE terminal
    /\ UNCHANGED <<addMediaOpen, form, loader, backend, cancels, isCancelling, pressed>>

Stage(from, to) == creation.busy /\ creation.stage = from /\ creation' = [creation EXCEPT !.stage = to]

RunRegistered ==
    /\ Stage("sent", "running")
    /\ registry' = registry \cup {creation.run}
    /\ UNCHANGED <<addMediaOpen, form, loader, terminal, refs, stopped, events, cancels, isCancelling,
                   left, pressed>>

\* the download or the copy is over; a download tells so by an event
RunEnded(outcome) ==
    /\ Stage("running", IF outcome = "finished" THEN "saving" ELSE outcome)
    /\ outcome = "cancelled" => creation.run \in stopped
    /\ registry' = registry \ {creation.run}
    /\ events' = IF creation.mode = "yt-dlp" THEN events \cup {[run |-> creation.run, outcome |-> outcome]}
                 ELSE events
    /\ UNCHANGED <<addMediaOpen, form, loader, terminal, refs, stopped, cancels, isCancelling, left, pressed>>

RowWritten(written) ==
    /\ Stage("saving", IF written THEN "added" ELSE "failed")
    /\ UNCHANGED <<addMediaOpen, form, loader, terminal, refs, backend, cancels, isCancelling, left, pressed>>

fetchesComments == creation.mode = "yt-dlp"

\* the answer of the creation, and the comments under a run of their own
FetchComments ==
    /\ fetchesComments /\ Stage("added", "asking")
    /\ refs' = [refs EXCEPT !.comments = creation.comments]
    /\ UNCHANGED <<addMediaOpen, form, loader, terminal, backend, cancels, isCancelling, left, pressed>>

CommentsRegistered ==
    /\ Stage("asking", "fetching")
    /\ registry' = registry \cup {creation.comments}
    /\ UNCHANGED <<addMediaOpen, form, loader, terminal, refs, stopped, events, cancels, isCancelling,
                   left, pressed>>

\* stored, skipped or failed, the media stays
CommentsAnswered ==
    /\ Stage("fetching", "done")
    /\ registry' = registry \ {creation.comments}
    /\ refs' = [refs EXCEPT !.comments = NoRun]
    /\ UNCHANGED <<addMediaOpen, form, loader, terminal, stopped, events, cancels, isCancelling, left, pressed>>

Over == [local |-> NoRun, comments |-> NoRun]

\* the list is loaded again, the form reset, the modal closed
MediaAdded ==
    /\ creation.busy
    /\ creation.stage = "done" \/ (creation.stage = "added" /\ ~fetchesComments)
    /\ creation' = NoCreation /\ refs' = Over
    /\ addMediaOpen' = FALSE
    /\ edited(NoForm)
    /\ isCancelling' = FALSE
    /\ UNCHANGED <<backend, cancels, left, pressed>>

\* the modal stays, and says how it ended
NotAdded ==
    /\ creation.busy /\ creation.stage \in {"failed", "cancelled"}
    /\ creation' = NoCreation /\ refs' = Over
    /\ terminal' = markStopped(creation.stage)
    /\ UNCHANGED <<addMediaOpen, form, loader, backend, cancels, isCancelling, left, pressed>>

\* Mutant: an event stops whatever runs.
OfAny(e) == TRUE

ofCurrentRun(e) == terminal.run # NoRun /\ e.run = terminal.run

finalizeRun(e) ==
    /\ e \in events
    /\ events' = events \ {e}
    /\ terminal' = IF ofCurrentRun(e) THEN Quiet(e.outcome) ELSE terminal
    /\ UNCHANGED <<addMediaOpen, form, loader, creation, refs, registry, stopped, cancels, isCancelling,
                   left, pressed>>

(***************************************************************************)
(* Cancel.                                                                 *)
(***************************************************************************)

\* what the modal says is going on
Shown ==
    IF loader.busy /\ ~creation.busy THEN FORMAT_LOADER_RUN_ID
    ELSE IF creation.mode = "local" \/ isYtDlpRunning THEN creation.run
    ELSE IF refs.comments # NoRun THEN creation.comments ELSE NoRun

\* the run of the terminal, else of the comments, else of the import
RunToCancel ==
    IF isYtDlpRunning THEN terminal.run
    ELSE IF refs.comments # NoRun THEN refs.comments ELSE refs.local

cancelYtDlpDownload ==
    /\ addMediaOpen /\ Shown # NoRun /\ ~isCancelling /\ left.cancels > 0
    /\ RunToCancel # NoRun
    /\ left' = [left EXCEPT !.cancels = @ - 1]
    /\ isCancelling' = TRUE
    /\ cancels' = cancels \cup {[run |-> RunToCancel, try |-> 1]}
    /\ pressed' = pressed \cup {<<Shown, IF Shown = creation.run THEN "run" ELSE "other">>}
    /\ UNCHANGED <<addMediaOpen, form, loader, terminal, creation, refs, backend>>

\* a run that is not registered is tried once more, 400 ms later
cancelRegisteredRun(c) ==
    /\ c \in cancels
    /\ \/ /\ c.run \in registry
          /\ stopped' = stopped \cup {c.run}
          /\ cancels' = cancels \ {c} /\ isCancelling' = FALSE
       \/ /\ c.run \notin registry /\ c.try = 1
          /\ cancels' = (cancels \ {c}) \cup {[c EXCEPT !.try = 2]}
          /\ UNCHANGED <<stopped, isCancelling>>
       \/ /\ c.run \notin registry /\ c.try = 2
          /\ cancels' = cancels \ {c} /\ isCancelling' = FALSE
          /\ UNCHANGED stopped
    /\ UNCHANGED <<addMediaOpen, form, loader, terminal, creation, refs, registry, events, left, pressed>>

Next ==
    \/ OpenModal \/ closeAddMediaModal \/ SelectChannel
    \/ \E u \in Urls : setMediaUrl(u)
    \/ loadYtDlpFormats \/ LoadRegistered \/ LoadAnswered(TRUE) \/ LoadAnswered(FALSE)
    \/ addMedia("local") \/ addMedia("yt-dlp")
    \/ RunRegistered \/ RunEnded("finished") \/ RunEnded("failed") \/ RunEnded("cancelled")
    \/ RowWritten(TRUE) \/ RowWritten(FALSE)
    \/ FetchComments \/ CommentsRegistered \/ CommentsAnswered
    \/ MediaAdded \/ NotAdded
    \/ \E e \in events : finalizeRun(e)
    \/ cancelYtDlpDownload
    \/ \E c \in cancels : cancelRegisteredRun(c)

Spec == Init /\ [][Next]_vars

(***************************************************************************)
(* Properties.                                                             *)
(***************************************************************************)

\* A download is sent with the formats of the address it is sent with.
FormatsOfUrl == creation.busy /\ creation.mode = "yt-dlp" => creation.formats = creation.url

\* A creation in flight has its modal, and while it downloads the terminal follows it and no event of
\* an earlier run stops it; when there is neither a creation nor a load, nothing keeps the modal locked.
TerminalFollows ==
    /\ creation.busy => addMediaOpen
    /\ creation.busy /\ creation.mode = "yt-dlp" /\ creation.stage \in {"sent", "running"} =>
          terminal.running /\ terminal.run = creation.run
    /\ ~creation.busy /\ ~loader.busy => ~terminal.running

\* Comments are skipped only by a Cancel that was pressed while they were being fetched: one meant
\* for the download, and late, does not reach them.
CancelsWhatIsShown ==
    creation.stage = "fetching" /\ creation.comments \in stopped =>
       \E p \in pressed : p[1] = creation.comments /\ p[2] = "other"
=============================================================================
