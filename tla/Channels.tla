------------------------------ MODULE Channels ------------------------------
(***************************************************************************)
(* The channel list of the webview (hooks/channels/use-channels.ts and     *)
(* use-channel-actions.ts) against the rows of the database.  A write and  *)
(* the reload after it are calls of their own; only the loads of the whole *)
(* list are guarded against each other, so the reload after one change may *)
(* be answered after the reload of a later one.                            *)
(*                                                                         *)
(* A channel is the number of times its row was written.  A dialog covers  *)
(* the page: nothing behind it can be clicked, and it cannot be left while *)
(* its own write runs (hooks/use-modal-lock.ts).                           *)
(***************************************************************************)
EXTENDS Naturals, FiniteSets, Functions

CONSTANTS
    Held,              \* channels in the database when the page opens
    ChannelBudgets     \* bound: [creates, edits, deletes, avatars, moves, failures, asks]

VARIABLES
    rows,              \* the table
    commits,           \* how often it was written
    list,              \* channels
    selected,          \* selectedChannelId
    dialog,            \* the create, edit or delete dialog, and the channel it names
    count,             \* channelToDeleteMediaCount: the channel whose media were counted
    counts, asked,     \* counts to be answered, and deleteCountGuard
    op,                \* the four flagged actions
    loads, latest,     \* loads to be answered, and loadRequestGuard
    left,              \* what the budget of this behaviour still allows
    shown,             \* history: the commits the list on screen has seen
    overtaken,         \* history: an older list was answered after a newer one
    missed,            \* history: a reload failed, which the user is told
    fresh              \* history: the channel just created, until something else is chosen

vars == <<rows, commits, list, selected, dialog, count, counts, asked, op, loads, latest, left,
          shown, overtaken, missed, fresh>>

None == 0
NoDialog == [kind |-> "none", of |-> None, there |-> FALSE]
Idle == [at |-> "idle", of |-> None, rows |-> <<>>, seen |-> 0]
Kinds == {"create", "edit", "delete", "avatar"}
Empty == [c \in {} |-> 0]

Init ==
    /\ rows = [c \in Held |-> 0] /\ commits = 0
    /\ list = Empty /\ selected = None /\ dialog = NoDialog
    /\ count = None /\ counts = {} /\ asked = 0
    /\ op = [k \in Kinds |-> Idle]
    /\ loads = {[id |-> 1, at |-> "list", rows |-> Empty, seen |-> 0]} /\ latest = 1
    /\ left \in ChannelBudgets
    /\ shown = 0 /\ overtaken = FALSE /\ missed = FALSE /\ fresh = None

Spend(what) == left[what] > 0 /\ left' = [left EXCEPT ![what] = @ - 1]

isLoadingChannels == \E l \in loads : l.id = latest
RowFree(c) == ~(op["avatar"].at # "idle" /\ op["avatar"].of = c)
Clickable(c) == dialog = NoDialog /\ ~isLoadingChannels /\ c \in DOMAIN list /\ RowFree(c)

(***************************************************************************)
(* What a list that lands leaves on screen: a selection or an edit form    *)
(* whose channel it does not hold is given up.                             *)
(***************************************************************************)
Kept(sel, l) == IF sel \in DOMAIN l THEN sel ELSE None
KeptDialog(d, l) == IF d.kind = "edit" /\ d.of \notin DOMAIN l THEN NoDialog ELSE d

Lands(l, seen, sel, d) ==
    /\ list' = l
    /\ selected' = Kept(sel, l)
    /\ dialog' = KeptDialog(d, l)
    /\ shown' = seen
    /\ overtaken' = (seen # commits /\ (overtaken \/ seen < shown))
    /\ missed' = (seen # commits /\ missed)

(***************************************************************************)
(* Loads of the whole list.                                                *)
(***************************************************************************)
loadChannels ==
    /\ latest' = latest + 1
    /\ loads' = loads \cup {[id |-> latest + 1, at |-> "list", rows |-> Empty, seen |-> 0]}

LoadRead(l) ==
    /\ l.at = "list"
    /\ loads' = (loads \ {l}) \cup {[l EXCEPT !.at = "read", !.rows = rows, !.seen = commits]}
    /\ UNCHANGED <<rows, commits, list, selected, dialog, count, counts, asked, op, latest, left,
                   shown, overtaken, missed, fresh>>

isCurrent(l) == l.id = latest

LoadAnswered(l) ==
    /\ l.at = "read"
    /\ loads' = loads \ {l}
    /\ IF isCurrent(l)
       THEN Lands(l.rows, l.seen, selected, dialog) /\ fresh' = IF overtaken' THEN None ELSE fresh
       ELSE UNCHANGED <<list, selected, dialog, shown, overtaken, missed, fresh>>
    /\ UNCHANGED <<rows, commits, count, counts, asked, op, latest, left>>

LoadFails(l) ==
    /\ Spend("failures")
    /\ loads' = loads \ {l}
    /\ missed' = (missed \/ l.id = latest)
    /\ UNCHANGED <<rows, commits, list, selected, dialog, count, counts, asked, op, latest, shown,
                   overtaken, fresh>>

\* offered in place of the page while no channel is listed and the last load failed
Retry ==
    /\ dialog = NoDialog /\ missed /\ DOMAIN list = {} /\ ~isLoadingChannels
    /\ loadChannels
    /\ UNCHANGED <<rows, commits, list, selected, dialog, count, counts, asked, op, left, shown,
                   overtaken, missed, fresh>>

\* the effect on libraryPath: the folder is chosen in the settings, refused while an avatar is set
LibraryChanges ==
    /\ Spend("moves")
    /\ dialog = NoDialog /\ op["avatar"].at = "idle"
    /\ list' = Empty /\ selected' = None /\ count' = None /\ fresh' = None
    /\ shown' = 0 /\ overtaken' = FALSE /\ missed' = FALSE
    /\ loadChannels
    /\ UNCHANGED <<rows, commits, dialog, counts, asked, op>>

(***************************************************************************)
(* What the user opens and chooses.                                        *)
(***************************************************************************)
Select(c) ==
    /\ Clickable(c) /\ selected # c
    /\ selected' = c /\ fresh' = None
    /\ UNCHANGED <<rows, commits, list, dialog, count, counts, asked, op, loads, latest, left,
                   shown, overtaken, missed>>

Opens(kind, c) == dialog' = [kind |-> kind, of |-> c, there |-> c \in DOMAIN rows]

OpenCreate ==
    /\ dialog = NoDialog /\ left.creates > 0
    /\ Opens("create", None)
    /\ UNCHANGED <<rows, commits, list, selected, count, counts, asked, op, loads, latest, left,
                   shown, overtaken, missed, fresh>>

requestEditChannel(c) ==
    /\ Clickable(c) /\ left.edits > 0
    /\ Opens("edit", c)
    /\ UNCHANGED <<rows, commits, list, selected, count, counts, asked, op, loads, latest, left,
                   shown, overtaken, missed, fresh>>

requestDeleteChannel(c) ==
    /\ Clickable(c) /\ Spend("asks")
    /\ Opens("delete", c)
    /\ count' = None
    /\ asked' = asked + 1 /\ counts' = counts \cup {[id |-> asked + 1, of |-> c]}
    /\ UNCHANGED <<rows, commits, list, selected, op, loads, latest, shown, overtaken, missed,
                   fresh>>

\* Mutant: the count of a channel asked for earlier is taken for this one's.
AnyCount(q) == q.id # 0

countIsCurrent(q) == q.id = asked

CountAnswered(q) ==
    /\ counts' = counts \ {q}
    /\ \/ count' = IF countIsCurrent(q) THEN q.of ELSE count
       \/ UNCHANGED count      \* the query failed, which is only logged
    /\ UNCHANGED <<rows, commits, list, selected, dialog, asked, op, loads, latest, left, shown,
                   overtaken, missed, fresh>>

Leave ==
    /\ dialog # NoDialog /\ op[dialog.kind].at = "idle"
    /\ dialog' = NoDialog
    /\ IF dialog.kind = "delete" THEN count' = None /\ asked' = asked + 1
       ELSE UNCHANGED <<count, asked>>
    /\ UNCHANGED <<rows, commits, list, selected, counts, op, loads, latest, left, shown,
                   overtaken, missed, fresh>>

(***************************************************************************)
(* A write and the reload after it, one at a time of each kind.            *)
(***************************************************************************)
\* the row goes from view with its media before the delete is asked for
closeSelectedChannelUiBeforeDelete(c) == selected' = IF selected = c THEN None ELSE selected

Begins(kind, c) ==
    /\ op[kind].at = "idle"
    /\ op' = [op EXCEPT ![kind] = [Idle EXCEPT !.at = "write", !.of = c]]
    /\ UNCHANGED <<rows, commits, list, dialog, count, counts, asked, loads, latest, shown,
                   overtaken, missed>>

Submit ==
    \/ /\ dialog.kind = "create" /\ Begins("create", None) /\ Spend("creates")
       /\ UNCHANGED <<selected, fresh>>
    \/ /\ dialog.kind = "edit" /\ Begins("edit", dialog.of) /\ Spend("edits")
       /\ UNCHANGED <<selected, fresh>>
    \/ /\ dialog.kind = "delete" /\ Begins("delete", dialog.of) /\ Spend("deletes")
       /\ closeSelectedChannelUiBeforeDelete(dialog.of)
       /\ fresh' = IF fresh = dialog.of THEN None ELSE fresh
    \/ /\ \E c \in DOMAIN list : Clickable(c) /\ Begins("avatar", c)
       /\ Spend("avatars") /\ UNCHANGED <<selected, fresh>>

New == 1 + commits + Cardinality(Held)

\* The row is written. A channel that is gone is no error for a delete or an avatar.
Writes(kind) ==
    LET c == op[kind].of IN
    /\ op[kind].at = "write"
    /\ \/ /\ kind = "create"
          /\ rows' = [d \in DOMAIN rows \cup {New} |-> IF d = New THEN 0 ELSE rows[d]]
          /\ op' = [op EXCEPT ![kind].at = "done", ![kind].of = New, ![kind].seen = commits + 1]
       \/ /\ kind = "delete"
          /\ rows' = Restrict(rows, DOMAIN rows \ {c})
          /\ op' = [op EXCEPT ![kind].at = "done", ![kind].seen = commits + 1]
       \/ /\ kind = "avatar" \/ (kind = "edit" /\ c \in DOMAIN rows)
          /\ rows' = [d \in DOMAIN rows |-> IF d = c THEN rows[d] + 1 ELSE rows[d]]
          /\ op' = [op EXCEPT ![kind].at = "done", ![kind].seen = commits + 1]
    /\ commits' = commits + 1
    /\ UNCHANGED <<list, selected, dialog, count, counts, asked, loads, latest, left, shown,
                   overtaken, missed, fresh>>

\* Refused or failed: the dialog stays for another try.
Refused(kind) ==
    /\ op[kind].at = "write"
    /\ \/ kind = "edit" /\ op[kind].of \notin DOMAIN rows /\ UNCHANGED left
       \/ Spend("failures")
    /\ op' = [op EXCEPT ![kind] = Idle]
    /\ UNCHANGED <<rows, commits, list, selected, dialog, count, counts, asked, loads, latest,
                   shown, overtaken, missed, fresh>>

\* Mutant: the new channel is selected as soon as it exists.
SelectedAtOnce(kind, when) == IF kind = "create" /\ when = "written" THEN op[kind].of ELSE selected

\* The new channel is selected only once the list holds it.
SelectedAfter(kind, when) == IF kind = "create" /\ when = "listed" THEN op[kind].of ELSE selected

\* Mutant: a delete keeps its dialog until the list is there, and for good if that fails.
DialogKept(kind) == IF kind = "none" THEN NoDialog ELSE dialog

\* The dialog of a delete closes with its answer, those of the others once the list is there.
DialogAfterWrite(kind) == IF kind = "delete" THEN NoDialog ELSE dialog

WriteAnswered(kind) ==
    /\ op[kind].at = "done"
    /\ op' = [op EXCEPT ![kind].at = "list"]
    /\ dialog' = DialogAfterWrite(kind)
    /\ selected' = Kept(SelectedAfter(kind, "written"), list)
    /\ UNCHANGED <<rows, commits, list, count, counts, asked, loads, latest, left, shown,
                   overtaken, missed, fresh>>

ListRead(kind) ==
    /\ op[kind].at = "list"
    /\ op' = [op EXCEPT ![kind].at = "read", ![kind].rows = rows, ![kind].seen = commits]
    /\ UNCHANGED <<rows, commits, list, selected, dialog, count, counts, asked, loads, latest,
                   left, shown, overtaken, missed, fresh>>

DialogAfter(kind) == IF dialog.kind = kind /\ kind # "delete" THEN NoDialog ELSE dialog

ListAnswered(kind) ==
    /\ op[kind].at = "read"
    /\ Lands(op[kind].rows, op[kind].seen, SelectedAfter(kind, "listed"), DialogAfter(kind))
    /\ fresh' = IF overtaken' THEN None ELSE IF kind = "create" THEN op[kind].of ELSE fresh
    /\ op' = [op EXCEPT ![kind] = Idle]
    /\ UNCHANGED <<rows, commits, count, counts, asked, loads, latest, left>>

\* Mutant: a failed reload after a delete leaves the list alone.
AsItWas(c) == Restrict(list, {d \in DOMAIN list : d = c \/ d # c})

\* What a delete whose reload fails leaves on screen.
WithoutDeleted(c) == Restrict(list, DOMAIN list \ {c})

ListFails(kind) ==
    LET l == IF kind = "delete" THEN WithoutDeleted(op[kind].of) ELSE list
        d == DialogAfter(kind) IN
    /\ op[kind].at \in {"list", "read"} /\ Spend("failures")
    /\ list' = l /\ selected' = Kept(selected, l) /\ dialog' = KeptDialog(d, l)
    /\ shown' = IF kind = "delete" /\ op[kind].seen > shown THEN op[kind].seen ELSE shown
    /\ missed' = TRUE
    /\ op' = [op EXCEPT ![kind] = Idle]
    /\ UNCHANGED <<rows, commits, count, counts, asked, loads, latest, overtaken, fresh>>

Next ==
    \/ \E l \in loads : LoadRead(l) \/ LoadAnswered(l) \/ LoadFails(l)
    \/ Retry \/ LibraryChanges
    \/ \E c \in DOMAIN list : Select(c) \/ requestEditChannel(c) \/ requestDeleteChannel(c)
    \/ OpenCreate \/ Leave \/ Submit
    \/ \E q \in counts : CountAnswered(q)
    \/ \E k \in Kinds : \/ Writes(k) \/ Refused(k) \/ WriteAnswered(k)
                        \/ ListRead(k) \/ ListAnswered(k) \/ ListFails(k)

Spec == Init /\ [][Next]_vars

TypeOK ==
    /\ selected \in {None} \cup DOMAIN list
    /\ dialog.kind \in {"none", "create", "edit", "delete"}
    /\ \A k \in Kinds : op[k].at \in {"idle", "write", "done", "list", "read"}

(***************************************************************************)
(* Properties.                                                             *)
(***************************************************************************)
Quiet == loads = {} /\ \A k \in Kinds : op[k].at = "idle"

\* When everything is answered the sidebar shows no deleted channel, and shows every channel as it
\* is unless the user was told of a failed reload. An older list answered last is the exception.
ListTold ==
    Quiet /\ ~overtaken => /\ DOMAIN list \subseteq DOMAIN rows
                           /\ missed \/ list = rows

\* A channel that was just created is the selected one, until the user chooses another.
NewSelected == fresh # None => selected = fresh

\* The media counted in the delete dialog are those of the channel it names.
CountOfNamed == dialog.kind = "delete" /\ count # None => count = dialog.of

\* A dialog that waits for the user is about a channel that still exists, if it did when it opened.
DialogOnChannel ==
    dialog.there /\ op[dialog.kind].at = "idle" => dialog.of \in DOMAIN rows
=============================================================================
