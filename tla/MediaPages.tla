------------------------------ MODULE MediaPages ------------------------------
(***************************************************************************)
(* The list of a channel's media, page by page: the query that windows the *)
(* sorted rows with OFFSET (services/video_repository/media_page.rs), the  *)
(* page state of the webview (hooks/channels/use-channel-media-list.ts),   *)
(* the edits that change rows the list has loaded, without loading it      *)
(* again (hooks/media/use-media-actions.ts), and the jump to one media     *)
(* (the focus of components/library/media-grid.tsx).                       *)
(*                                                                         *)
(* A request is read at one moment and answered at a later one, and so is  *)
(* an edit.  One sort and one filter stand for all of them, and the count  *)
(* in the channel's header is left out.                                    *)
(***************************************************************************)
EXTENDS Naturals, Sequences, FiniteSets, SequencesExt

CONSTANTS
    Own, Other,        \* the media of two channels
    Added,             \* those that are not there yet
    Seen,              \* those that may be watched already
    MEDIA_PAGE_SIZE,
    PageBudgets        \* bound: [queries, edits, failures], the most of each in one behaviour

VARIABLES
    order,     \* the rows as the current sort has them
    watched,   \* the watched ones
    selected,  \* the channel shown, or none
    list,      \* what is rendered: items, total, loadedCount, and how the loads went
    ref,       \* filtersRef, the request guard, lastRequestIdRef, listRequestIdRef, loadingMoreRef
    requests,  \* in flight
    edits,     \* in flight
    focus,     \* the media a jump looks for
    section,   \* the query the library section waits for
    left,      \* what the budget of this behaviour still allows
    skewed,    \* history: a page and an edit took effect in one order and were answered in another
    unlisted,  \* history: an edit moved a row the list did not hold
    lost       \* history: a media of the query that a jump gave up on

vars == <<order, watched, selected, list, ref, requests, edits, focus, section, left, skewed, unlisted, lost>>
history == <<skewed, unlisted, lost>>

None == "none"
Nobody == 0
AllMedia == Own \cup Other
Home(m) == IF m \in Own THEN "own" ELSE "other"

NoList == [items |-> <<>>, total |-> 0, loadedCount |-> 0, channel |-> None,
           loading |-> FALSE, loadMoreFailed |-> FALSE, loadError |-> FALSE]

Init ==
    /\ order = SetToSortSeq(AllMedia \ Added, <)
    /\ watched \in SUBSET Seen
    /\ selected = None
    /\ list = NoList
    /\ ref = [filters |-> None, latest |-> 0, last |-> 0, list |-> 0, loadingMore |-> FALSE]
    /\ requests = {} /\ edits = {}
    /\ focus = Nobody /\ section = 0
    /\ left \in PageBudgets
    /\ skewed = FALSE /\ unlisted = FALSE /\ lost = Nobody

(***************************************************************************)
(* The backend.                                                            *)
(***************************************************************************)

Filters == {"all", "unwatched"}

push_media_filters(c, f) ==
    LET fits(m) == Home(m) = c /\ (f = "unwatched" => m \notin watched) IN SelectSeq(order, fits)

\* the count and the window, from one snapshot
list_media_page(c, f, offset) ==
    LET all == push_media_filters(c, f)
        end == IF offset + MEDIA_PAGE_SIZE < Len(all) THEN offset + MEDIA_PAGE_SIZE ELSE Len(all)
    IN [items |-> SubSeq(all, offset + 1, end), total |-> Len(all)]

Unread == [items |-> <<>>, total |-> 0]

Read(r) ==
    /\ r \in requests /\ ~r.read
    /\ requests' = (requests \ {r}) \cup
          {[r EXCEPT !.read = TRUE, !.page = list_media_page(r.channel, r.filters, r.offset)]}
    /\ UNCHANGED <<order, watched, selected, list, ref, edits, focus, section, left, history>>

(***************************************************************************)
(* The first page of a query.                                              *)
(***************************************************************************)

Less(n) == IF n = 0 THEN 0 ELSE n - 1

begin == ref.latest + 1
isCurrent(r) == r.id = ref.latest

Request(kind, id, c, f, offset) ==
    [kind |-> kind, id |-> id, channel |-> c, filters |-> f, offset |-> offset, read |-> FALSE,
     second |-> \E r \in requests : r.kind = kind /\ r.id = id, page |-> Unread, late |-> FALSE]

Which(r) == <<r.kind, r.id, r.offset, r.second>>

\* Mutant: the page of the channel before stays until the new one is there.
RowsKept(c) == list

\* another channel's rows go at once, those of another filter stay under the loading state
RowsWhileLoading(c) ==
    IF list.channel = c THEN list ELSE [list EXCEPT !.items = <<>>, !.total = 0, !.loadedCount = 0]

\* a new query of the channel that will be selected
applyQuery(f) ==
    /\ left.queries > 0
    /\ ref' = [ref EXCEPT !.filters = f, !.latest = begin, !.last = begin]
    /\ list' = [RowsWhileLoading(selected') EXCEPT !.loading = TRUE, !.loadMoreFailed = FALSE,
                                                   !.loadError = FALSE]
    /\ requests' = requests \cup {Request("first", begin, selected', f, 0)}
    /\ left' = [left EXCEPT !.queries = @ - 1]

clearMedia ==
    /\ list' = NoList
    /\ ref' = [ref EXCEPT !.latest = @ + 1, !.list = 0, !.loadingMore = FALSE]

\* the section of a channel is mounted with the default filters, and asks at once
SelectChannel(c) ==
    /\ selected # c
    /\ selected' = c
    /\ IF c = None THEN clearMedia /\ UNCHANGED <<requests, section, left>>
       ELSE applyQuery("all") /\ section' = begin
    /\ UNCHANGED <<order, watched, edits, focus, history>>

ChangeFilter(f) ==
    /\ selected # None /\ ref.filters # f
    /\ UNCHANGED selected
    /\ applyQuery(f) /\ section' = begin
    /\ UNCHANGED <<order, watched, edits, focus, history>>

\* the grid's retry after a first page that failed
reloadMedia ==
    /\ selected # None /\ list.loadError
    /\ UNCHANGED selected
    /\ applyQuery(ref.filters)
    /\ UNCHANGED <<order, watched, edits, focus, section, history>>

\* the request is no more in flight
Settled(r) ==
    /\ requests' = requests \ {r}
    /\ edits' = {[e EXCEPT !.before = @ \ {Which(r)}] : e \in edits}

\* an edit the page has in it, and the list does not know of
Early(r) == \E e \in edits : e.done /\ Which(r) \notin e.before

FirstPage(r) ==
    /\ r \in requests /\ r.kind = "first" /\ r.read
    /\ Settled(r)
    /\ IF isCurrent(r)
       THEN /\ list' = [list EXCEPT !.items = r.page.items, !.total = r.page.total, !.channel = r.channel,
                                    !.loadedCount = Len(r.page.items), !.loading = FALSE]
            /\ ref' = [ref EXCEPT !.list = r.id]
            /\ skewed' = (skewed \/ r.late \/ Early(r))
       ELSE UNCHANGED <<list, ref, skewed>>
    /\ UNCHANGED <<order, watched, selected, focus, section, left, unlisted, lost>>

(***************************************************************************)
(* The pages after it.                                                     *)
(***************************************************************************)

hasMore == list.loadedCount < list.total /\ ~list.loadMoreFailed /\ ~list.loadError

\* the rows, the cursor and the filters describe one query
OneQuery == ref.list # 0 /\ ref.list = ref.last

loadMore ==
    /\ selected # None /\ ref.filters # None
    /\ ~ref.loadingMore /\ OneQuery
    /\ list.loadedCount < list.total
    /\ ref' = [ref EXCEPT !.loadingMore = TRUE]
    /\ list' = [list EXCEPT !.loadMoreFailed = FALSE]
    /\ requests' = requests \cup {Request("more", ref.list, selected, ref.filters, list.loadedCount)}
    /\ UNCHANGED left
    /\ skewed' = (skewed \/ \E r \in requests : r.kind = "more" /\ isCurrent(r))

\* the last row is visible, or the retry row is pressed
Scroll ==
    /\ hasMore \/ list.loadMoreFailed
    /\ loadMore
    /\ UNCHANGED <<order, watched, selected, edits, focus, section, unlisted, lost>>

\* Mutant: the cursor goes to the end of the page, whatever left the list meanwhile.
EndOfPage(r) == r.offset + Len(r.page.items)

\* a row that left the list while the page was on its way has moved the cursor, and there it stays
CursorAfter(r) ==
    IF list.loadedCount # r.offset THEN list.loadedCount ELSE r.offset + Len(r.page.items)

\* Mutant: a row that comes twice is shown twice.
AllRows(items) == items

\* only what the list does not hold
FreshRows(items) == LET fresh(m) == m \notin ToSet(list.items) IN SelectSeq(items, fresh)

MorePage(r) ==
    /\ r \in requests /\ r.kind = "more" /\ r.read
    /\ Settled(r)
    /\ ref' = [ref EXCEPT !.loadingMore = FALSE]
    /\ IF isCurrent(r)
       THEN /\ list' = [list EXCEPT !.items = @ \o FreshRows(r.page.items), !.total = r.page.total,
                                    !.loadedCount = CursorAfter(r)]
            /\ skewed' = (skewed \/ Early(r))
       ELSE UNCHANGED <<list, skewed>>
    /\ UNCHANGED <<order, watched, selected, focus, section, left, unlisted, lost>>

Fails(r) ==
    /\ r \in requests /\ left.failures > 0
    /\ left' = [left EXCEPT !.failures = @ - 1]
    /\ Settled(r)
    /\ ref' = [ref EXCEPT !.loadingMore = IF r.kind = "more" THEN FALSE ELSE @]
    /\ list' = IF ~isCurrent(r) THEN list
               ELSE IF r.kind = "more" THEN [list EXCEPT !.loadMoreFailed = TRUE]
               ELSE [list EXCEPT !.loadError = TRUE, !.loading = FALSE]
    /\ UNCHANGED <<order, watched, selected, focus, section, history>>

(***************************************************************************)
(* The edits.                                                              *)
(***************************************************************************)

Listed(m) == m \in ToSet(list.items)

Kinds == {"delete", "rename", "watched", "unwatched", "add"}

\* one delete and one rename at a time, and per media one change of its watched state; a refresh of
\* its comments moves a row as a rename does
EditSent(kind, m) ==
    /\ selected # None /\ left.edits > 0
    /\ IF kind = "add" THEN m \in Added \ ToSet(order) ELSE Listed(m)
    /\ \A e \in edits : (kind \in {"delete", "rename", "add"} => e.kind # kind)
                        /\ (kind \in {"watched", "unwatched"} => e.media # m \/ e.kind \in {"delete", "rename"})
    /\ edits' = edits \cup {[kind |-> kind, media |-> m, done |-> FALSE, before |-> {}]}
    /\ left' = [left EXCEPT !.edits = @ - 1]
    /\ UNCHANGED <<order, watched, selected, list, ref, requests, focus, section, history>>

Without(m) == LET other(x) == x # m IN SelectSeq(order, other)

\* the row changes; an edit of a row that is gone is refused
EditDone(e) ==
    /\ e \in edits /\ ~e.done
    /\ e.kind = "add" \/ e.media \in ToSet(order)
    /\ edits' = (edits \ {e}) \cup
          {[e EXCEPT !.done = TRUE, !.before = {Which(r) : r \in {q \in requests : q.read}}]}
    /\ \/ e.kind = "delete" /\ order' = Without(e.media) /\ watched' = watched \ {e.media}
       \/ e.kind \in {"rename", "add"} /\ UNCHANGED watched
          /\ \E i \in 0 .. Len(Without(e.media)) : order' = InsertAt(Without(e.media), i + 1, e.media)
       \/ e.kind = "watched" /\ watched' = watched \cup {e.media} /\ UNCHANGED order
       \/ e.kind = "unwatched" /\ watched' = watched \ {e.media} /\ UNCHANGED order
    /\ unlisted' = (unlisted \/ (e.kind # "add" /\ ~Listed(e.media)))
    /\ UNCHANGED <<selected, list, ref, requests, focus, section, left, skewed, lost>>

EditRefused(e) ==
    /\ e \in edits /\ ~e.done
    /\ edits' = edits \ {e}
    /\ UNCHANGED <<order, watched, selected, list, ref, requests, focus, section, left, history>>

LeavesList(m, kind) == kind = "watched" /\ ref.filters = "unwatched" /\ Listed(m)
RowsWithout(m) == LET other(x) == x # m IN SelectSeq(list.items, other)

\* the media is taken out of memory and the cursor goes back with it
handleItemsRemoved(m) ==
    [list EXCEPT !.items = RowsWithout(m), !.total = Less(@), !.loadedCount = Less(@)]

\* Mutant: a rename leaves the cursor where it was.
PlaceKept == list

\* the row this one displaced over the end of the list is read again
handleItemReordered == [list EXCEPT !.loadedCount = Less(@)]

\* a row the filter no longer lets through leaves the list
handleWatchedChanged(m, kind) ==
    IF LeavesList(m, kind) THEN handleItemsRemoved(m) ELSE list

\* the requests that were read before the edit, and are still to be answered
LateRequests(e) ==
    {IF Which(r) \in e.before THEN [r EXCEPT !.late = TRUE] ELSE r : r \in requests}

EditAnswered(e) ==
    /\ e \in edits /\ e.done
    /\ edits' = edits \ {e}
    /\ unlisted' = (unlisted \/ (e.kind \in {"rename", "unwatched"} /\ ~Listed(e.media)))
    /\ \/ /\ e.kind # "add"
          /\ list' = CASE e.kind = "delete" -> handleItemsRemoved(e.media)
                       [] e.kind = "rename" -> handleItemReordered
                       [] OTHER -> handleWatchedChanged(e.media, e.kind)
          /\ requests' = LateRequests(e)
          /\ UNCHANGED <<selected, ref, section, left>>
       \/ /\ e.kind = "add" /\ selected # None          \* reloadMedia
          /\ UNCHANGED <<selected, section>>
          /\ applyQuery(ref.filters)
       \/ /\ e.kind = "add" /\ selected = None
          /\ UNCHANGED <<selected, section, list, ref, requests, left>>
    /\ UNCHANGED <<order, watched, focus, skewed, lost>>

(***************************************************************************)
(* The jump to a media that the diagnostics name.                          *)
(***************************************************************************)

\* its channel is selected and the filters are cleared, which asks again unless they were
Jump(m) ==
    /\ focus = Nobody /\ m \in ToSet(order) /\ ~Listed(m)        \* one on screen is found at once
    /\ focus' = m
    /\ selected' = Home(m)
    /\ IF selected = Home(m) /\ ref.filters = "all" THEN UNCHANGED <<list, ref, requests, section, left>>
       ELSE applyQuery("all") /\ section' = begin
    /\ UNCHANGED <<order, watched, edits, history>>

\* Mutant: an empty or an old list is taken for the answer.
AnyList == TRUE

isListSettled == ~list.loading /\ \A r \in requests : r.id # section \/ r.kind # "first"

\* the query has it, the list does not, and nothing else explains it
Missed(m) ==
    /\ m \in ToSet(push_media_filters(selected, ref.filters))
    /\ edits = {} /\ ~list.loadError /\ ~skewed /\ ~unlisted

\* the media is there, or there is more to load, or a page has to be loaded again, or it is not there
FocusEffect ==
    /\ focus # Nobody /\ selected # None
    /\ \/ /\ Listed(focus)
          /\ focus' = Nobody
          /\ UNCHANGED <<list, ref, requests, left, skewed, lost>>
       \/ /\ ~Listed(focus) /\ isListSettled /\ hasMore
          /\ loadMore
          /\ UNCHANGED <<focus, lost>>
       \/ /\ ~Listed(focus) /\ isListSettled /\ ~hasMore /\ ~list.loadMoreFailed
          /\ focus' = Nobody /\ lost' = IF Missed(focus) THEN focus ELSE lost
          /\ UNCHANGED <<list, ref, requests, left, skewed>>
    /\ UNCHANGED <<order, watched, selected, edits, section, unlisted>>

Next ==
    \/ \E c \in {"own", "other", None} : SelectChannel(c)
    \/ \E f \in Filters : ChangeFilter(f)
    \/ reloadMedia \/ Scroll \/ FocusEffect
    \/ \E r \in requests : Read(r) \/ FirstPage(r) \/ MorePage(r) \/ Fails(r)
    \/ \E kind \in Kinds, m \in AllMedia : EditSent(kind, m)
    \/ \E e \in edits : EditDone(e) \/ EditRefused(e) \/ EditAnswered(e)
    \/ \E m \in AllMedia : Jump(m)

Spec == Init /\ [][Next]_vars

(***************************************************************************)
(* Properties.                                                             *)
(***************************************************************************)

Quiet == requests = {} /\ edits = {} /\ ~list.loadError /\ ~list.loadMoreFailed

\* The rows on screen are of one channel, the selected one, and none is there twice.
ListOfChannel ==
    /\ IsInjective(list.items)
    /\ \A m \in ToSet(list.items) : Home(m) = selected

\* A row is never skipped, also when the page was read after an edit and came before its answer.
NeverSkipped ==
    Quiet /\ selected # None /\ ~hasMore /\ ~unlisted =>
       ToSet(push_media_filters(selected, ref.filters)) \subseteq ToSet(list.items)
\* A list that has no more to load holds every row of its query, through the deletes, renames and
\* watched changes of rows it had loaded while pages were on their way.  Left out are an edit of a
\* row the list does not hold, and a page that an edit overtook (NeverSkipped).
ListComplete == ~skewed => NeverSkipped

\* A jump gives up only on a media that the query has not.
JumpFinds == lost = Nobody
=============================================================================
