------------------------------ MODULE Comments ------------------------------
(***************************************************************************)
(* The backup of a media's YouTube comments: a fetch by yt-dlp that takes  *)
(* minutes, the merge that stores what it brought in one transaction, and  *)
(* the paged read of what is stored                                        *)
(* (services/media_comments.rs, commands/comments.rs, the comment fetch of *)
(* services/yt_dlp/metadata.rs, list_media_comments of                     *)
(* services/video_repository/mod.rs).                                      *)
(*                                                                         *)
(* A comment is a record of what the merge tells apart: its id (None for   *)
(* one YouTube gave none), author, text, date, and the video it was        *)
(* written under. While a fetch waits for YouTube its media can be         *)
(* deleted and another fetch can merge. An imported database, in which the *)
(* same row id names another media, is installed by a launch, which no     *)
(* call outlives.                                                          *)
(***************************************************************************)
EXTENDS Lists, FiniteSets, SequencesExt

CONSTANTS
    Videos,                  \* YouTube video ids
    Responses,               \* what yt-dlp may bring: [comments, comment_count]
    Imported,                \* the database an import installs
    Fetches,                 \* concurrent calls of fetch_media_comments
    Readers,                 \* concurrent calls of list_media_comments
    MAX_COMMENTS_PER_MEDIA,  \* most comments one merge accepts
    LoadRows,                \* most comments one read returns
    LoadText,                \* most texts one read returns (each text counts one character)
    PageRows,                \* rows one statement of a read fetches
    MaxMedia                 \* bound: the media rows a run creates

None == "none"
Blank == "blank"             \* a text of white space
Unknown == "Unknown author"

VARIABLES
    db,       \* [media, rows, seq]: videos by id, the set of video_comments, the last id of a comment
    launch,   \* the first, or the one that installed an imported database
    fetch,    \* Fetches -> the call
    reader    \* Readers -> the read

vars == <<db, launch, fetch, reader>>

MediaIds == 1 .. MaxMedia
Idle == [pc |-> "idle"]

\* a videos row as inserted: nobody has asked for its comments
NewMedia(v) == [video |-> v, count |-> 0, has |-> FALSE, state |-> "unknown"]

Init ==
    /\ db = [media |-> <<>>, rows |-> {}, seq |-> 0]
    /\ launch = 1
    /\ fetch = [f \in Fetches |-> Idle]
    /\ reader = [r \in Readers |-> Idle]

Exists(m) == m \in DOMAIN db.media /\ db.media[m].video # None

(***************************************************************************)
(* What a payload becomes.                                                 *)
(***************************************************************************)

\* one comment of yt-dlp's JSON, written under the video v; no author is the placeholder, which is
\* no handle
normalize_comment_metadata(c, v) ==
    LET named == c.author \notin {None, Blank}
    IN [id |-> c.id, author |-> IF named THEN c.author ELSE Unknown, handle |-> IF named THEN c.author ELSE None,
        text |-> c.text, published_at |-> c.published_at, of |-> v]

comments_extraction_looks_incomplete(reported, extracted) ==
    reported > 0 /\ extracted = 0

\* the first of the comments that share an id; those without one are all kept
dedupe_comments_by_id(s) ==
    Removed(s, {i \in DOMAIN s : s[i].id # None /\ \E j \in 1 .. i - 1 : s[j].id = s[i].id})

Blanks(s) == {i \in DOMAIN s : s[i].text = Blank}

\* blank ones go first, or one could hide a real comment that repeats its id
prepare_comment_rows(s) == dedupe_comments_by_id(Removed(s, Blanks(s)))

\* a row that YouTube answered with again: see COMMENT_UPSERT_CLAUSE
COALESCE(a, b) == IF a # None THEN a ELSE b

\* Mutant: original_text follows every change of the text.
EachOriginal(row, c) ==
    [row EXCEPT !.author = IF c.author = Unknown THEN @ ELSE c.author,
                !.handle = COALESCE(c.handle, @),
                !.original_text = IF c.text # row.text THEN row.text ELSE @,
                !.text = c.text,
                !.published_at = COALESCE(@, c.published_at)]

COMMENT_UPSERT_CLAUSE(row, c) ==
    [row EXCEPT !.author = IF c.author = Unknown THEN @ ELSE c.author,
                !.handle = COALESCE(c.handle, @),
                !.original_text = COALESCE(@, IF c.text # row.text THEN row.text ELSE None),
                !.text = c.text,
                !.published_at = COALESCE(@, c.published_at)]

Inserted(d, m, c) ==
    [d EXCEPT !.rows = @ \cup {[row |-> d.seq + 1, media |-> m, id |-> c.id, author |-> c.author, handle |-> c.handle,
                                text |-> c.text, original_text |-> None, published_at |-> c.published_at, of |-> c.of]},
              !.seq = @ + 1]

RowsOf(d, m) == {row \in d.rows : row.media = m}

upsert_comments_with_id(d, m, c) ==
    LET same == {row \in RowsOf(d, m) : row.id = c.id}
    IN IF same = {} THEN Inserted(d, m, c)
       ELSE [d EXCEPT !.rows = (@ \ same) \cup {COMMENT_UPSERT_CLAUSE(row, c) : row \in same}]

insert_comments_without_id(d, m, c) ==
    IF \E row \in RowsOf(d, m) : row.id = None /\ row.author = c.author /\ row.text = c.text
    THEN d ELSE Inserted(d, m, c)

\* Mutant: the count is that of the payload, as when a refresh replaced the stored comments.
CountedPayload(d, m, s) ==
    [d EXCEPT !.media[m].count = Len(s), !.media[m].has = s # <<>>,
              !.media[m].state = IF s # <<>> THEN "available" ELSE "none"]

\* the UPDATE that ends the transaction counts the table
Counted(d, m, s) ==
    LET n == Cardinality(RowsOf(d, m))
    IN [d EXCEPT !.media[m].count = n, !.media[m].has = n > 0,
                 !.media[m].state = IF n > 0 THEN "available" ELSE "none"]

Stored(d, m, c) ==
    IF c.id = None THEN insert_comments_without_id(d, m, c) ELSE upsert_comments_with_id(d, m, c)

\* the transaction: rows with an id first, then those without
merge_media_comments_in_pool(d, m, comments) ==
    LET rows == prepare_comment_rows(comments)
        inOrder == Removed(rows, {i \in DOMAIN rows : rows[i].id = None})
                   \o Removed(rows, {i \in DOMAIN rows : rows[i].id # None})
        merged[i \in 0 .. Len(inOrder)] == IF i = 0 THEN d ELSE Stored(merged[i - 1], m, inOrder[i])
    IN Counted(merged[Len(inOrder)], m, rows)

(***************************************************************************)
(* The media rows.                                                         *)
(***************************************************************************)

\* AUTOINCREMENT: the id of a deleted row is not given again
CreateMedia ==
    \E v \in Videos :
       /\ Len(db.media) < MaxMedia
       /\ db' = [db EXCEPT !.media = Append(@, NewMedia(v))]
       /\ UNCHANGED <<launch, fetch, reader>>

\* ON DELETE CASCADE takes the comments with the media
DeleteMedia ==
    \E m \in MediaIds :
       /\ Exists(m)
       /\ db' = [db EXCEPT !.media[m] = NewMedia(None), !.rows = @ \ RowsOf(db, m)]
       /\ UNCHANGED <<launch, fetch, reader>>

\* the pool of a launch is never opened again, so an import waits for the next one: calls end with
\* the app, and a transaction that was not committed with them
apply_pending_database_import ==
    /\ launch = 1
    /\ launch' = 2
    /\ db' = Imported
    /\ fetch' = [f \in Fetches |-> Idle]
    /\ reader' = [r \in Readers |-> Idle]

(***************************************************************************)
(* fetch_media_comments.                                                   *)
(***************************************************************************)

\* Mutant: the video to fetch is taken from the caller as it is.
AnyVideo(m, v) == Exists(m)

ensure_video_belongs_to_media(m, v) == Exists(m) /\ db.media[m].video = v

fetch_media_comments(f) ==
    \E m \in MediaIds, v \in Videos :
       /\ fetch[f].pc = "idle"
       /\ ensure_video_belongs_to_media(m, v)
       /\ fetch' = [fetch EXCEPT ![f] = [pc |-> "youtube", media |-> m, video |-> v]]
       /\ UNCHANGED <<db, launch, reader>>

\* the comments of an answer; what is left of it after the blank ones has no author or a named one
fetch_youtube_comments_async(f, r) ==
    LET said == Removed(r.comments, Blanks(r.comments))
    IN [i \in DOMAIN said |-> normalize_comment_metadata(said[i], fetch[f].video)]

\* a timeout, a cancel, an answer that cannot be read or leaves comments out:
\* nothing is stored
FetchFails(f) ==
    /\ fetch[f].pc = "youtube"
    /\ fetch' = [fetch EXCEPT ![f] = Idle]
    /\ UNCHANGED <<db, launch, reader>>

\* the end of the transaction of a merge, whose row may be gone: then the foreign key refuses the
\* comments, or the UPDATE finds no row, and nothing is stored
merge_media_comments(m, comments) ==
    IF Exists(m) /\ Len(comments) <= MAX_COMMENTS_PER_MEDIA
    THEN merge_media_comments_in_pool(db, m, comments) ELSE db

\* yt-dlp answers and the answer is merged: what it says does not depend on the database, so one
\* step; nothing readable where YouTube counts comments is an error
store_fetched_comments(f) ==
    \E r \in Responses :
       /\ fetch[f].pc = "youtube"
       /\ fetch' = [fetch EXCEPT ![f] = Idle]
       /\ LET comments == fetch_youtube_comments_async(f, r)
          IN /\ ~comments_extraction_looks_incomplete(r.comment_count, Len(comments))
             /\ db' = merge_media_comments(fetch[f].media, comments)
       /\ UNCHANGED <<launch, reader>>

(***************************************************************************)
(* list_media_comments: pages by row id.                                   *)
(***************************************************************************)

list_media_comments_by_media_id(r) ==
    \E m \in MediaIds :
       /\ reader[r].pc = "idle"
       /\ reader' = [reader EXCEPT ![r] =
             [pc |-> "read", media |-> m, got |-> <<>>, capped |-> FALSE,
              began |-> {row.row : row \in RowsOf(db, m)}]]
       /\ UNCHANGED <<db, launch, fetch>>

\* Mutant: a page that came back full ends the read.
FullEnds(len, size) == len <= size

LastPage(len, size) == len < size

\* the texts of a prefix, an edited comment's first text included
TextLoaded(s) == Len(s) + Cardinality({i \in DOMAIN s : s[i].original_text # None})

list_media_comments_within(r) ==
    /\ reader[r].pc = "read"
    /\ LET R == reader[r]
           after == IF R.got = <<>> THEN 0 ELSE Last(R.got).row
           size == IF LoadRows - Len(R.got) < PageRows THEN LoadRows - Len(R.got) ELSE PageRows
           Older(a, b) == a.row < b.row
           all == SetToSortSeq({row \in RowsOf(db, R.media) : row.row > after}, Older)
           page == SubSeq(all, 1, IF Len(all) < size THEN Len(all) ELSE size)
           fits == {n \in 0 .. Len(page) : TextLoaded(R.got \o SubSeq(page, 1, n)) <= LoadText}
           got == R.got \o SubSeq(page, 1, Max(fits))
           capped == Max(fits) < Len(page) \/ Len(got) >= LoadRows
       IN reader' = [reader EXCEPT ![r] =
             [R EXCEPT !.got = got, !.capped = capped,
                       !.pc = IF capped \/ LastPage(Len(page), size) THEN "done" ELSE "read"]]
    /\ UNCHANGED <<db, launch, fetch>>

Returned(r) ==
    /\ reader[r].pc = "done"
    /\ reader' = [reader EXCEPT ![r] = Idle]
    /\ UNCHANGED <<db, launch, fetch>>

Next ==
    \/ CreateMedia \/ DeleteMedia \/ apply_pending_database_import
    \/ \E f \in Fetches :
          fetch_media_comments(f) \/ FetchFails(f) \/ store_fetched_comments(f)
    \/ \E r \in Readers :
          \/ list_media_comments_by_media_id(r) \/ list_media_comments_within(r) \/ Returned(r)

Spec == Init /\ [][Next]_vars

(***************************************************************************)
(* Properties.                                                             *)
(***************************************************************************)

Own(d) == \A row \in d.rows : row.of = d.media[row.media].video

Told(d) ==
    \A m \in DOMAIN d.media :
       LET n == Cardinality(RowsOf(d, m)) IN
       /\ d.media[m].count = n
       /\ d.media[m].has = (n > 0)
       /\ d.media[m].state = "available" <=> n > 0

\* Every comment under a media was written under the video the media names, whatever was deleted,
\* imported or fetched at the same time.
OwnComments == Own(db)

\* What the row says of its comments agrees with the comments, and an answer is never taken back
\* to "nobody has asked" (the player offers another fetch on that alone).
StateTells == Told(db)

\* the words a row was first archived with
FirstText(row) == COALESCE(row.original_text, row.text)

\* A merge removes no comment, and whatever YouTube sends later a row keeps the text it was first
\* archived with, a real author and its first date, which is the most precise it will ever be.
Archive(row, kept) ==
    /\ FirstText(kept) = FirstText(row)
    /\ row.author # Unknown => kept.author # Unknown
    /\ row.handle # None => kept.handle # None
    /\ row.published_at # None => kept.published_at = row.published_at

Archives ==
    /\ \A row \in db.rows : db'.media[row.media].video # None =>
          \E kept \in db'.rows : kept.row = row.row /\ Archive(row, kept)
    /\ \A m \in DOMAIN db.media : db.media[m].state # "unknown" =>
          db'.media[m].state # "unknown" \/ db'.media[m].video = None

ArchiveKept == [][launch' = launch => Archives]_vars

\* A read that met no limit holds every comment there was when it began and that still
\* is, once, in order, though merges committed between its pages.
ReadWhole ==
    \A r \in Readers : reader[r].pc = "done" =>
       LET got == reader[r].got
           ids == {got[i].row : i \in DOMAIN got}
           now == {row.row : row \in RowsOf(db, reader[r].media)}
       IN /\ \A i, j \in DOMAIN got : i < j => got[i].row < got[j].row
          /\ ~reader[r].capped =>
                reader[r].began \cap now \subseteq ids
=============================================================================
