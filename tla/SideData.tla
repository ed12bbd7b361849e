------------------------------ MODULE SideData ------------------------------
(***************************************************************************)
(* The files of the library and the data beside the media, in one module:  *)
(* how a file is stored, the comments, the files of the live chat replays, *)
(* their streams, the display-sized thumbnails, the images fetched, the    *)
(* previews, the cookies file, the checks of the library, what the webview *)
(* may read of it, the programs, and the paths of the rows. They share no  *)
(* state, so a behaviour is of one of them and the others stay where they  *)
(* started. ReplayFiles is extended and the others are instances.          *)
(***************************************************************************)
EXTENDS ReplayFiles, Sequences

CONSTANTS      \* each is described in the module of its part
    Videos, Responses, Imported, Fetches, Readers, MAX_COMMENTS_PER_MEDIA, LoadRows, LoadText, PageRows, MaxMedia,
    Streams, Files, MAX_CONCURRENT_LIVE_CHAT_READS, MAX_LIVE_CHAT_READS_IN_FLIGHT,
    LIVE_CHAT_STREAM_BATCH_LINES, MAX_LIVE_CHAT_DECOMPRESSED_BYTES, MAX_ABANDONED_STREAMS,
    Paths, Size, Calls, MAX_RESOLVED_PER_CALL, MAX_GENERATIONS_PER_CALL, DISPLAY_CACHE_MAX_BYTES,
    MaxRequest, MaxAsks,
    Writers, Contents, Bad, Nothing, Scenarios,
    Fetchers, Plans, Places, MAX_REDIRECT_HOPS, DIRECT_THUMBNAIL_MAX_BYTES, MAX_MEDIA_THUMBNAIL_ATTEMPTS,
    MAX_CONCURRENT_THUMBNAIL_RUNS, MAX_THUMBNAIL_RUNS_IN_FLIGHT, MaxBody,
    Runs, Budgets,
    Makers, Versions, PREVIEW_PERMITS, PREVIEW_IN_FLIGHT, Troubles,
    Checks, Libraries, MAX_EXAMPLES, SHARE_RULE_MIN_FILES, MaxEvents,
    Folders, Registrations, MediaRequests, Wanted, Lengths, MAX_RANGE_BYTES, MAX_CONCURRENT_MEDIA_READS,
    MAX_MEDIA_READS_IN_FLIGHT, Scenes, MaxTroubles,
    Machines, Relative, Today, PIPE_BUFFER, HEALTH_CHECK_MAX_OUTPUT_BYTES, MaxChanges,
    Texts, Subtrees

\* Calls are finitely many, a limit is a number, and what a call is given is a list.
ASSUME LimitsAssumption ==
    /\ IsFiniteSet(Fetchers) /\ IsFiniteSet(Makers) /\ IsFiniteSet(MediaRequests)
    /\ {MAX_REDIRECT_HOPS, MAX_CONCURRENT_THUMBNAIL_RUNS, MAX_THUMBNAIL_RUNS_IN_FLIGHT, MAX_MEDIA_THUMBNAIL_ATTEMPTS,
        MAX_CONCURRENT_MEDIA_READS, MAX_MEDIA_READS_IN_FLIGHT} \subseteq Nat
    /\ \A p \in Plans : \A c \in Fetchers : \A given \in {p[c].urls, p[c].thumbnail} :
          given \in Seq({given[i] : i \in DOMAIN given})
    /\ "nobody" \notin Runs

VARIABLES
    part,
    db, session, fetch, reader,
    stream, abandoned, cancelled,
    source, cache, call, slot, ffmpeg, failed, asks,
    scenario, dir, crashDirs, data, synced, locks, pc, hash, fresh, seen,
    ask, at, folder, tree, semaphore, looked, request, stored,
    jar, parked, run, folders, writeBack, up, boot, swept, left, latest, renewals, direct, raced,
    chosen, previews, maker, gate, aged, trouble, persisted, changed, gone,
    plan, files, rows, avatars, place, setting, generation, running, stopping, check, scan, nodes, walk,
    events, early, told,
    scene, configured, home, mounted, phantom, granted, forbidden, recorded, share, page, granting,
    mover, writer, reads, slots, length, troubles, excused,
    machine, status, probe, report, jsDir, download, changes, disturbed, crossed,
    named, row, opened, reread

comments == <<db, session, fetch, reader>>
replays == vars
streams == <<stream, abandoned, cancelled>>
thumbs == <<source, cache, call, slot, ffmpeg, failed, asks>>
writes == <<scenario, dir, crashDirs, data, synced, locks, pc, hash, fresh, seen>>
images == <<ask, at, folder, tree, semaphore, looked, request, stored>>
jars == <<jar, parked, run, folders, writeBack, up, boot, swept, left, latest, renewals, direct, raced>>
shots == <<chosen, previews, maker, gate, aged, trouble, persisted, changed, gone>>
checks == <<plan, files, rows, avatars, place, setting, generation, running, stopping, check, scan,
            nodes, walk, events, early, told>>
served == <<scene, configured, home, mounted, phantom, granted, forbidden, recorded, share, page,
            granting, mover, writer, reads, slots, length, troubles, excused>>
programs == <<machine, status, probe, report, jsDir, download, changes, disturbed, crossed>>
paths == <<named, row, opened, reread>>
all == <<part, paths, served, programs, comments, replays, streams, thumbs, writes, images, jars, shots, checks>>

CommentsPart == INSTANCE Comments WITH launch <- session
StreamsPart == INSTANCE ReplayStream
ThumbsPart == INSTANCE DisplayCache
WritesPart == INSTANCE LibraryWrites WITH None <- Nothing
ImagesPart == INSTANCE RemoteImages
CookiesPart == INSTANCE CookiesFile
PreviewsPart == INSTANCE Previews WITH swept <- aged
ChecksPart == INSTANCE LibraryChecks
ServedPart == INSTANCE ServedLibrary
ProgramsPart == INSTANCE Tools
PathsPart == INSTANCE StoredPaths

\* What yt-dlp answers is a list of comments that have a text, and a database that is imported is one
\* of the app's own: its comments belong to rows of its own, which count them.
ASSUME ArchiveAssumption ==
    /\ \A r \in Responses :
          /\ r.comments \in Seq({r.comments[i] : i \in DOMAIN r.comments})
          /\ \A i \in DOMAIN r.comments : r.comments[i].text # CommentsPart!None
    /\ {"media", "rows", "seq"} \subseteq DOMAIN Imported
    /\ Imported.media \in Seq({Imported.media[m] : m \in DOMAIN Imported.media})
    /\ \A m \in DOMAIN Imported.media : {"video", "count", "has", "state"} \subseteq DOMAIN Imported.media[m]
    /\ \A c \in Imported.rows :
          /\ {"row", "media", "id", "author", "handle", "text", "original_text", "published_at", "of"} \subseteq DOMAIN c
          /\ c.media \in DOMAIN Imported.media /\ c.text # CommentsPart!None
    /\ CommentsPart!Own(Imported) /\ CommentsPart!Told(Imported)

AllInit ==
    /\ part \in {"comments", "replays", "streams", "thumbs", "writes", "images", "cookies", "previews", "checks", "served", "programs", "paths"}
    /\ Init /\ CommentsPart!Init /\ StreamsPart!Init /\ ThumbsPart!Init /\ WritesPart!Init /\ ImagesPart!Init
    /\ CookiesPart!Init /\ PreviewsPart!Init /\ ChecksPart!Init /\ ServedPart!Init /\ ProgramsPart!Init
    /\ PathsPart!Init

AllNext ==
    \/ part = "comments" /\ CommentsPart!Next /\ UNCHANGED <<part, paths, served, programs, replays, streams, thumbs, writes, images, jars, shots, checks>>
    \/ part = "replays" /\ Next /\ UNCHANGED <<part, paths, served, programs, comments, streams, thumbs, writes, images, jars, shots, checks>>
    \/ part = "streams" /\ StreamsPart!Next /\ UNCHANGED <<part, paths, served, programs, comments, replays, thumbs, writes, images, jars, shots, checks>>
    \/ part = "thumbs" /\ ThumbsPart!Next /\ UNCHANGED <<part, paths, served, programs, comments, replays, streams, writes, images, jars, shots, checks>>
    \/ part = "writes" /\ WritesPart!Next /\ UNCHANGED <<part, paths, served, programs, comments, replays, streams, thumbs, images, jars, shots, checks>>
    \/ part = "images" /\ ImagesPart!Next /\ UNCHANGED <<part, paths, served, programs, comments, replays, streams, thumbs, writes, jars, shots, checks>>
    \/ part = "cookies" /\ CookiesPart!Next /\ UNCHANGED <<part, paths, served, programs, comments, replays, streams, thumbs, writes, images, shots, checks>>
    \/ part = "previews" /\ PreviewsPart!Next /\ UNCHANGED <<part, paths, served, programs, comments, replays, streams, thumbs, writes, images, jars, checks>>
    \/ part = "checks" /\ ChecksPart!Next /\ UNCHANGED <<part, paths, served, programs, comments, replays, streams, thumbs, writes, images, jars, shots>>
    \/ part = "served" /\ ServedPart!Next /\ UNCHANGED <<part, paths, programs, comments, replays, streams, thumbs, writes, images, jars, shots, checks>>
    \/ part = "programs" /\ ProgramsPart!Next /\ UNCHANGED <<part, paths, served, comments, replays, streams, thumbs, writes, images, jars, shots, checks>>
    \/ part = "paths" /\ PathsPart!Next /\ UNCHANGED <<part, served, programs, comments, replays, streams, thumbs, writes, images, jars, shots, checks>>

AllSpec == AllInit /\ [][AllNext]_all

\* A comment keeps the text, author and date it was first archived with, under the video it was
\* written under, and the row of its media counts it.
ArchiveKept ==
    /\ CommentsPart!ArchiveKept
    /\ [](part = "comments" => CommentsPart!OwnComments /\ CommentsPart!StateTells)

\* What the app made or fetched stays whole: a display copy under every name the cache answers with,
\* an image that was fetched, a preview of the content its name tells, which an answer finds until it
\* is removed; and the user's cookies file survives the runs that rewrite it.
FilesKept ==
    /\ part = "thumbs" => ThumbsPart!CacheWhole
    /\ part = "images" => ImagesPart!ImagesWhole
    /\ part = "previews" => PreviewsPart!PreviewsWhole
    /\ part = "cookies" => CookiesPart!ExportKept

\* What is told is what there is. A name made from a content holds that content, a file given to the
\* library is found under one of its names until the library holds it, and a path that is kept is the
\* one name of its file; a page is told every comment of its video, every line of a replay, a
\* final "no" for a thumbnail only when it is one, and what a check of the library found of a file.
AnswersTell ==
    /\ part = "writes" => WritesPart!GivenKept /\ WritesPart!NamesTellContent
    /\ part = "paths" => PathsPart!OneNameEach /\ PathsPart!StoredOpens
    /\ part = "comments" => CommentsPart!ReadWhole
    /\ part = "streams" => StreamsPart!StreamsTell
    /\ part = "thumbs" => ThumbsPart!FinalAnswers
    /\ part = "checks" => /\ ChecksPart!VerificationTells /\ ChecksPart!OneVerification
                          /\ ChecksPart!ScanTells /\ ChecksPart!WalkTells
    /\ part = "served" => ServedPart!ServedAsTold /\ ServedPart!NotMadeAnew /\ ServedPart!RangesTell
    /\ part = "programs" => /\ ProgramsPart!LookupTells /\ ProgramsPart!StatusTells
                            /\ ProgramsPart!ChildrenFindDeno

\* What a fetch or a program is started for stays within its bounds: the servers it may reach, the
\* tries and the programs it may run, and what it leaves in the cache.
FetchesBounded ==
    /\ part = "images" => /\ ImagesPart!ReachesOnlyItsServers /\ ImagesPart!RunsCounted
                          /\ ImagesPart!CandidatesDiffer
    /\ part = "previews" => PreviewsPart!PreviewsCounted /\ PreviewsPart!PartialsGone
    /\ part = "cookies" => CookiesPart!CopiesSwept
    /\ part = "served" => ServedPart!ReadsCounted
    /\ part = "programs" => ProgramsPart!NothingLeft
=============================================================================
