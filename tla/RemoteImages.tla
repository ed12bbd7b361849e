---------------------------- MODULE RemoteImages ----------------------------
(***************************************************************************)
(* Fetching a thumbnail or an avatar (services/thumbnail/download, url.rs, *)
(* redirect.rs, services/yt_dlp/url.rs): a request to an image server that *)
(* follows redirects itself, or a yt-dlp run among a bounded number of     *)
(* them, both into a scratch folder of their own.                          *)
(*                                                                         *)
(* A name is looked up twice, once by the check before a request and once  *)
(* by the connection, and may answer differently. The library that moves   *)
(* while an image is fetched is in LibraryMove.                            *)
(***************************************************************************)
EXTENDS Naturals, Sequences, SequencesExt, FiniteSets

CONSTANTS
    Fetchers,                      \* calls at once
    Plans,                         \* what they ask: functions from Fetchers to requests
    Places,                        \* URLs a server redirects to
    MAX_REDIRECT_HOPS,
    DIRECT_THUMBNAIL_MAX_BYTES,
    MAX_MEDIA_THUMBNAIL_ATTEMPTS,
    MAX_CONCURRENT_THUMBNAIL_RUNS,
    MAX_THUMBNAIL_RUNS_IN_FLIGHT,
    MaxBody                        \* bound: the size of an answer

VARIABLES
    ask,        \* Fetchers -> what is asked: [kind, urls, thumbnail]
    at,         \* Fetchers -> where it stands: [pc, url, hops, file, tries, answer]
    folder,     \* Fetchers -> its scratch folder: "none", "there", "stuck" (could not be removed)
    tree,       \* Fetchers -> its processes
    semaphore,  \* [running, inFlight]
    looked,     \* the last name looked up, and for what
    request,    \* the last request: [scheme, host, address]
    stored      \* the images of the library

vars == <<ask, at, folder, tree, semaphore, looked, request, stored>>

Nowhere == [scheme |-> "none", host |-> "none", name |-> "none", ext |-> "none", query |-> "none", width |-> 0]
Start == [pc |-> "idle", url |-> Nowhere, hops |-> 0, file |-> "none", tries |-> <<>>, answer |-> "none"]
NoLookup == [host |-> "none", for |-> "none"]
NoRequest == [scheme |-> "none", host |-> "none", address |-> "none"]

Init ==
    /\ ask \in Plans
    /\ at = [c \in Fetchers |-> Start]
    /\ folder = [c \in Fetchers |-> "none"]
    /\ tree = [c \in Fetchers |-> {}]
    /\ semaphore = [running |-> 0, inFlight |-> 0]
    /\ looked = NoLookup
    /\ request = NoRequest
    /\ stored = {}

(***************************************************************************)
(* URLs.                                                                   *)
(***************************************************************************)

ALLOWED_THUMBNAIL_IMAGE_HOSTS == {"ytimg", "youtube"}
YOUTUBE_DOMAINS == {"youtube", "youtu.be"}

direct_image_extension(url) == url.ext
is_allowed_thumbnail_image_host(url) == url.host \in ALLOWED_THUMBNAIL_IMAGE_HOSTS
is_allowed_youtube_url(url) == url.host \in YOUTUBE_DOMAINS
names_one_video(url) == url.name = "video"
is_direct_thumbnail_url(url) ==
    url.scheme = "https" /\ direct_image_extension(url) # "none" /\ is_allowed_thumbnail_image_host(url)

SameResource(a, b) == [a EXCEPT !.query = "none", !.width = 0] = [b EXCEPT !.query = "none", !.width = 0]

\* declared ones from the largest, JPEG first, the metadata's own between; each resource once.
\* The declared ones are gone through twice, for the JPEGs and for the others.
media_thumbnail_candidates(thumbnail, thumbnails) ==
    LET declared == Reverse(thumbnails)
        ordered == declared \o thumbnail \o declared
        first(i) == i <= Len(declared)
        last(i) == i > Len(declared) + Len(thumbnail)
        wanted(i) ==
            /\ first(i) => ordered[i].width > 0 /\ ordered[i].ext = "jpg"
            /\ last(i) => ordered[i].width > 0 /\ ordered[i].ext # "jpg"
            /\ is_direct_thumbnail_url(ordered[i])
        all[i \in 0 .. Len(ordered)] ==
            IF i = 0 THEN <<>>
            ELSE IF wanted(i) /\ \A j \in DOMAIN all[i - 1] : ~SameResource(all[i - 1][j], ordered[i])
            THEN Append(all[i - 1], ordered[i])
            ELSE all[i - 1]
        candidates == all[Len(ordered)]
    IN SubSeq(candidates, 1, IF Len(candidates) < MAX_MEDIA_THUMBNAIL_ATTEMPTS
                             THEN Len(candidates) ELSE MAX_MEDIA_THUMBNAIL_ATTEMPTS)

(***************************************************************************)
(* A call, from its request to its answer.                                 *)
(***************************************************************************)

Goes(c, pc) == at' = [at EXCEPT ![c].pc = pc]

\* an error of the part that has a scratch folder: the folder is removed before it is answered
Fails(c) == at' = [at EXCEPT ![c].pc = "clean", ![c].answer = "error"]
Answers(c, a) == at' = [at EXCEPT ![c].pc = "answered", ![c].answer = a]

\* Mutant: the folder of an avatar is made before its programs are looked for.
FolderFirst(c) ==
    /\ at[c].pc = "idle" /\ ask[c].kind = "avatar"
    /\ folder' = [folder EXCEPT ![c] = "there"]
    /\ Goes(c, "queue") \/ Answers(c, "error")
    /\ UNCHANGED <<ask, tree, semaphore, looked, request, stored>>

\* the handle becomes a URL of YouTube, and the two programs are there; the library is
download_channel_avatar_from_handle_async(c) ==
    /\ at[c].pc = "idle" /\ ask[c].kind = "avatar"
    /\ \/ folder' = [folder EXCEPT ![c] = "there"] /\ Goes(c, "queue")
       \/ Answers(c, "error") /\ UNCHANGED folder
    /\ UNCHANGED <<ask, tree, semaphore, looked, request, stored>>

download_media_thumbnail_async(c) ==
    /\ at[c].pc = "idle" /\ ask[c].kind = "media"
    /\ at' = [at EXCEPT ![c].pc = "try",
                        ![c].tries = media_thumbnail_candidates(ask[c].thumbnail, ask[c].urls)]
    /\ UNCHANGED <<ask, folder, tree, semaphore, looked, request, stored>>

\* the next candidate, unless there is none or the run was cancelled
NextCandidate(c) ==
    /\ at[c].pc = "try"
    /\ \/ /\ at[c].tries # <<>>
          /\ at' = [at EXCEPT ![c] = [Start EXCEPT !.pc = "prepare", !.url = Head(at[c].tries),
                                                   !.tries = Tail(at[c].tries), !.answer = at[c].answer]]
       \/ Answers(c, at[c].answer)
    /\ UNCHANGED <<ask, folder, tree, semaphore, looked, request, stored>>

download_thumbnail_from_url_async(c) ==
    /\ at[c].pc = "idle" /\ ask[c].kind = "url"
    /\ IF ask[c].urls[1].scheme \in {"http", "https"}
       THEN at' = [at EXCEPT ![c].pc = "prepare", ![c].url = ask[c].urls[1]]
       ELSE Answers(c, "error")
    /\ UNCHANGED <<ask, folder, tree, semaphore, looked, request, stored>>

\* the library is resolved and the scratch folder made, or neither
prepare_thumbnail_dirs(c) ==
    /\ at[c].pc = "prepare"
    /\ \/ folder' = [folder EXCEPT ![c] = "there"] /\ Goes(c, "route")
       \/ UNCHANGED folder /\ IF ask[c].kind = "media"
                              THEN at' = [at EXCEPT ![c].pc = "try", ![c].answer = "error"]
                              ELSE Answers(c, "error")
    /\ UNCHANGED <<ask, tree, semaphore, looked, request, stored>>

\* Mutant: the name of a page is looked up before the page is known to be YouTube's.
AddressFirst(c) ==
    /\ at[c].pc = "route"
    /\ IF direct_image_extension(at[c].url) # "none"
       THEN IF is_direct_thumbnail_url(at[c].url) THEN Goes(c, "check") ELSE Fails(c)
       ELSE Goes(c, "resolve")
    /\ UNCHANGED <<ask, folder, tree, semaphore, looked, request, stored>>

\* an image is requested, a page of YouTube that is one video goes to yt-dlp, and nothing else
\* leaves the machine, a lookup included
Route(c) ==
    /\ at[c].pc = "route"
    /\ IF direct_image_extension(at[c].url) # "none"
       THEN IF is_direct_thumbnail_url(at[c].url) THEN Goes(c, "check") ELSE Fails(c)
       ELSE IF is_allowed_youtube_url(at[c].url) /\ names_one_video(at[c].url) THEN Goes(c, "resolve")
            ELSE Fails(c)
    /\ UNCHANGED <<ask, folder, tree, semaphore, looked, request, stored>>

(***************************************************************************)
(* The request.                                                            *)
(***************************************************************************)

Addresses == {"public", "private"}

\* what a lookup answers: no address, or some
Lookup(c, for, found) ==
    /\ found \in SUBSET Addresses
    /\ looked' = [host |-> at[c].url.host, for |-> for]

\* the check before a request, and before a page is handed to yt-dlp
assert_url_host_is_public(c) ==
    /\ at[c].pc \in {"check", "resolve"}
    /\ \E found \in SUBSET Addresses :
          /\ Lookup(c, IF at[c].pc = "check" THEN "image" ELSE "page", found)
          /\ IF found # {"public"} THEN Fails(c)
             ELSE Goes(c, IF at[c].pc = "check" THEN "dial" ELSE "probe")
    /\ UNCHANGED <<ask, folder, tree, semaphore, request, stored>>

\* Mutant: the connection takes any address, as the check before it saw a public one.
AnyAddress(found) == found

\* what the connection may dial
PublicOnlyResolver(found) == found \ {"private"}

hop_budget_exhausted(hops) == hops >= MAX_REDIRECT_HOPS

\* a Location without a scheme or a host takes them from where it was answered
resolve_redirect(url, location) ==
    [location EXCEPT !.scheme = IF @ = "inherited" THEN url.scheme ELSE @,
                     !.host = IF @ = "inherited" THEN url.host ELSE @]

\* Mutant: where a fetch starts is checked, and not where it goes on.
AnyHop(url, location, hops) ==
    ~hop_budget_exhausted(hops) /\ location # Nowhere

next_hop(url, location, hops) ==
    /\ ~hop_budget_exhausted(hops)
    /\ location # Nowhere
    /\ resolve_redirect(url, location).scheme = "https"
    /\ is_allowed_thumbnail_image_host(resolve_redirect(url, location))

\* a request and its answer: no connection, a redirect, or a body. The connector takes no cleartext.
Request(c) ==
    /\ at[c].pc = "dial"
    /\ \E found \in SUBSET Addresses :
          /\ Lookup(c, "image", found)
          /\ \/ /\ PublicOnlyResolver(found) = {} \/ at[c].url.scheme # "https"
                /\ Fails(c) /\ UNCHANGED request
             \/ /\ at[c].url.scheme = "https"
                /\ \E address \in PublicOnlyResolver(found) :
                      request' = [scheme |-> "https", host |-> at[c].url.host, address |-> address]
                /\ \/ Goes(c, "body")
                   \/ \E location \in Places \cup {Nowhere} :
                         IF next_hop(at[c].url, location, at[c].hops)
                         THEN at' = [at EXCEPT ![c].pc = "check", ![c].hops = @ + 1,
                                               ![c].url = resolve_redirect(at[c].url, location)]
                         ELSE Fails(c)
    /\ UNCHANGED <<ask, folder, tree, semaphore, stored>>

\* one deadline for the lookups, the hops and the body, and any of them may fail
RequestFails(c) ==
    /\ at[c].pc \in {"check", "dial", "body"}
    /\ Fails(c)
    /\ UNCHANGED <<ask, folder, tree, semaphore, looked, request, stored>>

\* a success, of an image type, and an image by its bytes
AnswerIsAnImage(success, type, bytes) == success /\ type /\ bytes = "image"

\* the whole answer, under the limit
http_get_image(c) ==
    /\ at[c].pc = "body"
    /\ \E size \in 0 .. MaxBody, success, type \in BOOLEAN, bytes \in {"image", "page"} :
          IF size <= DIRECT_THUMBNAIL_MAX_BYTES /\ size > 0 /\ AnswerIsAnImage(success, type, bytes)
          THEN at' = [at EXCEPT ![c].pc = "persist", ![c].file = bytes] \/ Fails(c)
          ELSE Fails(c)
    /\ UNCHANGED <<ask, folder, tree, semaphore, looked, request, stored>>

(***************************************************************************)
(* The run.                                                                *)
(***************************************************************************)

\* the programs are found and yt-dlp tells of the video
fetch_yt_dlp_metadata(c) ==
    /\ at[c].pc = "probe"
    /\ Goes(c, "queue") \/ Fails(c)
    /\ UNCHANGED <<ask, folder, tree, semaphore, looked, request, stored>>

\* a place among the runs, or a refusal when too many wait
Enqueue(c) ==
    /\ at[c].pc = "queue"
    /\ IF semaphore.inFlight < MAX_THUMBNAIL_RUNS_IN_FLIGHT
       THEN semaphore' = [semaphore EXCEPT !.inFlight = @ + 1] /\ Goes(c, "wait")
       ELSE UNCHANGED semaphore /\ Fails(c)
    /\ UNCHANGED <<ask, folder, tree, looked, request, stored>>

Leaves(c) == semaphore' = [running |-> semaphore.running - 1, inFlight |-> semaphore.inFlight - 1]

\* the permit is held from before the start to the end of the run
Spawn(c) ==
    /\ at[c].pc = "wait"
    /\ semaphore.running < MAX_CONCURRENT_THUMBNAIL_RUNS
    /\ \/ /\ semaphore' = [semaphore EXCEPT !.running = @ + 1]
          /\ tree' = [tree EXCEPT ![c] = {"yt-dlp"}]
          /\ Goes(c, "run")
       \/ semaphore' = [semaphore EXCEPT !.inFlight = @ - 1] /\ Fails(c) /\ UNCHANGED tree
    /\ UNCHANGED <<ask, folder, looked, request, stored>>

\* yt-dlp has the image and converts it
Converts(c) ==
    /\ at[c].pc = "run" /\ tree[c] = {"yt-dlp"}
    /\ tree' = [tree EXCEPT ![c] = @ \cup {"ffmpeg"}]
    /\ UNCHANGED <<ask, at, folder, semaphore, looked, request, stored>>

\* yt-dlp ended, and FFmpeg before it
RunEnds(c) == at[c].pc = "run" /\ tree' = [tree EXCEPT ![c] = {}] /\ Leaves(c)

\* the file it left is an image, another thing, or missing
finalize_thumbnail_download(c) ==
    /\ RunEnds(c)
    /\ Fails(c) \/ \E bytes \in {"image", "page"} : at' = [at EXCEPT ![c].pc = "persist", ![c].file = bytes]
    /\ UNCHANGED <<ask, folder, looked, request, stored>>

\* Mutant: at the deadline only the child is killed, not what it started.
ChildOnly(c) == tree[c] \ {"yt-dlp"}

kill_process_tree(c) == {}

run_thumbnail_yt_dlp_with_timeout(c) ==
    /\ at[c].pc = "run"
    /\ tree' = [tree EXCEPT ![c] = kill_process_tree(c)]
    /\ Leaves(c)
    /\ Fails(c)
    /\ UNCHANGED <<ask, folder, looked, request, stored>>

(***************************************************************************)
(* The end.                                                                *)
(***************************************************************************)

\* Mutant: a file is taken for what its extension says.
ByItsName(c) ==
    /\ at[c].pc = "persist"
    /\ stored' = stored \cup {at[c].file} /\ at' = [at EXCEPT ![c].pc = "clean", ![c].answer = "stored"]
    /\ UNCHANGED <<ask, folder, tree, semaphore, looked, request>>

\* into the library under its hash, by its bytes and not by its name, or an error
persist_thumbnail_from_source_async(c) ==
    /\ at[c].pc = "persist"
    /\ \/ /\ at[c].file = "image"
          /\ stored' = stored \cup {at[c].file}
          /\ at' = [at EXCEPT ![c].pc = "clean", ![c].answer = "stored"]
       \/ Fails(c) /\ UNCHANGED stored
    /\ UNCHANGED <<ask, folder, tree, semaphore, looked, request>>

\* the scratch folder is removed whatever happened, as far as it lets itself
remove_dir_all(c) ==
    /\ at[c].pc = "clean"
    /\ \E left \in {"none", "stuck"} : folder' = [folder EXCEPT ![c] = left]
    /\ IF ask[c].kind = "media" /\ at[c].answer = "error" THEN Goes(c, "try") ELSE Goes(c, "answered")
    /\ UNCHANGED <<ask, tree, semaphore, looked, request, stored>>

Next == \E c \in Fetchers :
    \/ download_channel_avatar_from_handle_async(c) \/ download_media_thumbnail_async(c) \/ NextCandidate(c)
    \/ download_thumbnail_from_url_async(c) \/ prepare_thumbnail_dirs(c) \/ Route(c)
    \/ assert_url_host_is_public(c) \/ Request(c) \/ RequestFails(c) \/ http_get_image(c)
    \/ fetch_yt_dlp_metadata(c) \/ Enqueue(c) \/ Spawn(c) \/ Converts(c)
    \/ finalize_thumbnail_download(c) \/ run_thumbnail_yt_dlp_with_timeout(c)
    \/ persist_thumbnail_from_source_async(c) \/ remove_dir_all(c)

Spec == Init /\ [][Next]_vars

(***************************************************************************)
(* What must hold.                                                         *)
(***************************************************************************)

\* Wherever a server redirects and whatever a name answers the second time, a request goes over TLS
\* to an image server at a public address, at most MAX_REDIRECT_HOPS times from where it started;
\* and no other name is looked up (redirect.rs next_hop, fetch.rs PublicOnlyResolver).
ReachesOnlyItsServers ==
    /\ request # NoRequest =>
          /\ request.scheme = "https" /\ request.address = "public"
          /\ request.host \in ALLOWED_THUMBNAIL_IMAGE_HOSTS
    /\ looked.for = "image" => looked.host \in ALLOWED_THUMBNAIL_IMAGE_HOSTS
    /\ looked.for = "page" => looked.host \in YOUTUBE_DOMAINS
    /\ \A c \in Fetchers : at[c].hops <= MAX_REDIRECT_HOPS

\* What is stored is an image by its bytes; and a call that ended left no folder, except one the
\* system would not remove (persist.rs, the end of both downloads).
ImagesWhole ==
    /\ stored \subseteq {"image"}
    /\ \A c \in Fetchers : at[c].pc = "answered" => folder[c] \in {"none", "stuck"}

\* A program runs only for a call that holds a permit, so at most so many trees run at once, and
\* every place in the queue comes back (process.rs THUMBNAIL_RUN_SEMAPHORE).
RunsCounted ==
    LET in(pcs) == {c \in Fetchers : at[c].pc \in pcs}
    IN /\ \A c \in Fetchers : tree[c] # {} => at[c].pc = "run"
       /\ semaphore = [running |-> Cardinality(in({"run"})), inFlight |-> Cardinality(in({"wait", "run"}))]
       /\ semaphore.running <= MAX_CONCURRENT_THUMBNAIL_RUNS
       /\ semaphore.inFlight <= MAX_THUMBNAIL_RUNS_IN_FLIGHT

\* The tries of a media are few, none of them is a page, and no two are the same image.
CandidatesDiffer ==
    \A c \in Fetchers : at[c].pc = "try" /\ at[c].answer = "none" =>
       /\ Len(at[c].tries) <= MAX_MEDIA_THUMBNAIL_ATTEMPTS
       /\ \A i, j \in DOMAIN at[c].tries :
             /\ is_direct_thumbnail_url(at[c].tries[i])
             /\ i # j => ~SameResource(at[c].tries[i], at[c].tries[j])
=============================================================================
