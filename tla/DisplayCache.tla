---------------------------- MODULE DisplayCache ----------------------------
(***************************************************************************)
(* The display-sized copies of a page of thumbnails: calls that resolve a  *)
(* page and run FFmpeg for what is not cached, one at a time and within a  *)
(* budget, the trim of the cache at startup, and the removal of a          *)
(* thumbnail (services/thumbnail/display.rs, commands/thumbnail.rs,        *)
(* cleanup_display_cache of services/temp_cleanup.rs).                     *)
(*                                                                         *)
(* A copy is named after the content of its thumbnail, so a cached one     *)
(* never goes stale; what it can be is cut short. The page settles on the  *)
(* two final answers and asks again about the third.                       *)
(***************************************************************************)
EXTENDS Lists, SequencesExt

CONSTANTS
    Paths,                     \* the thumbnails of the library
    Size,                      \* Paths -> what a copy takes
    Calls,                     \* concurrent calls of resolve_display_thumbnails
    MAX_RESOLVED_PER_CALL,
    MAX_GENERATIONS_PER_CALL,
    DISPLAY_CACHE_MAX_BYTES,
    MaxRequest,                \* bound: paths in one request
    MaxAsks                    \* bound: calls the pages make

VARIABLES
    source,    \* Paths -> "usable", or why it gives no copy
    cache,     \* the folder, oldest first: [of, name, data]
    call,      \* Calls -> [pc, request, answers, left]
    slot,      \* RESOLVE_SLOT: the call that holds it, or none
    ffmpeg,    \* the binary is found
    failed,    \* history: the thumbnails FFmpeg failed on
    asks

vars == <<source, cache, call, slot, ffmpeg, failed, asks>>

Free == "free"
Idle == [pc |-> "idle", request |-> <<>>, answers |-> <<>>, left |-> 0]
Entry(p, name, data) == [of |-> p, name |-> name, data |-> data]

Init ==
    /\ source \in [Paths -> {"usable", "empty", "link", "unnamed"}]
    /\ cache = <<>>
    /\ call = [c \in Calls |-> Idle]
    /\ slot = Free
    /\ ffmpeg \in BOOLEAN
    /\ failed = {}
    /\ asks = 0

(***************************************************************************)
(* The folder.                                                             *)
(***************************************************************************)

Without(s, p, names) == Removed(s, {i \in DOMAIN s : s[i].of = p /\ s[i].name \in names})

\* a regular file with bytes in it
is_usable_file(p) == \E i \in DOMAIN cache : cache[i].of = p /\ cache[i].name = "final" /\ cache[i].data # "empty"

\* Mutant: FFmpeg writes under the name the cache answers with.
UnderItsName(p) == Entry(p, "final", "cut")

\* the name FFmpeg writes under, which no call answers with
partial_derivative_path(p) == Entry(p, "partial", "cut")

Bytes(s) == FoldLeft(LAMBDA n, e : n + Size[e.of], 0, s)

\* the oldest go until the rest fits, partial copies included
plan_display_cache_eviction(s) ==
    CHOOSE n \in 0 .. Len(s) :
       /\ Bytes(SubSeq(s, n + 1, Len(s))) <= DISPLAY_CACHE_MAX_BYTES
       /\ \A m \in 0 .. n - 1 : Bytes(SubSeq(s, m + 1, Len(s))) > DISPLAY_CACHE_MAX_BYTES

\* the startup sweep; a file that is held stays
cleanup_display_cache ==
    /\ cache # <<>>
    /\ \E held \in SUBSET (1 .. plan_display_cache_eviction(cache)) :
          cache' = Removed(cache, (1 .. plan_display_cache_eviction(cache)) \ held)
    /\ UNCHANGED <<source, call, slot, ffmpeg, failed, asks>>

\* the thumbnail goes, and the copy made from it
RemoveThumbnail ==
    \E p \in Paths :
       /\ source[p] = "usable"
       /\ source' = [source EXCEPT ![p] = "gone"]
       /\ cache' = Without(cache, p, {"final"})
       /\ UNCHANGED <<call, slot, ffmpeg, failed, asks>>

(***************************************************************************)
(* resolve_display_thumbnails.                                             *)
(***************************************************************************)

Min2(a, b) == IF a < b THEN a ELSE b
capped_call_length(requested) == Min2(requested, MAX_RESOLVED_PER_CALL)

\* Mutant: a call that finds the slot taken answers that there is no copy.
all_final(n) == [i \in 1 .. n |-> "unavailable"]

\* the answer of a call that was refused the slot, and of the paths a call did not come to
all_retryable(n) == [i \in 1 .. n |-> "budgetSpent"]

Answer(c, a) == call' = [call EXCEPT ![c].answers = Append(@, a)]

try_reserve_resolve_slot(c) ==
    /\ call[c].pc = "idle" /\ asks < MaxAsks
    /\ asks' = asks + 1
    /\ \E n \in 1 .. MaxRequest : \E request \in [1 .. n -> Paths] :
          IF slot = Free
          THEN /\ slot' = c
               /\ call' = [call EXCEPT ![c] = [pc |-> "resolve", request |-> request, answers |-> <<>>,
                                               left |-> MAX_GENERATIONS_PER_CALL]]
          ELSE /\ slot' = slot
               /\ call' = [call EXCEPT ![c] = [pc |-> "answered", request |-> request, left |-> 0,
                                               answers |-> all_retryable(capped_call_length(n))]]
    /\ UNCHANGED <<source, cache, ffmpeg, failed>>

\* the path whose turn it is, and what of it is final without a look at the clock
Asked(c) == call[c].request[Len(call[c].answers) + 1]
NoCopyOf(p) == source[p] # "usable" \/ ~ffmpeg

\* the clock may pass the budget at any path; a hit in the cache does not look at it
resolve_one(c) ==
    LET p == Asked(c) IN
    /\ call[c].pc = "resolve"
    /\ Len(call[c].answers) < capped_call_length(Len(call[c].request))
    /\ \/ /\ source[p] = "unnamed" \/ ~is_usable_file(p)
          /\ NoCopyOf(p)
          /\ Answer(c, "unavailable") /\ UNCHANGED cache
       \/ /\ source[p] # "unnamed" /\ is_usable_file(p)
          /\ Answer(c, "resolved") /\ UNCHANGED cache
       \/ /\ ~NoCopyOf(p) /\ ~is_usable_file(p)
          /\ Answer(c, "budgetSpent") /\ UNCHANGED cache
       \/ /\ ~NoCopyOf(p) /\ ~is_usable_file(p) /\ call[c].left > 0
          /\ call' = [call EXCEPT ![c].pc = "ffmpeg", ![c].left = @ - 1]
          /\ cache' = Append(Without(cache, p, {partial_derivative_path(p).name}), partial_derivative_path(p))
    /\ UNCHANGED <<source, slot, ffmpeg, failed, asks>>

\* FFmpeg exits, or is killed at its deadline: what it wrote takes the name, or goes
generate_display_thumbnail(c) ==
    LET p == Asked(c)
        mine(e) == e.of = p /\ e.name = "partial"
    IN /\ call[c].pc = "ffmpeg"
       /\ \/ /\ \E i \in DOMAIN cache : mine(cache[i])       \* the sweep may have taken it
             /\ cache' = Append(Without(cache, p, {"partial", "final"}), Entry(p, "final", "whole"))
             /\ call' = [call EXCEPT ![c].pc = "resolve", ![c].answers = Append(@, "resolved")]
             /\ UNCHANGED failed
          \/ /\ cache' = Without(cache, p, {"partial"})
             /\ call' = [call EXCEPT ![c].pc = "resolve", ![c].answers = Append(@, "unavailable")]
             /\ failed' = failed \cup {p}
       /\ UNCHANGED <<source, slot, ffmpeg, asks>>

\* answers by position: those past the ceiling were not looked at
resolve_display_thumbnails_sync(c) ==
    LET n == Len(call[c].request) IN
    /\ call[c].pc = "resolve"
    /\ Len(call[c].answers) = capped_call_length(n)
    /\ call' = [call EXCEPT ![c].pc = "answered",
                            ![c].answers = @ \o all_retryable(n - Len(@))]
    /\ slot' = Free
    /\ UNCHANGED <<source, cache, ffmpeg, failed, asks>>

Received(c) ==
    /\ call[c].pc = "answered"
    /\ call' = [call EXCEPT ![c] = Idle]
    /\ UNCHANGED <<source, cache, slot, ffmpeg, failed, asks>>

\* the app is killed, FFmpeg with it, and starts again; what it wrote stays, under a name no later
\* run makes
Kill ==
    /\ slot # Free
    /\ call' = [c \in Calls |-> Idle]
    /\ slot' = Free
    /\ failed' = {}
    /\ cache' = [i \in DOMAIN cache |->
                   IF cache[i].name = "partial" THEN [cache[i] EXCEPT !.name = "left"] ELSE cache[i]]
    /\ UNCHANGED <<source, ffmpeg, asks>>

Next ==
    \/ cleanup_display_cache \/ RemoveThumbnail \/ Kill
    \/ \E c \in Calls :
          \/ try_reserve_resolve_slot(c) \/ resolve_one(c) \/ generate_display_thumbnail(c)
          \/ resolve_display_thumbnails_sync(c) \/ Received(c)

Spec == Init /\ [][Next]_vars

(***************************************************************************)
(* Properties.                                                             *)
(***************************************************************************)

\* A name the cache answers with never names a copy that was cut short, though FFmpeg is killed at
\* its deadline or with the app, and nothing ever makes such a copy again.
CacheWhole == \A i \in DOMAIN cache : cache[i].name = "final" => cache[i].data = "whole"

\* An answer the page settles on for good is about that thumbnail: a call that was refused, ran out
\* of its budget or was cut at its ceiling decides nothing.
FinalAnswers ==
    \A c \in Calls : \A i \in DOMAIN call[c].answers :
       call[c].answers[i] = "unavailable" =>
          NoCopyOf(call[c].request[i]) \/ call[c].request[i] \in failed
=============================================================================
