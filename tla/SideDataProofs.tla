--------------------------- MODULE SideDataProofs ---------------------------
(***************************************************************************)
(* Proofs about the parts of SideData, for every value of their constants. *)
(***************************************************************************)
EXTENDS SideData, Lists, FiniteSetTheorems, NaturalsInduction, WellFoundedInduction, TLAPS

\* A set that gains or loses one element.
LEMMA MembersMove ==
  ASSUME NEW S, IsFiniteSet(S), NEW c \in S, NEW A \in SUBSET S, NEW B \in SUBSET S,
         \A d \in S : d # c => (d \in A <=> d \in B)
  PROVE  /\ IsFiniteSet(A) /\ Cardinality(A) \in Nat /\ IsFiniteSet(B) /\ Cardinality(B) \in Nat
         /\ (c \in A <=> c \in B) => B = A
         /\ c \notin A /\ c \in B => Cardinality(B) = Cardinality(A) + 1
         /\ c \in A /\ c \notin B => Cardinality(B) = Cardinality(A) - 1
<1>1. /\ IsFiniteSet(A) /\ IsFiniteSet(B) /\ Cardinality(A) \in Nat /\ Cardinality(B) \in Nat
  BY FS_Subset, FS_CardinalityType
<1>2. ASSUME c \in A <=> c \in B PROVE B = A
  <2>1. \A d \in S : d \in A <=> d \in B
    BY <1>2
  <2> QED BY <2>1
<1>3. ASSUME c \notin A, c \in B PROVE Cardinality(B) = Cardinality(A) + 1
  <2>1. B = A \cup {c}
    BY <1>3, Zenon
  <2> QED BY <1>1, <1>3, <2>1, FS_AddElement
<1>4. ASSUME c \in A, c \notin B PROVE Cardinality(B) = Cardinality(A) - 1
  <2>1. B = A \ {c}
    BY <1>4, Zenon
  <2> QED BY <1>1, <1>4, <2>1, FS_RemoveElement
<1> QED BY <1>1, <1>2, <1>3, <1>4

(***************************************************************************)
(* The programs: what a probe that gave up leaves running.                 *)
(***************************************************************************)
Numbers == 1 .. Len(ProgramsPart!Tools)
StatusFields == {"pc", "tool", "at", "js"}
ReportFields == {"path", "healthy", "version", "age", "timedOut"}
ChildFields == {"pc", "left", "pipe", "kept", "helper", "late"}

\* A tool that was reported is behind the one at hand, and its probe with it.
ProbesBehind ==
  /\ DOMAIN report = Numbers /\ DOMAIN probe = Numbers /\ StatusFields \subseteq DOMAIN status
  /\ \A i \in Numbers : ReportFields \subseteq DOMAIN report[i] /\ ChildFields \subseteq DOMAIN probe[i]
  /\ status.tool \in Nat
  /\ status.pc # "over" => status.tool \in Numbers
  /\ \A i \in Numbers : report[i].timedOut =>
        i < status.tool /\ probe[i].pc = "exited" /\ ~probe[i].helper

LEMMA NumbersAre == Numbers = 1 .. 3 /\ Len(ProgramsPart!Tools) = 3
  BY DEF Numbers, ProgramsPart!Tools

LEMMA ProbesInit == ProgramsPart!Init => ProbesBehind
<1> SUFFICES ASSUME ProgramsPart!Init PROVE ProbesBehind
  OBVIOUS
<1>1. /\ report = [t \in Numbers |-> ProgramsPart!Unasked] /\ probe = [t \in Numbers |-> ProgramsPart!NoChild]
      /\ status.tool = 1 /\ StatusFields \subseteq DOMAIN status
  BY DEF ProgramsPart!Init, Numbers, StatusFields
<1>2. /\ ReportFields \subseteq DOMAIN ProgramsPart!Unasked /\ ~ProgramsPart!Unasked.timedOut
      /\ ChildFields \subseteq DOMAIN ProgramsPart!NoChild
  BY DEF ProgramsPart!Unasked, ProgramsPart!NoChild, ReportFields, ChildFields
<1>3. 1 \in Numbers
  BY NumbersAre
<1> QED BY <1>1, <1>2, <1>3 DEF ProbesBehind

\* A step of a probe that leaves the reports alone changes only the one at hand.
LEMMA ProbeMoves ==
  ASSUME ProbesBehind, status.tool \in Numbers, report' = report,
         status'.tool = status.tool, StatusFields \subseteq DOMAIN status',
         probe' = probe \/ \E child : ChildFields \subseteq DOMAIN child /\ probe' = [probe EXCEPT ![status.tool] = child]
  PROVE  ProbesBehind'
<1>1. \A i \in Numbers : i # status.tool => probe'[i] = probe[i]
  BY DEF ProbesBehind
<1>2. DOMAIN probe' = Numbers /\ \A i \in Numbers : ChildFields \subseteq DOMAIN probe'[i]
  BY DEF ProbesBehind
<1>3. \A i \in Numbers : report[i].timedOut => i # status.tool
  BY NumbersAre DEF ProbesBehind
<1> QED BY <1>1, <1>2, <1>3 DEF ProbesBehind

\* A report is made of the tool at hand, and the next one is taken.
LEMMA ToolReported ==
  ASSUME ProbesBehind, status.tool \in Numbers, ProgramsPart!NextTool,
         report' = report \/ \E r : /\ ReportFields \subseteq DOMAIN r /\ report' = [report EXCEPT ![status.tool] = r]
                                    /\ r.timedOut => probe'[status.tool].pc = "exited" /\ ~probe'[status.tool].helper,
         probe' = probe \/ \E child : ChildFields \subseteq DOMAIN child /\ probe' = [probe EXCEPT ![status.tool] = child]
  PROVE  ProbesBehind'
<1>1. \A i \in Numbers : i # status.tool => probe'[i] = probe[i] /\ report'[i] = report[i]
  BY DEF ProbesBehind
<1>2. /\ DOMAIN probe' = Numbers /\ DOMAIN report' = Numbers
      /\ \A i \in Numbers : ReportFields \subseteq DOMAIN report'[i] /\ ChildFields \subseteq DOMAIN probe'[i]
  BY DEF ProbesBehind
<1>3. /\ status'.tool = status.tool + 1 /\ StatusFields \subseteq DOMAIN status'
      /\ status'.pc = IF status.tool = 3 THEN "over" ELSE "resolve"
  BY NumbersAre DEF ProgramsPart!NextTool, ProbesBehind, StatusFields
<1>4. status'.tool \in Nat /\ (status'.pc # "over" => status'.tool \in Numbers) /\ status.tool < status'.tool
  BY <1>3, NumbersAre
<1>5. report'[status.tool].timedOut => probe'[status.tool].pc = "exited" /\ ~probe'[status.tool].helper
  <2>1. CASE report' = report
    BY <2>1, NumbersAre DEF ProbesBehind
  <2>2. CASE \E r : /\ report' = [report EXCEPT ![status.tool] = r]
                    /\ r.timedOut => probe'[status.tool].pc = "exited" /\ ~probe'[status.tool].helper
    BY <2>2 DEF ProbesBehind
  <2> QED BY <2>1, <2>2
<1>6. \A i \in Numbers : report'[i].timedOut => i < status'.tool
  BY <1>1, <1>4, <1>3, NumbersAre DEF ProbesBehind
<1> QED BY <1>1, <1>2, <1>3, <1>4, <1>5, <1>6 DEF ProbesBehind

LEMMA ChildKept ==
  ASSUME NEW child, ChildFields \subseteq DOMAIN child
  PROVE  /\ \A v : /\ ChildFields \subseteq DOMAIN [child EXCEPT !.pc = v]
                   /\ ChildFields \subseteq DOMAIN [child EXCEPT !.helper = v]
                   /\ ChildFields \subseteq DOMAIN [child EXCEPT !.late = v]
         /\ \A v, w : /\ ChildFields \subseteq DOMAIN [child EXCEPT !.left = v, !.pipe = w]
                      /\ ChildFields \subseteq DOMAIN [child EXCEPT !.pipe = v, !.kept = w]
         /\ ChildFields \subseteq DOMAIN ProgramsPart!kill_process_tree_blocking(child)
         /\ ProgramsPart!kill_process_tree_blocking(child).pc = "exited"
         /\ ~ProgramsPart!kill_process_tree_blocking(child).helper
  BY DEF ChildFields, ProgramsPart!kill_process_tree_blocking

LEMMA ReportMade ==
  ASSUME NEW r, ReportFields \subseteq DOMAIN r
  PROVE  \A v : /\ ReportFields \subseteq DOMAIN [r EXCEPT !.path = v]
                /\ [r EXCEPT !.path = v].timedOut = r.timedOut
  BY DEF ReportFields

LEMMA ProbesStep == ProbesBehind /\ [ProgramsPart!Next]_programs => ProbesBehind'
<1> SUFFICES ASSUME ProbesBehind, [ProgramsPart!Next]_programs PROVE ProbesBehind'
  OBVIOUS
<1>a. status.pc # "over" => status.tool \in Numbers /\ ChildFields \subseteq DOMAIN ProgramsPart!Child
  BY DEF ProbesBehind, ProgramsPart!Child
<1>b. StatusFields \subseteq DOMAIN status
  BY DEF ProbesBehind
<1>c. /\ ReportFields \subseteq DOMAIN ProgramsPart!Unasked /\ ~ProgramsPart!Unasked.timedOut
      /\ \A act, kept : LET r == ProgramsPart!tool_health(act, kept)
                        IN  ReportFields \subseteq DOMAIN r /\ ~r.timedOut
  BY DEF ProgramsPart!Unasked, ProgramsPart!tool_health, ReportFields
<1>1. CASE UNCHANGED <<status, probe, report>>
  BY <1>1 DEF ProbesBehind
<1>2. CASE /\ UNCHANGED <<probe, report>> /\ status.pc # "over" /\ StatusFields \subseteq DOMAIN status'
           /\ status'.tool = status.tool
  BY <1>2, <1>a, ProbeMoves
<1>3. CASE /\ UNCHANGED <<status, report>> /\ status.pc # "over"
           /\ \E child : ChildFields \subseteq DOMAIN child /\ ProgramsPart!Probes(child)
  BY <1>3, <1>a, <1>b, ProbeMoves DEF ProgramsPart!Probes
<1>4. CASE ProgramsPart!RunResolves \/ ProgramsPart!resolve_js_runtime \/ ProgramsPart!remember_js_runtime
           \/ ProgramsPart!expose_js_runtime_to_child \/ ProgramsPart!Install \/ UNCHANGED programs
  BY <1>1, <1>4 DEF ProgramsPart!RunResolves, ProgramsPart!resolve_js_runtime, ProgramsPart!remember_js_runtime,
      ProgramsPart!expose_js_runtime_to_child, ProgramsPart!RunStays, ProgramsPart!Install, programs
<1>5. CASE ProgramsPart!StatusBegins \/ ProgramsPart!LookForDeno \/ ProgramsPart!RememberDeno
  BY <1>2, <1>5, <1>b DEF ProgramsPart!StatusBegins, ProgramsPart!LookForDeno, ProgramsPart!RememberDeno,
    ProgramsPart!Moves, StatusFields
<1>6. CASE ProgramsPart!Resolve
  <2>1. CASE ProgramsPart!NextTool
    BY <1>6, <2>1, <1>a, ToolReported DEF ProgramsPart!Resolve
  <2>2. CASE \E a, b : status' = [status EXCEPT !.at = a, !.pc = b]
    BY <1>6, <2>2, <1>b, <1>2 DEF ProgramsPart!Resolve, StatusFields
  <2> QED BY <1>6, <2>1, <2>2 DEF ProgramsPart!Resolve
<1>7. CASE ProgramsPart!Spawn
  <2>1. CASE \E a, b : /\ ProgramsPart!Moves("wait") /\ UNCHANGED report
                       /\ ProgramsPart!Probes([pc |-> "running", left |-> a, pipe |-> 0, kept |-> 0,
                                               helper |-> b, late |-> FALSE])
    <3>1. \A a, b : ChildFields \subseteq DOMAIN [pc |-> "running", left |-> a, pipe |-> 0, kept |-> 0,
                                               helper |-> b, late |-> FALSE]
      BY DEF ChildFields
    <3>2. StatusFields \subseteq DOMAIN status' /\ status'.tool = status.tool
      BY <1>b, <2>1 DEF ProgramsPart!Moves, StatusFields
    <3> QED BY <2>1, <3>1, <3>2, <1>7, <1>a, ProbeMoves DEF ProgramsPart!Probes, ProgramsPart!Spawn
  <2>2. CASE ProgramsPart!Reports(ProgramsPart!Unasked) /\ ProgramsPart!NextTool /\ UNCHANGED probe
    <3>1. \E r : ReportFields \subseteq DOMAIN r /\ ~r.timedOut /\ report' = [report EXCEPT ![status.tool] = r]
      BY <2>2, <1>c, ReportMade DEF ProgramsPart!Reports
    <3> QED BY <3>1, <2>2, <1>7, <1>a, ToolReported DEF ProgramsPart!Spawn
  <2> QED BY <1>7, <2>1, <2>2 DEF ProgramsPart!Spawn, ProgramsPart!NoReport
<1>8. CASE ProgramsPart!ChildWrites \/ ProgramsPart!ChildEnds \/ ProgramsPart!HelperEnds \/ ProgramsPart!read_drain_capped
           \/ ProgramsPart!DeadlinePasses
  <2>1. status.pc # "over" /\ UNCHANGED <<status, report>>
    BY <1>8 DEF ProgramsPart!ChildWrites, ProgramsPart!ChildEnds, ProgramsPart!HelperEnds, ProgramsPart!read_drain_capped,
      ProgramsPart!DeadlinePasses, ProgramsPart!ChildSteps, ProgramsPart!Probing
  <2>2. \E child : ChildFields \subseteq DOMAIN child /\ ProgramsPart!Probes(child)
    BY <1>8, <2>1, <1>a, ChildKept DEF ProgramsPart!ChildWrites, ProgramsPart!ChildEnds, ProgramsPart!HelperEnds,
      ProgramsPart!read_drain_capped, ProgramsPart!DeadlinePasses, ProgramsPart!ChildSteps
  <2> QED BY <2>1, <2>2, <1>3
<1>9. CASE ProgramsPart!Poll
  <2>1. CASE UNCHANGED <<probe, report>> /\ ProgramsPart!Moves("join")
    BY <1>9, <2>1, <1>b, <1>2 DEF ProgramsPart!Poll, ProgramsPart!Moves, StatusFields
  <2>2. CASE /\ ProgramsPart!Probes(ProgramsPart!kill_process_tree_blocking(ProgramsPart!Child))
             /\ ProgramsPart!Reports([ProgramsPart!Unasked EXCEPT !.timedOut = TRUE])
             /\ ProgramsPart!NextTool
    <3> DEFINE k == ProgramsPart!kill_process_tree_blocking(ProgramsPart!Child)
    <3>1. ChildFields \subseteq DOMAIN k /\ k.pc = "exited" /\ ~k.helper
      BY <1>9, <1>a, ChildKept DEF ProgramsPart!Poll
    <3>2. \E r : ReportFields \subseteq DOMAIN r /\ report' = [report EXCEPT ![status.tool] = r]
      <4>1. ReportFields \subseteq DOMAIN [ProgramsPart!Unasked EXCEPT !.timedOut = TRUE]
        BY <1>c DEF ReportFields
      <4> QED BY <2>2, <4>1, ReportMade DEF ProgramsPart!Reports
    <3>3. probe' = [probe EXCEPT ![status.tool] = k] /\ status.tool \in Numbers
      BY <1>9, <2>2, <1>a DEF ProgramsPart!Poll, ProgramsPart!Probes
    <3> HIDE DEF k
    <3>4. probe'[status.tool].pc = "exited" /\ ~probe'[status.tool].helper
      BY <3>1, <3>3 DEF ProbesBehind
    <3> QED BY <2>2, <3>1, <3>2, <3>3, <3>4, ToolReported
  <2> QED BY <2>1, <2>2, <1>9 DEF ProgramsPart!Poll
<1>10. CASE ProgramsPart!WaitFails \/ ProgramsPart!Join
  <2>1. \E r : ReportFields \subseteq DOMAIN r /\ ~r.timedOut /\ report' = [report EXCEPT ![status.tool] = r]
    <3>1. \E r : ReportFields \subseteq DOMAIN r /\ ~r.timedOut /\ ProgramsPart!Reports(r)
      BY <1>10, <1>c DEF ProgramsPart!WaitFails, ProgramsPart!Join
    <3> QED BY <3>1, ReportMade DEF ProgramsPart!Reports
  <2> QED BY <2>1, <1>10, <1>a, ToolReported DEF ProgramsPart!WaitFails, ProgramsPart!Join
<1> QED BY <1>4, <1>5, <1>6, <1>7, <1>8, <1>9, <1>10 DEF ProgramsPart!Next

LEMMA ProbesTell == ProbesBehind => ProgramsPart!NothingLeft
  BY DEF ProbesBehind, ProgramsPart!NothingLeft, Numbers

(***************************************************************************)
(* The images: where a fetch may go, and the runs under way.               *)
(***************************************************************************)
CallFields == {"pc", "url", "hops", "file", "tries", "answer"}
CallsShaped == DOMAIN at = Fetchers /\ \A c \in Fetchers : CallFields \subseteq DOMAIN at[c]

\* Only the call c moves.
CallMoves(c) ==
  /\ DOMAIN at' = Fetchers /\ CallFields \subseteq DOMAIN at'[c]
  /\ \A d \in Fetchers : d # c => at'[d] = at[d]

\* It goes on where it is.
CallGoes(c, next) ==
  CallMoves(c) /\ at'[c].pc = next /\ at'[c].url = at[c].url /\ at'[c].hops = at[c].hops

LEMMA CallSteps ==
  ASSUME CallsShaped, NEW c \in Fetchers
  PROVE  /\ \A next : ImagesPart!Goes(c, next) => CallGoes(c, next)
         /\ ImagesPart!Fails(c) => CallGoes(c, "clean")
         /\ \A a : ImagesPart!Answers(c, a) => CallGoes(c, "answered")
         /\ \A v : at' = [at EXCEPT ![c].pc = "persist", ![c].file = v] => CallGoes(c, "persist")
         /\ \A v : at' = [at EXCEPT ![c].pc = "try", ![c].answer = v] => CallGoes(c, "try")
         /\ \A v : at' = [at EXCEPT ![c].pc = "try", ![c].tries = v] => CallGoes(c, "try")
         /\ at' = [at EXCEPT ![c].pc = "clean", ![c].answer = "stored"] => CallGoes(c, "clean")
  BY DEF CallsShaped, CallGoes, CallMoves, CallFields, ImagesPart!Goes, ImagesPart!Fails, ImagesPart!Answers

\* Where a call may stand with the URL it has.
ReachOf(c) ==
  /\ at[c].hops \in 0 .. MAX_REDIRECT_HOPS
  /\ at[c].pc \in {"check", "dial", "body"} => at[c].url.host \in ImagesPart!ALLOWED_THUMBNAIL_IMAGE_HOSTS
  /\ at[c].pc = "resolve" => at[c].url.host \in ImagesPart!YOUTUBE_DOMAINS
Looked ==
  /\ looked.for = "image" => looked.host \in ImagesPart!ALLOWED_THUMBNAIL_IMAGE_HOSTS
  /\ looked.for = "page" => looked.host \in ImagesPart!YOUTUBE_DOMAINS
Requested ==
  request # ImagesPart!NoRequest =>
     /\ request.scheme = "https" /\ request.address = "public"
     /\ request.host \in ImagesPart!ALLOWED_THUMBNAIL_IMAGE_HOSTS

ImagesReach == CallsShaped /\ (\A c \in Fetchers : ReachOf(c)) /\ Looked /\ Requested

LEMMA ReachInit == ImagesPart!Init => ImagesReach
<1> SUFFICES ASSUME ImagesPart!Init PROVE ImagesReach
  OBVIOUS
<1>1. \A c \in Fetchers : at[c] = ImagesPart!Start
  BY DEF ImagesPart!Init
<1>2. CallFields \subseteq DOMAIN ImagesPart!Start /\ ImagesPart!Start.pc = "idle" /\ ImagesPart!Start.hops = 0
  BY DEF ImagesPart!Start, CallFields
<1>3. Looked /\ Requested
  BY DEF ImagesPart!Init, ImagesPart!NoLookup, Looked, Requested
<1>4. CallsShaped
  BY <1>1, <1>2 DEF CallsShaped, ImagesPart!Init
<1>5. \A c \in Fetchers : ReachOf(c)
  BY <1>1, <1>2, LimitsAssumption DEF ReachOf
<1> QED BY <1>3, <1>4, <1>5 DEF ImagesReach

LEMMA ReachMoves ==
  ASSUME ImagesReach, NEW c \in Fetchers, CallMoves(c), ReachOf(c)', Looked', Requested'
  PROVE  ImagesReach'
<1>1. CallsShaped'
  BY DEF ImagesReach, CallsShaped, CallMoves
<1>2. ASSUME NEW d \in Fetchers, d # c PROVE ReachOf(d)'
  <2>1. at'[d] = at[d] /\ ReachOf(d)
    BY <1>2 DEF CallMoves, ImagesReach
  <2> QED BY <2>1 DEF ReachOf
<1> QED BY <1>1, <1>2 DEF ImagesReach

\* A call that goes on and sends nothing stands where it may, unless it goes where a URL is asked.
LEMMA ReachGoes ==
  ASSUME ImagesReach, NEW c \in Fetchers, NEW next, CallGoes(c, next), Looked', Requested',
         next \in {"check", "dial", "body"} => at[c].url.host \in ImagesPart!ALLOWED_THUMBNAIL_IMAGE_HOSTS,
         next = "resolve" => at[c].url.host \in ImagesPart!YOUTUBE_DOMAINS
  PROVE  ImagesReach'
<1>1. ReachOf(c)'
  BY DEF CallGoes, ReachOf, ImagesReach
<1> QED BY <1>1, ReachMoves DEF CallGoes

LEMMA ReachStep == ImagesReach /\ [ImagesPart!Next]_images => ImagesReach'
<1> SUFFICES ASSUME ImagesReach, [ImagesPart!Next]_images PROVE ImagesReach'
  OBVIOUS
<1>a. CallsShaped /\ Looked /\ Requested
  BY DEF ImagesReach
<1>b. ASSUME UNCHANGED <<looked, request>> PROVE Looked' /\ Requested'
  BY <1>a, <1>b DEF Looked, Requested
<1>1. CASE UNCHANGED images
  <2>1. UNCHANGED <<at, looked, request>>
    BY <1>1 DEF images
  <2> QED BY <2>1 DEF ImagesReach, CallsShaped, ReachOf, Looked, Requested
<1> SUFFICES ASSUME NEW c \in Fetchers,
        \/ ImagesPart!download_channel_avatar_from_handle_async(c) \/ ImagesPart!download_media_thumbnail_async(c)
        \/ ImagesPart!NextCandidate(c) \/ ImagesPart!download_thumbnail_from_url_async(c)
        \/ ImagesPart!prepare_thumbnail_dirs(c) \/ ImagesPart!Route(c) \/ ImagesPart!assert_url_host_is_public(c)
        \/ ImagesPart!Request(c) \/ ImagesPart!RequestFails(c) \/ ImagesPart!http_get_image(c)
        \/ ImagesPart!fetch_yt_dlp_metadata(c) \/ ImagesPart!Enqueue(c) \/ ImagesPart!Spawn(c) \/ ImagesPart!Converts(c)
        \/ ImagesPart!finalize_thumbnail_download(c) \/ ImagesPart!run_thumbnail_yt_dlp_with_timeout(c)
        \/ ImagesPart!persist_thumbnail_from_source_async(c) \/ ImagesPart!remove_dir_all(c)
     PROVE ImagesReach'
  BY <1>1 DEF ImagesPart!Next
<1>c. ReachOf(c)
  BY DEF ImagesReach
<1>d. ASSUME NEW next, CallGoes(c, next), UNCHANGED <<looked, request>>, next \notin {"check", "dial", "body", "resolve"}
      PROVE  ImagesReach'
  BY <1>b, <1>d, ReachGoes
<1>2. CASE ImagesPart!download_channel_avatar_from_handle_async(c)
  BY <1>2, <1>d, <1>a, CallSteps DEF ImagesPart!download_channel_avatar_from_handle_async
<1>3. CASE ImagesPart!download_media_thumbnail_async(c)
  BY <1>3, <1>d, <1>a, CallSteps DEF ImagesPart!download_media_thumbnail_async
<1>4. CASE ImagesPart!NextCandidate(c)
  <2>1. CASE \E u, t, a : at' = [at EXCEPT ![c] = [ImagesPart!Start EXCEPT !.pc = "prepare", !.url = u, !.tries = t, !.answer = a]]
    <3>1. PICK u, t, a : at' = [at EXCEPT ![c] = [ImagesPart!Start EXCEPT !.pc = "prepare", !.url = u, !.tries = t, !.answer = a]]
      BY <2>1
    <3> DEFINE r == [ImagesPart!Start EXCEPT !.pc = "prepare", !.url = u, !.tries = t, !.answer = a]
    <3>2. CallFields \subseteq DOMAIN r /\ r.pc = "prepare" /\ r.hops = 0
      BY DEF ImagesPart!Start, CallFields
    <3>3. at' = [at EXCEPT ![c] = r]
      BY <3>1
    <3> HIDE DEF r
    <3>4. CallMoves(c) /\ at'[c].pc = "prepare" /\ at'[c].hops = 0
      BY <3>2, <3>3, <1>a DEF CallMoves, CallsShaped
    <3>5. ReachOf(c)'
      BY <3>4, LimitsAssumption DEF ReachOf
    <3> QED BY <3>4, <3>5, <1>4, <1>b, ReachMoves DEF ImagesPart!NextCandidate
  <2>2. CASE ImagesPart!Answers(c, at[c].answer)
    BY <2>2, <1>4, <1>d, <1>a, CallSteps DEF ImagesPart!NextCandidate
  <2> QED BY <1>4, <2>1, <2>2 DEF ImagesPart!NextCandidate
<1>5. CASE ImagesPart!download_thumbnail_from_url_async(c)
  <2>1. CASE \E u : at' = [at EXCEPT ![c].pc = "prepare", ![c].url = u]
    <3>1. CallMoves(c) /\ at'[c].pc = "prepare" /\ at'[c].hops = at[c].hops
      BY <2>1, <1>a DEF CallMoves, CallsShaped, CallFields
    <3>2. ReachOf(c)'
      BY <3>1, <1>c DEF ReachOf
    <3> QED BY <3>1, <3>2, <1>5, <1>b, ReachMoves DEF ImagesPart!download_thumbnail_from_url_async
  <2>2. CASE ImagesPart!Answers(c, "error")
    BY <2>2, <1>5, <1>d, <1>a, CallSteps DEF ImagesPart!download_thumbnail_from_url_async
  <2> QED BY <1>5, <2>1, <2>2 DEF ImagesPart!download_thumbnail_from_url_async
<1>6. CASE ImagesPart!prepare_thumbnail_dirs(c)
  BY <1>6, <1>d, <1>a, CallSteps DEF ImagesPart!prepare_thumbnail_dirs
<1>7. CASE ImagesPart!Route(c)
  <2>1. UNCHANGED <<looked, request>>
    BY <1>7 DEF ImagesPart!Route
  <2>2. CASE ImagesPart!Fails(c)
    BY <2>1, <2>2, <1>d, <1>a, CallSteps
  <2>3. CASE ImagesPart!Goes(c, "check") /\ ImagesPart!is_direct_thumbnail_url(at[c].url)
    BY <2>1, <2>3, <1>a, <1>b, CallSteps, ReachGoes DEF ImagesPart!is_direct_thumbnail_url,
      ImagesPart!is_allowed_thumbnail_image_host
  <2>4. CASE ImagesPart!Goes(c, "resolve") /\ ImagesPart!is_allowed_youtube_url(at[c].url)
    BY <2>1, <2>4, <1>a, <1>b, CallSteps, ReachGoes DEF ImagesPart!is_allowed_youtube_url
  <2> QED BY <1>7, <2>2, <2>3, <2>4 DEF ImagesPart!Route
<1>8. CASE ImagesPart!assert_url_host_is_public(c)
  <2>1. Looked' /\ Requested'
    BY <1>8, <1>a, <1>c DEF ImagesPart!assert_url_host_is_public, ImagesPart!Lookup, Looked, Requested, ReachOf
  <2>2. CASE ImagesPart!Fails(c)
    BY <2>1, <2>2, <1>a, CallSteps, ReachGoes
  <2>3. CASE ImagesPart!Goes(c, IF at[c].pc = "check" THEN "dial" ELSE "probe")
    <3>1. CASE at[c].pc = "check"
      BY <3>1, <2>1, <2>3, <1>a, <1>c, CallSteps, ReachGoes DEF ReachOf
    <3>2. CASE at[c].pc # "check"
      BY <3>2, <2>1, <2>3, <1>a, CallSteps, ReachGoes
    <3> QED BY <3>1, <3>2
  <2> QED BY <1>8, <2>2, <2>3 DEF ImagesPart!assert_url_host_is_public
<1>9. CASE ImagesPart!Request(c)
  <2>0. at[c].pc = "dial" /\ at[c].url.host \in ImagesPart!ALLOWED_THUMBNAIL_IMAGE_HOSTS
    BY <1>9, <1>c DEF ImagesPart!Request, ReachOf
  <2>1. Looked' /\ Requested'
    <3>1. Looked'
      BY <1>9, <2>0 DEF ImagesPart!Request, ImagesPart!Lookup, Looked
    <3>2. \A found \in SUBSET ImagesPart!Addresses : \A address \in ImagesPart!PublicOnlyResolver(found) : address = "public"
      BY DEF ImagesPart!Addresses, ImagesPart!PublicOnlyResolver
    <3>3. CASE UNCHANGED request
      BY <3>1, <3>3, <1>a DEF Requested
    <3>4. CASE request' = [scheme |-> "https", host |-> at[c].url.host, address |-> "public"]
      BY <3>1, <3>4, <2>0 DEF Requested
    <3>5. UNCHANGED request \/ request' = [scheme |-> "https", host |-> at[c].url.host, address |-> "public"]
      BY <1>9, <3>2 DEF ImagesPart!Request
    <3> QED BY <3>1, <3>3, <3>4, <3>5
  <2>2. CASE ImagesPart!Fails(c)
    BY <2>1, <2>2, <1>a, CallSteps, ReachGoes
  <2>3. CASE ImagesPart!Goes(c, "body")
    BY <2>0, <2>1, <2>3, <1>a, CallSteps, ReachGoes
  <2>4. CASE \E location : /\ ImagesPart!next_hop(at[c].url, location, at[c].hops)
                           /\ at' = [at EXCEPT ![c].pc = "check", ![c].hops = @ + 1,
                                               ![c].url = ImagesPart!resolve_redirect(at[c].url, location)]
    <3>1. PICK location : /\ ImagesPart!next_hop(at[c].url, location, at[c].hops)
                          /\ at' = [at EXCEPT ![c].pc = "check", ![c].hops = @ + 1,
                                               ![c].url = ImagesPart!resolve_redirect(at[c].url, location)]
      BY <2>4
    <3> DEFINE u == ImagesPart!resolve_redirect(at[c].url, location)
    <3>2. u.host \in ImagesPart!ALLOWED_THUMBNAIL_IMAGE_HOSTS /\ ~(at[c].hops >= MAX_REDIRECT_HOPS)
      BY <3>1 DEF ImagesPart!next_hop, ImagesPart!is_allowed_thumbnail_image_host, ImagesPart!hop_budget_exhausted
    <3>3. at' = [at EXCEPT ![c].pc = "check", ![c].hops = @ + 1, ![c].url = u]
      BY <3>1
    <3> HIDE DEF u
    <3>4. CallMoves(c) /\ at'[c].pc = "check" /\ at'[c].hops = at[c].hops + 1 /\ at'[c].url = u
      BY <3>3, <1>a DEF CallMoves, CallsShaped, CallFields
    <3>5. at[c].hops + 1 \in 0 .. MAX_REDIRECT_HOPS
      BY <3>2, <1>c, LimitsAssumption DEF ReachOf
    <3>6. ReachOf(c)'
      BY <3>2, <3>4, <3>5 DEF ReachOf
    <3> QED BY <3>4, <3>6, <2>1, ReachMoves
  <2> QED BY <1>9, <2>2, <2>3, <2>4 DEF ImagesPart!Request
<1>10. CASE ImagesPart!RequestFails(c) \/ ImagesPart!fetch_yt_dlp_metadata(c) \/ ImagesPart!Enqueue(c)
  BY <1>10, <1>d, <1>a, CallSteps DEF ImagesPart!RequestFails, ImagesPart!fetch_yt_dlp_metadata, ImagesPart!Enqueue
<1>11. CASE ImagesPart!http_get_image(c)
  BY <1>11, <1>d, <1>a, CallSteps DEF ImagesPart!http_get_image
<1>12. CASE ImagesPart!Spawn(c)
  BY <1>12, <1>d, <1>a, CallSteps DEF ImagesPart!Spawn
<1>13. CASE ImagesPart!Converts(c)
  <2>1. UNCHANGED <<at, looked, request>>
    BY <1>13 DEF ImagesPart!Converts
  <2> QED BY <2>1 DEF ImagesReach, CallsShaped, ReachOf, Looked, Requested
<1>14. CASE ImagesPart!finalize_thumbnail_download(c) \/ ImagesPart!run_thumbnail_yt_dlp_with_timeout(c)
  BY <1>14, <1>d, <1>a, CallSteps DEF ImagesPart!finalize_thumbnail_download, ImagesPart!run_thumbnail_yt_dlp_with_timeout
<1>15. CASE ImagesPart!persist_thumbnail_from_source_async(c)
  BY <1>15, <1>d, <1>a, CallSteps DEF ImagesPart!persist_thumbnail_from_source_async
<1>16. CASE ImagesPart!remove_dir_all(c)
  BY <1>16, <1>d, <1>a, CallSteps DEF ImagesPart!remove_dir_all
<1> QED BY <1>2, <1>3, <1>4, <1>5, <1>6, <1>7, <1>8, <1>9, <1>10, <1>11, <1>12, <1>13, <1>14, <1>15, <1>16

LEMMA ReachTells == ImagesReach => ImagesPart!ReachesOnlyItsServers
<1> SUFFICES ASSUME ImagesReach PROVE ImagesPart!ReachesOnlyItsServers
  OBVIOUS
<1>1. \A c \in Fetchers : at[c].hops <= MAX_REDIRECT_HOPS
  BY LimitsAssumption DEF ImagesReach, ReachOf
<1> QED BY <1>1 DEF ImagesReach, Looked, Requested, ImagesPart!ReachesOnlyItsServers

\* The runs under way, the places in the queue, and the processes.
CallsAt(pcs) == {c \in Fetchers : at[c].pc \in pcs}
RunsCount ==
  /\ CallsShaped /\ DOMAIN tree = Fetchers
  /\ \A c \in Fetchers : tree[c] # {} => at[c].pc = "run"
  /\ semaphore = [running |-> Cardinality(CallsAt({"run"})), inFlight |-> Cardinality(CallsAt({"wait", "run"}))]
  /\ semaphore.running <= MAX_CONCURRENT_THUMBNAIL_RUNS /\ semaphore.inFlight <= MAX_THUMBNAIL_RUNS_IN_FLIGHT

\* What the call c does with its place and its permit.
PlaceMoves(c) ==
  \/ /\ UNCHANGED semaphore
     /\ at[c].pc = at'[c].pc \/ (at[c].pc \notin {"wait", "run"} /\ at'[c].pc \notin {"wait", "run"})
  \/ /\ at[c].pc \notin {"wait", "run"} /\ at'[c].pc = "wait"
     /\ semaphore.inFlight < MAX_THUMBNAIL_RUNS_IN_FLIGHT
     /\ semaphore' = [running |-> semaphore.running, inFlight |-> semaphore.inFlight + 1]
  \/ /\ at[c].pc = "wait" /\ at'[c].pc = "run"
     /\ semaphore.running < MAX_CONCURRENT_THUMBNAIL_RUNS
     /\ semaphore' = [running |-> semaphore.running + 1, inFlight |-> semaphore.inFlight]
  \/ /\ at[c].pc = "wait" /\ at'[c].pc \notin {"wait", "run"}
     /\ semaphore' = [running |-> semaphore.running, inFlight |-> semaphore.inFlight - 1]
  \/ /\ at[c].pc = "run" /\ at'[c].pc \notin {"wait", "run"}
     /\ semaphore' = [running |-> semaphore.running - 1, inFlight |-> semaphore.inFlight - 1]

TreeMoves(c) ==
  /\ DOMAIN tree' = Fetchers /\ \A d \in Fetchers : d # c => tree'[d] = tree[d]
  /\ tree'[c] # {} => at'[c].pc = "run"

LEMMA CallsCount ==
  ASSUME CallsShaped, NEW c \in Fetchers, CallMoves(c), NEW pcs
  PROVE  /\ Cardinality(CallsAt(pcs)) \in Nat /\ Cardinality(CallsAt(pcs)') \in Nat
         /\ (at[c].pc \in pcs <=> at'[c].pc \in pcs) => Cardinality(CallsAt(pcs)') = Cardinality(CallsAt(pcs))
         /\ at[c].pc \notin pcs /\ at'[c].pc \in pcs => Cardinality(CallsAt(pcs)') = Cardinality(CallsAt(pcs)) + 1
         /\ at[c].pc \in pcs /\ at'[c].pc \notin pcs => Cardinality(CallsAt(pcs)') = Cardinality(CallsAt(pcs)) - 1
<1> DEFINE A == CallsAt(pcs)
           B == CallsAt(pcs)'
<1>1. /\ A \in SUBSET Fetchers /\ B \in SUBSET Fetchers
      /\ \A d \in Fetchers : d # c => (d \in A <=> d \in B)
      /\ (c \in A <=> at[c].pc \in pcs) /\ (c \in B <=> at'[c].pc \in pcs)
  BY DEF CallsAt, CallMoves
<1>2. IsFiniteSet(Fetchers)
  BY LimitsAssumption
<1> HIDE DEF A, B
<1>3. /\ IsFiniteSet(A) /\ Cardinality(A) \in Nat /\ IsFiniteSet(B) /\ Cardinality(B) \in Nat
      /\ (c \in A <=> c \in B) => B = A
      /\ c \notin A /\ c \in B => Cardinality(B) = Cardinality(A) + 1
      /\ c \in A /\ c \notin B => Cardinality(B) = Cardinality(A) - 1
  BY <1>1, <1>2, MembersMove
<1>4. /\ Cardinality(A) \in Nat /\ Cardinality(B) \in Nat
      /\ (at[c].pc \in pcs <=> at'[c].pc \in pcs) => Cardinality(B) = Cardinality(A)
      /\ at[c].pc \notin pcs /\ at'[c].pc \in pcs => Cardinality(B) = Cardinality(A) + 1
      /\ at[c].pc \in pcs /\ at'[c].pc \notin pcs => Cardinality(B) = Cardinality(A) - 1
  BY <1>1, <1>3
<1> QED BY <1>4 DEF A, B

LEMMA RunsMove ==
  ASSUME RunsCount, NEW c \in Fetchers, CallMoves(c), TreeMoves(c), PlaceMoves(c)
  PROVE  RunsCount'
<1>1. CallsShaped' /\ DOMAIN tree' = Fetchers
  BY DEF RunsCount, CallsShaped, CallMoves, TreeMoves
<1>2. \A d \in Fetchers : tree'[d] # {} => at'[d].pc = "run"
  BY DEF RunsCount, TreeMoves, CallMoves
<1> DEFINE r == Cardinality(CallsAt({"run"}))
           q == Cardinality(CallsAt({"wait", "run"}))
<1>3. /\ r \in Nat /\ r' \in Nat
      /\ (at[c].pc = "run" <=> at'[c].pc = "run") => r' = r
      /\ at[c].pc # "run" /\ at'[c].pc = "run" => r' = r + 1
      /\ at[c].pc = "run" /\ at'[c].pc # "run" => r' = r - 1
  BY CallsCount DEF RunsCount
<1>4. /\ q \in Nat /\ q' \in Nat
      /\ (at[c].pc \in {"wait", "run"} <=> at'[c].pc \in {"wait", "run"}) => q' = q
      /\ at[c].pc \notin {"wait", "run"} /\ at'[c].pc \in {"wait", "run"} => q' = q + 1
      /\ at[c].pc \in {"wait", "run"} /\ at'[c].pc \notin {"wait", "run"} => q' = q - 1
  BY CallsCount DEF RunsCount
<1>5. /\ semaphore = [running |-> r, inFlight |-> q]
      /\ r <= MAX_CONCURRENT_THUMBNAIL_RUNS /\ q <= MAX_THUMBNAIL_RUNS_IN_FLIGHT
  BY DEF RunsCount
<1>6. MAX_CONCURRENT_THUMBNAIL_RUNS \in Nat /\ MAX_THUMBNAIL_RUNS_IN_FLIGHT \in Nat
  BY LimitsAssumption
<1> HIDE DEF r, q
<1>7. /\ semaphore' = [running |-> r', inFlight |-> q']
      /\ r' <= MAX_CONCURRENT_THUMBNAIL_RUNS /\ q' <= MAX_THUMBNAIL_RUNS_IN_FLIGHT
  BY <1>3, <1>4, <1>5, <1>6 DEF PlaceMoves
<1> QED BY <1>1, <1>2, <1>7 DEF RunsCount, r, q

LEMMA RunsInit == ImagesPart!Init => RunsCount
<1> SUFFICES ASSUME ImagesPart!Init PROVE RunsCount
  OBVIOUS
<1>1. \A c \in Fetchers : at[c] = ImagesPart!Start /\ tree[c] = {}
  BY DEF ImagesPart!Init
<1>2. CallFields \subseteq DOMAIN ImagesPart!Start /\ ImagesPart!Start.pc = "idle"
  BY DEF ImagesPart!Start, CallFields
<1>3. CallsAt({"run"}) = {} /\ CallsAt({"wait", "run"}) = {}
  BY <1>1, <1>2 DEF CallsAt
<1>4. Cardinality(CallsAt({"run"})) = 0 /\ Cardinality(CallsAt({"wait", "run"})) = 0
  BY <1>3, FS_EmptySet
<1>5. CallsShaped /\ DOMAIN tree = Fetchers /\ semaphore = [running |-> 0, inFlight |-> 0]
  BY <1>1, <1>2 DEF ImagesPart!Init, CallsShaped
<1> QED BY <1>1, <1>4, <1>5, LimitsAssumption DEF RunsCount

LEMMA RunsStep == RunsCount /\ [ImagesPart!Next]_images => RunsCount'
<1> SUFFICES ASSUME RunsCount, [ImagesPart!Next]_images PROVE RunsCount'
  OBVIOUS
<1>1. CASE UNCHANGED <<at, tree, semaphore>>
  BY <1>1 DEF RunsCount, CallsShaped, CallsAt
<1>2. CASE UNCHANGED images
  BY <1>1, <1>2 DEF images
<1> SUFFICES ASSUME NEW c \in Fetchers,
        \/ ImagesPart!download_channel_avatar_from_handle_async(c) \/ ImagesPart!download_media_thumbnail_async(c)
        \/ ImagesPart!NextCandidate(c) \/ ImagesPart!download_thumbnail_from_url_async(c)
        \/ ImagesPart!prepare_thumbnail_dirs(c) \/ ImagesPart!Route(c) \/ ImagesPart!assert_url_host_is_public(c)
        \/ ImagesPart!Request(c) \/ ImagesPart!RequestFails(c) \/ ImagesPart!http_get_image(c)
        \/ ImagesPart!fetch_yt_dlp_metadata(c) \/ ImagesPart!Enqueue(c) \/ ImagesPart!Spawn(c) \/ ImagesPart!Converts(c)
        \/ ImagesPart!finalize_thumbnail_download(c) \/ ImagesPart!run_thumbnail_yt_dlp_with_timeout(c)
        \/ ImagesPart!persist_thumbnail_from_source_async(c) \/ ImagesPart!remove_dir_all(c)
     PROVE RunsCount'
  BY <1>2 DEF ImagesPart!Next
<1>a. CallsShaped /\ DOMAIN tree = Fetchers /\ (tree[c] # {} => at[c].pc = "run")
  BY DEF RunsCount
<1>s. \E a, b : semaphore = [running |-> a, inFlight |-> b]
  BY DEF RunsCount
<1>b. ASSUME CallMoves(c), UNCHANGED <<tree, semaphore>>, at[c].pc \notin {"wait", "run"}, at'[c].pc \notin {"wait", "run"}
      PROVE  RunsCount'
  <2>1. TreeMoves(c) /\ PlaceMoves(c)
    BY <1>a, <1>b DEF TreeMoves, PlaceMoves
  <2> QED BY <2>1, <1>b, RunsMove
<1>c. ASSUME NEW next, CallGoes(c, next), UNCHANGED <<tree, semaphore>>, at[c].pc \notin {"wait", "run"}, next \notin {"wait", "run"}
      PROVE  RunsCount'
  BY <1>b, <1>c DEF CallGoes
<1>3. CASE ImagesPart!download_channel_avatar_from_handle_async(c)
  BY <1>3, <1>c, <1>a, CallSteps DEF ImagesPart!download_channel_avatar_from_handle_async
<1>4. CASE ImagesPart!download_media_thumbnail_async(c)
  BY <1>4, <1>c, <1>a, CallSteps DEF ImagesPart!download_media_thumbnail_async
<1>5. CASE ImagesPart!NextCandidate(c)
  <2>1. CASE \E u, t, a : at' = [at EXCEPT ![c] = [ImagesPart!Start EXCEPT !.pc = "prepare", !.url = u, !.tries = t, !.answer = a]]
    <3>1. PICK u, t, a : at' = [at EXCEPT ![c] = [ImagesPart!Start EXCEPT !.pc = "prepare", !.url = u, !.tries = t, !.answer = a]]
      BY <2>1
    <3> DEFINE r == [ImagesPart!Start EXCEPT !.pc = "prepare", !.url = u, !.tries = t, !.answer = a]
    <3>2. CallFields \subseteq DOMAIN r /\ r.pc = "prepare"
      BY DEF ImagesPart!Start, CallFields
    <3>3. at' = [at EXCEPT ![c] = r]
      BY <3>1
    <3> HIDE DEF r
    <3>4. CallMoves(c) /\ at'[c].pc = "prepare"
      BY <3>2, <3>3, <1>a DEF CallMoves, CallsShaped
    <3> QED BY <3>4, <1>5, <1>b DEF ImagesPart!NextCandidate
  <2>2. CASE ImagesPart!Answers(c, at[c].answer)
    BY <2>2, <1>5, <1>c, <1>a, CallSteps DEF ImagesPart!NextCandidate
  <2> QED BY <1>5, <2>1, <2>2 DEF ImagesPart!NextCandidate
<1>6. CASE ImagesPart!download_thumbnail_from_url_async(c)
  <2>1. CASE \E u : at' = [at EXCEPT ![c].pc = "prepare", ![c].url = u]
    <3>1. CallMoves(c) /\ at'[c].pc = "prepare"
      BY <2>1, <1>a DEF CallMoves, CallsShaped, CallFields
    <3> QED BY <3>1, <1>6, <1>b DEF ImagesPart!download_thumbnail_from_url_async
  <2>2. CASE ImagesPart!Answers(c, "error")
    BY <2>2, <1>6, <1>c, <1>a, CallSteps DEF ImagesPart!download_thumbnail_from_url_async
  <2> QED BY <1>6, <2>1, <2>2 DEF ImagesPart!download_thumbnail_from_url_async
<1>7. CASE ImagesPart!prepare_thumbnail_dirs(c)
  BY <1>7, <1>c, <1>a, CallSteps DEF ImagesPart!prepare_thumbnail_dirs
<1>8. CASE ImagesPart!Route(c)
  BY <1>8, <1>c, <1>a, CallSteps DEF ImagesPart!Route
<1>9. CASE ImagesPart!assert_url_host_is_public(c)
  <2>1. CASE ImagesPart!Fails(c)
    BY <2>1, <1>9, <1>c, <1>a, CallSteps DEF ImagesPart!assert_url_host_is_public
  <2>2. CASE ImagesPart!Goes(c, IF at[c].pc = "check" THEN "dial" ELSE "probe")
    <3>1. CallGoes(c, "dial") \/ CallGoes(c, "probe")
      BY <2>2, <1>a, CallSteps
    <3> QED BY <3>1, <1>9, <1>c DEF ImagesPart!assert_url_host_is_public
  <2> QED BY <1>9, <2>1, <2>2 DEF ImagesPart!assert_url_host_is_public
<1>10. CASE ImagesPart!Request(c)
  <2>1. CASE \E u, h : at' = [at EXCEPT ![c].pc = "check", ![c].hops = h, ![c].url = u]
    <3>1. CallMoves(c) /\ at'[c].pc = "check"
      BY <2>1, <1>a DEF CallMoves, CallsShaped, CallFields
    <3> QED BY <3>1, <1>10, <1>b DEF ImagesPart!Request
  <2>2. CASE ImagesPart!Fails(c) \/ ImagesPart!Goes(c, "body")
    BY <2>2, <1>10, <1>c, <1>a, CallSteps DEF ImagesPart!Request
  <2> QED BY <1>10, <2>1, <2>2 DEF ImagesPart!Request
<1>11. CASE ImagesPart!RequestFails(c) \/ ImagesPart!fetch_yt_dlp_metadata(c)
  BY <1>11, <1>c, <1>a, CallSteps DEF ImagesPart!RequestFails, ImagesPart!fetch_yt_dlp_metadata
<1>12. CASE ImagesPart!http_get_image(c)
  BY <1>12, <1>c, <1>a, CallSteps DEF ImagesPart!http_get_image
<1>13. CASE ImagesPart!Enqueue(c)
  <2>1. CASE ImagesPart!Fails(c) /\ UNCHANGED semaphore
    BY <2>1, <1>13, <1>c, <1>a, CallSteps DEF ImagesPart!Enqueue
  <2>2. CASE /\ semaphore.inFlight < MAX_THUMBNAIL_RUNS_IN_FLIGHT
             /\ semaphore' = [semaphore EXCEPT !.inFlight = @ + 1] /\ ImagesPart!Goes(c, "wait")
    <3>1. CallMoves(c) /\ at'[c].pc = "wait" /\ at[c].pc = "queue" /\ UNCHANGED tree
      BY <2>2, <1>13, <1>a, CallSteps DEF CallGoes, ImagesPart!Enqueue
    <3>2. PlaceMoves(c)
      BY <2>2, <3>1, <1>s DEF PlaceMoves
    <3>3. TreeMoves(c)
      BY <3>1, <1>a DEF TreeMoves
    <3> QED BY <3>1, <3>2, <3>3, RunsMove
  <2> QED BY <1>13, <2>1, <2>2 DEF ImagesPart!Enqueue
<1>14. CASE ImagesPart!Spawn(c)
  <2>0. at[c].pc = "wait" /\ tree[c] = {}
    BY <1>14, <1>a DEF ImagesPart!Spawn
  <2>1. CASE /\ semaphore' = [semaphore EXCEPT !.running = @ + 1]
             /\ tree' = [tree EXCEPT ![c] = {"yt-dlp"}] /\ ImagesPart!Goes(c, "run")
    <3>1. CallMoves(c) /\ at'[c].pc = "run"
      BY <2>1, <1>a, CallSteps DEF CallGoes
    <3>2. PlaceMoves(c)
      BY <1>14, <2>0, <2>1, <3>1, <1>s DEF PlaceMoves, ImagesPart!Spawn
    <3>3. TreeMoves(c)
      BY <2>1, <3>1, <1>a DEF TreeMoves
    <3> QED BY <3>1, <3>2, <3>3, RunsMove
  <2>2. CASE semaphore' = [semaphore EXCEPT !.inFlight = @ - 1] /\ ImagesPart!Fails(c) /\ UNCHANGED tree
    <3>1. CallMoves(c) /\ at'[c].pc = "clean"
      BY <2>2, <1>a, CallSteps DEF CallGoes
    <3>2. PlaceMoves(c)
      BY <2>0, <2>2, <3>1, <1>s DEF PlaceMoves
    <3>3. TreeMoves(c)
      BY <2>0, <2>2, <1>a DEF TreeMoves
    <3> QED BY <3>1, <3>2, <3>3, RunsMove
  <2> QED BY <1>14, <2>1, <2>2 DEF ImagesPart!Spawn
<1>15. CASE ImagesPart!Converts(c)
  <2>1. /\ at[c].pc = "run" /\ UNCHANGED <<at, semaphore>> /\ DOMAIN tree' = Fetchers
        /\ \A d \in Fetchers : d # c => tree'[d] = tree[d]
    BY <1>15, <1>a DEF ImagesPart!Converts
  <2>2. CallMoves(c)
    BY <2>1, <1>a DEF CallMoves, CallsShaped
  <2> QED BY <2>1, <2>2, RunsMove DEF TreeMoves, PlaceMoves
<1>16. CASE ImagesPart!finalize_thumbnail_download(c) \/ ImagesPart!run_thumbnail_yt_dlp_with_timeout(c)
  <2>1. at[c].pc = "run" /\ ImagesPart!Leaves(c) /\ tree' = [tree EXCEPT ![c] = {}]
    BY <1>16 DEF ImagesPart!finalize_thumbnail_download, ImagesPart!run_thumbnail_yt_dlp_with_timeout,
      ImagesPart!RunEnds, ImagesPart!kill_process_tree
  <2>2. CallMoves(c) /\ at'[c].pc \in {"clean", "persist"}
    BY <1>16, <1>a, CallSteps DEF CallGoes, ImagesPart!finalize_thumbnail_download,
      ImagesPart!run_thumbnail_yt_dlp_with_timeout
  <2>3. PlaceMoves(c)
    BY <2>1, <2>2 DEF PlaceMoves, ImagesPart!Leaves
  <2>4. TreeMoves(c)
    BY <2>1, <1>a DEF TreeMoves
  <2> QED BY <2>2, <2>3, <2>4, RunsMove
<1>17. CASE ImagesPart!persist_thumbnail_from_source_async(c)
  BY <1>17, <1>c, <1>a, CallSteps DEF ImagesPart!persist_thumbnail_from_source_async
<1>18. CASE ImagesPart!remove_dir_all(c)
  BY <1>18, <1>c, <1>a, CallSteps DEF ImagesPart!remove_dir_all
<1> QED BY <1>3, <1>4, <1>5, <1>6, <1>7, <1>8, <1>9, <1>10, <1>11, <1>12, <1>13, <1>14, <1>15, <1>16, <1>17, <1>18

LEMMA SameCardinality ==
  ASSUME NEW S
  PROVE  ImagesPart!Cardinality(S) = Cardinality(S)
  BY Zenon DEF Cardinality, ImagesPart!Cardinality

LEMMA RunsTell == RunsCount => ImagesPart!RunsCounted
<1>1. \A pcs : CallsAt(pcs) = {c \in Fetchers : at[c].pc \in pcs}
  BY DEF CallsAt
<1> QED BY <1>1, SameCardinality, Zenon DEF RunsCount, ImagesPart!RunsCounted

(***************************************************************************)
(* The previews: what FFmpeg leaves in the cache, and the permits.         *)
(***************************************************************************)
MakerFields == {"pc", "how", "name"}
FileFields == {"name", "kind", "by", "of", "whole", "old", "left"}
MakersShaped == DOMAIN maker = Makers /\ \A m \in Makers : MakerFields \subseteq DOMAIN maker[m]
Written == {"run", "place", "failed"}

\* A file that is being written, and was not left by a session that is over.
Partial(f) == f.kind = "partial" /\ ~f.left

PartialsInv ==
  /\ MakersShaped
  /\ \A f \in previews : /\ FileFields \subseteq DOMAIN f
                         /\ Partial(f) => f.by \in Makers /\ ~f.old /\ maker[f.by].pc \in Written
  /\ \A m \in Makers : maker[m].pc = "place" => \E f \in previews : Partial(f) /\ f.by = m

MakerMoves(m) ==
  /\ DOMAIN maker' = Makers /\ MakerFields \subseteq DOMAIN maker'[m]
  /\ \A k \in Makers : k # m => maker'[k] = maker[k]
MakerGoes(m, next) ==
  MakerMoves(m) /\ maker'[m].pc = next /\ maker'[m].how = maker[m].how /\ maker'[m].name = maker[m].name
MakerEnds(m) == MakerMoves(m) /\ maker'[m].pc = "over" /\ maker'[m].how = "none"

LEMMA MakerSteps ==
  ASSUME MakersShaped, NEW m \in Makers
  PROVE  /\ \A next : PreviewsPart!Goes(m, next) => MakerGoes(m, next)
         /\ PreviewsPart!Fails(m) => MakerEnds(m)
         /\ maker' = [maker EXCEPT ![m] = PreviewsPart!Over] => MakerEnds(m)
         /\ maker' = [maker EXCEPT ![m].pc = "drop"] => MakerGoes(m, "drop")
         /\ \A v : maker' = [maker EXCEPT ![m].name = v, ![m].pc = "named"] =>
               MakerMoves(m) /\ maker'[m].pc = "named" /\ maker'[m].how = maker[m].how
         /\ \A r : maker' = [maker EXCEPT ![m] = r] /\ MakerFields \subseteq DOMAIN r => MakerMoves(m) /\ maker'[m] = r
<1>1. MakerFields \subseteq DOMAIN PreviewsPart!Over /\ PreviewsPart!Over.pc = "over" /\ PreviewsPart!Over.how = "none"
  BY DEF PreviewsPart!Over, PreviewsPart!Idle, PreviewsPart!None, MakerFields
<1>2. \A r : maker' = [maker EXCEPT ![m] = r] /\ MakerFields \subseteq DOMAIN r => MakerMoves(m) /\ maker'[m] = r
  BY DEF MakersShaped, MakerMoves
<1>3. maker' = [maker EXCEPT ![m] = PreviewsPart!Over] => MakerEnds(m)
  BY <1>1, <1>2 DEF MakerEnds
<1>5. \A next : maker' = [maker EXCEPT ![m].pc = next] => MakerGoes(m, next)
  BY DEF MakersShaped, MakerMoves, MakerGoes, MakerFields
<1>6. \A v : maker' = [maker EXCEPT ![m].name = v, ![m].pc = "named"] =>
               MakerMoves(m) /\ maker'[m].pc = "named" /\ maker'[m].how = maker[m].how
  BY DEF MakersShaped, MakerMoves, MakerFields
<1> QED BY <1>2, <1>3, <1>5, <1>6 DEF PreviewsPart!Goes, PreviewsPart!Fails

LEMMA MakerAsks ==
  ASSUME MakersShaped, NEW m \in Makers, NEW v, NEW w,
         maker' = [maker EXCEPT ![m] = [PreviewsPart!Idle EXCEPT !.pc = v, !.how = w]]
  PROVE  MakerMoves(m) /\ maker'[m].pc = v /\ maker'[m].how = w
<1> DEFINE r == [PreviewsPart!Idle EXCEPT !.pc = v, !.how = w]
<1>1. MakerFields \subseteq DOMAIN r /\ r.pc = v /\ r.how = w
  BY DEF PreviewsPart!Idle, MakerFields
<1>2. maker' = [maker EXCEPT ![m] = r]
  OBVIOUS
<1> HIDE DEF r
<1> QED BY <1>1, <1>2, MakerSteps

\* What a step of the call m may do to the files being written.
PartialMoves(m) ==
  /\ \A f \in previews' : /\ FileFields \subseteq DOMAIN f
                          /\ Partial(f) => \/ f \in previews /\ f.by # m
                                           \/ f.by = m /\ ~f.old /\ maker'[m].pc \in Written
  /\ \A f \in previews : Partial(f) /\ f.by # m => f \in previews'
  /\ maker'[m].pc = "place" => \E f \in previews' : Partial(f) /\ f.by = m

LEMMA PartialsMove ==
  ASSUME PartialsInv, NEW m \in Makers, MakerMoves(m), PartialMoves(m)
  PROVE  PartialsInv'
<1>1. MakersShaped'
  BY DEF PartialsInv, MakersShaped, MakerMoves
<1>2. \A f \in previews' : /\ FileFields \subseteq DOMAIN f
                           /\ Partial(f) => f.by \in Makers /\ ~f.old /\ maker'[f.by].pc \in Written
  BY DEF PartialsInv, MakerMoves, PartialMoves
<1>3. \A k \in Makers : maker'[k].pc = "place" => \E f \in previews' : Partial(f) /\ f.by = k
  BY DEF PartialsInv, MakerMoves, PartialMoves
<1> QED BY <1>1, <1>2, <1>3 DEF PartialsInv, Partial

\* A call whose file is not being written, or that gives it up, leaves the files as they are.
LEMMA PartialsStay ==
  ASSUME PartialsInv, NEW m \in Makers, MakerMoves(m), UNCHANGED previews,
         maker[m].pc \notin Written \/ maker'[m].pc = "failed", maker'[m].pc # "place"
  PROVE  PartialsInv'
<1>1. PartialMoves(m)
  BY DEF PartialMoves, PartialsInv, Partial, Written
<1> QED BY <1>1, PartialsMove

LEMMA PartialsInit == PreviewsPart!Init => PartialsInv
<1> SUFFICES ASSUME PreviewsPart!Init PROVE PartialsInv
  OBVIOUS
<1>1. MakerFields \subseteq DOMAIN PreviewsPart!Idle /\ PreviewsPart!Idle.pc = "idle"
  BY DEF PreviewsPart!Idle, MakerFields
<1>2. previews = {} /\ DOMAIN maker = Makers /\ \A m \in Makers : maker[m] = PreviewsPart!Idle
  BY DEF PreviewsPart!Init
<1> QED BY <1>1, <1>2 DEF PartialsInv, MakersShaped

LEMMA PartialsStep == PartialsInv /\ [PreviewsPart!Next]_shots => PartialsInv'
<1> SUFFICES ASSUME PartialsInv, [PreviewsPart!Next]_shots PROVE PartialsInv'
  OBVIOUS
<1>a. MakersShaped
  BY DEF PartialsInv
<1>1. CASE UNCHANGED <<maker, previews>>
  BY <1>1 DEF PartialsInv, MakersShaped, Partial
<1>2. CASE PreviewsPart!Edit \/ UNCHANGED shots
  BY <1>1, <1>2 DEF PreviewsPart!Edit, shots
<1>3. CASE PreviewsPart!AppDies
  <2>1. MakerFields \subseteq DOMAIN PreviewsPart!Idle /\ PreviewsPart!Idle.pc = "idle"
    BY DEF PreviewsPart!Idle, MakerFields
  <2>2. DOMAIN maker' = Makers /\ \A m \in Makers : maker'[m] = PreviewsPart!Idle
    BY <1>3 DEF PreviewsPart!AppDies
  <2>3. ASSUME NEW f \in previews' PROVE FileFields \subseteq DOMAIN f /\ ~Partial(f)
    <3>0. PICK w \in BOOLEAN : previews' = {[g EXCEPT !.left = g.kind = "partial", !.old = @ \/ w] : g \in previews}
      BY <1>3 DEF PreviewsPart!AppDies
    <3>1. PICK g \in previews : f = [g EXCEPT !.left = g.kind = "partial", !.old = @ \/ w]
      BY <3>0, <2>3
    <3>2. FileFields \subseteq DOMAIN g
      BY <3>1 DEF PartialsInv
    <3> QED BY <3>1, <3>2 DEF FileFields, Partial
  <2> QED BY <2>1, <2>2, <2>3 DEF PartialsInv, MakersShaped
<1>4. CASE PreviewsPart!cleanup_dir_children
  <2>1. /\ UNCHANGED maker /\ previews' \subseteq previews /\ \A f \in previews : ~f.old => f \in previews'
    BY <1>4 DEF PreviewsPart!cleanup_dir_children, PreviewsPart!is_older_than_threshold
  <2>2. \A f \in previews : Partial(f) => f \in previews'
    BY <2>1 DEF PartialsInv
  <2> QED BY <2>1, <2>2 DEF PartialsInv, MakersShaped, Partial
<1> SUFFICES ASSUME NEW m \in Makers,
          \/ PreviewsPart!generate_temporary_thumbnail(m) \/ PreviewsPart!PREVIEW_SEMAPHORE(m)
          \/ PreviewsPart!file_hash_cancellable(m) \/ PreviewsPart!validate_picked_thumbnail_path(m)
          \/ PreviewsPart!generate_temporary_thumbnail_cancellable_sync(m) \/ PreviewsPart!stage_manual_thumbnail_sync(m)
          \/ PreviewsPart!run_tracked_ffmpeg(m) \/ PreviewsPart!RemovePartial(m) \/ PreviewsPart!rename_retrying(m)
          \/ PreviewsPart!persist_thumbnail_file(m) \/ PreviewsPart!delete_temporary_thumbnail_sync(m)
     PROVE PartialsInv'
  BY <1>2, <1>3, <1>4 DEF PreviewsPart!Next
<1>b. \A f : f \in PreviewsPart!partial_thumbnail_file_name(m) <=> f \in previews /\ Partial(f) /\ f.by = m
  BY DEF PreviewsPart!partial_thumbnail_file_name, Partial
<1>c. \A f \in PreviewsPart!Final(m) : ~Partial(f)
  BY DEF PreviewsPart!Final, PreviewsPart!KindOf, Partial
<1>d. \A of, whole : LET w == PreviewsPart!Writes(m, of, whole)
                    IN  FileFields \subseteq DOMAIN w /\ Partial(w) /\ w.by = m /\ ~w.old
  BY DEF PreviewsPart!Writes, FileFields, Partial
<1>e. \A f \in previews : FileFields \subseteq DOMAIN f
  BY DEF PartialsInv
<1>5. CASE PreviewsPart!generate_temporary_thumbnail(m)
  <2>1. MakerMoves(m) /\ maker'[m].pc \in {"wait", "hash"}
    <3>1. CASE maker' = [maker EXCEPT ![m] = [PreviewsPart!Idle EXCEPT !.pc = "wait", !.how = "preview"]]
      BY <3>1, <1>a, MakerAsks
    <3>2. CASE \E how : maker' = [maker EXCEPT ![m] = [PreviewsPart!Idle EXCEPT !.pc = "hash", !.how = how]]
      BY <3>2, <1>a, MakerAsks
    <3> QED BY <1>5, <3>1, <3>2 DEF PreviewsPart!generate_temporary_thumbnail
  <2> QED BY <2>1, <1>5, PartialsStay DEF PreviewsPart!generate_temporary_thumbnail, Written
<1>6. CASE PreviewsPart!PREVIEW_SEMAPHORE(m)
  BY <1>6, <1>a, MakerSteps, PartialsStay DEF PreviewsPart!PREVIEW_SEMAPHORE, Written, MakerGoes
<1>7. CASE PreviewsPart!file_hash_cancellable(m) \/ PreviewsPart!validate_picked_thumbnail_path(m)
  BY <1>7, <1>a, MakerSteps, PartialsStay DEF PreviewsPart!file_hash_cancellable,
    PreviewsPart!validate_picked_thumbnail_path, PreviewsPart!Names, Written, MakerEnds
<1>8. CASE PreviewsPart!generate_temporary_thumbnail_cancellable_sync(m) \/ PreviewsPart!stage_manual_thumbnail_sync(m)
  <2>0. maker[m].pc = "named" /\ PreviewsPart!Reuses(m)
    BY <1>8 DEF PreviewsPart!generate_temporary_thumbnail_cancellable_sync, PreviewsPart!stage_manual_thumbnail_sync
  <2>1. CASE PreviewsPart!Goes(m, "shown") /\ UNCHANGED previews
    BY <2>0, <2>1, <1>a, MakerSteps, PartialsStay DEF Written, MakerGoes
  <2>2. CASE /\ PreviewsPart!Goes(m, "run")
             /\ \E of, whole : previews' = (previews \ PreviewsPart!partial_thumbnail_file_name(m))
                                        \cup {PreviewsPart!Writes(m, of, whole)}
    <3>1. MakerGoes(m, "run")
      BY <2>2, <1>a, MakerSteps
    <3>2. PartialMoves(m)
      BY <2>2, <3>1, <1>b, <1>d, <1>e DEF PartialMoves, MakerGoes, Written
    <3> QED BY <3>1, <3>2, PartialsMove DEF MakerGoes
  <2> QED BY <2>0, <2>1, <2>2 DEF PreviewsPart!Reuses
<1>9. CASE PreviewsPart!run_tracked_ffmpeg(m)
  <2>1. CASE PreviewsPart!Goes(m, "failed") /\ UNCHANGED previews
    BY <2>1, <1>a, MakerSteps, PartialsStay DEF MakerGoes
  <2>2. CASE /\ PreviewsPart!Goes(m, "place")
             /\ \E of, whole : previews' = (previews \ PreviewsPart!partial_thumbnail_file_name(m))
                                        \cup {PreviewsPart!Writes(m, of, whole)}
    <3>1. MakerGoes(m, "place")
      BY <2>2, <1>a, MakerSteps
    <3>2. PartialMoves(m)
      BY <2>2, <3>1, <1>b, <1>d, <1>e DEF PartialMoves, MakerGoes, Written
    <3> QED BY <3>1, <3>2, PartialsMove DEF MakerGoes
  <2> QED BY <1>9, <2>1, <2>2 DEF PreviewsPart!run_tracked_ffmpeg
<1>10. CASE PreviewsPart!RemovePartial(m)
  <2>1. MakerEnds(m)
    BY <1>10, <1>a, MakerSteps DEF PreviewsPart!RemovePartial
  <2>2. \A g \in previews : LET f == [g EXCEPT !.left = TRUE] IN FileFields \subseteq DOMAIN f /\ ~Partial(f)
    BY <1>e DEF FileFields, Partial
  <2>3. PartialMoves(m)
    <3>1. CASE previews' = previews \ PreviewsPart!partial_thumbnail_file_name(m)
      BY <3>1, <2>1, <1>b, <1>e DEF PartialMoves, MakerEnds
    <3>2. CASE previews' = (previews \ PreviewsPart!partial_thumbnail_file_name(m))
                 \cup {[f EXCEPT !.left = TRUE] : f \in PreviewsPart!partial_thumbnail_file_name(m)}
      <4>1. ASSUME NEW f \in previews' PROVE /\ FileFields \subseteq DOMAIN f
                                             /\ Partial(f) => f \in previews /\ f.by # m
        BY <3>2, <4>1, <2>2, <1>b, <1>e
      <4>2. \A f \in previews : Partial(f) /\ f.by # m => f \in previews'
        BY <3>2, <1>b
      <4> QED BY <4>1, <4>2, <2>1 DEF PartialMoves, MakerEnds
    <3> QED BY <1>10, <3>1, <3>2 DEF PreviewsPart!RemovePartial
  <2> QED BY <2>1, <2>3, PartialsMove DEF MakerEnds
<1>11. CASE PreviewsPart!rename_retrying(m)
  <2>1. CASE PreviewsPart!Goes(m, "failed") /\ UNCHANGED previews
    BY <2>1, <1>a, MakerSteps, PartialsStay DEF MakerGoes
  <2>2. CASE /\ PreviewsPart!Goes(m, "shown")
             /\ previews' = (previews \ (PreviewsPart!Final(m) \cup PreviewsPart!partial_thumbnail_file_name(m)))
                 \cup {[f EXCEPT !.kind = PreviewsPart!KindOf(m), !.by = PreviewsPart!None] :
                         f \in PreviewsPart!partial_thumbnail_file_name(m)}
    <3>1. MakerGoes(m, "shown")
      BY <2>2, <1>a, MakerSteps
    <3>2. \A g \in previews : LET f == [g EXCEPT !.kind = PreviewsPart!KindOf(m), !.by = PreviewsPart!None]
                              IN  FileFields \subseteq DOMAIN f /\ ~Partial(f)
      BY <1>e DEF FileFields, Partial, PreviewsPart!KindOf
    <3>3. ASSUME NEW f \in previews' PROVE /\ FileFields \subseteq DOMAIN f
                                           /\ Partial(f) => f \in previews /\ f.by # m
      BY <2>2, <3>2, <3>3, <1>b, <1>e
    <3>4. \A f \in previews : Partial(f) /\ f.by # m => f \in previews'
      BY <2>2, <1>b, <1>c
    <3>5. PartialMoves(m)
      BY <3>1, <3>3, <3>4 DEF PartialMoves, MakerGoes
    <3> QED BY <3>1, <3>5, PartialsMove DEF MakerGoes
  <2> QED BY <1>11, <2>1, <2>2 DEF PreviewsPart!rename_retrying
<1>12. CASE PreviewsPart!persist_thumbnail_file(m)
  BY <1>12, <1>a, MakerSteps, PartialsStay DEF PreviewsPart!persist_thumbnail_file, Written, MakerGoes
<1>13. CASE PreviewsPart!delete_temporary_thumbnail_sync(m)
  <2>1. MakerEnds(m) /\ maker[m].pc \notin Written
    BY <1>13, <1>a, MakerSteps DEF PreviewsPart!delete_temporary_thumbnail_sync, Written
  <2>2. CASE UNCHANGED previews
    BY <2>1, <2>2, PartialsStay DEF MakerEnds
  <2>3. CASE previews' = previews \ PreviewsPart!Final(m)
    <3>1. PartialMoves(m)
      BY <2>1, <2>3, <1>c, <1>e DEF PartialMoves, MakerEnds, PartialsInv
    <3> QED BY <2>1, <3>1, PartialsMove DEF MakerEnds
  <2> QED BY <1>13, <2>2, <2>3 DEF PreviewsPart!delete_temporary_thumbnail_sync
<1> QED BY <1>5, <1>6, <1>7, <1>8, <1>9, <1>10, <1>11, <1>12, <1>13

LEMMA PartialsTell == PartialsInv => PreviewsPart!PartialsGone
  BY DEF PartialsInv, Partial, Written, PreviewsPart!PartialsGone, PreviewsPart!partial_thumbnail_file_name

\* A finished file is a whole image of the content its name tells, unless the user's file changed
\* after it was hashed; a file being written has the name of its call, and one that is to be placed
\* is finished; and an answer is there or was removed.
Tells(f) == f.whole /\ (f.of = f.name \/ f.name \in changed)
FinalOf(k, f) == f.kind = PreviewsPart!KindOf(k) /\ f.name = maker[k].name
Found(k) == (\E f \in previews : FinalOf(k, f)) \/ k \in gone
NamedAsRead(k) == chosen = maker[k].name \/ maker[k].name \in changed
ShownInv ==
  /\ \A f \in previews : f.kind # "partial" => Tells(f)
  /\ \A f \in persisted : Tells(f)
  /\ \A f \in previews : Partial(f) => /\ f.name = maker[f.by].name
                                       /\ maker[f.by].pc = "place" => Tells(f)
  /\ \A k \in Makers : maker[k].pc \in {"named", "run"} => NamedAsRead(k)
  /\ \A k \in Makers : maker[k].pc = "shown" => Found(k)

LEMMA ShownInit == PreviewsPart!Init => ShownInv
<1> SUFFICES ASSUME PreviewsPart!Init PROVE ShownInv
  OBVIOUS
<1>1. PreviewsPart!Idle.pc = "idle"
  BY DEF PreviewsPart!Idle
<1>2. previews = {} /\ persisted = {} /\ \A m \in Makers : maker[m] = PreviewsPart!Idle
  BY DEF PreviewsPart!Init
<1> QED BY <1>1, <1>2 DEF ShownInv

\* The files being written when the call m moves.
DraftMoves(m) ==
  \A f \in previews' : Partial(f) =>
     \/ f \in previews /\ f.by # m
     \/ /\ f.by = m /\ f.name = maker'[m].name
        /\ maker'[m].pc = "place" => Tells(f)

LEMMA ShownMoves ==
  ASSUME PartialsInv, ShownInv, NEW m \in Makers, MakerMoves(m), UNCHANGED <<chosen, changed>>, DraftMoves(m),
         maker'[m].pc \in {"named", "run"} => NamedAsRead(m)',
         \A f \in previews' : f.kind # "partial" => Tells(f),
         \A f \in persisted' : Tells(f),
         \A k \in Makers : maker'[k].pc = "shown" => Found(k)'
  PROVE  ShownInv'
<1>1. ASSUME NEW f PROVE Tells(f)' <=> Tells(f)
  BY DEF Tells
<1>2. ASSUME NEW k \in Makers, maker'[k].pc \in {"named", "run"} PROVE NamedAsRead(k)'
  <2>1. CASE k = m
    BY <1>2, <2>1
  <2>2. CASE k # m
    BY <1>2, <2>2 DEF ShownInv, MakerMoves, NamedAsRead
  <2> QED BY <2>1, <2>2
<1>3. ASSUME NEW f \in previews', Partial(f)
      PROVE  f.name = maker'[f.by].name /\ (maker'[f.by].pc = "place" => Tells(f))
  <2>1. CASE f \in previews /\ f.by # m
    <3>1. f.by \in Makers
      BY <1>3, <2>1 DEF PartialsInv
    <3>2. maker'[f.by] = maker[f.by]
      BY <2>1, <3>1 DEF MakerMoves
    <3> QED BY <1>3, <2>1, <3>2 DEF ShownInv
  <2>2. CASE f.by = m
    BY <1>3, <2>2 DEF DraftMoves
  <2> QED BY <1>3, <2>1, <2>2 DEF DraftMoves
<1>4. \A f : Partial(f)' <=> Partial(f)
  BY DEF Partial
<1> QED BY <1>1, <1>2, <1>3, <1>4 DEF ShownInv

\* A call that touches no finished file.
LEMMA ShownStays ==
  ASSUME PartialsInv, ShownInv, NEW m \in Makers, MakerMoves(m), UNCHANGED <<chosen, changed, persisted>>, DraftMoves(m),
         maker'[m].pc \in {"named", "run"} => NamedAsRead(m)',
         \A f : f.kind # "partial" => (f \in previews' <=> f \in previews),
         \A k \in gone : k # m => k \in gone',
         maker'[m].pc = "shown" => Found(m)'
  PROVE  ShownInv'
<1>1. \A f \in previews' : f.kind # "partial" => Tells(f)
  BY DEF ShownInv
<1>2. ASSUME NEW k \in Makers, maker'[k].pc = "shown" PROVE Found(k)'
  <2>1. CASE k = m
    BY <1>2, <2>1
  <2>2. CASE k # m
    <3>1. maker'[k] = maker[k] /\ Found(k)
      BY <1>2, <2>2 DEF ShownInv, MakerMoves
    <3>2. CASE k \in gone
      BY <2>2, <3>2 DEF Found
    <3>3. ASSUME NEW f \in previews, FinalOf(k, f) PROVE Found(k)'
      <4>1. f.kind # "partial"
        BY <3>3 DEF FinalOf, PreviewsPart!KindOf
      <4> QED BY <3>1, <3>3, <4>1 DEF Found, FinalOf, PreviewsPart!KindOf
    <3> QED BY <3>1, <3>2, <3>3 DEF Found
  <2> QED BY <2>1, <2>2
<1>3. \A f \in persisted' : Tells(f)
  BY DEF ShownInv
<1> QED BY <1>1, <1>2, <1>3, ShownMoves

LEMMA ShownSteps == PartialsInv /\ ShownInv /\ [PreviewsPart!Next]_shots => ShownInv'
<1> SUFFICES ASSUME PartialsInv, ShownInv, [PreviewsPart!Next]_shots PROVE ShownInv'
  OBVIOUS
<1>a. MakersShaped
  BY DEF PartialsInv
<1>1. CASE UNCHANGED shots
  BY <1>1 DEF shots, ShownInv, Partial, Tells, Found, FinalOf, NamedAsRead, PreviewsPart!KindOf
<1>2. CASE PreviewsPart!Edit
  <2>1. /\ UNCHANGED <<previews, maker, persisted, gone>>
        /\ changed' = changed \cup {maker[m].name : m \in {k \in Makers : maker[k].pc \in {"named", "run"}}}
    BY <1>2 DEF PreviewsPart!Edit
  <2>2. \A f : Tells(f) => Tells(f)'
    BY <2>1 DEF Tells
  <2>3. \A k \in Makers : maker[k].pc \in {"named", "run"} => maker[k].name \in changed'
    BY <2>1
  <2>4. \A k : Found(k)' <=> Found(k)
    BY <2>1 DEF Found, FinalOf, PreviewsPart!KindOf
  <2>5. \A f \in previews' : f.kind # "partial" => Tells(f)'
    BY <2>1, <2>2 DEF ShownInv
  <2>6. \A f \in persisted' : Tells(f)'
    BY <2>1, <2>2 DEF ShownInv
  <2>7. \A f \in previews' : Partial(f) => /\ f.name = maker'[f.by].name
                                           /\ maker'[f.by].pc = "place" => Tells(f)'
    BY <2>1, <2>2 DEF ShownInv
  <2>8. \A k \in Makers : maker'[k].pc \in {"named", "run"} => NamedAsRead(k)'
    BY <2>1, <2>3 DEF NamedAsRead
  <2>9. \A k \in Makers : maker'[k].pc = "shown" => Found(k)'
    BY <2>1, <2>4 DEF ShownInv
  <2> QED BY <2>5, <2>6, <2>7, <2>8, <2>9 DEF ShownInv, Partial
<1>3. CASE PreviewsPart!AppDies
  <2>1. PreviewsPart!Idle.pc = "idle"
    BY DEF PreviewsPart!Idle
  <2>2. \A m \in Makers : maker'[m].pc = "idle"
    BY <1>3, <2>1 DEF PreviewsPart!AppDies
  <2>3. ASSUME NEW f \in previews' PROVE ~Partial(f) /\ (f.kind # "partial" => Tells(f))
    <3>0. PICK w \in BOOLEAN : previews' = {[g EXCEPT !.left = g.kind = "partial", !.old = @ \/ w] : g \in previews}
      BY <1>3 DEF PreviewsPart!AppDies
    <3>1. PICK g \in previews : f = [g EXCEPT !.left = g.kind = "partial", !.old = @ \/ w]
      BY <3>0, <2>3
    <3>2. FileFields \subseteq DOMAIN g
      BY <3>1 DEF PartialsInv
    <3>3. f.kind = g.kind /\ f.whole = g.whole /\ f.of = g.of /\ f.name = g.name /\ ~Partial(f)
      BY <3>1, <3>2 DEF FileFields, Partial
    <3> QED BY <3>1, <3>3 DEF ShownInv, Tells
  <2>4. UNCHANGED <<changed, persisted>>
    BY <1>3 DEF PreviewsPart!AppDies
  <2> QED BY <2>2, <2>3, <2>4 DEF ShownInv, Tells, Partial
<1>4. CASE PreviewsPart!cleanup_dir_children
  <2>1. UNCHANGED <<maker, chosen, persisted, changed>> /\ gone \subseteq gone' /\ previews' \subseteq previews
    BY <1>4 DEF PreviewsPart!cleanup_dir_children
  <2>2. ASSUME NEW k \in Makers, NEW f \in previews, FinalOf(k, f), maker[k].pc = "shown"
        PROVE  f \in previews' \/ k \in gone'
    <3>1. f \in PreviewsPart!Final(k)
      BY <2>2 DEF FinalOf, PreviewsPart!Final
    <3> QED BY <1>4, <2>2, <3>1 DEF PreviewsPart!cleanup_dir_children
  <2>3. \A k, f : FinalOf(k, f)' <=> FinalOf(k, f)
    BY <2>1 DEF FinalOf, PreviewsPart!KindOf
  <2>4. \A k \in Makers : maker'[k].pc = "shown" => Found(k)'
    BY <2>1, <2>2, <2>3 DEF ShownInv, Found
  <2>5. \A f : Tells(f)' <=> Tells(f)
    BY <2>1 DEF Tells
  <2>6. \A k : NamedAsRead(k)' <=> NamedAsRead(k)
    BY <2>1 DEF NamedAsRead
  <2> QED BY <2>1, <2>4, <2>5, <2>6 DEF ShownInv, Partial
<1> SUFFICES ASSUME NEW m \in Makers,
          \/ PreviewsPart!generate_temporary_thumbnail(m) \/ PreviewsPart!PREVIEW_SEMAPHORE(m)
          \/ PreviewsPart!file_hash_cancellable(m) \/ PreviewsPart!validate_picked_thumbnail_path(m)
          \/ PreviewsPart!generate_temporary_thumbnail_cancellable_sync(m) \/ PreviewsPart!stage_manual_thumbnail_sync(m)
          \/ PreviewsPart!run_tracked_ffmpeg(m) \/ PreviewsPart!RemovePartial(m) \/ PreviewsPart!rename_retrying(m)
          \/ PreviewsPart!persist_thumbnail_file(m) \/ PreviewsPart!delete_temporary_thumbnail_sync(m)
     PROVE ShownInv'
  BY <1>1, <1>2, <1>3, <1>4 DEF PreviewsPart!Next
<1>b. \A f : f \in PreviewsPart!partial_thumbnail_file_name(m) <=> f \in previews /\ Partial(f) /\ f.by = m
  BY DEF PreviewsPart!partial_thumbnail_file_name, Partial
<1>c. \A k, f : f \in PreviewsPart!Final(k) <=> f \in previews /\ FinalOf(k, f)
  BY DEF PreviewsPart!Final, FinalOf
<1>d. \A k, f : FinalOf(k, f) => f.kind # "partial"
  BY DEF FinalOf, PreviewsPart!KindOf
<1>e. \A f : Partial(f) => f.kind = "partial"
  BY DEF Partial
<1>f. \A of, whole : LET w == PreviewsPart!Writes(m, of, whole)
                     IN  Partial(w) /\ w.by = m /\ w.name = maker[m].name /\ w.of = of /\ w.whole = whole
  BY DEF PreviewsPart!Writes, Partial
\* A call that has no file and moves within the calls that have none.
<1>g. ASSUME MakerMoves(m), UNCHANGED <<previews, chosen, changed, persisted>>, gone \ {m} \subseteq gone',
             maker[m].pc \notin Written, maker'[m].pc \in {"named", "run"} => NamedAsRead(m)', maker'[m].pc = "shown" => Found(m)'
      PROVE  ShownInv'
  <2>1. DraftMoves(m)
    BY <1>g DEF DraftMoves, PartialsInv
  <2> QED BY <1>g, <2>1, ShownStays
<1>5. CASE PreviewsPart!generate_temporary_thumbnail(m)
  <2>1. MakerMoves(m) /\ maker'[m].pc \in {"wait", "hash"}
    <3>1. CASE maker' = [maker EXCEPT ![m] = [PreviewsPart!Idle EXCEPT !.pc = "wait", !.how = "preview"]]
      BY <3>1, <1>a, MakerAsks
    <3>2. CASE \E how : maker' = [maker EXCEPT ![m] = [PreviewsPart!Idle EXCEPT !.pc = "hash", !.how = how]]
      BY <3>2, <1>a, MakerAsks
    <3> QED BY <1>5, <3>1, <3>2 DEF PreviewsPart!generate_temporary_thumbnail
  <2>2. maker[m].pc = "idle" /\ UNCHANGED <<previews, chosen, changed, persisted, gone>>
    BY <1>5 DEF PreviewsPart!generate_temporary_thumbnail
  <2> QED BY <2>1, <2>2, <1>g DEF Written
<1>6. CASE PreviewsPart!PREVIEW_SEMAPHORE(m)
  <2>1. MakerMoves(m) /\ maker'[m].pc = "hash"
    BY <1>6, <1>a, MakerSteps DEF PreviewsPart!PREVIEW_SEMAPHORE, MakerGoes
  <2>2. maker[m].pc = "wait" /\ UNCHANGED <<previews, chosen, changed, persisted, gone>>
    BY <1>6 DEF PreviewsPart!PREVIEW_SEMAPHORE
  <2> QED BY <2>1, <2>2, <1>g DEF Written
<1>7. CASE PreviewsPart!file_hash_cancellable(m) \/ PreviewsPart!validate_picked_thumbnail_path(m)
  <2>1. maker[m].pc = "hash" /\ PreviewsPart!Names(m)
    BY <1>7 DEF PreviewsPart!file_hash_cancellable, PreviewsPart!validate_picked_thumbnail_path
  <2>2. UNCHANGED <<previews, chosen, changed, persisted, gone>>
    BY <2>1 DEF PreviewsPart!Names
  <2>3. CASE maker' = [maker EXCEPT ![m].name = chosen, ![m].pc = "named"]
    <3>1. MakerMoves(m) /\ maker'[m].pc = "named"
      BY <2>3, <1>a, MakerSteps
    <3>2. maker'[m].name = chosen
      BY <2>3, <1>a DEF MakersShaped, MakerFields
    <3>3. NamedAsRead(m)'
      BY <2>2, <3>2 DEF NamedAsRead
    <3> QED BY <2>1, <2>2, <3>1, <3>3, <1>g DEF Written
  <2>4. CASE PreviewsPart!Fails(m)
    BY <2>1, <2>2, <2>4, <1>a, <1>g, MakerSteps DEF Written, MakerEnds
  <2> QED BY <2>1, <2>3, <2>4 DEF PreviewsPart!Names
<1>8. CASE PreviewsPart!generate_temporary_thumbnail_cancellable_sync(m) \/ PreviewsPart!stage_manual_thumbnail_sync(m)
  <2>0. maker[m].pc = "named" /\ PreviewsPart!Reuses(m)
    BY <1>8 DEF PreviewsPart!generate_temporary_thumbnail_cancellable_sync, PreviewsPart!stage_manual_thumbnail_sync
  <2>a. UNCHANGED <<chosen, changed, persisted, gone>>
    BY <2>0 DEF PreviewsPart!Reuses
  <2>1. CASE PreviewsPart!Final(m) # {}
    <3>1. PreviewsPart!Goes(m, "shown") /\ UNCHANGED previews
      BY <2>0, <2>1 DEF PreviewsPart!Reuses
    <3>2. MakerGoes(m, "shown")
      BY <3>1, <1>a, MakerSteps
    <3>3. PICK f \in previews : FinalOf(m, f)
      BY <2>1, <1>c
    <3>4. FinalOf(m, f)'
      BY <3>2, <3>3 DEF FinalOf, PreviewsPart!KindOf, MakerGoes
    <3>5. Found(m)'
      BY <3>1, <3>3, <3>4 DEF Found
    <3> QED BY <2>0, <2>a, <3>1, <3>2, <3>5, <1>g DEF Written, MakerGoes
  <2>2. CASE PreviewsPart!Final(m) = {}
    <3> DEFINE w == PreviewsPart!Writes(m, maker[m].name, FALSE)
    <3>1. /\ PreviewsPart!Goes(m, "run")
          /\ previews' = (previews \ PreviewsPart!partial_thumbnail_file_name(m)) \cup {w}
      BY <2>0, <2>2 DEF PreviewsPart!Reuses
    <3>2. MakerGoes(m, "run")
      BY <3>1, <1>a, MakerSteps
    <3>3. Partial(w) /\ w.by = m /\ w.name = maker[m].name
      BY <1>f
    <3> HIDE DEF w
    <3>4. DraftMoves(m)
      BY <3>1, <3>2, <3>3, <1>b DEF DraftMoves, MakerGoes
    <3>5. \A f : f.kind # "partial" => (f \in previews' <=> f \in previews)
      BY <3>1, <3>3, <1>b, <1>e
    <3>6. NamedAsRead(m)'
      BY <2>0, <2>a, <3>2 DEF ShownInv, NamedAsRead, MakerGoes
    <3> QED BY <2>a, <3>2, <3>4, <3>5, <3>6, ShownStays DEF MakerGoes
  <2> QED BY <2>1, <2>2
<1>9. CASE PreviewsPart!run_tracked_ffmpeg(m)
  <2>a. UNCHANGED <<chosen, changed, persisted, gone>> /\ maker[m].pc = "run"
    BY <1>9 DEF PreviewsPart!run_tracked_ffmpeg
  <2>1. CASE PreviewsPart!Goes(m, "failed") /\ UNCHANGED previews
    <3>1. MakerGoes(m, "failed")
      BY <2>1, <1>a, MakerSteps
    <3>2. DraftMoves(m)
      BY <2>1, <3>1 DEF DraftMoves, MakerGoes, ShownInv
    <3> QED BY <2>a, <2>1, <3>1, <3>2, ShownStays DEF MakerGoes
  <2>2. CASE /\ PreviewsPart!Goes(m, "place")
             /\ previews' = (previews \ PreviewsPart!partial_thumbnail_file_name(m))
                  \cup {PreviewsPart!Writes(m, chosen, TRUE)}
    <3> DEFINE w == PreviewsPart!Writes(m, chosen, TRUE)
    <3>1. MakerGoes(m, "place") /\ previews' = (previews \ PreviewsPart!partial_thumbnail_file_name(m)) \cup {w}
      BY <2>2, <1>a, MakerSteps
    <3>2. Partial(w) /\ w.by = m /\ w.name = maker[m].name /\ w.of = chosen /\ w.whole
      BY <1>f
    <3> HIDE DEF w
    <3>3. Tells(w)
      BY <2>a, <3>2 DEF ShownInv, NamedAsRead, Tells
    <3>4. DraftMoves(m)
      BY <3>1, <3>2, <3>3, <1>b DEF DraftMoves, MakerGoes
    <3>5. \A f : f.kind # "partial" => (f \in previews' <=> f \in previews)
      BY <3>1, <3>2, <1>b, <1>e
    <3> QED BY <2>a, <3>1, <3>4, <3>5, ShownStays DEF MakerGoes
  <2> QED BY <1>9, <2>1, <2>2 DEF PreviewsPart!run_tracked_ffmpeg
<1>10. CASE PreviewsPart!RemovePartial(m)
  <2>a. UNCHANGED <<chosen, changed, persisted, gone>>
    BY <1>10 DEF PreviewsPart!RemovePartial
  <2>1. MakerEnds(m)
    BY <1>10, <1>a, MakerSteps DEF PreviewsPart!RemovePartial
  <2>2. \A g \in previews : LET f == [g EXCEPT !.left = TRUE] IN f.kind = g.kind /\ ~Partial(f)
    BY DEF FileFields, Partial, PartialsInv
  <2>3. DraftMoves(m) /\ \A f : f.kind # "partial" => (f \in previews' <=> f \in previews)
    <3>1. CASE previews' = previews \ PreviewsPart!partial_thumbnail_file_name(m)
      BY <3>1, <1>b, <1>e DEF DraftMoves
    <3>2. CASE previews' = (previews \ PreviewsPart!partial_thumbnail_file_name(m))
                 \cup {[f EXCEPT !.left = TRUE] : f \in PreviewsPart!partial_thumbnail_file_name(m)}
      <4>1. ASSUME NEW f \in previews' PROVE (f \in previews /\ ~(Partial(f) /\ f.by = m)) \/ (f.kind = "partial" /\ ~Partial(f))
        <5>1. CASE f \in previews \ PreviewsPart!partial_thumbnail_file_name(m)
          BY <5>1, <1>b
        <5>2. ASSUME NEW g \in PreviewsPart!partial_thumbnail_file_name(m), f = [g EXCEPT !.left = TRUE]
              PROVE  f.kind = "partial" /\ ~Partial(f)
          BY <5>2, <2>2, <1>b, <1>e
        <5> QED BY <3>2, <4>1, <5>1, <5>2
      <4>2. DraftMoves(m)
        BY <4>1 DEF DraftMoves
      <4>3. \A f \in previews : f.kind # "partial" => f \in previews'
        BY <3>2, <1>b, <1>e
      <4> QED BY <4>1, <4>2, <4>3
    <3> QED BY <1>10, <3>1, <3>2 DEF PreviewsPart!RemovePartial
  <2> QED BY <2>a, <2>1, <2>3, ShownStays DEF MakerEnds
<1>11. CASE PreviewsPart!rename_retrying(m)
  <2>a. UNCHANGED <<chosen, changed, persisted, gone>> /\ maker[m].pc = "place"
    BY <1>11 DEF PreviewsPart!rename_retrying, PreviewsPart!Finished
  <2>1. CASE PreviewsPart!Goes(m, "failed") /\ UNCHANGED previews
    <3>1. MakerGoes(m, "failed")
      BY <2>1, <1>a, MakerSteps
    <3>2. DraftMoves(m)
      BY <2>1, <3>1 DEF DraftMoves, MakerGoes, ShownInv
    <3> QED BY <2>a, <2>1, <3>1, <3>2, ShownStays DEF MakerGoes
  <2>2. CASE /\ PreviewsPart!Goes(m, "shown")
             /\ previews' = (previews \ (PreviewsPart!Final(m) \cup PreviewsPart!partial_thumbnail_file_name(m)))
                 \cup {[f EXCEPT !.kind = PreviewsPart!KindOf(m), !.by = PreviewsPart!None] :
                         f \in PreviewsPart!partial_thumbnail_file_name(m)}
    <3> DEFINE Placed(g) == [g EXCEPT !.kind = PreviewsPart!KindOf(m), !.by = PreviewsPart!None]
    <3>1. MakerGoes(m, "shown")
      BY <2>2, <1>a, MakerSteps
    <3>2. ASSUME NEW g \in previews, Partial(g), g.by = m
          PROVE  FinalOf(m, Placed(g)) /\ ~Partial(Placed(g)) /\ Tells(Placed(g))
      <4>1. g.name = maker[m].name /\ Tells(g) /\ FileFields \subseteq DOMAIN g
        BY <2>a, <3>2 DEF ShownInv, PartialsInv
      <4>2. Placed(g).kind = PreviewsPart!KindOf(m) /\ Placed(g).name = maker[m].name /\ Placed(g).of = g.of
            /\ Placed(g).whole = g.whole /\ g.name = Placed(g).name
        BY <4>1 DEF FileFields
      <4>3. PreviewsPart!KindOf(m) # "partial"
        BY DEF PreviewsPart!KindOf
      <4> HIDE DEF Placed
      <4> QED BY <4>1, <4>2, <4>3 DEF FinalOf, Tells, Partial
    <3>3. \A f : f \in previews' <=> \/ f \in previews /\ ~FinalOf(m, f) /\ ~(Partial(f) /\ f.by = m)
                                     \/ \E g \in previews : Partial(g) /\ g.by = m /\ f = Placed(g)
      <4>1. \A f : f \in previews' <=> \/ f \in previews /\ f \notin PreviewsPart!Final(m)
                                          /\ f \notin PreviewsPart!partial_thumbnail_file_name(m)
                                       \/ \E g \in PreviewsPart!partial_thumbnail_file_name(m) : f = Placed(g)
        BY <2>2
      <4> HIDE DEF Placed
      <4> QED BY <4>1, <1>b, <1>c
    <3> HIDE DEF Placed
    <3>4. DraftMoves(m)
      BY <3>2, <3>3 DEF DraftMoves
    <3>5. \A f \in previews' : f.kind # "partial" => Tells(f)
      BY <3>2, <3>3 DEF ShownInv
    <3>6. \A f \in persisted' : Tells(f)
      BY <2>a DEF ShownInv
    <3>7. PICK new \in previews' : FinalOf(m, new)
      <4>1. PICK g \in previews : Partial(g) /\ g.by = m
        BY <2>a DEF PartialsInv
      <4> QED BY <4>1, <3>2, <3>3
    <3>8. ASSUME NEW k \in Makers, maker'[k].pc = "shown" PROVE Found(k)'
      <4>1. \A j \in Makers : \A f : FinalOf(j, f)' <=> FinalOf(j, f)
        BY <3>1 DEF FinalOf, PreviewsPart!KindOf, MakerGoes, MakerMoves
      <4>2. CASE k = m
        BY <4>1, <4>2, <3>7 DEF Found
      <4>3. CASE k # m
        <5>1. maker[k].pc = "shown"
          BY <3>1, <3>8, <4>3 DEF MakerGoes, MakerMoves
        <5>2. CASE k \in gone
          BY <2>a, <5>2 DEF Found
        <5>3. ASSUME NEW f \in previews, FinalOf(k, f) PROVE Found(k)'
          <6>1. CASE FinalOf(m, f)
            <7>1. FinalOf(k, new)
              BY <5>3, <6>1, <3>7 DEF FinalOf
            <7> QED BY <7>1, <3>7, <4>1 DEF Found
          <6>2. CASE ~FinalOf(m, f)
            <7>1. ~Partial(f)
              BY <5>3, <1>d, <1>e
            <7>2. f \in previews'
              BY <5>3, <6>2, <7>1, <3>3
            <7> QED BY <5>3, <7>2, <4>1 DEF Found
          <6> QED BY <6>1, <6>2
        <5> QED BY <5>1, <5>2, <5>3 DEF ShownInv, Found
      <4> QED BY <4>2, <4>3
    <3> QED BY <2>a, <3>1, <3>4, <3>5, <3>6, <3>8, ShownMoves DEF MakerGoes
  <2> QED BY <1>11, <2>1, <2>2 DEF PreviewsPart!rename_retrying
<1>12. CASE PreviewsPart!persist_thumbnail_file(m)
  <2>1. MakerGoes(m, "drop") /\ maker[m].pc = "shown" /\ UNCHANGED <<chosen, previews, changed, gone>>
    BY <1>12, <1>a, MakerSteps DEF PreviewsPart!persist_thumbnail_file
  <2>2. ASSUME NEW f \in previews, FinalOf(m, f) PROVE Tells([whole |-> f.whole, of |-> f.of, name |-> f.name])
    BY <2>2, <1>d DEF ShownInv, Tells
  <2>3. \A f \in persisted' : Tells(f)
    BY <1>12, <2>2, <1>c DEF PreviewsPart!persist_thumbnail_file, ShownInv
  <2>4. DraftMoves(m)
    BY <2>1 DEF DraftMoves, PartialsInv, Written
  <2>5. \A k \in Makers : maker'[k].pc = "shown" => Found(k)'
    BY <2>1 DEF MakerGoes, MakerMoves, ShownInv, Found, FinalOf, PreviewsPart!KindOf
  <2>6. \A f \in previews' : f.kind # "partial" => Tells(f)
    BY <2>1 DEF ShownInv
  <2> QED BY <2>1, <2>3, <2>4, <2>5, <2>6, ShownMoves DEF MakerGoes
<1>13. CASE PreviewsPart!delete_temporary_thumbnail_sync(m)
  <2>1. MakerEnds(m) /\ maker[m].pc \notin Written /\ UNCHANGED <<chosen, persisted, changed>>
    BY <1>13, <1>a, MakerSteps DEF PreviewsPart!delete_temporary_thumbnail_sync, Written
  <2>2. CASE UNCHANGED previews /\ gone' = gone \ {m}
    BY <2>1, <2>2, <1>g DEF MakerEnds
  <2>3. CASE /\ previews' = previews \ PreviewsPart!Final(m)
             /\ gone' = (gone \cup {k \in Makers : maker[k].pc = "shown" /\ PreviewsPart!Final(k) = PreviewsPart!Final(m)}) \ {m}
    <3>1. \A f : f \in previews' <=> f \in previews /\ ~FinalOf(m, f)
      BY <2>3, <1>c
    <3>2. DraftMoves(m)
      BY <2>1, <3>1 DEF DraftMoves, PartialsInv
    <3>3. \A f \in previews' : f.kind # "partial" => Tells(f)
      BY <3>1 DEF ShownInv
    <3>4. \A f \in persisted' : Tells(f)
      BY <2>1 DEF ShownInv
    <3>5. ASSUME NEW k \in Makers, maker'[k].pc = "shown" PROVE Found(k)'
      <4>1. k # m /\ maker[k].pc = "shown"
        BY <2>1, <3>5 DEF MakerEnds, MakerMoves
      <4>2. CASE k \in gone
        BY <2>3, <4>1, <4>2 DEF Found
      <4>3. ASSUME NEW f \in previews, FinalOf(k, f) PROVE Found(k)'
        <5>1. CASE FinalOf(m, f)
          <6>1. PreviewsPart!Final(k) = PreviewsPart!Final(m)
            BY <4>3, <5>1 DEF FinalOf, PreviewsPart!Final
          <6> QED BY <2>3, <4>1, <6>1 DEF Found
        <5>2. CASE ~FinalOf(m, f)
          <6>1. FinalOf(k, f)' /\ f \in previews'
            BY <2>1, <3>1, <4>1, <4>3, <5>2 DEF FinalOf, PreviewsPart!KindOf, MakerEnds, MakerMoves
          <6> QED BY <6>1 DEF Found
        <5> QED BY <5>1, <5>2
      <4> QED BY <4>1, <4>2, <4>3 DEF ShownInv, Found
    <3> QED BY <2>1, <3>2, <3>3, <3>4, <3>5, ShownMoves DEF MakerEnds
  <2> QED BY <1>13, <2>2, <2>3 DEF PreviewsPart!delete_temporary_thumbnail_sync
<1> QED BY <1>5, <1>6, <1>7, <1>8, <1>9, <1>10, <1>11, <1>12, <1>13

LEMMA ShownTells == ShownInv => PreviewsPart!PreviewsWhole
<1> SUFFICES ASSUME ShownInv PROVE PreviewsPart!PreviewsWhole
  OBVIOUS
<1>1. \A f \in {g \in previews : g.kind # "partial"} \cup persisted : f.whole /\ (f.of = f.name \/ f.name \in changed)
  BY DEF ShownInv, Tells
<1>2. \A m \in Makers : maker[m].pc = "shown" => PreviewsPart!Final(m) # {} \/ m \in gone
  BY DEF ShownInv, Found, FinalOf, PreviewsPart!Final
<1> QED BY <1>1, <1>2 DEF PreviewsPart!PreviewsWhole

\* The previews a form asked for, by where they stand.
Working == {"hash", "named", "run", "place", "failed"}
MakersAt(pcs) == {m \in Makers : maker[m].how = "preview" /\ maker[m].pc \in pcs}
MakersCount ==
  /\ MakersShaped /\ \A m \in Makers : maker[m].pc = "wait" => maker[m].how = "preview"
  /\ gate = [running |-> Cardinality(MakersAt(Working)), inFlight |-> Cardinality(MakersAt(Working \cup {"wait"}))]

Holds(m) == maker[m].how = "preview" /\ maker[m].pc \in Working
Queued(m) == maker[m].how = "preview" /\ maker[m].pc \in Working \cup {"wait"}

\* What the call m does with its place and its permit.
GateMoves(m) ==
  \/ UNCHANGED gate /\ (Holds(m)' <=> Holds(m)) /\ (Queued(m)' <=> Queued(m))
  \/ /\ gate' = [running |-> gate.running, inFlight |-> gate.inFlight + 1]
     /\ ~Queued(m) /\ Queued(m)' /\ ~Holds(m) /\ ~Holds(m)'
  \/ /\ gate' = [running |-> gate.running + 1, inFlight |-> gate.inFlight]
     /\ Queued(m) /\ Queued(m)' /\ ~Holds(m) /\ Holds(m)'
  \/ /\ gate' = [running |-> gate.running - 1, inFlight |-> gate.inFlight - 1]
     /\ Queued(m) /\ ~Queued(m)' /\ Holds(m) /\ ~Holds(m)'

LEMMA MakersMove ==
  ASSUME MakersCount, NEW m \in Makers, MakerMoves(m), GateMoves(m), maker'[m].pc = "wait" => maker'[m].how = "preview"
  PROVE  MakersCount'
<1> DEFINE R == MakersAt(Working)
           Q == MakersAt(Working \cup {"wait"})
           r == Cardinality(R)
           q == Cardinality(Q)
<1>1. MakersShaped' /\ \A k \in Makers : maker'[k].pc = "wait" => maker'[k].how = "preview"
  BY DEF MakersCount, MakersShaped, MakerMoves
<1>2. /\ R \in SUBSET Makers /\ R' \in SUBSET Makers /\ Q \in SUBSET Makers /\ Q' \in SUBSET Makers
      /\ \A k \in Makers : k # m => (k \in R <=> k \in R') /\ (k \in Q <=> k \in Q')
      /\ (m \in R <=> Holds(m)) /\ (m \in R' <=> Holds(m)') /\ (m \in Q <=> Queued(m)) /\ (m \in Q' <=> Queued(m)')
  BY DEF MakersAt, MakerMoves, Holds, Queued
<1>3. IsFiniteSet(Makers) /\ gate = [running |-> r, inFlight |-> q]
  BY LimitsAssumption DEF MakersCount
<1> HIDE DEF R, Q
<1>4. /\ r \in Nat /\ r' \in Nat
      /\ (Holds(m)' <=> Holds(m)) => r' = r
      /\ ~Holds(m) /\ Holds(m)' => r' = r + 1
      /\ Holds(m) /\ ~Holds(m)' => r' = r - 1
  BY <1>2, <1>3, MembersMove
<1>5. /\ q \in Nat /\ q' \in Nat
      /\ (Queued(m)' <=> Queued(m)) => q' = q
      /\ ~Queued(m) /\ Queued(m)' => q' = q + 1
      /\ Queued(m) /\ ~Queued(m)' => q' = q - 1
  BY <1>2, <1>3, MembersMove
<1> HIDE DEF r, q
<1>6. gate' = [running |-> r', inFlight |-> q']
  BY <1>3, <1>4, <1>5 DEF GateMoves
<1> QED BY <1>1, <1>6 DEF MakersCount, r, q, R, Q

LEMMA NoneAtWork ==
  ASSUME DOMAIN maker = Makers, \A m \in Makers : maker[m] = PreviewsPart!Idle, gate = [running |-> 0, inFlight |-> 0]
  PROVE  MakersCount
<1>1. MakerFields \subseteq DOMAIN PreviewsPart!Idle /\ PreviewsPart!Idle.pc = "idle"
  BY DEF PreviewsPart!Idle, MakerFields
<1>2. MakersAt(Working) = {} /\ MakersAt(Working \cup {"wait"}) = {}
  BY <1>1 DEF MakersAt, Working
<1> QED BY <1>1, <1>2, FS_EmptySet DEF MakersCount, MakersShaped

LEMMA MakersInit == PreviewsPart!Init => MakersCount
  BY NoneAtWork DEF PreviewsPart!Init

LEMMA MakersStep == MakersCount /\ [PreviewsPart!Next]_shots => MakersCount'
<1> SUFFICES ASSUME MakersCount, [PreviewsPart!Next]_shots PROVE MakersCount'
  OBVIOUS
<1>a. MakersShaped /\ \E a, b : gate = [running |-> a, inFlight |-> b]
  BY DEF MakersCount
<1>1. CASE UNCHANGED <<maker, gate>>
  BY <1>1 DEF MakersCount, MakersShaped, MakersAt
<1>2. CASE PreviewsPart!Edit \/ PreviewsPart!cleanup_dir_children \/ UNCHANGED shots
  BY <1>1, <1>2 DEF PreviewsPart!Edit, PreviewsPart!cleanup_dir_children, shots
<1>3. CASE PreviewsPart!AppDies
  <2>1. /\ DOMAIN maker' = Makers /\ gate' = [running |-> 0, inFlight |-> 0]
        /\ \A m \in Makers : maker'[m] = PreviewsPart!Idle
    BY <1>3 DEF PreviewsPart!AppDies
  <2>2. MakerFields \subseteq DOMAIN PreviewsPart!Idle /\ PreviewsPart!Idle.pc = "idle"
    BY DEF PreviewsPart!Idle, MakerFields
  <2>3. MakersAt(Working)' = {} /\ MakersAt(Working \cup {"wait"})' = {}
    BY <2>1, <2>2 DEF MakersAt, Working
  <2> QED BY <2>1, <2>2, <2>3, FS_EmptySet DEF MakersCount, MakersShaped
<1> SUFFICES ASSUME NEW m \in Makers,
          \/ PreviewsPart!generate_temporary_thumbnail(m) \/ PreviewsPart!PREVIEW_SEMAPHORE(m)
          \/ PreviewsPart!file_hash_cancellable(m) \/ PreviewsPart!validate_picked_thumbnail_path(m)
          \/ PreviewsPart!generate_temporary_thumbnail_cancellable_sync(m) \/ PreviewsPart!stage_manual_thumbnail_sync(m)
          \/ PreviewsPart!run_tracked_ffmpeg(m) \/ PreviewsPart!RemovePartial(m) \/ PreviewsPart!rename_retrying(m)
          \/ PreviewsPart!persist_thumbnail_file(m) \/ PreviewsPart!delete_temporary_thumbnail_sync(m)
     PROVE MakersCount'
  BY <1>2, <1>3 DEF PreviewsPart!Next
<1>b. ASSUME MakerMoves(m), UNCHANGED gate, maker'[m].how = maker[m].how, maker[m].pc \in Working, maker'[m].pc \in Working
      PROVE  MakersCount'
  BY <1>b, MakersMove DEF GateMoves, Holds, Queued, Working
<1>c. ASSUME MakerMoves(m), PreviewsPart!Releases(m), maker[m].pc \in Working, maker'[m].pc \notin Working \cup {"wait"}
      PROVE  MakersCount'
  BY <1>c, MakersMove DEF GateMoves, Holds, Queued, PreviewsPart!Releases
<1>d. ASSUME MakerMoves(m), UNCHANGED gate, maker[m].pc \notin Working \cup {"wait"}, maker'[m].pc \notin Working \cup {"wait"}
      PROVE  MakersCount'
  BY <1>d, MakersMove DEF GateMoves, Holds, Queued
<1>e. ASSUME PreviewsPart!Fails(m), maker[m].pc \in Working PROVE MakersCount'
  <2>1. MakerMoves(m) /\ maker'[m].pc = "over" /\ PreviewsPart!Releases(m)
    BY <1>e, <1>a, MakerSteps DEF MakerEnds, PreviewsPart!Fails
  <2> QED BY <2>1, <1>e, <1>c DEF Working
<1>5. CASE PreviewsPart!generate_temporary_thumbnail(m)
  <2>1. CASE /\ gate' = [gate EXCEPT !.inFlight = @ + 1]
             /\ maker' = [maker EXCEPT ![m] = [PreviewsPart!Idle EXCEPT !.pc = "wait", !.how = "preview"]]
    <3>1. MakerMoves(m) /\ maker'[m].pc = "wait" /\ maker'[m].how = "preview" /\ maker[m].pc = "idle"
      BY <2>1, <1>5, <1>a, MakerAsks DEF PreviewsPart!generate_temporary_thumbnail
    <3>2. GateMoves(m)
      BY <2>1, <3>1, <1>a DEF GateMoves, Holds, Queued, Working
    <3> QED BY <3>1, <3>2, MakersMove
  <2>2. CASE /\ UNCHANGED gate
             /\ \E how \in {"import", "picked"} :
                  maker' = [maker EXCEPT ![m] = [PreviewsPart!Idle EXCEPT !.pc = "hash", !.how = how]]
    <3>0. PICK how \in {"import", "picked"} :
               maker' = [maker EXCEPT ![m] = [PreviewsPart!Idle EXCEPT !.pc = "hash", !.how = how]]
      BY <2>2
    <3>1. MakerMoves(m) /\ maker'[m].pc = "hash" /\ maker'[m].how # "preview" /\ maker[m].pc = "idle"
      BY <3>0, <1>5, <1>a, MakerAsks DEF PreviewsPart!generate_temporary_thumbnail
    <3>2. GateMoves(m)
      BY <2>2, <3>1 DEF GateMoves, Holds, Queued, Working
    <3> QED BY <3>1, <3>2, MakersMove
  <2> QED BY <1>5, <2>1, <2>2 DEF PreviewsPart!generate_temporary_thumbnail
<1>6. CASE PreviewsPart!PREVIEW_SEMAPHORE(m)
  <2>1. MakerGoes(m, "hash") /\ maker[m].pc = "wait"
    BY <1>6, <1>a, MakerSteps DEF PreviewsPart!PREVIEW_SEMAPHORE
  <2>2. gate' = [gate EXCEPT !.running = @ + 1]
    BY <1>6 DEF PreviewsPart!PREVIEW_SEMAPHORE
  <2>3. maker[m].how = "preview" => GateMoves(m)
    BY <2>1, <2>2, <1>a DEF GateMoves, Holds, Queued, Working, MakerGoes
  <2>4. maker[m].how = "preview"
    BY <2>1 DEF MakersCount
  <2> QED BY <2>1, <2>3, <2>4, MakersMove DEF MakerGoes
<1>7. CASE PreviewsPart!file_hash_cancellable(m) \/ PreviewsPart!validate_picked_thumbnail_path(m)
  <2>0. maker[m].pc \in Working /\ PreviewsPart!Names(m)
    BY <1>7 DEF PreviewsPart!file_hash_cancellable, PreviewsPart!validate_picked_thumbnail_path, Working
  <2>1. CASE PreviewsPart!Fails(m)
    BY <2>0, <2>1, <1>e
  <2>2. CASE maker' = [maker EXCEPT ![m].name = chosen, ![m].pc = "named"] /\ UNCHANGED gate
    BY <2>0, <2>2, <1>a, <1>b, MakerSteps DEF Working
  <2> QED BY <2>0, <2>1, <2>2 DEF PreviewsPart!Names
<1>8. CASE PreviewsPart!generate_temporary_thumbnail_cancellable_sync(m) \/ PreviewsPart!stage_manual_thumbnail_sync(m)
  <2>0. maker[m].pc = "named" /\ PreviewsPart!Reuses(m)
    BY <1>8 DEF PreviewsPart!generate_temporary_thumbnail_cancellable_sync, PreviewsPart!stage_manual_thumbnail_sync
  <2>1. CASE PreviewsPart!Goes(m, "shown") /\ PreviewsPart!Releases(m)
    <3>1. MakerMoves(m) /\ maker'[m].pc = "shown"
      BY <2>1, <1>a, MakerSteps DEF MakerGoes
    <3> QED BY <2>0, <2>1, <3>1, <1>c DEF Working
  <2>2. CASE PreviewsPart!Goes(m, "run") /\ UNCHANGED gate
    BY <2>0, <2>2, <1>a, <1>b, MakerSteps DEF Working, MakerGoes
  <2> QED BY <2>0, <2>1, <2>2 DEF PreviewsPart!Reuses
<1>9. CASE PreviewsPart!run_tracked_ffmpeg(m)
  BY <1>9, <1>a, <1>b, MakerSteps DEF PreviewsPart!run_tracked_ffmpeg, Working, MakerGoes
<1>10. CASE PreviewsPart!RemovePartial(m)
  BY <1>10, <1>e DEF PreviewsPart!RemovePartial, Working
<1>11. CASE PreviewsPart!rename_retrying(m)
  <2>0. maker[m].pc = "place"
    BY <1>11 DEF PreviewsPart!rename_retrying, PreviewsPart!Finished
  <2>1. CASE PreviewsPart!Goes(m, "shown") /\ PreviewsPart!Releases(m)
    <3>1. MakerMoves(m) /\ maker'[m].pc = "shown"
      BY <2>1, <1>a, MakerSteps DEF MakerGoes
    <3> QED BY <2>0, <2>1, <3>1, <1>c DEF Working
  <2>2. CASE PreviewsPart!Goes(m, "failed") /\ UNCHANGED gate
    BY <2>0, <2>2, <1>a, <1>b, MakerSteps DEF Working, MakerGoes
  <2> QED BY <1>11, <2>1, <2>2 DEF PreviewsPart!rename_retrying
<1>12. CASE PreviewsPart!persist_thumbnail_file(m)
  BY <1>12, <1>a, <1>d, MakerSteps DEF PreviewsPart!persist_thumbnail_file, Working, MakerGoes
<1>13. CASE PreviewsPart!delete_temporary_thumbnail_sync(m)
  BY <1>13, <1>a, <1>d, MakerSteps DEF PreviewsPart!delete_temporary_thumbnail_sync, Working, MakerEnds
<1> QED BY <1>5, <1>6, <1>7, <1>8, <1>9, <1>10, <1>11, <1>12, <1>13

LEMMA SamePreviewsCardinality ==
  ASSUME NEW S
  PROVE  PreviewsPart!Cardinality(S) = Cardinality(S)
  BY Zenon DEF Cardinality, PreviewsPart!Cardinality

LEMMA MakersTell == MakersCount => PreviewsPart!PreviewsCounted
<1>1. \A pcs : MakersAt(pcs) = {m \in Makers : maker[m].how = "preview" /\ maker[m].pc \in pcs}
  BY DEF MakersAt
<1> QED BY <1>1, SamePreviewsCardinality, Zenon DEF MakersCount, PreviewsPart!PreviewsCounted, Working

(***************************************************************************)
(* The cookies file: the copies of the runs, and the sweep.                *)
(***************************************************************************)
RunFields == {"pc", "copy", "snapshot", "mine"}
HasCopy == {"runs", "keep", "park", "move", "unpark", "restore"}
CopiesInv ==
  /\ DOMAIN run = Runs /\ \A r \in Runs : RunFields \subseteq DOMAIN run[r]
  /\ boot \in Nat
  /\ \A f \in folders : {"run", "boot", "held"} \subseteq DOMAIN f /\ f.boot \in 0 .. boot
  /\ \A r \in Runs : run[r].pc \in HasCopy => CookiesPart!Folder(r) \in folders
  /\ up /\ swept => \A f \in folders : f.boot = boot \/ f.held
  /\ ~up => \A r \in Runs : run[r].pc = "idle"

\* The run r moves; its copy is where it was, is made, or goes with it.
RunMoves(r) ==
  /\ DOMAIN run' = Runs /\ RunFields \subseteq DOMAIN run'[r]
  /\ \A q \in Runs : q # r => run'[q] = run[q]
  /\ UNCHANGED <<up, boot, swept>>

LEMMA RunSteps ==
  ASSUME CopiesInv, NEW r \in Runs, UNCHANGED <<up, boot, swept>>
  PROVE  /\ \A next : CookiesPart!Goes(r, next) => RunMoves(r) /\ run'[r].pc = next
         /\ \A next : CookiesPart!Leaves(r, next) => RunMoves(r) /\ run'[r].pc = next
         /\ \A next, v : run' = [run EXCEPT ![r].pc = next, ![r].copy = v] => RunMoves(r) /\ run'[r].pc = next
         /\ \A next, v : run' = [run EXCEPT ![r].pc = next, ![r].mine = v] => RunMoves(r) /\ run'[r].pc = next
         /\ \A next, u, v, w : run' = [run EXCEPT ![r] = [pc |-> next, copy |-> u, snapshot |-> v, mine |-> w]] =>
               RunMoves(r) /\ run'[r].pc = next
<1>1. \A x : run' = [run EXCEPT ![r] = x] /\ RunFields \subseteq DOMAIN x => RunMoves(r) /\ run'[r] = x
  BY DEF CopiesInv, RunMoves
<1>2. ASSUME NEW next, CookiesPart!Leaves(r, next) PROVE RunMoves(r) /\ run'[r].pc = next
  <2> DEFINE x == [CookiesPart!Idle EXCEPT !.pc = next]
  <2>1. RunFields \subseteq DOMAIN x /\ x.pc = next
    BY DEF CookiesPart!Idle, RunFields
  <2>2. run' = [run EXCEPT ![r] = x]
    BY <1>2 DEF CookiesPart!Leaves
  <2> HIDE DEF x
  <2> QED BY <2>1, <2>2, <1>1
<1>3. ASSUME NEW next, NEW u, NEW v, NEW w,
             run' = [run EXCEPT ![r] = [pc |-> next, copy |-> u, snapshot |-> v, mine |-> w]]
      PROVE  RunMoves(r) /\ run'[r].pc = next
  <2> DEFINE x == [pc |-> next, copy |-> u, snapshot |-> v, mine |-> w]
  <2>1. RunFields \subseteq DOMAIN x /\ x.pc = next
    BY DEF RunFields
  <2>2. run' = [run EXCEPT ![r] = x]
    BY <1>3
  <2> HIDE DEF x
  <2> QED BY <2>1, <2>2, <1>1
<1>4. \A next : CookiesPart!Goes(r, next) => RunMoves(r) /\ run'[r].pc = next
  BY DEF CookiesPart!Goes, CopiesInv, RunMoves, RunFields
<1>5. \A next, v : run' = [run EXCEPT ![r].pc = next, ![r].copy = v] => RunMoves(r) /\ run'[r].pc = next
  BY DEF CopiesInv, RunMoves, RunFields
<1>6. \A next, v : run' = [run EXCEPT ![r].pc = next, ![r].mine = v] => RunMoves(r) /\ run'[r].pc = next
  BY DEF CopiesInv, RunMoves, RunFields
<1> QED BY <1>2, <1>3, <1>4, <1>5, <1>6

\* A run whose copy stays where it is.
LEMMA CopiesStay ==
  ASSUME CopiesInv, NEW r \in Runs, RunMoves(r), UNCHANGED folders, up,
         run'[r].pc \in HasCopy => run[r].pc \in HasCopy
  PROVE  CopiesInv'
<1>1. \A q \in Runs : CookiesPart!Folder(q)' = CookiesPart!Folder(q)
  BY DEF CookiesPart!Folder, RunMoves
<1> QED BY <1>1 DEF CopiesInv, RunMoves

LEMMA CopiesInit == CookiesPart!Init => CopiesInv
<1> SUFFICES ASSUME CookiesPart!Init PROVE CopiesInv
  OBVIOUS
<1>1. RunFields \subseteq DOMAIN CookiesPart!Idle /\ CookiesPart!Idle.pc = "idle"
  BY DEF CookiesPart!Idle, RunFields
<1>2. /\ DOMAIN run = Runs /\ \A r \in Runs : run[r] = CookiesPart!Idle
      /\ up /\ boot = 1 /\ folders = {}
  BY DEF CookiesPart!Init
<1> QED BY <1>1, <1>2 DEF CopiesInv, HasCopy

LEMMA CopiesStep == CopiesInv /\ [CookiesPart!Next]_jars => CopiesInv'
<1> SUFFICES ASSUME CopiesInv, [CookiesPart!Next]_jars PROVE CopiesInv'
  OBVIOUS
<1>1. CASE UNCHANGED <<run, folders, up, boot, swept>>
  <2>1. \A q \in Runs : CookiesPart!Folder(q)' = CookiesPart!Folder(q)
    BY <1>1 DEF CookiesPart!Folder
  <2> QED BY <1>1, <2>1 DEF CopiesInv
<1>2. CASE CookiesPart!Export \/ UNCHANGED jars
  BY <1>1, <1>2 DEF CookiesPart!Export, jars
<1>3. CASE CookiesPart!AppDies
  <2>1. RunFields \subseteq DOMAIN CookiesPart!Idle /\ CookiesPart!Idle.pc = "idle"
    BY DEF CookiesPart!Idle, RunFields
  <2>2. /\ DOMAIN run' = Runs /\ \A r \in Runs : run'[r] = CookiesPart!Idle
        /\ ~up' /\ UNCHANGED <<folders, boot>>
    BY <1>3 DEF CookiesPart!AppDies
  <2> QED BY <2>1, <2>2 DEF CopiesInv, HasCopy
<1>4. CASE CookiesPart!Launch
  <2>1. /\ ~up /\ boot' = boot + 1 /\ ~swept' /\ UNCHANGED <<run, folders>> /\ up'
    BY <1>4 DEF CookiesPart!Launch
  <2>2. \A f \in folders' : {"run", "boot", "held"} \subseteq DOMAIN f /\ f.boot \in 0 .. boot'
    BY <2>1 DEF CopiesInv
  <2>3. \A r \in Runs : run'[r].pc = "idle"
    BY <2>1 DEF CopiesInv
  <2> QED BY <2>1, <2>2, <2>3 DEF CopiesInv, HasCopy
<1>5. CASE CookiesPart!remove_leftover_cookie_copies
  <2> DEFINE behind == {f \in folders : CookiesPart!written_before_this_session(f)}
  <2>1. /\ up /\ swept' /\ UNCHANGED <<run, up, boot>>
        /\ \/ folders' = folders \ behind
           \/ \E f \in behind : folders' = (folders \ behind) \cup {[f EXCEPT !.held = TRUE]}
    BY <1>5 DEF CookiesPart!remove_leftover_cookie_copies
  <2>2. \A f \in folders \ behind : f.boot = boot
    BY DEF CopiesInv, CookiesPart!written_before_this_session
  <2>3. \A f \in folders : LET g == [f EXCEPT !.held = TRUE] IN
             g.held /\ g.boot = f.boot /\ {"run", "boot", "held"} \subseteq DOMAIN g
    BY DEF CopiesInv
  <2>4. \A r \in Runs : CookiesPart!Folder(r)' = CookiesPart!Folder(r) /\ CookiesPart!Folder(r) \notin behind
    BY <2>1 DEF CopiesInv, CookiesPart!Folder, CookiesPart!written_before_this_session
  <2>5. behind \subseteq folders
    OBVIOUS
  <2> HIDE DEF behind
  <2>6. \A f \in folders' : f \in folders \ behind \/ \E g \in folders : f = [g EXCEPT !.held = TRUE]
    BY <2>1, <2>5
  <2>7. \A f \in folders' : /\ {"run", "boot", "held"} \subseteq DOMAIN f /\ f.boot \in 0 .. boot
                            /\ f.boot = boot \/ f.held
    BY <2>6, <2>2, <2>3 DEF CopiesInv
  <2>8. \A r \in Runs : run'[r].pc \in HasCopy => CookiesPart!Folder(r)' \in folders'
    BY <2>1, <2>4 DEF CopiesInv
  <2> QED BY <2>1, <2>7, <2>8 DEF CopiesInv
<1> SUFFICES ASSUME NEW r \in Runs,
          \/ CookiesPart!normalize_cookies_path(r) \/ CookiesPart!prepare(r) \/ CookiesPart!YtDlpEnds(r)
          \/ CookiesPart!YtDlpEndsDirect(r) \/ CookiesPart!keep_refreshed(r) \/ CookiesPart!Park(r)
          \/ CookiesPart!MoveIn(r) \/ CookiesPart!Settle(r) \/ CookiesPart!drop(r)
     PROVE CopiesInv'
  BY <1>2, <1>3, <1>4, <1>5 DEF CookiesPart!Next
<1>a. UNCHANGED <<up, boot, swept>> /\ (run[r].pc # "idle" \/ up)
  BY DEF CookiesPart!normalize_cookies_path, CookiesPart!prepare, CookiesPart!YtDlpEnds, CookiesPart!YtDlpEndsDirect,
    CookiesPart!keep_refreshed, CookiesPart!Park, CookiesPart!MoveIn, CookiesPart!Settle, CookiesPart!drop
<1>b. up
  BY <1>a DEF CopiesInv
<1>c. ASSUME NEW next, CookiesPart!Goes(r, next) \/ CookiesPart!Leaves(r, next), UNCHANGED folders,
             next \in HasCopy => run[r].pc \in HasCopy
      PROVE  CopiesInv'
  BY <1>a, <1>b, <1>c, RunSteps, CopiesStay
<1>d. ASSUME CookiesPart!Drops(r), UNCHANGED folders PROVE CopiesInv'
  BY <1>c, <1>d DEF CookiesPart!Drops, HasCopy
<1>6. CASE CookiesPart!normalize_cookies_path(r)
  BY <1>6, <1>c DEF CookiesPart!normalize_cookies_path, HasCopy
<1>7. CASE CookiesPart!prepare(r)
  <2>1. CASE /\ run' = [run EXCEPT ![r] = [pc |-> "runs", copy |-> jar, snapshot |-> jar, mine |-> CookiesPart!Missing]]
             /\ folders' = folders \cup {CookiesPart!Folder(r)}
    <3>1. RunMoves(r)
      BY <2>1, <1>a, RunSteps
    <3>2. \A q \in Runs : CookiesPart!Folder(q)' = CookiesPart!Folder(q)
      BY <1>a DEF CookiesPart!Folder
    <3>3. /\ {"run", "boot", "held"} \subseteq DOMAIN CookiesPart!Folder(r) /\ CookiesPart!Folder(r).boot = boot
          /\ boot \in 0 .. boot
      BY DEF CookiesPart!Folder, CopiesInv
    <3>4. \A f \in folders' : /\ {"run", "boot", "held"} \subseteq DOMAIN f /\ f.boot \in 0 .. boot
                              /\ up /\ swept => f.boot = boot \/ f.held
      BY <2>1, <3>3 DEF CopiesInv
    <3>5. \A q \in Runs : run'[q].pc \in HasCopy => CookiesPart!Folder(q) \in folders'
      BY <2>1, <3>1 DEF CopiesInv, RunMoves
    <3> QED BY <3>1, <3>2, <3>4, <3>5, <1>a, <1>b DEF CopiesInv, RunMoves
  <2>2. CASE CookiesPart!Goes(r, "direct") /\ UNCHANGED folders
    BY <2>2, <1>c DEF HasCopy
  <2> QED BY <1>7, <2>1, <2>2 DEF CookiesPart!prepare
<1>8. CASE CookiesPart!YtDlpEnds(r)
  <2>0. run[r].pc = "runs" /\ UNCHANGED folders
    BY <1>8 DEF CookiesPart!YtDlpEnds
  <2>1. CASE \E c : run' = [run EXCEPT ![r].pc = "keep", ![r].copy = c]
    <3>1. RunMoves(r) /\ run'[r].pc = "keep"
      BY <2>1, <1>a, RunSteps
    <3> QED BY <3>1, <2>0, <1>b, CopiesStay DEF HasCopy
  <2>2. CASE CookiesPart!Leaves(r, "drop")
    BY <2>0, <2>2, <1>c DEF HasCopy
  <2> QED BY <1>8, <2>1, <2>2 DEF CookiesPart!YtDlpEnds
<1>9. CASE CookiesPart!YtDlpEndsDirect(r)
  BY <1>9, <1>c DEF CookiesPart!YtDlpEndsDirect, HasCopy
<1>10. CASE CookiesPart!keep_refreshed(r)
  BY <1>10, <1>c DEF CookiesPart!keep_refreshed, HasCopy
<1>11. CASE CookiesPart!Park(r)
  <2>0. run[r].pc = "park" /\ UNCHANGED folders
    BY <1>11 DEF CookiesPart!Park
  <2>1. CASE run' = [run EXCEPT ![r].pc = "move", ![r].mine = jar]
    <3>1. RunMoves(r) /\ run'[r].pc = "move"
      BY <2>1, <1>a, RunSteps
    <3> QED BY <3>1, <2>0, <1>b, CopiesStay DEF HasCopy
  <2>2. CASE CookiesPart!Goes(r, "move") \/ CookiesPart!Drops(r)
    BY <2>0, <2>2, <1>c, <1>d DEF HasCopy
  <2> QED BY <1>11, <2>1, <2>2 DEF CookiesPart!Park
<1>12. CASE CookiesPart!MoveIn(r)
  <2>0. run[r].pc = "move" /\ UNCHANGED folders
    BY <1>12 DEF CookiesPart!MoveIn
  <2> QED BY <1>12, <2>0, <1>c, <1>d DEF CookiesPart!MoveIn, HasCopy
<1>13. CASE CookiesPart!Settle(r)
  BY <1>13, <1>d DEF CookiesPart!Settle
<1>14. CASE CookiesPart!drop(r)
  <2>1. RunMoves(r) /\ run'[r].pc = "over"
    BY <1>14, <1>a, RunSteps DEF CookiesPart!drop
  <2>2. \A q \in Runs : CookiesPart!Folder(q)' = CookiesPart!Folder(q)
    BY <1>a DEF CookiesPart!Folder
  <2>3. \A q \in Runs : q # r => CookiesPart!Folder(q) # CookiesPart!Folder(r)
    BY DEF CookiesPart!Folder
  <2>4. folders' \subseteq folders /\ \A f \in folders : f # CookiesPart!Folder(r) => f \in folders'
    BY <1>14 DEF CookiesPart!drop
  <2>5. \A q \in Runs : run'[q].pc \in HasCopy => CookiesPart!Folder(q) \in folders'
    BY <2>1, <2>3, <2>4 DEF CopiesInv, RunMoves, HasCopy
  <2> QED BY <2>1, <2>2, <2>4, <2>5, <1>a, <1>b DEF CopiesInv, RunMoves
<1> QED BY <1>6, <1>7, <1>8, <1>9, <1>10, <1>11, <1>12, <1>13, <1>14

LEMMA CopiesTell == CopiesInv => CookiesPart!CopiesSwept
  BY DEF CopiesInv, CookiesPart!CopiesSwept, HasCopy

\* What the user exported is at its path, or beside it while its replace lasts or was cut short.
JarFields == {"export", "by", "state"}
Promised == latest.state = "whole" /\ latest.export \notin raced /\ direct = {}
IsLatest(c) == c.export = latest.export /\ c.state = "whole" /\ renewals \subseteq c.by
Replaces == {"park", "move", "unpark", "restore"}

\* One run replaces the file at a time; its copy is what the path held and renewed by it, and what
\* it parked is what the path held.
RunKept(r) ==
  /\ JarFields \subseteq DOMAIN run[r].copy /\ JarFields \subseteq DOMAIN run[r].mine
  /\ run[r].pc \in Replaces => writeBack = r
  /\ run[r].pc = "direct" => r \in direct
  /\ run[r].pc \in {"runs", "keep", "park"} => run[r].mine = CookiesPart!Missing
  /\ run[r].pc = "runs" => run[r].copy = run[r].snapshot
  /\ run[r].pc \in {"runs", "keep"} => JarFields \subseteq DOMAIN run[r].snapshot /\ run[r].snapshot # CookiesPart!Missing
  /\ run[r].pc = "keep" => run[r].copy \in CookiesPart!Rewritten(r, run[r].snapshot)
  /\ run[r].pc = "restore" => run[r].mine # CookiesPart!Missing
  /\ Promised =>
       /\ run[r].pc \in {"park", "move"} => IsLatest(run[r].copy) /\ r \in run[r].copy.by
       /\ run[r].pc \in {"move", "restore"} => run[r].mine = CookiesPart!Missing \/ IsLatest(run[r].mine)
       /\ run[r].pc = "unpark" => IsLatest(jar)
JarKept ==
  /\ JarFields \subseteq DOMAIN jar /\ \A c \in parked : JarFields \subseteq DOMAIN c
  /\ JarFields \subseteq DOMAIN latest
  /\ Promised => IsLatest(jar) \/ (jar = CookiesPart!Missing /\ \E c \in parked : IsLatest(c))
ExportInv == JarKept /\ \A r \in Runs : RunKept(r)

LEMMA ExportInit == CookiesPart!Init => ExportInv
<1> SUFFICES ASSUME CookiesPart!Init PROVE ExportInv
  OBVIOUS
<1>1. /\ \A r \in Runs : run[r] = CookiesPart!Idle
      /\ jar = CookiesPart!Exported(1) /\ latest = CookiesPart!Exported(1) /\ parked = {} /\ renewals = {}
  BY DEF CookiesPart!Init
<1>2. /\ CookiesPart!Idle.pc = "idle" /\ CookiesPart!Idle.copy = CookiesPart!Missing
      /\ CookiesPart!Idle.mine = CookiesPart!Missing
  BY DEF CookiesPart!Idle
<1>3. JarFields \subseteq DOMAIN CookiesPart!Missing /\ JarFields \subseteq DOMAIN CookiesPart!Exported(1)
  BY DEF CookiesPart!Missing, CookiesPart!Exported, JarFields
<1>4. \A r \in Runs : RunKept(r)
  BY <1>1, <1>2, <1>3 DEF RunKept, Replaces
<1>5. JarKept
  BY <1>1, <1>3 DEF JarKept, IsLatest, Promised
<1> QED BY <1>4, <1>5 DEF ExportInv

\* While a run moves, the others are as they were: they hold no turn, or what they count on stays.
LEMMA ExportMoves ==
  ASSUME CopiesInv, ExportInv, NEW r \in Runs, RunMoves(r), RunKept(r)', JarKept',
         UNCHANGED <<latest, raced>>, direct \subseteq direct',
         UNCHANGED <<jar, renewals>> \/ ~Promised' \/ writeBack \in {r, CookiesPart!Nobody},
         UNCHANGED writeBack \/ writeBack \in {r, CookiesPart!Nobody}
  PROVE  ExportInv'
<1>1. ASSUME NEW q \in Runs, q # r PROVE RunKept(q)'
  <2>1. run'[q] = run[q] /\ RunKept(q)
    BY <1>1 DEF RunMoves, ExportInv
  <2>2. writeBack \in {r, CookiesPart!Nobody} => run[q].pc \notin Replaces
    BY <1>1, <2>1, LimitsAssumption DEF RunKept, CookiesPart!Nobody
  <2>3. Promised' => Promised
    BY DEF Promised
  <2>4. UNCHANGED <<jar, renewals>> => \A c : IsLatest(c)' = IsLatest(c)
    BY DEF IsLatest
  <2>5. /\ run'[q].pc \in Replaces => writeBack' = q
        /\ run'[q].pc = "direct" => q \in direct'
    BY <2>1, <2>2 DEF RunKept
  <2>6. ASSUME Promised'
        PROVE  /\ run'[q].pc \in {"park", "move"} => IsLatest(run[q].copy)' /\ q \in run'[q].copy.by
               /\ run'[q].pc \in {"move", "restore"} => run'[q].mine = CookiesPart!Missing \/ IsLatest(run[q].mine)'
               /\ run'[q].pc = "unpark" => IsLatest(jar)'
    <3>1. CASE writeBack \in {r, CookiesPart!Nobody}
      BY <3>1, <2>1, <2>2 DEF Replaces
    <3>2. CASE UNCHANGED <<jar, renewals>>
      <4>1. IsLatest(run[q].copy)' = IsLatest(run[q].copy) /\ IsLatest(run[q].mine)' = IsLatest(run[q].mine) /\ IsLatest(jar)' = IsLatest(jar)
        BY <3>2, <2>1 DEF IsLatest
      <4> QED BY <4>1, <2>1, <2>3, <2>6 DEF RunKept
    <3> QED BY <2>6, <3>1, <3>2
  <2> QED BY <2>1, <2>5, <2>6 DEF RunKept
<1> QED BY <1>1 DEF ExportInv

LEMMA ExportSteps == CopiesInv /\ ExportInv /\ [CookiesPart!Next]_jars => ExportInv'
<1> SUFFICES ASSUME CopiesInv, ExportInv, [CookiesPart!Next]_jars PROVE ExportInv'
  OBVIOUS
<1>1. CASE UNCHANGED <<jar, parked, run, writeBack, latest, renewals, direct, raced>>
  BY <1>1 DEF ExportInv, JarKept, RunKept, IsLatest, Promised
<1>2. CASE CookiesPart!Launch \/ CookiesPart!remove_leftover_cookie_copies \/ UNCHANGED jars
  BY <1>1, <1>2 DEF CookiesPart!Launch, CookiesPart!remove_leftover_cookie_copies, jars
<1>3. CASE CookiesPart!Export
  <2> DEFINE n == latest.export + 1
  <2>1. /\ jar' \in {CookiesPart!Exported(n), CookiesPart!Missing} /\ latest' = [jar' EXCEPT !.export = n]
        /\ raced' = (IF CookiesPart!Replacing THEN raced \cup {n} ELSE raced) /\ renewals' = {}
        /\ UNCHANGED <<parked, run, writeBack, direct>>
    BY <1>3 DEF CookiesPart!Export
  <2> HIDE DEF n
  <2>2. /\ JarFields \subseteq DOMAIN jar' /\ JarFields \subseteq DOMAIN latest' /\ latest'.export = n
        /\ latest'.state = "whole" => jar' = CookiesPart!Exported(n)
    BY <2>1 DEF CookiesPart!Exported, CookiesPart!Missing, JarFields
  <2>3. Promised' => IsLatest(jar)' /\ ~CookiesPart!Replacing
    BY <2>1, <2>2 DEF Promised, IsLatest, CookiesPart!Exported
  <2>4. JarKept'
    BY <2>1, <2>2, <2>3 DEF JarKept, ExportInv
  <2>5. ASSUME NEW q \in Runs PROVE RunKept(q)'
    <3>1. Promised' => run[q].pc \notin {"park", "move", "restore"}
      BY <2>3 DEF CookiesPart!Replacing
    <3>2. RunKept(q)
      BY DEF ExportInv
    <3> QED BY <2>1, <2>3, <3>1, <3>2 DEF RunKept
  <2> QED BY <2>4, <2>5 DEF ExportInv
<1>4. CASE CookiesPart!AppDies
  <2>1. /\ run' = [r \in Runs |-> CookiesPart!Idle] /\ UNCHANGED <<parked, latest, renewals, direct, raced>>
        /\ jar' # jar => jar' \in CookiesPart!CutShort(jar) /\ \E r \in Runs : run[r].pc = "direct"
    BY <1>4 DEF CookiesPart!AppDies
  <2>2. JarFields \subseteq DOMAIN jar'
    BY <2>1 DEF ExportInv, JarKept, CookiesPart!CutShort
  <2>3. Promised' => Promised /\ UNCHANGED jar
    BY <2>1 DEF ExportInv, RunKept, Promised
  <2>4. JarKept'
    BY <2>1, <2>2, <2>3 DEF JarKept, ExportInv, IsLatest
  <2>5. ASSUME NEW q \in Runs PROVE RunKept(q)'
    <3>1. run'[q] = CookiesPart!Idle
      BY <2>1
    <3>2. /\ CookiesPart!Idle.pc = "idle" /\ JarFields \subseteq DOMAIN CookiesPart!Idle.copy
          /\ JarFields \subseteq DOMAIN CookiesPart!Idle.mine
      BY DEF CookiesPart!Idle, CookiesPart!Missing, JarFields
    <3> QED BY <3>1, <3>2 DEF RunKept, Replaces
  <2> QED BY <2>4, <2>5 DEF ExportInv
<1> SUFFICES ASSUME NEW r \in Runs,
          \/ CookiesPart!normalize_cookies_path(r) \/ CookiesPart!prepare(r) \/ CookiesPart!YtDlpEnds(r)
          \/ CookiesPart!YtDlpEndsDirect(r) \/ CookiesPart!keep_refreshed(r) \/ CookiesPart!Park(r)
          \/ CookiesPart!MoveIn(r) \/ CookiesPart!Settle(r) \/ CookiesPart!drop(r)
     PROVE ExportInv'
  BY <1>2, <1>3, <1>4 DEF CookiesPart!Next
<1>a. UNCHANGED <<up, boot, swept, latest, raced>> /\ direct \subseteq direct'
  BY DEF CookiesPart!normalize_cookies_path, CookiesPart!prepare, CookiesPart!YtDlpEnds, CookiesPart!YtDlpEndsDirect,
    CookiesPart!keep_refreshed, CookiesPart!Park, CookiesPart!MoveIn, CookiesPart!Settle, CookiesPart!drop
<1>b. JarKept /\ RunKept(r) /\ (Promised' => Promised)
  BY <1>a DEF ExportInv, Promised
<1>r. /\ DOMAIN run = Runs /\ RunFields \subseteq DOMAIN run[r]
  BY DEF CopiesInv
<1>j. ASSUME UNCHANGED <<jar, parked, renewals>> PROVE JarKept'
  BY <1>a, <1>b, <1>j DEF JarKept, IsLatest
<1>w. run[r].pc \in Replaces => writeBack \in {r, CookiesPart!Nobody}
  BY <1>b DEF RunKept
\* a run that only goes on
<1>c. ASSUME NEW next, CookiesPart!Goes(r, next), UNCHANGED <<jar, parked, renewals, writeBack>>,
             next \in {"copy", "over"} \/ (next = "direct" /\ r \in direct')
      PROVE  ExportInv'
  <2>1. /\ RunMoves(r) /\ run'[r].pc = next /\ run'[r].copy = run[r].copy /\ run'[r].mine = run[r].mine
    BY <1>a, <1>c, <1>r, RunSteps DEF CookiesPart!Goes, RunFields
  <2>2. RunKept(r)'
    BY <2>1, <1>b, <1>c DEF RunKept, Replaces
  <2> QED BY <2>1, <2>2, <1>a, <1>c, <1>j, ExportMoves
\* a run that gives everything up
<1>d. ASSUME NEW next, CookiesPart!Leaves(r, next), next \in {"drop", "over"}, JarKept',
             UNCHANGED <<jar, renewals>> \/ ~Promised' \/ writeBack \in {r, CookiesPart!Nobody},
             UNCHANGED writeBack \/ writeBack \in {r, CookiesPart!Nobody}
      PROVE  ExportInv'
  <2> DEFINE x == [CookiesPart!Idle EXCEPT !.pc = next]
  <2>1. /\ x.pc = next /\ JarFields \subseteq DOMAIN x.copy /\ JarFields \subseteq DOMAIN x.mine
    BY DEF CookiesPart!Idle, CookiesPart!Missing, JarFields
  <2>2. run' = [run EXCEPT ![r] = x]
    BY <1>d DEF CookiesPart!Leaves
  <2> HIDE DEF x
  <2>3. RunMoves(r) /\ run'[r] = x
    BY <1>a, <1>d, <1>r, <2>2, RunSteps
  <2>4. RunKept(r)'
    BY <2>1, <2>3, <1>d DEF RunKept, Replaces
  <2> QED BY <2>3, <2>4, <1>a, <1>d, ExportMoves
<1>5. CASE CookiesPart!normalize_cookies_path(r)
  BY <1>5, <1>c DEF CookiesPart!normalize_cookies_path
<1>6. CASE CookiesPart!prepare(r)
  <2>1. CASE jar # CookiesPart!Missing /\ UNCHANGED direct
             /\ run' = [run EXCEPT ![r] = [pc |-> "runs", copy |-> jar, snapshot |-> jar, mine |-> CookiesPart!Missing]]
    <3> DEFINE x == [pc |-> "runs", copy |-> jar, snapshot |-> jar, mine |-> CookiesPart!Missing]
    <3>1. /\ x.pc = "runs" /\ x.copy = jar /\ x.snapshot = jar /\ JarFields \subseteq DOMAIN x.mine
          /\ x.mine = CookiesPart!Missing
      BY DEF CookiesPart!Missing, JarFields
    <3>0. RunMoves(r)
      BY <2>1, <1>a, RunSteps
    <3>2. run' = [run EXCEPT ![r] = x]
      BY <2>1
    <3> HIDE DEF x
    <3>3. RunMoves(r) /\ run'[r] = x
      BY <3>0, <3>2, <1>r
    <3>4. RunKept(r)'
      BY <3>1, <3>3, <2>1, <1>b, <1>6 DEF RunKept, Replaces, JarKept, CookiesPart!prepare
    <3>5. UNCHANGED <<jar, parked, renewals, writeBack>>
      BY <1>6 DEF CookiesPart!prepare
    <3> QED BY <3>3, <3>4, <3>5, <1>a, <1>j, ExportMoves
  <2>2. CASE CookiesPart!Goes(r, "direct") /\ direct' = direct \cup {r}
    BY <2>2, <1>6, <1>c DEF CookiesPart!prepare
  <2> QED BY <1>6, <2>1, <2>2 DEF CookiesPart!prepare
<1>7. CASE CookiesPart!YtDlpEnds(r)
  <2>0. run[r].pc = "runs" /\ UNCHANGED <<jar, parked, renewals, writeBack>>
    BY <1>7 DEF CookiesPart!YtDlpEnds
  <2>1. CASE \E c \in CookiesPart!Rewritten(r, run[r].copy) : run' = [run EXCEPT ![r].pc = "keep", ![r].copy = c]
    <3>1. PICK c \in CookiesPart!Rewritten(r, run[r].copy) : run' = [run EXCEPT ![r].pc = "keep", ![r].copy = c]
      BY <2>1
    <3>2. /\ RunMoves(r) /\ run'[r].pc = "keep" /\ run'[r].copy = c
          /\ run'[r].mine = run[r].mine /\ run'[r].snapshot = run[r].snapshot
      BY <3>1, <1>a, <1>r, RunSteps DEF RunFields
    <3>3. JarFields \subseteq DOMAIN c /\ c \in CookiesPart!Rewritten(r, run[r].snapshot)
      BY <1>b, <2>0 DEF RunKept, CookiesPart!Rewritten
    <3>4. RunKept(r)'
      BY <3>2, <3>3, <2>0, <1>b DEF RunKept, Replaces
    <3> QED BY <3>2, <3>4, <2>0, <1>a, <1>j, ExportMoves
  <2>2. CASE CookiesPart!Leaves(r, "drop")
    BY <2>0, <2>2, <1>d, <1>j
  <2> QED BY <1>7, <2>1, <2>2 DEF CookiesPart!YtDlpEnds
<1>8. CASE CookiesPart!YtDlpEndsDirect(r)
  <2>1. /\ run[r].pc = "direct" /\ CookiesPart!Leaves(r, "over") /\ UNCHANGED <<parked, renewals, writeBack, direct>>
        /\ jar' # jar => jar' \in CookiesPart!Rewritten(r, jar) \cup CookiesPart!CutShort(jar)
    BY <1>8 DEF CookiesPart!YtDlpEndsDirect
  <2>2. ~Promised /\ ~Promised'
    BY <2>1, <1>b DEF RunKept, Promised
  <2>3. JarFields \subseteq DOMAIN jar'
    BY <2>1, <1>b DEF JarKept, CookiesPart!Rewritten, CookiesPart!CutShort
  <2>4. JarKept'
    BY <2>1, <2>2, <2>3, <1>a, <1>b DEF JarKept
  <2> QED BY <2>1, <2>2, <2>4, <1>d
<1>9. CASE CookiesPart!keep_refreshed(r)
  <2>0. run[r].pc = "keep" /\ UNCHANGED <<jar, parked, renewals>>
    BY <1>9 DEF CookiesPart!keep_refreshed
  <2>1. CASE CookiesPart!Leaves(r, "drop") /\ UNCHANGED writeBack
    BY <2>0, <2>1, <1>d, <1>j
  <2>2. CASE /\ CookiesPart!has_cookie_file_header(run[r].copy) /\ writeBack = CookiesPart!Nobody
             /\ CookiesPart!WorthKeeping(run[r].copy, run[r].snapshot, jar)
             /\ CookiesPart!Goes(r, "park") /\ writeBack' = r
    <3>1. /\ RunMoves(r) /\ run'[r].pc = "park" /\ run'[r].copy = run[r].copy /\ run'[r].mine = run[r].mine
      BY <2>2, <1>a, <1>r, RunSteps DEF CookiesPart!Goes, RunFields
    <3>2. /\ run[r].copy # jar /\ jar # CookiesPart!Missing /\ JarFields \subseteq DOMAIN jar
          /\ run[r].copy \in CookiesPart!Rewritten(r, jar)
      BY <2>0, <2>2, <1>b DEF RunKept, CookiesPart!WorthKeeping
    <3>3. run[r].copy = [jar EXCEPT !.by = @ \cup {r}]
      BY <2>2, <3>2 DEF CookiesPart!Rewritten, CookiesPart!has_cookie_file_header, JarFields
    <3>4. /\ run[r].copy.export = jar.export /\ run[r].copy.state = jar.state /\ run[r].copy.by = jar.by \cup {r}
      BY <3>2, <3>3 DEF JarFields
    <3>5. Promised => IsLatest(jar)
      BY <3>2, <1>b DEF JarKept
    <3>6. Promised' => IsLatest(run[r].copy)' /\ r \in run[r].copy.by
      BY <3>4, <3>5, <3>1, <2>0, <1>a, <1>b DEF IsLatest
    <3>7. RunKept(r)'
      BY <3>1, <3>6, <2>0, <2>2, <1>b DEF RunKept, Replaces
    <3> QED BY <3>1, <3>7, <2>0, <2>2, <1>a, <1>j, ExportMoves
  <2> QED BY <1>9, <2>1, <2>2 DEF CookiesPart!keep_refreshed, CookiesPart!COOKIES_WRITE_BACK
<1>10. CASE CookiesPart!Park(r)
  <2>0. run[r].pc = "park" /\ UNCHANGED renewals /\ writeBack = r
    BY <1>10, <1>b DEF CookiesPart!Park, RunKept, Replaces
  <2>1. CASE /\ jar # CookiesPart!Missing /\ run' = [run EXCEPT ![r].pc = "move", ![r].mine = jar]
             /\ parked' = parked \cup CookiesPart!BackedUp(jar) /\ jar' = CookiesPart!Missing /\ UNCHANGED writeBack
    <3>1. /\ RunMoves(r) /\ run'[r].pc = "move" /\ run'[r].copy = run[r].copy /\ run'[r].mine = jar
      BY <2>1, <1>a, <1>r, RunSteps DEF RunFields
    <3>2. Promised => IsLatest(jar)
      BY <2>1, <1>b DEF JarKept
    <3>3. IsLatest(jar) => \E c \in parked' : IsLatest(c)
      BY <2>1 DEF CookiesPart!BackedUp
    <3>4. \A c : IsLatest(c) <=> c.export = latest'.export /\ c.state = "whole" /\ renewals' \subseteq c.by
      BY <2>0, <1>a DEF IsLatest
    <3>5. JarKept'
      BY <2>1, <3>2, <3>3, <3>4, <1>a, <1>b DEF JarKept, IsLatest, CookiesPart!BackedUp, CookiesPart!Missing, JarFields
    <3>6. RunKept(r)'
      BY <2>0, <2>1, <3>1, <3>2, <3>4, <1>b DEF RunKept, Replaces, JarKept, IsLatest
    <3> QED BY <3>1, <3>5, <3>6, <2>0, <2>1, <1>a, ExportMoves
  <2>2. CASE jar = CookiesPart!Missing /\ CookiesPart!Goes(r, "move") /\ UNCHANGED <<jar, parked, writeBack>>
    <3>1. /\ RunMoves(r) /\ run'[r].pc = "move" /\ run'[r].copy = run[r].copy /\ run'[r].mine = run[r].mine
      BY <2>2, <1>a, <1>r, RunSteps DEF CookiesPart!Goes, RunFields
    <3>2. RunKept(r)'
      BY <3>1, <2>0, <2>2, <1>a, <1>b DEF RunKept, Replaces, IsLatest
    <3> QED BY <3>1, <3>2, <2>0, <2>2, <1>a, <1>j, ExportMoves
  <2>3. CASE CookiesPart!Drops(r) /\ UNCHANGED <<jar, parked>>
    BY <2>0, <2>3, <1>d, <1>j DEF CookiesPart!Drops
  <2> QED BY <1>10, <2>1, <2>2, <2>3 DEF CookiesPart!Park
<1>11. CASE CookiesPart!MoveIn(r)
  <2>0. run[r].pc = "move" /\ UNCHANGED parked /\ writeBack = r
    BY <1>11, <1>b DEF CookiesPart!MoveIn, RunKept, Replaces
  <2>1. CASE /\ jar = CookiesPart!Missing /\ jar' = run[r].copy /\ renewals' = renewals \cup {r}
             /\ \/ CookiesPart!Drops(r)
                \/ CookiesPart!Goes(r, "unpark") /\ UNCHANGED writeBack
    <3>1. Promised => IsLatest(jar)'
      BY <2>0, <2>1, <1>a, <1>b DEF RunKept, IsLatest
    <3>2. JarKept'
      BY <2>0, <2>1, <3>1, <1>a, <1>b DEF JarKept, RunKept
    <3>3. CASE CookiesPart!Drops(r)
      BY <2>0, <3>2, <3>3, <1>d DEF CookiesPart!Drops
    <3>4. CASE CookiesPart!Goes(r, "unpark") /\ UNCHANGED writeBack
      <4>1. /\ RunMoves(r) /\ run'[r].pc = "unpark" /\ run'[r].copy = run[r].copy /\ run'[r].mine = run[r].mine
        BY <3>4, <1>a, <1>r, RunSteps DEF CookiesPart!Goes, RunFields
      <4>2. RunKept(r)'
        BY <4>1, <3>1, <3>4, <2>0, <1>b DEF RunKept, Replaces
      <4> QED BY <4>1, <4>2, <3>2, <3>4, <2>0, <1>a, ExportMoves
    <3> QED BY <2>1, <3>3, <3>4
  <2>2. CASE /\ UNCHANGED <<jar, renewals>>
             /\ \/ CookiesPart!Drops(r)
                \/ /\ run[r].mine # CookiesPart!Missing
                   /\ CookiesPart!Goes(r, "restore") /\ UNCHANGED writeBack
    <3>1. JarKept'
      BY <2>0, <2>2, <1>j
    <3>2. CASE CookiesPart!Drops(r)
      BY <2>0, <2>2, <3>1, <3>2, <1>d DEF CookiesPart!Drops
    <3>3. CASE run[r].mine # CookiesPart!Missing /\ CookiesPart!Goes(r, "restore") /\ UNCHANGED writeBack
      <4>1. /\ RunMoves(r) /\ run'[r].pc = "restore" /\ run'[r].copy = run[r].copy /\ run'[r].mine = run[r].mine
        BY <3>3, <1>a, <1>r, RunSteps DEF CookiesPart!Goes, RunFields
      <4>2. RunKept(r)'
        BY <4>1, <3>3, <2>0, <2>2, <1>a, <1>b DEF RunKept, Replaces, IsLatest
      <4> QED BY <4>1, <4>2, <3>1, <3>3, <2>2, <1>a, ExportMoves
    <3> QED BY <2>2, <3>2, <3>3
  <2> QED BY <1>11, <2>1, <2>2 DEF CookiesPart!MoveIn
<1>12. CASE CookiesPart!Settle(r)
  <2>0. CookiesPart!Leaves(r, "drop") /\ writeBack' = CookiesPart!Nobody /\ UNCHANGED renewals
    BY <1>12 DEF CookiesPart!Settle, CookiesPart!Drops
  <2>1. CASE run[r].pc = "unpark" /\ parked' = parked \ {run[r].mine} /\ UNCHANGED jar
    <3>1. JarKept'
      BY <2>0, <2>1, <1>a, <1>b DEF JarKept, RunKept, IsLatest
    <3> QED BY <2>0, <2>1, <3>1, <1>w, <1>d DEF Replaces
  <2>2. CASE run[r].pc = "restore" /\ jar' = run[r].mine /\ parked' = parked \ {run[r].mine}
    <3>1. JarKept'
      BY <2>0, <2>2, <1>a, <1>b DEF JarKept, RunKept, IsLatest
    <3> QED BY <2>0, <2>2, <3>1, <1>w, <1>d DEF Replaces
  <2>3. CASE run[r].pc \in {"unpark", "restore"} /\ UNCHANGED <<jar, parked>>
    BY <2>0, <2>3, <1>w, <1>d, <1>j DEF Replaces
  <2> QED BY <1>12, <2>1, <2>2, <2>3 DEF CookiesPart!Settle
<1>13. CASE CookiesPart!drop(r)
  BY <1>13, <1>d, <1>j DEF CookiesPart!drop
<1> QED BY <1>5, <1>6, <1>7, <1>8, <1>9, <1>10, <1>11, <1>12, <1>13

LEMMA ExportTells == ExportInv => CookiesPart!ExportKept
<1> SUFFICES ASSUME ExportInv, Promised PROVE \E c \in {jar} \cup parked : IsLatest(c)
  BY Zenon DEF CookiesPart!ExportKept, Promised, IsLatest
<1> QED BY DEF ExportInv, JarKept

(***************************************************************************)
(* The player's protocol: the reads under way.                             *)
(***************************************************************************)
ReadFields == {"pc", "folder", "header", "total", "status", "start", "end", "body"}
Reading == {"check", "read"}
Ended == {"idle", "over"}
ReadsAt == {r \in MediaRequests : reads[r].pc \in Reading}
ReadsOpen == {r \in MediaRequests : reads[r].pc \notin Ended}
ReadsInv ==
  /\ DOMAIN reads = MediaRequests /\ \A r \in MediaRequests : ReadFields \subseteq DOMAIN reads[r]
  /\ slots = [running |-> Cardinality(ReadsAt), inFlight |-> Cardinality(ReadsOpen)]
  /\ slots.running <= MAX_CONCURRENT_MEDIA_READS /\ slots.inFlight <= MAX_MEDIA_READS_IN_FLIGHT

ReadMoves(r) ==
  /\ DOMAIN reads' = MediaRequests /\ ReadFields \subseteq DOMAIN reads'[r]
  /\ \A q \in MediaRequests : q # r => reads'[q] = reads[q]

\* What the request r does with its slots.
SlotMoves(r) ==
  \/ /\ UNCHANGED slots
     /\ \/ reads[r].pc \in Ended /\ reads'[r].pc \in Ended
        \/ reads[r].pc \in Reading /\ reads'[r].pc \in Reading
  \/ /\ slots' = [running |-> slots.running, inFlight |-> slots.inFlight + 1]
     /\ slots.inFlight < MAX_MEDIA_READS_IN_FLIGHT /\ reads[r].pc \in Ended /\ reads'[r].pc = "queued"
  \/ /\ slots' = [running |-> slots.running + 1, inFlight |-> slots.inFlight]
     /\ slots.running < MAX_CONCURRENT_MEDIA_READS /\ reads[r].pc = "queued" /\ reads'[r].pc \in Reading
  \/ /\ slots' = [running |-> slots.running - 1, inFlight |-> slots.inFlight - 1]
     /\ reads[r].pc \in Reading /\ reads'[r].pc \in Ended

LEMMA ReadsMove ==
  ASSUME ReadsInv, NEW r \in MediaRequests, ReadMoves(r), SlotMoves(r)
  PROVE  ReadsInv'
<1> DEFINE n == Cardinality(ReadsAt)
           q == Cardinality(ReadsOpen)
<1>1. /\ DOMAIN reads' = MediaRequests
      /\ \A k \in MediaRequests : ReadFields \subseteq DOMAIN reads'[k]
  BY DEF ReadsInv, ReadMoves
<1>2. /\ ReadsAt \in SUBSET MediaRequests /\ ReadsAt' \in SUBSET MediaRequests
      /\ ReadsOpen \in SUBSET MediaRequests /\ ReadsOpen' \in SUBSET MediaRequests
      /\ \A k \in MediaRequests : k # r => (k \in ReadsAt <=> k \in ReadsAt') /\ (k \in ReadsOpen <=> k \in ReadsOpen')
      /\ (r \in ReadsAt <=> reads[r].pc \in Reading) /\ (r \in ReadsAt' <=> reads'[r].pc \in Reading)
      /\ (r \in ReadsOpen <=> reads[r].pc \notin Ended) /\ (r \in ReadsOpen' <=> reads'[r].pc \notin Ended)
  BY DEF ReadsAt, ReadsOpen, ReadMoves
<1>3. /\ IsFiniteSet(MediaRequests) /\ MAX_CONCURRENT_MEDIA_READS \in Nat /\ MAX_MEDIA_READS_IN_FLIGHT \in Nat
      /\ slots = [running |-> n, inFlight |-> q] /\ n <= MAX_CONCURRENT_MEDIA_READS /\ q <= MAX_MEDIA_READS_IN_FLIGHT
  BY LimitsAssumption DEF ReadsInv
<1>4. /\ n \in Nat /\ n' \in Nat
      /\ (reads[r].pc \in Reading <=> reads'[r].pc \in Reading) => n' = n
      /\ reads[r].pc \notin Reading /\ reads'[r].pc \in Reading => n' = n + 1
      /\ reads[r].pc \in Reading /\ reads'[r].pc \notin Reading => n' = n - 1
  BY <1>2, <1>3, MembersMove
<1>5. /\ q \in Nat /\ q' \in Nat
      /\ (reads[r].pc \notin Ended <=> reads'[r].pc \notin Ended) => q' = q
      /\ reads[r].pc \in Ended /\ reads'[r].pc \notin Ended => q' = q + 1
      /\ reads[r].pc \notin Ended /\ reads'[r].pc \in Ended => q' = q - 1
  BY <1>2, <1>3, MembersMove
<1> HIDE DEF n, q
<1>6. /\ slots' = [running |-> n', inFlight |-> q']
      /\ n' <= MAX_CONCURRENT_MEDIA_READS /\ q' <= MAX_MEDIA_READS_IN_FLIGHT
  BY <1>3, <1>4, <1>5 DEF SlotMoves, Reading, Ended
<1> QED BY <1>1, <1>6 DEF ReadsInv, n, q

LEMMA NothingRead ==
  ASSUME DOMAIN reads = MediaRequests, \A r \in MediaRequests : reads[r] = ServedPart!Unasked,
         slots = [running |-> 0, inFlight |-> 0]
  PROVE  ReadsInv
<1>1. ReadFields \subseteq DOMAIN ServedPart!Unasked /\ ServedPart!Unasked.pc = "idle"
  BY DEF ServedPart!Unasked, ReadFields
<1>2. ReadsAt = {} /\ ReadsOpen = {}
  BY <1>1 DEF ReadsAt, ReadsOpen, Reading, Ended
<1> QED BY <1>1, <1>2, FS_EmptySet, LimitsAssumption DEF ReadsInv

LEMMA ReadsInit == ServedPart!Init => ReadsInv
  BY NothingRead DEF ServedPart!Init

LEMMA ReadSteps ==
  ASSUME ReadsInv, NEW r \in MediaRequests
  PROVE  /\ \A x : ServedPart!Reads(r, x) /\ ReadFields \subseteq DOMAIN x => ReadMoves(r) /\ reads'[r] = x
         /\ \A status_ : ServedPart!Answers(r, status_) =>
               /\ ReadMoves(r) /\ reads'[r].pc = "over"
               /\ slots' = [running |-> slots.running - 1, inFlight |-> slots.inFlight - 1]
<1>1. \A x : ServedPart!Reads(r, x) /\ ReadFields \subseteq DOMAIN x => ReadMoves(r) /\ reads'[r] = x
  BY DEF ServedPart!Reads, ReadsInv, ReadMoves
<1>2. ASSUME NEW status_, ServedPart!Answers(r, status_) PROVE ReadMoves(r) /\ reads'[r].pc = "over"
  <2> DEFINE x == [reads[r] EXCEPT !.pc = "over", !.status = status_]
  <2>1. ReadFields \subseteq DOMAIN x /\ x.pc = "over"
    BY DEF ReadsInv, ReadFields
  <2>2. ServedPart!Reads(r, x)
    BY <1>2 DEF ServedPart!Answers
  <2> HIDE DEF x
  <2> QED BY <2>1, <2>2, <1>1
<1> QED BY <1>1, <1>2 DEF ServedPart!Answers

LEMMA ReadsStep == ReadsInv /\ [ServedPart!Next]_served => ReadsInv'
<1> SUFFICES ASSUME ReadsInv, [ServedPart!Next]_served PROVE ReadsInv'
  OBVIOUS
<1>1. CASE UNCHANGED <<reads, slots>>
  BY <1>1 DEF ReadsInv, ReadsAt, ReadsOpen
<1>2. CASE ServedPart!Restart
  <2>1. /\ DOMAIN reads' = MediaRequests /\ slots' = [running |-> 0, inFlight |-> 0]
        /\ \A r \in MediaRequests : reads'[r] = ServedPart!Unasked
    BY <1>2 DEF ServedPart!Restart
  <2>2. ReadFields \subseteq DOMAIN ServedPart!Unasked /\ ServedPart!Unasked.pc = "idle"
    BY DEF ServedPart!Unasked, ReadFields
  <2>3. ReadsAt' = {} /\ ReadsOpen' = {}
    BY <2>1, <2>2 DEF ReadsAt, ReadsOpen, Reading, Ended
  <2> QED BY <2>1, <2>2, <2>3, FS_EmptySet, LimitsAssumption DEF ReadsInv
<1>3. ASSUME NEW r \in MediaRequests, ServedPart!Request(r) PROVE ReadsInv'
  <2>a. \E a, b : slots = [running |-> a, inFlight |-> b]
    BY DEF ReadsInv
  <2>b. ReadFields \subseteq DOMAIN reads[r]
    BY DEF ReadsInv
  <2>c. ASSUME NEW status_, ServedPart!Answers(r, status_), reads[r].pc \in Reading PROVE ReadsInv'
    <3>1. ReadMoves(r) /\ SlotMoves(r)
      BY <2>c, ReadSteps DEF SlotMoves, Ended
    <3> QED BY <3>1, ReadsMove
  <2>1. CASE ServedPart!handle(r)
    <3>0. reads[r].pc = "idle"
      BY <2>1 DEF ServedPart!handle
    <3>1. PICK want : LET asked == [ServedPart!Unasked EXCEPT !.folder = want.folder, !.header = want.header] IN
              \/ /\ ServedPart!Reads(r, [asked EXCEPT !.pc = "queued"]) /\ slots' = [slots EXCEPT !.inFlight = @ + 1]
                 /\ slots.inFlight < MAX_MEDIA_READS_IN_FLIGHT
              \/ ServedPart!Reads(r, [asked EXCEPT !.pc = "over", !.status = 503]) /\ UNCHANGED slots
      BY <2>1 DEF ServedPart!handle
    <3> DEFINE asked == [ServedPart!Unasked EXCEPT !.folder = want.folder, !.header = want.header]
               x == [asked EXCEPT !.pc = "queued"]
               y == [asked EXCEPT !.pc = "over", !.status = 503]
    <3>2. ReadFields \subseteq DOMAIN asked
      BY DEF ServedPart!Unasked, ReadFields
    <3>3. \/ /\ ServedPart!Reads(r, x) /\ slots' = [slots EXCEPT !.inFlight = @ + 1]
             /\ slots.inFlight < MAX_MEDIA_READS_IN_FLIGHT
          \/ ServedPart!Reads(r, y) /\ UNCHANGED slots
      BY <3>1
    <3> HIDE DEF asked
    <3>4. /\ ReadFields \subseteq DOMAIN x /\ x.pc = "queued"
          /\ ReadFields \subseteq DOMAIN y /\ y.pc = "over"
      BY <3>2 DEF ReadFields
    <3> HIDE DEF x, y
    <3>5. ReadMoves(r) /\ (reads'[r] = x \/ reads'[r] = y)
      BY <3>3, <3>4, ReadSteps
    <3>6. SlotMoves(r)
      <4>1. CASE ServedPart!Reads(r, x) /\ slots' = [slots EXCEPT !.inFlight = @ + 1] /\ slots.inFlight < MAX_MEDIA_READS_IN_FLIGHT
        BY <4>1, <3>0, <3>4, <2>a, ReadSteps DEF SlotMoves, Ended
      <4>2. CASE ServedPart!Reads(r, y) /\ UNCHANGED slots
        BY <4>2, <3>0, <3>4, ReadSteps DEF SlotMoves, Ended
      <4> QED BY <3>3, <4>1, <4>2
    <3> QED BY <3>5, <3>6, ReadsMove
  <2>2. CASE ServedPart!Take(r)
    <3> DEFINE x == [reads[r] EXCEPT !.pc = "check"]
    <3>1. /\ reads[r].pc = "queued" /\ slots.running < MAX_CONCURRENT_MEDIA_READS
          /\ ServedPart!Reads(r, x) /\ slots' = [slots EXCEPT !.running = @ + 1]
      BY <2>2 DEF ServedPart!Take
    <3>2. ReadFields \subseteq DOMAIN x /\ x.pc = "check"
      BY <2>b DEF ReadFields
    <3> HIDE DEF x
    <3>3. ReadMoves(r) /\ reads'[r] = x
      BY <3>1, <3>2, ReadSteps
    <3>4. SlotMoves(r)
      BY <3>1, <3>2, <3>3, <2>a DEF SlotMoves, Reading
    <3> QED BY <3>3, <3>4, ReadsMove
  <2>3. CASE ServedPart!serve(r)
    <3>0. reads[r].pc \in Reading
      BY <2>3 DEF ServedPart!serve, Reading
    <3>1. CASE \E status_ : ServedPart!Answers(r, status_)
      BY <3>0, <3>1, <2>c
    <3>2. CASE ServedPart!Reads(r, [reads[r] EXCEPT !.pc = "read", !.total = length]) /\ UNCHANGED slots
      <4> DEFINE x == [reads[r] EXCEPT !.pc = "read", !.total = length]
      <4>1. ReadFields \subseteq DOMAIN x /\ x.pc = "read" /\ ServedPart!Reads(r, x)
        BY <2>b, <3>2 DEF ReadFields
      <4> HIDE DEF x
      <4>2. ReadMoves(r) /\ reads'[r] = x
        BY <4>1, ReadSteps
      <4>3. SlotMoves(r)
        BY <4>1, <4>2, <3>0, <3>2 DEF SlotMoves, Reading
      <4> QED BY <4>2, <4>3, ReadsMove
    <3> QED BY <2>3, <3>1, <3>2 DEF ServedPart!serve
  <2>4. CASE ServedPart!plan_range(r)
    <3>0. reads[r].pc \in Reading
      BY <2>4 DEF ServedPart!plan_range, Reading
    <3>1. CASE \E status_ : ServedPart!Answers(r, status_)
      BY <3>0, <3>1, <2>c
    <3>2. CASE \E a, b, c : /\ ServedPart!Reads(r, [reads[r] EXCEPT !.pc = "over", !.status = 206, !.start = a, !.end = b, !.body = c])
                            /\ slots' = [running |-> slots.running - 1, inFlight |-> slots.inFlight - 1]
      <4>1. PICK a, b, c : ServedPart!Reads(r, [reads[r] EXCEPT !.pc = "over", !.status = 206, !.start = a, !.end = b, !.body = c])
        BY <3>2
      <4> DEFINE x == [reads[r] EXCEPT !.pc = "over", !.status = 206, !.start = a, !.end = b, !.body = c]
      <4>2. ReadFields \subseteq DOMAIN x /\ x.pc = "over" /\ ServedPart!Reads(r, x)
        BY <2>b, <4>1 DEF ReadFields
      <4> HIDE DEF x
      <4>3. ReadMoves(r) /\ reads'[r] = x
        BY <4>2, ReadSteps
      <4>4. SlotMoves(r)
        BY <4>2, <4>3, <3>0, <3>2 DEF SlotMoves, Ended
      <4> QED BY <4>3, <4>4, ReadsMove
    <3> QED BY <2>4, <3>1, <3>2 DEF ServedPart!plan_range
  <2> QED BY <1>3, <2>1, <2>2, <2>3, <2>4 DEF ServedPart!Request
<1>4. ASSUME NEW g \in Registrations, ServedPart!Register(g) PROVE UNCHANGED <<reads, slots>>
  BY <1>4 DEF ServedPart!Register, ServedPart!ensure_configured_library_path, ServedPart!RefuseReleased, ServedPart!Look,
    ServedPart!Grant, ServedPart!set_library_share, ServedPart!Unmoved
<1>5. CASE \/ ServedPart!Effect \/ ServedPart!MoveLibrary \/ ServedPart!record_forbidden_library_dirs
           \/ ServedPart!revoke_directory_from_asset_scope \/ ServedPart!store_migrated_library_path \/ ServedPart!AnswerMove
           \/ ServedPart!resolve_existing_library_dir \/ ServedPart!ensure_path_parent_inside_dir \/ ServedPart!MakeParent
           \/ ServedPart!Pull \/ ServedPart!Plug \/ ServedPart!Truncate \/ UNCHANGED served
  <2>1. UNCHANGED <<reads, slots>>
    BY <1>5 DEF ServedPart!Effect, ServedPart!Unmoved, ServedPart!MoveLibrary, ServedPart!record_forbidden_library_dirs,
      ServedPart!revoke_directory_from_asset_scope, ServedPart!store_migrated_library_path, ServedPart!AnswerMove,
      ServedPart!MoverSteps, ServedPart!resolve_existing_library_dir, ServedPart!ensure_path_parent_inside_dir,
      ServedPart!MakeParent, ServedPart!WriterStays, ServedPart!Pull, ServedPart!Plug, ServedPart!Truncate,
      ServedPart!Outside, served
  <2> QED BY <2>1, <1>1
<1> QED BY <1>1, <1>2, <1>3, <1>4, <1>5 DEF ServedPart!Next

LEMMA SameReadsCardinality ==
  ASSUME NEW S
  PROVE  ServedPart!Cardinality(S) = Cardinality(S)
  BY Zenon DEF Cardinality, ServedPart!Cardinality

LEMMA ReadsTell == ReadsInv => ServedPart!ReadsCounted
<1> SUFFICES ASSUME ReadsInv PROVE ServedPart!ReadsCounted
  OBVIOUS
<1>1. /\ slots.running = Cardinality(ReadsAt) /\ slots.inFlight = Cardinality(ReadsOpen)
      /\ slots.running <= MAX_CONCURRENT_MEDIA_READS /\ slots.inFlight <= MAX_MEDIA_READS_IN_FLIGHT
  BY DEF ReadsInv
<1>2. /\ ReadsAt = {r \in MediaRequests : reads[r].pc \in {"check", "read"}}
      /\ ReadsOpen = {r \in MediaRequests : reads[r].pc \notin {"idle", "over"}}
  BY DEF ReadsAt, ReadsOpen, Reading, Ended
<1> QED BY <1>1, <1>2, SameReadsCardinality, Zenon DEF ServedPart!ReadsCounted

(***************************************************************************)
(* Recursion over numbers.                                                 *)
(***************************************************************************)

Below == {ss \in Nat \X Nat : ss[1] < ss[2]}

\* Induction, for a set of numbers.
LEMMA SetInduction ==
  ASSUME NEW S, 0 \in S, \A n \in Nat : n \in S => n + 1 \in S
  PROVE  Nat \subseteq S
<1> SUFFICES ASSUME ~(Nat \subseteq S) PROVE FALSE
  OBVIOUS
<1> DEFINE T == {n \in Nat : n \notin S}
<1>1. IsWellFoundedOn(Below, Nat)
  BY NatLessThanWellFounded, Zenon DEF OpToRel, Below
<1>2. PICK x \in T : \A y \in T : ~(<<y, x>> \in Below)
  BY <1>1, WFMin, Zenon
<1>3. x \in Nat /\ x # 0 /\ x \notin S
  BY <1>2
<1>4. x - 1 \in Nat /\ x - 1 < x /\ x = (x - 1) + 1
  BY <1>3
<1>5. x - 1 \in T
  BY <1>3, <1>4
<1>6. <<x - 1, x>> \in Below
  <2>1. <<x - 1, x>> \in Nat \X Nat /\ <<x - 1, x>>[1] < <<x - 1, x>>[2]
    BY <1>3, <1>4
  <2> QED BY <2>1 DEF Below
<1> QED BY <1>2, <1>5, <1>6

\* A function on 0 .. n given by its first value and by each value from the one before it.
Fills(F, n, base, step) == F = [i \in 0 .. n |-> IF i = 0 THEN base ELSE step[<<F[i - 1], i>>]]

LEMMA Recursion ==
  ASSUME NEW V, NEW base \in V, NEW n \in Nat, NEW step \in [V \X Nat -> V]
  PROVE  \E F \in [0 .. n -> V] : Fills(F, n, base, step)
<1> DEFINE Is(F, k) == F \in [0 .. k -> V] /\ F[0] = base /\ \A i \in 1 .. k : F[i] = step[<<F[i - 1], i>>]
           S == {k \in Nat : \E F : Is(F, k)}
<1>1. 0 \in S
  <2> DEFINE F == [i \in 0 .. 0 |-> base]
  <2>1. Is(F, 0)
    OBVIOUS
  <2> QED BY <2>1
<1>2. ASSUME NEW k \in Nat, k \in S PROVE k + 1 \in S
  <2>1. PICK F : Is(F, k)
    BY <1>2
  <2> DEFINE G == [i \in 0 .. (k + 1) |-> IF i = k + 1 THEN step[<<F[k], k + 1>>] ELSE F[i]]
  <2>2. F[k] \in V /\ <<F[k], k + 1>> \in V \X Nat
    BY <2>1
  <2>3. G \in [0 .. (k + 1) -> V]
    BY <2>1, <2>2
  <2>4. G[0] = base
    BY <2>1
  <2>5. ASSUME NEW i \in 1 .. (k + 1) PROVE G[i] = step[<<G[i - 1], i>>]
    <3>1. CASE i = k + 1
      <4>1. i - 1 = k /\ k \in 0 .. (k + 1) /\ k # k + 1 /\ i \in 0 .. (k + 1)
        BY <3>1
      <4>2. G[i - 1] = F[k] /\ G[i] = step[<<F[k], k + 1>>]
        BY <3>1, <4>1
      <4> QED BY <3>1, <4>2
    <3>2. CASE i # k + 1
      <4>1. i \in 1 .. k /\ i - 1 \in 0 .. (k + 1) /\ i - 1 # k + 1 /\ i \in 0 .. (k + 1)
        BY <3>2
      <4>2. G[i - 1] = F[i - 1] /\ G[i] = F[i]
        BY <3>2, <4>1
      <4>3. F[i] = step[<<F[i - 1], i>>]
        BY <2>1, <4>1
      <4> HIDE DEF G
      <4> QED BY <4>2, <4>3
    <3> QED BY <3>1, <3>2
  <2> HIDE DEF G
  <2>6. Is(G, k + 1)
    BY <2>3, <2>4, <2>5
  <2>7. \E H : Is(H, k + 1)
    BY <2>6, Zenon
  <2> QED BY <2>7
<1> HIDE DEF S
<1>3. n \in S
  BY <1>1, <1>2, SetInduction
<1>4. PICK F : Is(F, n)
  BY <1>3 DEF S
<1>5. Fills(F, n, base, step)
  <2>1. \A i \in 0 .. n : F[i] = IF i = 0 THEN base ELSE step[<<F[i - 1], i>>]
    BY <1>4
  <2> QED BY <1>4, <2>1 DEF Fills
<1> QED BY <1>4, <1>5

(***************************************************************************)
(* The tries of a media are direct, different and few.                     *)
(***************************************************************************)

\* Lists of direct images that are each a resource of their own.
Different(list) ==
    \A i, j \in DOMAIN list : /\ ImagesPart!is_direct_thumbnail_url(list[i])
                              /\ i # j => ~ImagesPart!SameResource(list[i], list[j])

LEMMA SameSymmetric ==
  ASSUME NEW a, NEW b, ImagesPart!SameResource(a, b)
  PROVE  ImagesPart!SameResource(b, a)
  BY DEF ImagesPart!SameResource

LEMMA DifferentAppend ==
  ASSUME NEW U, NEW list \in Seq(U), Different(list), NEW url \in U,
         ImagesPart!is_direct_thumbnail_url(url),
         \A j \in DOMAIN list : ~ImagesPart!SameResource(list[j], url)
  PROVE  Append(list, url) \in Seq(U) /\ Different(Append(list, url))
<1> DEFINE longer == Append(list, url)
<1>1. /\ longer \in Seq(U) /\ DOMAIN longer = 1 .. Len(list) + 1 /\ longer[Len(list) + 1] = url
      /\ \A i \in 1 .. Len(list) : longer[i] = list[i]
      /\ DOMAIN list = 1 .. Len(list) /\ Len(list) \in Nat
  OBVIOUS
<1> HIDE DEF longer
<1>2. ASSUME NEW i \in DOMAIN longer, NEW j \in DOMAIN longer
      PROVE  /\ ImagesPart!is_direct_thumbnail_url(longer[i])
             /\ i # j => ~ImagesPart!SameResource(longer[i], longer[j])
  <2>0. ASSUME NEW k \in DOMAIN longer
        PROVE  (k \in DOMAIN list /\ longer[k] = list[k]) \/ (k = Len(list) + 1 /\ longer[k] = url)
    <3>1. k \in 1 .. Len(list) + 1
      BY <1>1, Zenon
    <3>2. k \in 1 .. Len(list) \/ k = Len(list) + 1
      BY <1>1, <3>1
    <3> QED BY <1>1, <3>2, Zenon
  <2>1. (i \in DOMAIN list /\ longer[i] = list[i]) \/ (i = Len(list) + 1 /\ longer[i] = url)
    BY <2>0, Zenon
  <2>2. (j \in DOMAIN list /\ longer[j] = list[j]) \/ (j = Len(list) + 1 /\ longer[j] = url)
    BY <2>0, Zenon
  <2>3. ImagesPart!is_direct_thumbnail_url(longer[i])
    BY <2>1, Zenon DEF Different
  <2>4. ASSUME i # j PROVE ~ImagesPart!SameResource(longer[i], longer[j])
    BY <2>1, <2>2, <2>4, SameSymmetric, Zenon DEF Different
  <2> QED BY <2>3, <2>4
<1>3. Different(longer)
  BY <1>2, Zenon DEF Different
<1> QED BY <1>1, <1>3 DEF longer

LEMMA DifferentCut ==
  ASSUME NEW U, NEW list \in Seq(U), Different(list), NEW n \in Nat, n <= Len(list)
  PROVE  Len(SubSeq(list, 1, n)) = n /\ Different(SubSeq(list, 1, n))
<1> DEFINE cut == SubSeq(list, 1, n)
<1>1. Len(cut) = n /\ DOMAIN cut = 1 .. n /\ \A i \in 1 .. n : cut[i] = list[i] /\ i \in DOMAIN list
  OBVIOUS
<1> HIDE DEF cut
<1>2. Different(cut)
  BY <1>1, Zenon DEF Different
<1> QED BY <1>1, <1>2 DEF cut

IsList(s) == s \in Seq({s[i] : i \in DOMAIN s})

LEMMA ImagesReverse ==
  ASSUME NEW s, IsList(s)
  PROVE  IsList(ImagesPart!Reverse(s))
<1> DEFINE t == [i \in 1 .. Len(s) |-> s[(Len(s) - i) + 1]]
<1>1. Len(s) \in Nat
  BY DEF IsList
<1>2. t \in Seq({t[i] : i \in DOMAIN t})
  BY <1>1
<1>3. ImagesPart!Reverse(s) = t
  BY Zenon DEF ImagesPart!Reverse
<1> QED BY <1>2, <1>3, Zenon DEF IsList

LEMMA ListsJoin ==
  ASSUME NEW s, NEW t, IsList(s), IsList(t)
  PROVE  IsList(s \o t)
<1> DEFINE S == {s[i] : i \in DOMAIN s} \cup {t[i] : i \in DOMAIN t}
<1>1. s \in Seq(S) /\ t \in Seq(S)
  BY DEF IsList
<1>2. s \o t \in Seq(S)
  BY <1>1
<1> DEFINE j == s \o t
<1> HIDE DEF S, j
<1>3. j \in Seq(S) => j \in Seq({j[i] : i \in DOMAIN j})
  OBVIOUS
<1> QED BY <1>2, <1>3 DEF IsList, j

LEMMA CandidatesAreDifferent ==
  ASSUME NEW thumbnail, NEW thumbnails, IsList(thumbnail), IsList(thumbnails)
  PROVE  /\ Len(ImagesPart!media_thumbnail_candidates(thumbnail, thumbnails)) <= MAX_MEDIA_THUMBNAIL_ATTEMPTS
         /\ Different(ImagesPart!media_thumbnail_candidates(thumbnail, thumbnails))
<1> DEFINE declared == ImagesPart!Reverse(thumbnails)
           ordered == declared \o thumbnail \o declared
           first(i) == i <= Len(declared)
           last(i) == i > Len(declared) + Len(thumbnail)
           wanted(i) ==
             /\ first(i) => ordered[i].width > 0 /\ ordered[i].ext = "jpg"
             /\ last(i) => ordered[i].width > 0 /\ ordered[i].ext # "jpg"
             /\ ImagesPart!is_direct_thumbnail_url(ordered[i])
           taken(list, i) == wanted(i) /\ \A j \in DOMAIN list : ~ImagesPart!SameResource(list[j], ordered[i])
           found[i \in 0 .. Len(ordered)] ==
             IF i = 0 THEN <<>>
             ELSE IF wanted(i) /\ \A j \in DOMAIN found[i - 1] : ~ImagesPart!SameResource(found[i - 1][j], ordered[i])
             THEN Append(found[i - 1], ordered[i])
             ELSE found[i - 1]
           candidates == found[Len(ordered)]
           few == IF Len(candidates) < MAX_MEDIA_THUMBNAIL_ATTEMPTS
                  THEN Len(candidates) ELSE MAX_MEDIA_THUMBNAIL_ATTEMPTS
           U == {ordered[i] : i \in DOMAIN ordered}
           V == {list \in Seq(U) : Different(list)}
           n == Len(ordered)
           step == [p \in V \X Nat |-> IF p[2] \in 1 .. n /\ taken(p[1], p[2])
                                       THEN Append(p[1], ordered[p[2]]) ELSE p[1]]
<1>1. ImagesPart!media_thumbnail_candidates(thumbnail, thumbnails) = SubSeq(candidates, 1, few)
  BY Zenon DEF ImagesPart!media_thumbnail_candidates
<1>2. ordered \in Seq(U) /\ n \in Nat
  <2> HIDE DEF declared
  <2>1. IsList(declared)
    BY ImagesReverse DEF declared
  <2>2. IsList(ordered)
    BY <2>1, ListsJoin
  <2> HIDE DEF ordered
  <2> QED BY <2>2 DEF IsList
<1> HIDE DEF declared, ordered
<1>3. ASSUME NEW i \in 1 .. n PROVE ordered[i] \in U
  BY <1>2
<1> HIDE DEF U
<1>4. <<>> \in V
  BY DEF Different
<1>5. ASSUME NEW list \in V, NEW i \in Nat, i \in 1 .. n, taken(list, i)
      PROVE  Append(list, ordered[i]) \in V
  <2>1. list \in Seq(U) /\ Different(list) /\ ordered[i] \in U
    BY <1>3, <1>5
  <2> HIDE DEF first, last
  <2> QED BY <2>1, <1>5, DifferentAppend
<1> HIDE DEF V, wanted
<1>6. step \in [V \X Nat -> V]
  BY <1>5, Zenon
<1> DEFINE Body(F) == [i \in 0 .. n |->
              IF i = 0 THEN <<>>
              ELSE IF wanted(i) /\ \A j \in DOMAIN F[i - 1] : ~ImagesPart!SameResource(F[i - 1][j], ordered[i])
              THEN Append(F[i - 1], ordered[i])
              ELSE F[i - 1]]
<1>7. PICK F \in [0 .. n -> V] : Fills(F, n, <<>>, step)
  <2> HIDE DEF step, n
  <2> QED BY <1>2, <1>4, <1>6, Recursion, Zenon
<1>8. F = Body(F)
  <2>1. ASSUME NEW i \in 0 .. n
        PROVE  F[i] = IF i = 0 THEN <<>>
                      ELSE IF wanted(i) /\ \A j \in DOMAIN F[i - 1] : ~ImagesPart!SameResource(F[i - 1][j], ordered[i])
                      THEN Append(F[i - 1], ordered[i])
                      ELSE F[i - 1]
    <3>1. CASE i = 0
      BY <3>1, <1>7 DEF Fills
    <3>2. CASE i # 0
      <4>1. i \in 1 .. n /\ i \in Nat /\ i - 1 \in 0 .. n
        BY <3>2, <1>2
      <4>2. F[i - 1] \in V
        BY <4>1, <1>7
      <4>3. F[i] = step[<<F[i - 1], i>>]
        <5> HIDE DEF step
        <5> QED BY <3>2, <1>7 DEF Fills
      <4> DEFINE l == F[i - 1]
      <4>4. step[<<l, i>>] = IF taken(l, i) THEN Append(l, ordered[i]) ELSE l
        <5> HIDE DEF l, taken
        <5> QED BY <4>1, <4>2 DEF l
      <4> QED BY <3>2, <4>3, <4>4
    <3> QED BY <3>1, <3>2
  <2> HIDE DEF wanted
  <2> QED BY <2>1, <1>7
<1>9. found = Body(found)
  <2>1. \E G : G = Body(G)
    BY <1>8
  <2>2. (CHOOSE G : G = Body(G)) = Body(CHOOSE G : G = Body(G))
    <3> HIDE DEF Body
    <3> QED BY <2>1, Zenon
  <2> QED BY <2>2, Zenon
<1> HIDE DEF found, step
<1> DEFINE S == {i \in Nat : i <= n => found[i] \in V}
<1>10. n \in S
  <2>1. 0 \in S
    BY <1>2, <1>4, <1>9
  <2>2. ASSUME NEW i \in Nat, i \in S PROVE i + 1 \in S
    <3>1. CASE i + 1 <= n
      <4>1. i + 1 \in Nat /\ i + 1 \in 0 .. n /\ i + 1 \in 1 .. n /\ i + 1 # 0 /\ (i + 1) - 1 = i
        BY <3>1, <1>2
      <4>2. found[i] \in V
        BY <2>2, <3>1, <1>2
      <4>3. \/ taken(found[i], i + 1) /\ found[i + 1] = Append(found[i], ordered[i + 1])
            \/ found[i + 1] = found[i]
        <5> HIDE DEF wanted
        <5> QED BY <4>1, <1>9
      <4>4. found[i + 1] \in V
        <5> HIDE DEF taken
        <5> QED BY <4>1, <4>2, <4>3, <1>5
      <4> QED BY <4>4
    <3>2. CASE ~(i + 1 <= n)
      BY <3>2
    <3> QED BY <3>1, <3>2
  <2> HIDE DEF S
  <2>3. Nat \subseteq S
    BY <2>1, <2>2, SetInduction, Zenon
  <2> QED BY <2>3, <1>2
<1>11. candidates \in Seq(U) /\ Different(candidates) /\ Len(candidates) \in Nat
  <2>1. candidates \in V
    BY <1>10, <1>2
  <2> QED BY <2>1 DEF V
<1>12. few \in Nat /\ few <= Len(candidates) /\ few <= MAX_MEDIA_THUMBNAIL_ATTEMPTS
  <2> HIDE DEF candidates
  <2> QED BY <1>11, LimitsAssumption
<1> HIDE DEF candidates, few
<1> QED BY <1>1, <1>11, <1>12, DifferentCut

Few(list) == Len(list) <= MAX_MEDIA_THUMBNAIL_ATTEMPTS /\ Different(list)

\* Before its first try, a call that is for a media has the candidates of what it was asked.
TriesInv ==
  /\ CallsShaped /\ ask \in Plans
  /\ \A c \in Fetchers : at[c].pc = "try" /\ at[c].answer = "none" => Few(at[c].tries)

LEMMA TriesInit == ImagesPart!Init => TriesInv
<1> SUFFICES ASSUME ImagesPart!Init PROVE TriesInv
  OBVIOUS
<1>1. \A c \in Fetchers : at[c] = ImagesPart!Start
  BY DEF ImagesPart!Init
<1>2. CallFields \subseteq DOMAIN ImagesPart!Start /\ ImagesPart!Start.pc = "idle"
  BY DEF ImagesPart!Start, CallFields
<1>3. CallsShaped /\ ask \in Plans
  BY <1>1, <1>2 DEF CallsShaped, ImagesPart!Init
<1> QED BY <1>1, <1>2, <1>3 DEF TriesInv

LEMMA TriesMove ==
  ASSUME TriesInv, NEW c \in Fetchers, CallMoves(c), UNCHANGED ask,
         at'[c].pc = "try" /\ at'[c].answer = "none" => Few(at'[c].tries)
  PROVE  TriesInv'
<1>1. CallsShaped'
  BY DEF TriesInv, CallsShaped, CallMoves
<1>2. ASSUME NEW d \in Fetchers, at'[d].pc = "try" /\ at'[d].answer = "none" PROVE Few(at'[d].tries)
  <2>1. CASE d = c
    BY <2>1, <1>2
  <2>2. CASE d # c
    BY <2>2, <1>2, Zenon DEF TriesInv, CallMoves
  <2> QED BY <2>1, <2>2
<1>3. (ask \in Plans)'
  BY DEF TriesInv
<1> HIDE DEF Few
<1> QED BY <1>1, <1>2, <1>3 DEF TriesInv

LEMMA TriesStep == TriesInv /\ [ImagesPart!Next]_images => TriesInv'
<1> SUFFICES ASSUME TriesInv, [ImagesPart!Next]_images PROVE TriesInv'
  OBVIOUS
<1>1. CASE UNCHANGED <<at, ask>>
  BY <1>1 DEF TriesInv, CallsShaped
<1>2. CASE UNCHANGED images
  BY <1>1, <1>2 DEF images
<1> SUFFICES ASSUME NEW c \in Fetchers,
        \/ ImagesPart!download_channel_avatar_from_handle_async(c) \/ ImagesPart!download_media_thumbnail_async(c)
        \/ ImagesPart!NextCandidate(c) \/ ImagesPart!download_thumbnail_from_url_async(c)
        \/ ImagesPart!prepare_thumbnail_dirs(c) \/ ImagesPart!Route(c) \/ ImagesPart!assert_url_host_is_public(c)
        \/ ImagesPart!Request(c) \/ ImagesPart!RequestFails(c) \/ ImagesPart!http_get_image(c)
        \/ ImagesPart!fetch_yt_dlp_metadata(c) \/ ImagesPart!Enqueue(c) \/ ImagesPart!Spawn(c) \/ ImagesPart!Converts(c)
        \/ ImagesPart!finalize_thumbnail_download(c) \/ ImagesPart!run_thumbnail_yt_dlp_with_timeout(c)
        \/ ImagesPart!persist_thumbnail_from_source_async(c) \/ ImagesPart!remove_dir_all(c)
     PROVE TriesInv'
  BY <1>2 DEF ImagesPart!Next
<1>a. CallsShaped
  BY DEF TriesInv
<1>u. UNCHANGED ask
  BY DEF ImagesPart!download_channel_avatar_from_handle_async, ImagesPart!download_media_thumbnail_async,
    ImagesPart!NextCandidate, ImagesPart!download_thumbnail_from_url_async, ImagesPart!prepare_thumbnail_dirs,
    ImagesPart!Route, ImagesPart!assert_url_host_is_public, ImagesPart!Request, ImagesPart!RequestFails,
    ImagesPart!http_get_image, ImagesPart!fetch_yt_dlp_metadata, ImagesPart!Enqueue, ImagesPart!Spawn,
    ImagesPart!Converts, ImagesPart!finalize_thumbnail_download, ImagesPart!run_thumbnail_yt_dlp_with_timeout,
    ImagesPart!persist_thumbnail_from_source_async, ImagesPart!remove_dir_all
<1>b. ASSUME CallMoves(c), at'[c].pc # "try" PROVE TriesInv'
  BY <1>u, <1>b, TriesMove
<1>c. ASSUME NEW next, CallGoes(c, next), next # "try" PROVE TriesInv'
  BY <1>b, <1>c DEF CallGoes
<1>3. CASE ImagesPart!download_channel_avatar_from_handle_async(c)
  BY <1>3, <1>c, <1>a, CallSteps DEF ImagesPart!download_channel_avatar_from_handle_async
<1>4. CASE ImagesPart!download_media_thumbnail_async(c)
  <2> DEFINE tries == ImagesPart!media_thumbnail_candidates(ask[c].thumbnail, ask[c].urls)
  <2>1. at' = [at EXCEPT ![c].pc = "try", ![c].tries = tries]
    BY <1>4 DEF ImagesPart!download_media_thumbnail_async
  <2>2. IsList(ask[c].thumbnail) /\ IsList(ask[c].urls)
    BY LimitsAssumption DEF TriesInv, IsList
  <2>3. Few(tries)
    BY <2>2, CandidatesAreDifferent DEF Few
  <2> HIDE DEF tries
  <2>4. CallMoves(c) /\ at'[c].tries = tries
    BY <2>1, <1>a DEF CallMoves, CallsShaped, CallFields
  <2> QED BY <2>3, <2>4, <1>u, TriesMove
<1>5. CASE ImagesPart!NextCandidate(c)
  <2>1. CASE \E u, t, a : at' = [at EXCEPT ![c] = [ImagesPart!Start EXCEPT !.pc = "prepare", !.url = u, !.tries = t, !.answer = a]]
    <3>1. PICK u, t, a : at' = [at EXCEPT ![c] = [ImagesPart!Start EXCEPT !.pc = "prepare", !.url = u, !.tries = t, !.answer = a]]
      BY <2>1
    <3> DEFINE r == [ImagesPart!Start EXCEPT !.pc = "prepare", !.url = u, !.tries = t, !.answer = a]
    <3>2. CallFields \subseteq DOMAIN r /\ r.pc = "prepare"
      BY DEF ImagesPart!Start, CallFields
    <3>3. at' = [at EXCEPT ![c] = r]
      BY <3>1
    <3> HIDE DEF r
    <3>4. CallMoves(c) /\ at'[c].pc = "prepare"
      BY <3>2, <3>3, <1>a DEF CallMoves, CallsShaped
    <3> QED BY <3>4, <1>b
  <2>2. CASE ImagesPart!Answers(c, at[c].answer)
    BY <2>2, <1>c, <1>a, CallSteps
  <2> QED BY <1>5, <2>1, <2>2 DEF ImagesPart!NextCandidate
<1>6. CASE ImagesPart!download_thumbnail_from_url_async(c)
  <2>1. CASE \E u : at' = [at EXCEPT ![c].pc = "prepare", ![c].url = u]
    <3>1. CallMoves(c) /\ at'[c].pc = "prepare"
      BY <2>1, <1>a DEF CallMoves, CallsShaped, CallFields
    <3> QED BY <3>1, <1>b
  <2>2. CASE ImagesPart!Answers(c, "error")
    BY <2>2, <1>c, <1>a, CallSteps
  <2> QED BY <1>6, <2>1, <2>2 DEF ImagesPart!download_thumbnail_from_url_async
<1>7. CASE ImagesPart!prepare_thumbnail_dirs(c)
  <2>1. CASE at' = [at EXCEPT ![c].pc = "try", ![c].answer = "error"]
    <3>1. CallMoves(c) /\ at'[c].answer = "error"
      BY <2>1, <1>a DEF CallMoves, CallsShaped, CallFields
    <3> QED BY <3>1, <1>u, TriesMove
  <2>2. CASE ImagesPart!Goes(c, "route") \/ ImagesPart!Answers(c, "error")
    BY <2>2, <1>c, <1>a, CallSteps
  <2> QED BY <1>7, <2>1, <2>2 DEF ImagesPart!prepare_thumbnail_dirs
<1>8. CASE ImagesPart!Route(c)
  BY <1>8, <1>c, <1>a, CallSteps DEF ImagesPart!Route
<1>9. CASE ImagesPart!assert_url_host_is_public(c)
  <2>1. CASE ImagesPart!Fails(c)
    BY <2>1, <1>c, <1>a, CallSteps
  <2>2. CASE ImagesPart!Goes(c, IF at[c].pc = "check" THEN "dial" ELSE "probe")
    <3>1. CallGoes(c, "dial") \/ CallGoes(c, "probe")
      BY <2>2, <1>a, CallSteps
    <3> QED BY <3>1, <1>c
  <2> QED BY <1>9, <2>1, <2>2 DEF ImagesPart!assert_url_host_is_public
<1>10. CASE ImagesPart!Request(c)
  <2>1. CASE \E u, h : at' = [at EXCEPT ![c].pc = "check", ![c].hops = h, ![c].url = u]
    <3>1. CallMoves(c) /\ at'[c].pc = "check"
      BY <2>1, <1>a DEF CallMoves, CallsShaped, CallFields
    <3> QED BY <3>1, <1>b
  <2>2. CASE ImagesPart!Fails(c) \/ ImagesPart!Goes(c, "body")
    BY <2>2, <1>c, <1>a, CallSteps
  <2> QED BY <1>10, <2>1, <2>2 DEF ImagesPart!Request
<1>11. CASE ImagesPart!RequestFails(c) \/ ImagesPart!fetch_yt_dlp_metadata(c)
  BY <1>11, <1>c, <1>a, CallSteps DEF ImagesPart!RequestFails, ImagesPart!fetch_yt_dlp_metadata
<1>12. CASE ImagesPart!http_get_image(c)
  BY <1>12, <1>c, <1>a, CallSteps DEF ImagesPart!http_get_image
<1>13. CASE ImagesPart!Enqueue(c) \/ ImagesPart!Spawn(c)
  BY <1>13, <1>c, <1>a, CallSteps DEF ImagesPart!Enqueue, ImagesPart!Spawn
<1>14. CASE ImagesPart!Converts(c)
  BY <1>1, <1>14 DEF ImagesPart!Converts
<1>15. CASE ImagesPart!finalize_thumbnail_download(c) \/ ImagesPart!run_thumbnail_yt_dlp_with_timeout(c)
  BY <1>15, <1>c, <1>a, CallSteps DEF ImagesPart!finalize_thumbnail_download,
    ImagesPart!run_thumbnail_yt_dlp_with_timeout
<1>16. CASE ImagesPart!persist_thumbnail_from_source_async(c)
  BY <1>16, <1>c, <1>a, CallSteps DEF ImagesPart!persist_thumbnail_from_source_async
<1>17. CASE ImagesPart!remove_dir_all(c)
  <2>1. CASE ImagesPart!Goes(c, "try") /\ at[c].answer = "error"
    <3>1. CallMoves(c) /\ at'[c].answer = "error"
      BY <2>1, <1>a DEF CallMoves, CallsShaped, CallFields, ImagesPart!Goes
    <3> QED BY <3>1, <1>u, TriesMove
  <2>2. CASE ImagesPart!Goes(c, "answered")
    BY <2>2, <1>c, <1>a, CallSteps
  <2> QED BY <1>17, <2>1, <2>2 DEF ImagesPart!remove_dir_all
<1> QED BY <1>3, <1>4, <1>5, <1>6, <1>7, <1>8, <1>9, <1>10, <1>11, <1>12, <1>13, <1>14, <1>15, <1>16, <1>17

LEMMA TriesTell == TriesInv => ImagesPart!CandidatesDiffer
<1> SUFFICES ASSUME TriesInv PROVE ImagesPart!CandidatesDiffer
  OBVIOUS
<1>1. ASSUME NEW c \in Fetchers, at[c].pc = "try" /\ at[c].answer = "none" PROVE Few(at[c].tries)
  BY <1>1 DEF TriesInv
<1> QED BY <1>1, Zenon DEF ImagesPart!CandidatesDiffer, Few, Different

(***************************************************************************)
(* The cache of display copies: what stays of a listing was in it.         *)
(***************************************************************************)

LEMMA RemovedKeeps ==
  ASSUME NEW s, IsList(s), NEW out
  PROVE  /\ IsList(Removed(s, out))
         /\ \A i \in DOMAIN Removed(s, out) : \E j \in DOMAIN s : Removed(s, out)[i] = s[j]
<1> DEFINE rest[i \in 0 .. Len(s)] ==
             IF i = 0 THEN <<>> ELSE IF i \in out THEN rest[i - 1] ELSE Append(rest[i - 1], s[i])
           n == Len(s)
           U == {s[i] : i \in DOMAIN s}
           V == Seq(U)
           step == [p \in V \X Nat |-> IF p[2] \in 1 .. n /\ p[2] \notin out THEN Append(p[1], s[p[2]]) ELSE p[1]]
           Body(F) == [i \in 0 .. n |->
                         IF i = 0 THEN <<>> ELSE IF i \in out THEN F[i - 1] ELSE Append(F[i - 1], s[i])]
<1>1. n \in Nat /\ s \in Seq(U) /\ DOMAIN s = 1 .. n
  BY DEF IsList
<1>2. ASSUME NEW i \in 1 .. n PROVE s[i] \in U
  BY <1>1
<1> HIDE DEF U
<1>3. <<>> \in V /\ \A l \in V : \A i \in 1 .. n : Append(l, s[i]) \in V
  BY <1>2
<1> HIDE DEF V
<1>4. step \in [V \X Nat -> V]
  BY <1>3
<1>5. PICK F \in [0 .. n -> V] : Fills(F, n, <<>>, step)
  <2> HIDE DEF step, n
  <2> QED BY <1>1, <1>3, <1>4, Recursion, Zenon
<1>6. F = Body(F)
  <2>1. ASSUME NEW i \in 0 .. n
        PROVE  F[i] = IF i = 0 THEN <<>> ELSE IF i \in out THEN F[i - 1] ELSE Append(F[i - 1], s[i])
    <3>1. CASE i = 0
      BY <3>1, <1>5 DEF Fills
    <3>2. CASE i # 0
      <4>1. i \in 1 .. n /\ i \in Nat /\ i - 1 \in 0 .. n
        BY <3>2, <1>1
      <4>2. F[i - 1] \in V
        BY <4>1, <1>5
      <4>3. F[i] = step[<<F[i - 1], i>>]
        <5> HIDE DEF step
        <5> QED BY <3>2, <1>5 DEF Fills
      <4> DEFINE l == F[i - 1]
      <4>4. step[<<l, i>>] = IF i \in out THEN l ELSE Append(l, s[i])
        <5> HIDE DEF l
        <5> QED BY <4>1, <4>2 DEF l
      <4> QED BY <3>2, <4>3, <4>4
    <3> QED BY <3>1, <3>2
  <2> QED BY <2>1, <1>5
<1>7. rest = Body(rest)
  <2>1. \E G : G = Body(G)
    BY <1>6
  <2>2. (CHOOSE G : G = Body(G)) = Body(CHOOSE G : G = Body(G))
    <3> HIDE DEF Body
    <3> QED BY <2>1, Zenon
  <2> QED BY <2>2, Zenon
<1>8. Removed(s, out) = rest[n]
  BY Zenon DEF Removed
<1> HIDE DEF rest, step
<1> DEFINE S == {i \in Nat : i <= n => rest[i] \in V}
<1>9. n \in S
  <2>1. 0 \in S
    BY <1>1, <1>3, <1>7
  <2>2. ASSUME NEW i \in Nat, i \in S PROVE i + 1 \in S
    <3>1. CASE i + 1 <= n
      <4>1. i + 1 \in Nat /\ i + 1 \in 0 .. n /\ i + 1 \in 1 .. n /\ i + 1 # 0 /\ (i + 1) - 1 = i
        BY <3>1, <1>1
      <4>2. rest[i] \in V
        BY <2>2, <3>1, <1>1
      <4>3. rest[i + 1] = Append(rest[i], s[i + 1]) \/ rest[i + 1] = rest[i]
        BY <4>1, <1>7
      <4> QED BY <4>1, <4>2, <4>3, <1>3
    <3>2. CASE ~(i + 1 <= n)
      BY <3>2
    <3> QED BY <3>1, <3>2
  <2> HIDE DEF S
  <2>3. Nat \subseteq S
    BY <2>1, <2>2, SetInduction, Zenon
  <2> QED BY <2>3, <1>1
<1> DEFINE r == rest[n]
<1>10. r \in Seq(U)
  BY <1>9, <1>1 DEF V
<1> HIDE DEF r
<1>11. r \in Seq({r[i] : i \in DOMAIN r}) /\ \A i \in DOMAIN r : r[i] \in U
  BY <1>10
<1>12. \A i \in DOMAIN r : \E j \in DOMAIN s : r[i] = s[j]
  BY <1>11 DEF U
<1>13. Removed(s, out) = r
  BY <1>8 DEF r
<1> QED BY <1>11, <1>12, <1>13, Zenon DEF IsList

\* Each part has that operator.
LEMMA SameRemoved ==
  /\ \A s, out : ThumbsPart!Removed(s, out) = Removed(s, out)
  /\ \A s, out : CommentsPart!Removed(s, out) = Removed(s, out)
  BY Zenon DEF Removed, ThumbsPart!Removed, CommentsPart!Removed

WholeCopy(e) == {"of", "name", "data"} \subseteq DOMAIN e /\ (e.name = "final" => e.data = "whole")
CacheInv == IsList(cache) /\ \A i \in DOMAIN cache : WholeCopy(cache[i])

LEMMA RemovedWhole ==
  ASSUME CacheInv, NEW out
  PROVE  /\ IsList(ThumbsPart!Removed(cache, out))
         /\ \A i \in DOMAIN ThumbsPart!Removed(cache, out) : WholeCopy(ThumbsPart!Removed(cache, out)[i])
<1> DEFINE r == ThumbsPart!Removed(cache, out)
<1>1. IsList(r) /\ \A i \in DOMAIN r : \E j \in DOMAIN cache : r[i] = cache[j]
  BY RemovedKeeps, SameRemoved DEF CacheInv
<1> HIDE DEF r
<1>2. \A i \in DOMAIN r : WholeCopy(r[i])
  <2> SUFFICES ASSUME NEW i \in DOMAIN r PROVE WholeCopy(r[i])
    OBVIOUS
  <2>1. PICK j \in DOMAIN cache : r[i] = cache[j]
    BY <1>1
  <2> QED BY <2>1, Zenon DEF CacheInv
<1> QED BY <1>1, <1>2 DEF r

LEMMA AppendedWhole ==
  ASSUME NEW s, IsList(s), \A i \in DOMAIN s : WholeCopy(s[i]), NEW e, WholeCopy(e)
  PROVE  IsList(Append(s, e)) /\ \A i \in DOMAIN Append(s, e) : WholeCopy(Append(s, e)[i])
<1> DEFINE U == {s[i] : i \in DOMAIN s} \cup {e}
           t == Append(s, e)
<1>1. s \in Seq(U) /\ e \in U
  BY DEF IsList
<1> HIDE DEF WholeCopy
<1>2. \A x \in U : WholeCopy(x)
  OBVIOUS
<1> HIDE DEF U
<1>3. t \in Seq(U)
  BY <1>1
<1> HIDE DEF t
<1>4. t \in Seq({t[i] : i \in DOMAIN t}) /\ \A i \in DOMAIN t : t[i] \in U
  BY <1>3
<1> QED BY <1>2, <1>4 DEF t, IsList

LEMMA CacheInit == ThumbsPart!Init => CacheInv
<1> SUFFICES ASSUME ThumbsPart!Init PROVE CacheInv
  OBVIOUS
<1>1. cache = <<>>
  BY DEF ThumbsPart!Init
<1> QED BY <1>1 DEF CacheInv, IsList

LEMMA CacheStep == CacheInv /\ [ThumbsPart!Next]_thumbs => CacheInv'
<1> SUFFICES ASSUME CacheInv, [ThumbsPart!Next]_thumbs PROVE CacheInv'
  OBVIOUS
<1>a. CASE UNCHANGED cache
  BY <1>a DEF CacheInv
<1>b. ASSUME NEW out, cache' = ThumbsPart!Removed(cache, out) PROVE CacheInv'
  BY <1>b, RemovedWhole DEF CacheInv
<1>c. ASSUME NEW out, NEW e, WholeCopy(e), cache' = Append(ThumbsPart!Removed(cache, out), e) PROVE CacheInv'
  BY <1>c, RemovedWhole, AppendedWhole, Zenon DEF CacheInv
<1>1. CASE UNCHANGED thumbs
  BY <1>1, <1>a DEF thumbs
<1>2. CASE ThumbsPart!cleanup_display_cache
  BY <1>2, <1>b DEF ThumbsPart!cleanup_display_cache
<1>3. CASE ThumbsPart!RemoveThumbnail
  BY <1>3, <1>b DEF ThumbsPart!RemoveThumbnail, ThumbsPart!Without
<1>4. CASE ThumbsPart!Kill
  <2> DEFINE new(e) == IF e.name = "partial" THEN [e EXCEPT !.name = "left"] ELSE e
             t == [i \in DOMAIN cache |-> new(cache[i])]
  <2>1. cache' = t
    BY <1>4 DEF ThumbsPart!Kill
  <2>2. \A i \in DOMAIN cache : WholeCopy(new(cache[i]))
    BY DEF CacheInv, WholeCopy
  <2>3. cache \in Seq({cache[i] : i \in DOMAIN cache})
    BY DEF CacheInv, IsList
  <2> HIDE DEF new
  <2>4. DOMAIN t = DOMAIN cache /\ t \in Seq({t[i] : i \in DOMAIN t})
    BY <2>3
  <2> QED BY <2>1, <2>2, <2>4 DEF CacheInv, IsList
<1>5. ASSUME NEW c \in Calls, ThumbsPart!try_reserve_resolve_slot(c) \/ ThumbsPart!resolve_display_thumbnails_sync(c)
                              \/ ThumbsPart!Received(c)
      PROVE  CacheInv'
  BY <1>5, <1>a DEF ThumbsPart!try_reserve_resolve_slot, ThumbsPart!resolve_display_thumbnails_sync,
    ThumbsPart!Received
<1>6. ASSUME NEW p PROVE WholeCopy(ThumbsPart!partial_derivative_path(p)) /\ WholeCopy(ThumbsPart!Entry(p, "final", "whole"))
  BY DEF WholeCopy, ThumbsPart!partial_derivative_path, ThumbsPart!Entry
<1>7. ASSUME NEW c \in Calls, ThumbsPart!resolve_one(c) PROVE CacheInv'
  <2> DEFINE e == ThumbsPart!partial_derivative_path(ThumbsPart!Asked(c))
  <2>1. \/ UNCHANGED cache
        \/ cache' = Append(ThumbsPart!Without(cache, ThumbsPart!Asked(c), {e.name}), e)
    BY <1>7 DEF ThumbsPart!resolve_one
  <2>2. WholeCopy(e)
    BY <1>6
  <2> HIDE DEF e
  <2> QED BY <2>1, <2>2, <1>a, <1>c DEF ThumbsPart!Without
<1>8. ASSUME NEW c \in Calls, ThumbsPart!generate_display_thumbnail(c) PROVE CacheInv'
  <2> DEFINE e == ThumbsPart!Entry(ThumbsPart!Asked(c), "final", "whole")
             q == ThumbsPart!Asked(c)
  <2>1. \/ cache' = Append(ThumbsPart!Without(cache, q, {"partial", "final"}), e)
        \/ cache' = ThumbsPart!Without(cache, q, {"partial"})
    BY <1>8 DEF ThumbsPart!generate_display_thumbnail
  <2>2. WholeCopy(e)
    BY <1>6
  <2> HIDE DEF e, q
  <2> QED BY <2>1, <2>2, <1>b, <1>c DEF ThumbsPart!Without
<1> QED BY <1>1, <1>2, <1>3, <1>4, <1>5, <1>7, <1>8 DEF ThumbsPart!Next

LEMMA CacheTells == CacheInv => ThumbsPart!CacheWhole
  BY DEF CacheInv, WholeCopy, ThumbsPart!CacheWhole

(***************************************************************************)
(* What is stored is an image, and a call that ended left no folder.       *)
(***************************************************************************)

\* Where a call has no folder of its own.
Outside == {"idle", "try", "prepare", "answered"}
FoldersInv ==
  /\ CallsShaped /\ DOMAIN folder = Fetchers /\ stored \subseteq {"image"}
  /\ \A c \in Fetchers : at[c].pc \in Outside => folder[c] \in {"none", "stuck"}

LEMMA FoldersInit == ImagesPart!Init => FoldersInv
<1> SUFFICES ASSUME ImagesPart!Init PROVE FoldersInv
  OBVIOUS
<1>1. \A c \in Fetchers : at[c] = ImagesPart!Start
  BY DEF ImagesPart!Init
<1>2. CallFields \subseteq DOMAIN ImagesPart!Start
  BY DEF ImagesPart!Start, CallFields
<1> QED BY <1>1, <1>2 DEF FoldersInv, CallsShaped, ImagesPart!Init

LEMMA FoldersMove ==
  ASSUME FoldersInv, NEW c \in Fetchers, CallMoves(c), stored' \subseteq {"image"}, DOMAIN folder' = Fetchers,
         \A d \in Fetchers : d # c => folder'[d] = folder[d],
         at'[c].pc \in Outside => folder'[c] \in {"none", "stuck"}
  PROVE  FoldersInv'
<1>1. CallsShaped'
  BY DEF FoldersInv, CallsShaped, CallMoves
<1>2. ASSUME NEW d \in Fetchers, at'[d].pc \in Outside PROVE folder'[d] \in {"none", "stuck"}
  BY <1>2 DEF FoldersInv, CallMoves
<1> QED BY <1>1, <1>2 DEF FoldersInv

LEMMA FoldersStep == FoldersInv /\ [ImagesPart!Next]_images => FoldersInv'
<1> SUFFICES ASSUME FoldersInv, [ImagesPart!Next]_images PROVE FoldersInv'
  OBVIOUS
<1>1. CASE UNCHANGED <<at, folder, stored>>
  BY <1>1 DEF FoldersInv, CallsShaped
<1>2. CASE UNCHANGED images
  BY <1>1, <1>2 DEF images
<1> SUFFICES ASSUME NEW c \in Fetchers,
        \/ ImagesPart!download_channel_avatar_from_handle_async(c) \/ ImagesPart!download_media_thumbnail_async(c)
        \/ ImagesPart!NextCandidate(c) \/ ImagesPart!download_thumbnail_from_url_async(c)
        \/ ImagesPart!prepare_thumbnail_dirs(c) \/ ImagesPart!Route(c) \/ ImagesPart!assert_url_host_is_public(c)
        \/ ImagesPart!Request(c) \/ ImagesPart!RequestFails(c) \/ ImagesPart!http_get_image(c)
        \/ ImagesPart!fetch_yt_dlp_metadata(c) \/ ImagesPart!Enqueue(c) \/ ImagesPart!Spawn(c) \/ ImagesPart!Converts(c)
        \/ ImagesPart!finalize_thumbnail_download(c) \/ ImagesPart!run_thumbnail_yt_dlp_with_timeout(c)
        \/ ImagesPart!persist_thumbnail_from_source_async(c) \/ ImagesPart!remove_dir_all(c)
     PROVE FoldersInv'
  BY <1>2 DEF ImagesPart!Next
<1>a. CallsShaped /\ DOMAIN folder = Fetchers /\ stored \subseteq {"image"}
      /\ (at[c].pc \in Outside => folder[c] \in {"none", "stuck"})
  BY DEF FoldersInv
<1>b. ASSUME CallMoves(c), UNCHANGED <<folder, stored>>, at'[c].pc \in Outside => at[c].pc \in Outside
      PROVE  FoldersInv'
  BY <1>a, <1>b, FoldersMove
<1>c. ASSUME NEW next, CallGoes(c, next), UNCHANGED <<folder, stored>>, next \in Outside => at[c].pc \in Outside
      PROVE  FoldersInv'
  BY <1>b, <1>c DEF CallGoes
<1>d. ASSUME NEW next, CallGoes(c, next), UNCHANGED stored, NEW there, folder' = [folder EXCEPT ![c] = there],
             next \in Outside => there \in {"none", "stuck"}
      PROVE  FoldersInv'
  <2>1. CallMoves(c) /\ at'[c].pc = next /\ folder'[c] = there /\ DOMAIN folder' = Fetchers
        /\ \A d \in Fetchers : d # c => folder'[d] = folder[d]
    BY <1>a, <1>d DEF CallGoes
  <2> QED BY <1>a, <1>d, <2>1, FoldersMove
<1>3. CASE ImagesPart!download_channel_avatar_from_handle_async(c)
  <2>1. CASE folder' = [folder EXCEPT ![c] = "there"] /\ ImagesPart!Goes(c, "queue")
    <3>1. CallGoes(c, "queue")
      BY <2>1, <1>a, CallSteps
    <3>2. UNCHANGED stored /\ "queue" \notin Outside
      BY <1>3 DEF Outside, ImagesPart!download_channel_avatar_from_handle_async
    <3>3. folder' = [folder EXCEPT ![c] = "there"]
      BY <2>1
    <3> QED BY <3>1, <3>2, <3>3, <1>d
  <2>2. CASE ImagesPart!Answers(c, "error") /\ UNCHANGED folder
    BY <2>2, <1>3, <1>c, <1>a, CallSteps DEF Outside, ImagesPart!download_channel_avatar_from_handle_async
  <2> QED BY <1>3, <2>1, <2>2 DEF ImagesPart!download_channel_avatar_from_handle_async
<1>4. CASE ImagesPart!download_media_thumbnail_async(c)
  BY <1>4, <1>c, <1>a, CallSteps DEF Outside, ImagesPart!download_media_thumbnail_async
<1>5. CASE ImagesPart!NextCandidate(c)
  <2>1. CASE \E u, t, a : at' = [at EXCEPT ![c] = [ImagesPart!Start EXCEPT !.pc = "prepare", !.url = u, !.tries = t, !.answer = a]]
    <3>1. PICK u, t, a : at' = [at EXCEPT ![c] = [ImagesPart!Start EXCEPT !.pc = "prepare", !.url = u, !.tries = t, !.answer = a]]
      BY <2>1
    <3> DEFINE r == [ImagesPart!Start EXCEPT !.pc = "prepare", !.url = u, !.tries = t, !.answer = a]
    <3>2. CallFields \subseteq DOMAIN r /\ r.pc = "prepare"
      BY DEF ImagesPart!Start, CallFields
    <3>3. at' = [at EXCEPT ![c] = r]
      BY <3>1
    <3> HIDE DEF r
    <3>4. CallMoves(c) /\ at'[c].pc = "prepare"
      BY <3>2, <3>3, <1>a DEF CallMoves, CallsShaped
    <3> QED BY <3>4, <1>5, <1>b DEF Outside, ImagesPart!NextCandidate
  <2>2. CASE ImagesPart!Answers(c, at[c].answer)
    BY <2>2, <1>5, <1>c, <1>a, CallSteps DEF Outside, ImagesPart!NextCandidate
  <2> QED BY <1>5, <2>1, <2>2 DEF ImagesPart!NextCandidate
<1>6. CASE ImagesPart!download_thumbnail_from_url_async(c)
  <2>1. CASE \E u : at' = [at EXCEPT ![c].pc = "prepare", ![c].url = u]
    <3>1. CallMoves(c) /\ at'[c].pc = "prepare"
      BY <2>1, <1>a DEF CallMoves, CallsShaped, CallFields
    <3> QED BY <3>1, <1>6, <1>b DEF Outside, ImagesPart!download_thumbnail_from_url_async
  <2>2. CASE ImagesPart!Answers(c, "error")
    BY <2>2, <1>6, <1>c, <1>a, CallSteps DEF Outside, ImagesPart!download_thumbnail_from_url_async
  <2> QED BY <1>6, <2>1, <2>2 DEF ImagesPart!download_thumbnail_from_url_async
<1>7. CASE ImagesPart!prepare_thumbnail_dirs(c)
  <2>1. CASE folder' = [folder EXCEPT ![c] = "there"] /\ ImagesPart!Goes(c, "route")
    <3>1. CallGoes(c, "route")
      BY <2>1, <1>a, CallSteps
    <3>2. UNCHANGED stored /\ "route" \notin Outside
      BY <1>7 DEF Outside, ImagesPart!prepare_thumbnail_dirs
    <3>3. folder' = [folder EXCEPT ![c] = "there"]
      BY <2>1
    <3> QED BY <3>1, <3>2, <3>3, <1>d
  <2>2. CASE UNCHANGED folder /\ (ImagesPart!Answers(c, "error") \/ at' = [at EXCEPT ![c].pc = "try", ![c].answer = "error"])
    BY <2>2, <1>7, <1>c, <1>a, CallSteps DEF Outside, ImagesPart!prepare_thumbnail_dirs
  <2> QED BY <1>7, <2>1, <2>2 DEF ImagesPart!prepare_thumbnail_dirs
<1>8. CASE ImagesPart!Route(c)
  BY <1>8, <1>c, <1>a, CallSteps DEF Outside, ImagesPart!Route
<1>9. CASE ImagesPart!assert_url_host_is_public(c)
  <2>1. CASE ImagesPart!Fails(c)
    BY <2>1, <1>9, <1>c, <1>a, CallSteps DEF Outside, ImagesPart!assert_url_host_is_public
  <2>2. CASE ImagesPart!Goes(c, IF at[c].pc = "check" THEN "dial" ELSE "probe")
    <3>1. CallGoes(c, "dial") \/ CallGoes(c, "probe")
      BY <2>2, <1>a, CallSteps
    <3> QED BY <3>1, <1>9, <1>c DEF Outside, ImagesPart!assert_url_host_is_public
  <2> QED BY <1>9, <2>1, <2>2 DEF ImagesPart!assert_url_host_is_public
<1>10. CASE ImagesPart!Request(c)
  <2>1. CASE \E u, h : at' = [at EXCEPT ![c].pc = "check", ![c].hops = h, ![c].url = u]
    <3>1. CallMoves(c) /\ at'[c].pc = "check"
      BY <2>1, <1>a DEF CallMoves, CallsShaped, CallFields
    <3> QED BY <3>1, <1>10, <1>b DEF Outside, ImagesPart!Request
  <2>2. CASE ImagesPart!Fails(c) \/ ImagesPart!Goes(c, "body")
    BY <2>2, <1>10, <1>c, <1>a, CallSteps DEF Outside, ImagesPart!Request
  <2> QED BY <1>10, <2>1, <2>2 DEF ImagesPart!Request
<1>11. CASE ImagesPart!RequestFails(c) \/ ImagesPart!fetch_yt_dlp_metadata(c)
  BY <1>11, <1>c, <1>a, CallSteps DEF Outside, ImagesPart!RequestFails, ImagesPart!fetch_yt_dlp_metadata
<1>12. CASE ImagesPart!http_get_image(c)
  BY <1>12, <1>c, <1>a, CallSteps DEF Outside, ImagesPart!http_get_image
<1>13. CASE ImagesPart!Enqueue(c) \/ ImagesPart!Spawn(c)
  BY <1>13, <1>c, <1>a, CallSteps DEF Outside, ImagesPart!Enqueue, ImagesPart!Spawn
<1>14. CASE ImagesPart!Converts(c)
  BY <1>1, <1>14 DEF ImagesPart!Converts
<1>15. CASE ImagesPart!finalize_thumbnail_download(c) \/ ImagesPart!run_thumbnail_yt_dlp_with_timeout(c)
  BY <1>15, <1>c, <1>a, CallSteps DEF Outside, ImagesPart!finalize_thumbnail_download,
    ImagesPart!run_thumbnail_yt_dlp_with_timeout
<1>16. CASE ImagesPart!persist_thumbnail_from_source_async(c)
  <2>1. CallGoes(c, "clean") /\ stored' \subseteq {"image"} /\ UNCHANGED folder
    BY <1>16, <1>a, CallSteps DEF ImagesPart!persist_thumbnail_from_source_async
  <2> QED BY <2>1, <1>a, FoldersMove DEF CallGoes, Outside
<1>17. CASE ImagesPart!remove_dir_all(c)
  <2>1. PICK there \in {"none", "stuck"} : folder' = [folder EXCEPT ![c] = there]
    BY <1>17 DEF ImagesPart!remove_dir_all
  <2>2. CallGoes(c, "try") \/ CallGoes(c, "answered")
    BY <1>17, <1>a, CallSteps DEF ImagesPart!remove_dir_all
  <2>3. UNCHANGED stored
    BY <1>17 DEF ImagesPart!remove_dir_all
  <2> QED BY <2>1, <2>2, <2>3, <1>d
<1> QED BY <1>3, <1>4, <1>5, <1>6, <1>7, <1>8, <1>9, <1>10, <1>11, <1>12, <1>13, <1>14, <1>15, <1>16, <1>17

LEMMA FoldersTell == FoldersInv => ImagesPart!ImagesWhole
  BY DEF FoldersInv, ImagesPart!ImagesWhole, Outside

(***************************************************************************)
(* The archive of comments: what a merge does to the rows there are.       *)
(***************************************************************************)
DbFields == {"media", "rows", "seq"}
MediaFields == {"video", "count", "has", "state"}
RowFields == {"row", "media", "id", "author", "handle", "text", "original_text", "published_at", "of"}
CommentFields == {"id", "author", "handle", "text", "published_at", "of"}

SoundRow(c) == RowFields \subseteq DOMAIN c /\ c.text # CommentsPart!None
Sound(d) ==
  /\ DbFields \subseteq DOMAIN d /\ IsList(d.media)
  /\ \A k \in DOMAIN d.media : MediaFields \subseteq DOMAIN d.media[k]
  /\ \A c \in d.rows : SoundRow(c) /\ c.media \in DOMAIN d.media
Brought(c, v) == CommentFields \subseteq DOMAIN c /\ c.text # CommentsPart!None /\ c.of = v

\* What stands under the media m was written under the video v.
RowsUnder(d, m, v) == \A c \in d.rows : SoundRow(c) /\ (c.media = m => c.of = v)

\* The database e is d with comments of the video v merged into the media m.
Grown(d, e, m, v) ==
  /\ DbFields \subseteq DOMAIN e /\ e.media = d.media /\ RowsUnder(e, m, v)
  /\ \A c : c.media # m => (c \in e.rows <=> c \in d.rows)
  /\ \A c \in d.rows : \E k \in e.rows : k.row = c.row /\ CommentsPart!Archive(c, k)

LEMMA ArchiveIsKept ==
  /\ \A c : CommentsPart!Archive(c, c)
  /\ \A a, b, c : CommentsPart!Archive(a, b) /\ CommentsPart!Archive(b, c) => CommentsPart!Archive(a, c)
  BY DEF CommentsPart!Archive

LEMMA GrownStays ==
  ASSUME NEW d, NEW m, NEW v, DbFields \subseteq DOMAIN d, RowsUnder(d, m, v)
  PROVE  Grown(d, d, m, v)
  BY ArchiveIsKept DEF Grown

LEMMA GrownAgain ==
  ASSUME NEW d, NEW e, NEW f, NEW m, NEW v, Grown(d, e, m, v), Grown(e, f, m, v)
  PROVE  Grown(d, f, m, v)
<1>1. ASSUME NEW c \in d.rows PROVE \E k \in f.rows : k.row = c.row /\ CommentsPart!Archive(c, k)
  <2>1. PICK b \in e.rows : b.row = c.row /\ CommentsPart!Archive(c, b)
    BY DEF Grown
  <2>2. PICK k \in f.rows : k.row = b.row /\ CommentsPart!Archive(b, k)
    BY DEF Grown
  <2> QED BY <2>1, <2>2, ArchiveIsKept
<1> QED BY <1>1 DEF Grown

\* A stored row that is met again keeps what it was archived with.
LEMMA UpsertKeeps ==
  ASSUME NEW r, SoundRow(r), NEW c, NEW v, Brought(c, v)
  PROVE  LET u == CommentsPart!COMMENT_UPSERT_CLAUSE(r, c)
         IN  SoundRow(u) /\ u.row = r.row /\ u.media = r.media /\ u.of = r.of /\ CommentsPart!Archive(r, u)
<1> DEFINE u == CommentsPart!COMMENT_UPSERT_CLAUSE(r, c)
<1>1. /\ RowFields \subseteq DOMAIN u /\ u.row = r.row /\ u.media = r.media /\ u.of = r.of /\ u.text = c.text
      /\ u.author = (IF c.author = CommentsPart!Unknown THEN r.author ELSE c.author)
      /\ u.handle = CommentsPart!COALESCE(c.handle, r.handle)
      /\ u.original_text = CommentsPart!COALESCE(r.original_text, IF c.text # r.text THEN r.text ELSE CommentsPart!None)
      /\ u.published_at = CommentsPart!COALESCE(r.published_at, c.published_at)
  BY DEF CommentsPart!COMMENT_UPSERT_CLAUSE, SoundRow, RowFields
<1> HIDE DEF u
<1>2. CommentsPart!Archive(r, u)
  BY <1>1 DEF CommentsPart!Archive, CommentsPart!FirstText, CommentsPart!COALESCE, SoundRow, Brought
<1> QED BY <1>1, <1>2 DEF u, SoundRow, Brought

LEMMA InsertedGrows ==
  ASSUME NEW d, NEW m, NEW v, NEW c, DbFields \subseteq DOMAIN d, RowsUnder(d, m, v), Brought(c, v)
  PROVE  Grown(d, CommentsPart!Inserted(d, m, c), m, v)
<1> DEFINE e == CommentsPart!Inserted(d, m, c)
           r == [row |-> d.seq + 1, media |-> m, id |-> c.id, author |-> c.author, handle |-> c.handle,
                 text |-> c.text, original_text |-> CommentsPart!None, published_at |-> c.published_at, of |-> c.of]
<1>1. DbFields \subseteq DOMAIN e /\ e.media = d.media /\ e.rows = d.rows \cup {r}
  BY DEF CommentsPart!Inserted, DbFields
<1>2. SoundRow(r) /\ r.media = m /\ r.of = v
  BY DEF SoundRow, RowFields, Brought
<1> HIDE DEF e, r
<1>3. RowsUnder(e, m, v)
  BY <1>1, <1>2 DEF RowsUnder
<1>4. \A b \in d.rows : b \in e.rows /\ b.row = b.row /\ CommentsPart!Archive(b, b)
  BY <1>1, ArchiveIsKept
<1>5. \A b : b.media # m => (b \in e.rows <=> b \in d.rows)
  BY <1>1, <1>2
<1> QED BY <1>1, <1>3, <1>4, <1>5 DEF Grown, e

LEMMA StoredGrows ==
  ASSUME NEW d, NEW m, NEW v, NEW c, DbFields \subseteq DOMAIN d, RowsUnder(d, m, v), Brought(c, v)
  PROVE  Grown(d, CommentsPart!Stored(d, m, c), m, v)
<1> DEFINE same == {r \in CommentsPart!RowsOf(d, m) : r.id = c.id}
           u(r) == CommentsPart!COMMENT_UPSERT_CLAUSE(r, c)
           e == [d EXCEPT !.rows = (@ \ same) \cup {u(r) : r \in same}]
<1>1. \/ CommentsPart!Stored(d, m, c) = d
      \/ CommentsPart!Stored(d, m, c) = CommentsPart!Inserted(d, m, c)
      \/ CommentsPart!Stored(d, m, c) = e
  BY DEF CommentsPart!Stored, CommentsPart!insert_comments_without_id, CommentsPart!upsert_comments_with_id
<1>2. Grown(d, e, m, v)
  <2>1. DbFields \subseteq DOMAIN e /\ e.media = d.media /\ e.rows = (d.rows \ same) \cup {u(r) : r \in same}
    BY DEF DbFields
  <2>2. \A r \in same : r \in d.rows /\ r.media = m
    BY DEF CommentsPart!RowsOf
  <2>3. ASSUME NEW r \in same
        PROVE  /\ SoundRow(u(r)) /\ u(r).row = r.row /\ u(r).media = m /\ u(r).of = v
               /\ CommentsPart!Archive(r, u(r))
    BY <2>2, UpsertKeeps DEF RowsUnder
  <2> HIDE DEF e, u, same
  <2>4. RowsUnder(e, m, v)
    BY <2>1, <2>3 DEF RowsUnder
  <2>5. \A b : b.media # m => (b \in e.rows <=> b \in d.rows)
    BY <2>1, <2>2, <2>3
  <2>6. ASSUME NEW b \in d.rows PROVE \E k \in e.rows : k.row = b.row /\ CommentsPart!Archive(b, k)
    <3>1. CASE b \in same
      BY <3>1, <2>1, <2>3
    <3>2. CASE b \notin same
      BY <3>2, <2>1, ArchiveIsKept
    <3> QED BY <3>1, <3>2
  <2> QED BY <2>1, <2>4, <2>5, <2>6 DEF Grown
<1>3. Grown(d, d, m, v) /\ Grown(d, CommentsPart!Inserted(d, m, c), m, v)
  BY GrownStays, InsertedGrows
<1> HIDE DEF e
<1> QED BY <1>1, <1>2, <1>3

\* A list of comments of the video v.
AllBrought(s, v) == IsList(s) /\ \A i \in DOMAIN s : Brought(s[i], v)

LEMMA RemovedBrought ==
  ASSUME NEW s, NEW v, AllBrought(s, v), NEW out
  PROVE  AllBrought(CommentsPart!Removed(s, out), v)
<1> DEFINE r == CommentsPart!Removed(s, out)
<1>1. IsList(r) /\ \A i \in DOMAIN r : \E j \in DOMAIN s : r[i] = s[j]
  BY RemovedKeeps, SameRemoved DEF AllBrought
<1> HIDE DEF r
<1>2. \A i \in DOMAIN r : Brought(r[i], v)
  <2> SUFFICES ASSUME NEW i \in DOMAIN r PROVE Brought(r[i], v)
    OBVIOUS
  <2>1. PICK j \in DOMAIN s : r[i] = s[j]
    BY <1>1
  <2> QED BY <2>1, Zenon DEF AllBrought
<1> QED BY <1>1, <1>2 DEF r, AllBrought

LEMMA JoinedBrought ==
  ASSUME NEW s, NEW t, NEW v, AllBrought(s, v), AllBrought(t, v)
  PROVE  AllBrought(s \o t, v)
<1> DEFINE S == {s[i] : i \in DOMAIN s} \cup {t[i] : i \in DOMAIN t}
           j == s \o t
<1>1. s \in Seq(S) /\ t \in Seq(S)
  BY DEF AllBrought, IsList
<1>2. \A x \in S : Brought(x, v)
  BY Zenon DEF AllBrought
<1>3. j \in Seq(S)
  BY <1>1
<1> HIDE DEF S, j
<1>4. j \in Seq({j[i] : i \in DOMAIN j}) /\ \A i \in DOMAIN j : j[i] \in S
  BY <1>3
<1> QED BY <1>2, <1>4 DEF AllBrought, IsList, j

LEMMA FetchBrought ==
  ASSUME NEW f, NEW r \in Responses
  PROVE  AllBrought(CommentsPart!fetch_youtube_comments_async(f, r), fetch[f].video)
<1> DEFINE said == CommentsPart!Removed(r.comments, CommentsPart!Blanks(r.comments))
           v == fetch[f].video
           one(i) == CommentsPart!normalize_comment_metadata(said[i], v)
           t == [i \in DOMAIN said |-> one(i)]
<1>1. IsList(r.comments) /\ \A i \in DOMAIN r.comments : r.comments[i].text # CommentsPart!None
  BY ArchiveAssumption DEF IsList
<1>2. IsList(said) /\ \A i \in DOMAIN said : \E j \in DOMAIN r.comments : said[i] = r.comments[j]
  BY <1>1, RemovedKeeps, SameRemoved
<1>3. \A i \in DOMAIN said : said[i].text # CommentsPart!None
  BY <1>1, <1>2, Zenon
<1> HIDE DEF said, v
<1>4. \A i \in DOMAIN said : Brought(one(i), v)
  BY <1>3 DEF CommentsPart!normalize_comment_metadata, Brought, CommentFields
<1>5. said \in Seq({said[i] : i \in DOMAIN said})
  BY <1>2 DEF IsList
<1> HIDE DEF one
<1>6. t \in Seq({t[i] : i \in DOMAIN t}) /\ \A i \in DOMAIN t : t[i] = one(i)
  BY <1>5
<1>7. AllBrought(t, v)
  BY <1>4, <1>6 DEF AllBrought, IsList
<1> QED BY <1>7, Zenon DEF CommentsPart!fetch_youtube_comments_async, t, said, v, one

\* The comments of a list are stored one after the other.
Unfolds(F, d, m, s, n) == F = [i \in 0 .. n |-> IF i = 0 THEN d ELSE CommentsPart!Stored(F[i - 1], m, s[i])]

LEMMA MergesUnfold ==
  ASSUME NEW d, NEW m, NEW s, NEW n \in Nat
  PROVE  \E F : Unfolds(F, d, m, s, n)
<1> DEFINE Put(x, i) == CommentsPart!Stored(x, m, s[i])
<1> HIDE DEF Put
<1> DEFINE Is(F, k) == F = [i \in 0 .. k |-> IF i = 0 THEN d ELSE Put(F[i - 1], i)]
           S == {k \in Nat : \E F : Is(F, k)}
<1>1. 0 \in S
  <2> DEFINE F == [i \in 0 .. 0 |-> d]
  <2>1. Is(F, 0)
    OBVIOUS
  <2> QED BY <2>1
<1>2. ASSUME NEW k \in Nat, k \in S PROVE k + 1 \in S
  <2>1. PICK F : Is(F, k)
    BY <1>2
  <2> DEFINE G == [i \in 0 .. (k + 1) |-> IF i = k + 1 THEN Put(F[k], k + 1) ELSE F[i]]
  <2>2. ASSUME NEW i \in 0 .. (k + 1) PROVE G[i] = IF i = 0 THEN d ELSE Put(G[i - 1], i)
    <3>1. CASE i = k + 1
      <4>1. i - 1 = k /\ k \in 0 .. (k + 1) /\ k # k + 1 /\ i # 0
        BY <3>1
      <4>2. G[i - 1] = F[k] /\ G[i] = Put(F[k], k + 1)
        BY <3>1, <4>1
      <4> QED BY <3>1, <4>1, <4>2
    <3>2. CASE i # k + 1 /\ i # 0
      <4>1. i \in 0 .. k /\ i - 1 \in 0 .. (k + 1) /\ i - 1 # k + 1
        BY <3>2
      <4>2. G[i - 1] = F[i - 1] /\ G[i] = F[i]
        BY <3>2, <4>1
      <4>3. F[i] = Put(F[i - 1], i)
        BY <2>1, <3>2, <4>1
      <4> QED BY <3>2, <4>2, <4>3
    <3>3. CASE i = 0
      <4>1. 0 \in 0 .. k /\ i # k + 1
        BY <3>3
      <4>2. F[0] = d
        BY <2>1, <4>1
      <4> QED BY <3>3, <4>1, <4>2
    <3> QED BY <3>1, <3>2, <3>3
  <2>3. Is(G, k + 1)
    BY <2>2
  <2> HIDE DEF G
  <2>4. \E H : Is(H, k + 1)
    BY <2>3, Zenon
  <2> QED BY <2>4
<1> HIDE DEF S
<1>3. n \in S
  BY <1>1, <1>2, SetInduction
<1>4. PICK F : Is(F, n)
  BY <1>3 DEF S
<1>5. Unfolds(F, d, m, s, n)
  BY <1>4 DEF Unfolds, Put
<1> QED BY <1>5

\* The database x is d with comments of the video v merged into the media m, and counted.
Merges(d, m, v, x) == \E e, s : Grown(d, e, m, v) /\ x = CommentsPart!Counted(e, m, s)

LEMMA MergeGrows ==
  ASSUME NEW d, NEW m, NEW v, NEW got, DbFields \subseteq DOMAIN d, RowsUnder(d, m, v), AllBrought(got, v)
  PROVE  Merges(d, m, v, CommentsPart!merge_media_comments_in_pool(d, m, got))
<1> DEFINE prepared == CommentsPart!prepare_comment_rows(got)
           inOrder == CommentsPart!Removed(prepared, {i \in DOMAIN prepared : prepared[i].id = CommentsPart!None})
                      \o CommentsPart!Removed(prepared, {i \in DOMAIN prepared : prepared[i].id # CommentsPart!None})
           merged[i \in 0 .. Len(inOrder)] ==
             IF i = 0 THEN d ELSE CommentsPart!Stored(merged[i - 1], m, inOrder[i])
           n == Len(inOrder)
           Body(F) == [i \in 0 .. n |-> IF i = 0 THEN d ELSE CommentsPart!Stored(F[i - 1], m, inOrder[i])]
<1>1. AllBrought(prepared, v)
  BY RemovedBrought DEF CommentsPart!prepare_comment_rows, CommentsPart!dedupe_comments_by_id
<1>2. CommentsPart!merge_media_comments_in_pool(d, m, got) = CommentsPart!Counted(merged[n], m, prepared)
  BY Zenon DEF CommentsPart!merge_media_comments_in_pool
<1> HIDE DEF prepared
<1>3. AllBrought(inOrder, v)
  BY <1>1, RemovedBrought, JoinedBrought
<1> HIDE DEF inOrder
<1>4. n \in Nat /\ \A i \in 1 .. n : Brought(inOrder[i], v)
  BY <1>3 DEF AllBrought, IsList
<1>5. merged = Body(merged)
  <2>1. \E G : G = Body(G)
    <3>1. PICK G : Unfolds(G, d, m, inOrder, n)
      <4> HIDE DEF n
      <4> QED BY <1>4, MergesUnfold, Zenon
    <3>2. G = Body(G)
      BY <3>1, Zenon DEF Unfolds
    <3> HIDE DEF Body
    <3> QED BY <3>2
  <2>2. (CHOOSE G : G = Body(G)) = Body(CHOOSE G : G = Body(G))
    <3> HIDE DEF Body
    <3> QED BY <2>1, Zenon
  <2> QED BY <2>2, Zenon
<1> HIDE DEF merged, n
<1> DEFINE S == {i \in Nat : i <= n => Grown(d, merged[i], m, v)}
<1>6. n \in S
  <2>1. 0 \in S
    <3>1. merged[0] = d
      BY <1>4, <1>5
    <3> QED BY <3>1, GrownStays
  <2>2. ASSUME NEW i \in Nat, i \in S PROVE i + 1 \in S
    <3>1. CASE i + 1 <= n
      <4>1. i + 1 \in Nat /\ i + 1 \in 0 .. n /\ i + 1 \in 1 .. n /\ i + 1 # 0 /\ (i + 1) - 1 = i
        BY <3>1, <1>4
      <4>2. Grown(d, merged[i], m, v)
        BY <2>2, <3>1, <1>4
      <4>3. merged[i + 1] = CommentsPart!Stored(merged[i], m, inOrder[i + 1])
        BY <4>1, <1>5
      <4>4. Grown(merged[i], merged[i + 1], m, v)
        <5>1. DbFields \subseteq DOMAIN merged[i] /\ RowsUnder(merged[i], m, v)
          BY <4>2 DEF Grown
        <5>2. Brought(inOrder[i + 1], v)
          BY <4>1, <1>4
        <5>3. Grown(merged[i], CommentsPart!Stored(merged[i], m, inOrder[i + 1]), m, v)
          BY <5>1, <5>2, StoredGrows, Zenon
        <5> QED BY <5>3, <4>3
      <4> QED BY <4>1, <4>2, <4>4, GrownAgain
    <3>2. CASE ~(i + 1 <= n)
      BY <3>2
    <3> QED BY <3>1, <3>2
  <2> HIDE DEF S
  <2>3. Nat \subseteq S
    BY <2>1, <2>2, SetInduction, Zenon
  <2> QED BY <2>3, <1>4
<1>7. Grown(d, merged[n], m, v)
  BY <1>4, <1>6
<1> QED BY <1>2, <1>7, Zenon DEF Merges

LEMMA CountedOnly ==
  ASSUME NEW d, Sound(d), NEW e, DbFields \subseteq DOMAIN e, e.media = d.media, NEW m \in DOMAIN d.media, NEW s
  PROVE  LET x == CommentsPart!Counted(e, m, s)
             n == CommentsPart!Cardinality(CommentsPart!RowsOf(e, m))
         IN  /\ DbFields \subseteq DOMAIN x /\ x.rows = e.rows /\ IsList(x.media) /\ DOMAIN x.media = DOMAIN d.media
             /\ \A k \in DOMAIN d.media : k # m => x.media[k] = d.media[k]
             /\ MediaFields \subseteq DOMAIN x.media[m] /\ x.media[m].video = d.media[m].video
             /\ x.media[m].count = n /\ x.media[m].has = (n > 0)
             /\ x.media[m].state = IF n > 0 THEN "available" ELSE "none"
<1> DEFINE n == CommentsPart!Cardinality(CommentsPart!RowsOf(e, m))
           counted == [d.media[m] EXCEPT !.count = n, !.has = n > 0, !.state = IF n > 0 THEN "available" ELSE "none"]
           t == [d.media EXCEPT ![m] = counted]
           x == CommentsPart!Counted(e, m, s)
<1>1. MediaFields \subseteq DOMAIN d.media[m]
  BY DEF Sound
<1> HIDE DEF n
<1>2. /\ MediaFields \subseteq DOMAIN counted /\ counted.video = d.media[m].video /\ counted.count = n /\ counted.has = (n > 0)
      /\ counted.state = IF n > 0 THEN "available" ELSE "none"
  BY <1>1 DEF MediaFields
<1>3. x = [e EXCEPT !.media = t]
  BY Zenon DEF CommentsPart!Counted, n
<1> HIDE DEF counted
<1>4. d.media \in Seq({d.media[k] : k \in DOMAIN d.media})
  BY DEF Sound, IsList
<1>5. DOMAIN t = DOMAIN d.media /\ t[m] = counted /\ \A k \in DOMAIN d.media : k # m => t[k] = d.media[k]
  OBVIOUS
<1>6. IsList(t)
  <2> DEFINE W == {d.media[k] : k \in DOMAIN d.media} \cup {counted}
  <2>1. d.media \in Seq(W) /\ counted \in W
    BY <1>4
  <2> HIDE DEF W
  <2>2. t \in Seq(W)
    BY <2>1
  <2> HIDE DEF t
  <2>3. t \in Seq({t[k] : k \in DOMAIN t})
    BY <2>2
  <2> QED BY <2>3 DEF IsList
<1> HIDE DEF t
<1>7. DbFields \subseteq DOMAIN x /\ x.rows = e.rows /\ x.media = t
  BY <1>3 DEF DbFields
<1> QED BY <1>2, <1>5, <1>6, <1>7 DEF n, x

\* A fetch under way has a row of its own video, or one that was deleted.
FetchFits(f) ==
  fetch[f].pc = "youtube" =>
     fetch[f].media \in DOMAIN db.media /\ db.media[fetch[f].media].video \in {fetch[f].video, CommentsPart!None}

ArchiveInv ==
  /\ Sound(db) /\ CommentsPart!Own(db) /\ CommentsPart!Told(db)
  /\ DOMAIN fetch = Fetches /\ \A f \in Fetches : FetchFits(f)

\* What a step does to the archive: a row stays with what it was archived with unless its media is
\* deleted, and an answer about a media is not taken back.
Archives(d, e) ==
  /\ \A c \in d.rows : e.media[c.media].video # CommentsPart!None =>
        \E kept \in e.rows : kept.row = c.row /\ CommentsPart!Archive(c, kept)
  /\ \A m \in DOMAIN d.media : d.media[m].state # "unknown" =>
        e.media[m].state # "unknown" \/ e.media[m].video = CommentsPart!None

LEMMA MergeTells ==
  ASSUME NEW d, Sound(d), CommentsPart!Own(d), CommentsPart!Told(d), NEW m \in DOMAIN d.media, NEW e,
         Grown(d, e, m, d.media[m].video), NEW s, NEW x, x = CommentsPart!Counted(e, m, s)
  PROVE  /\ Sound(x) /\ CommentsPart!Own(x) /\ CommentsPart!Told(x) /\ Archives(d, x)
         /\ DOMAIN x.media = DOMAIN d.media /\ \A k \in DOMAIN d.media : x.media[k].video = d.media[k].video
<1> DEFINE n == CommentsPart!Cardinality(CommentsPart!RowsOf(e, m))
<1>1. /\ DbFields \subseteq DOMAIN x /\ x.rows = e.rows /\ IsList(x.media) /\ DOMAIN x.media = DOMAIN d.media
      /\ \A k \in DOMAIN d.media : k # m => x.media[k] = d.media[k]
      /\ MediaFields \subseteq DOMAIN x.media[m] /\ x.media[m].video = d.media[m].video
      /\ x.media[m].count = n /\ x.media[m].has = (n > 0)
      /\ x.media[m].state = IF n > 0 THEN "available" ELSE "none"
  BY CountedOnly DEF Grown
<1> HIDE DEF n
<1>2. \A c \in x.rows : SoundRow(c) /\ (c.media = m => c.of = d.media[m].video) /\ (c.media # m => c \in d.rows)
  BY <1>1 DEF Grown, RowsUnder
<1>3. Sound(x)
  BY <1>1, <1>2 DEF Sound
<1>4. CommentsPart!Own(x)
  BY <1>1, <1>2 DEF CommentsPart!Own, Sound
<1>5. ASSUME NEW k \in DOMAIN d.media, k # m PROVE CommentsPart!RowsOf(x, k) = CommentsPart!RowsOf(d, k)
  BY <1>1, <1>5 DEF CommentsPart!RowsOf, Grown
<1>6. CommentsPart!RowsOf(x, m) = CommentsPart!RowsOf(e, m)
  BY <1>1 DEF CommentsPart!RowsOf
<1>7. CommentsPart!Told(x)
  <2> SUFFICES ASSUME NEW k \in DOMAIN d.media
               PROVE LET q == CommentsPart!Cardinality(CommentsPart!RowsOf(x, k)) IN
                     /\ x.media[k].count = q /\ x.media[k].has = (q > 0)
                     /\ x.media[k].state = "available" <=> q > 0
    BY <1>1, Zenon DEF CommentsPart!Told
  <2>1. CASE k = m
    <3>1. CommentsPart!Cardinality(CommentsPart!RowsOf(x, m)) = n
      BY <1>6 DEF n
    <3> QED BY <2>1, <3>1, <1>1
  <2>2. CASE k # m
    <3>1. CommentsPart!RowsOf(x, k) = CommentsPart!RowsOf(d, k) /\ x.media[k] = d.media[k]
      BY <2>2, <1>1, <1>5
    <3> QED BY <3>1, Zenon DEF CommentsPart!Told
  <2> QED BY <2>1, <2>2
<1>8. Archives(d, x)
  BY <1>1 DEF Archives, Grown
<1> QED BY <1>1, <1>3, <1>4, <1>7, <1>8

LEMMA SameCommentsCardinality ==
  ASSUME NEW S
  PROVE  CommentsPart!Cardinality(S) = Cardinality(S)
  BY Zenon DEF Cardinality, CommentsPart!Cardinality

LEMMA NoRows == CommentsPart!Cardinality({}) = 0
  BY SameCommentsCardinality, FS_EmptySet

LEMMA ArchiveInit == CommentsPart!Init => ArchiveInv
<1> SUFFICES ASSUME CommentsPart!Init PROVE ArchiveInv
  OBVIOUS
<1>1. CommentsPart!Idle.pc = "idle"
  BY DEF CommentsPart!Idle
<1>2. /\ DbFields \subseteq DOMAIN db /\ db.media = <<>> /\ db.rows = {}
      /\ DOMAIN fetch = Fetches /\ \A f \in Fetches : fetch[f] = CommentsPart!Idle
  BY DEF CommentsPart!Init, DbFields
<1>3. IsList(<<>>) /\ DOMAIN <<>> = {}
  BY DEF IsList
<1> QED BY <1>1, <1>2, <1>3 DEF ArchiveInv, Sound, CommentsPart!Own, CommentsPart!Told, FetchFits

\* A call that is not at work has no media.
LEMMA FetchesStay ==
  ASSUME ArchiveInv, DOMAIN fetch' = Fetches, DOMAIN db.media \subseteq DOMAIN db'.media,
         \A k \in DOMAIN db.media : db'.media[k].video \in {db.media[k].video, CommentsPart!None},
         \A f \in Fetches : fetch'[f] = fetch[f] \/ fetch'[f].pc = "idle"
  PROVE  \A f \in Fetches : FetchFits(f)'
  BY DEF ArchiveInv, FetchFits

LEMMA ArchivesStay ==
  ASSUME ArchiveInv, UNCHANGED db
  PROVE  Archives(db, db')
  BY ArchiveIsKept DEF Archives

LEMMA ArchiveStep ==
  ArchiveInv /\ [CommentsPart!Next]_comments => ArchiveInv' /\ (session' = session => Archives(db, db'))
<1> SUFFICES ASSUME ArchiveInv, [CommentsPart!Next]_comments
             PROVE  ArchiveInv' /\ (session' = session => Archives(db, db'))
  OBVIOUS
<1>a. CommentsPart!Idle.pc = "idle"
  BY DEF CommentsPart!Idle
<1>b. ASSUME NEW f \in Fetches, fetch' = [fetch EXCEPT ![f] = CommentsPart!Idle]
      PROVE  DOMAIN fetch' = Fetches /\ \A g \in Fetches : fetch'[g] = fetch[g] \/ fetch'[g].pc = "idle"
  BY <1>a, <1>b DEF ArchiveInv
\* The database stays, and so does what the fetches have.
<1>c. ASSUME UNCHANGED db, DOMAIN fetch' = Fetches, \A g \in Fetches : fetch'[g] = fetch[g] \/ fetch'[g].pc = "idle"
      PROVE  ArchiveInv' /\ Archives(db, db')
  <2>1. \A g \in Fetches : FetchFits(g)'
    BY <1>c, FetchesStay
  <2>2. Sound(db') /\ CommentsPart!Own(db') /\ CommentsPart!Told(db')
    BY <1>c DEF ArchiveInv
  <2> QED BY <1>c, <2>1, <2>2, ArchivesStay DEF ArchiveInv
<1>1. CASE UNCHANGED comments
  <2>1. UNCHANGED <<db, fetch>>
    BY <1>1 DEF comments
  <2> QED BY <2>1, <1>c DEF ArchiveInv
<1>2. CASE CommentsPart!CreateMedia
  <2>1. PICK v : /\ db' = [db EXCEPT !.media = Append(@, CommentsPart!NewMedia(v))] /\ UNCHANGED <<session, fetch>>
    BY <1>2 DEF CommentsPart!CreateMedia
  <2> DEFINE n == Len(db.media)
             new == CommentsPart!NewMedia(v)
  <2>2. IsList(db.media) /\ DbFields \subseteq DOMAIN db
    BY DEF ArchiveInv, Sound
  <2>3. DbFields \subseteq DOMAIN db' /\ db'.media = Append(db.media, new) /\ db'.rows = db.rows
    BY <2>1, <2>2 DEF DbFields
  <2>4. MediaFields \subseteq DOMAIN new /\ new.video = v /\ new.count = 0 /\ new.has = FALSE /\ new.state = "unknown"
    BY DEF CommentsPart!NewMedia, MediaFields
  <2> HIDE DEF new
  <2>5. /\ n \in Nat /\ DOMAIN db.media = 1 .. n /\ DOMAIN db'.media = 1 .. (n + 1)
        /\ \A k \in 1 .. n : db'.media[k] = db.media[k]
        /\ db'.media[n + 1] = new
    BY <2>2, <2>3 DEF IsList
  <2>6. IsList(db'.media)
    <3> DEFINE W == {db.media[k] : k \in DOMAIN db.media} \cup {new}
               t == db'.media
    <3>1. db.media \in Seq(W) /\ new \in W
      BY <2>2 DEF IsList
    <3> HIDE DEF W
    <3>2. t \in Seq(W)
      BY <3>1, <2>3
    <3> HIDE DEF t
    <3>3. t \in Seq({t[k] : k \in DOMAIN t})
      BY <3>2
    <3> QED BY <3>3 DEF IsList, t
  <2>7. \A k \in DOMAIN db'.media : (k \in DOMAIN db.media /\ db'.media[k] = db.media[k]) \/ (k = n + 1 /\ k \notin DOMAIN db.media)
    BY <2>5
  <2>8. Sound(db')
    BY <2>3, <2>4, <2>5, <2>6, <2>7 DEF ArchiveInv, Sound
  <2>9. CommentsPart!Own(db')
    BY <2>3, <2>5 DEF ArchiveInv, Sound, CommentsPart!Own
  <2>10. \A k : CommentsPart!RowsOf(db', k) = CommentsPart!RowsOf(db, k)
    BY <2>3 DEF CommentsPart!RowsOf
  <2>11. CommentsPart!Told(db')
    <3> SUFFICES ASSUME NEW k \in DOMAIN db'.media
                 PROVE LET q == CommentsPart!Cardinality(CommentsPart!RowsOf(db', k)) IN
                       /\ db'.media[k].count = q /\ db'.media[k].has = (q > 0)
                       /\ db'.media[k].state = "available" <=> q > 0
      BY Zenon DEF CommentsPart!Told
    <3>1. CASE k \in DOMAIN db.media /\ db'.media[k] = db.media[k]
      BY <3>1, <2>10, Zenon DEF ArchiveInv, CommentsPart!Told
    <3>2. CASE k = n + 1 /\ k \notin DOMAIN db.media
      <4>1. CommentsPart!RowsOf(db', k) = {}
        BY <3>2, <2>3 DEF CommentsPart!RowsOf, ArchiveInv, Sound
      <4>2. CommentsPart!Cardinality(CommentsPart!RowsOf(db', k)) = 0
        BY <4>1, NoRows, Zenon
      <4>3. db'.media[k].count = 0 /\ db'.media[k].has = FALSE /\ db'.media[k].state = "unknown"
        BY <3>2, <2>4, <2>5
      <4>4. (0 > 0) = FALSE
        OBVIOUS
      <4>5. db'.media[k].has = (0 > 0)
        BY <4>3, <4>4, Zenon
      <4>6. db'.media[k].state = "available" <=> 0 > 0
        BY <4>3
      <4> QED BY <4>2, <4>3, <4>5, <4>6, Zenon
    <3> QED BY <2>7, <3>1, <3>2
  <2>12. Archives(db, db')
    <3>1. \A m \in DOMAIN db.media : db'.media[m] = db.media[m]
      BY <2>5
    <3> QED BY <3>1, <2>3, ArchiveIsKept DEF Archives
  <2>13. \A f \in Fetches : FetchFits(f)'
    <3>1. DOMAIN db.media \subseteq DOMAIN db'.media /\ \A k \in DOMAIN db.media : db'.media[k].video = db.media[k].video
      BY <2>5
    <3> QED BY <2>1, <3>1, FetchesStay DEF ArchiveInv
  <2> QED BY <2>1, <2>8, <2>9, <2>11, <2>12, <2>13 DEF ArchiveInv
<1>3. CASE CommentsPart!DeleteMedia
  <2>1. PICK m : /\ CommentsPart!Exists(m) /\ UNCHANGED <<session, fetch>>
                 /\ db' = [db EXCEPT !.media[m] = CommentsPart!NewMedia(CommentsPart!None), !.rows = @ \ CommentsPart!RowsOf(db, m)]
    BY <1>3 DEF CommentsPart!DeleteMedia
  <2> DEFINE new == CommentsPart!NewMedia(CommentsPart!None)
             t == [db.media EXCEPT ![m] = new]
  <2>2. IsList(db.media) /\ DbFields \subseteq DOMAIN db /\ m \in DOMAIN db.media
    BY <2>1 DEF ArchiveInv, Sound, CommentsPart!Exists
  <2>3. MediaFields \subseteq DOMAIN new /\ new.video = CommentsPart!None /\ new.count = 0 /\ new.has = FALSE /\ new.state = "unknown"
    BY DEF CommentsPart!NewMedia, MediaFields
  <2>4. db' = [db EXCEPT !.media = t, !.rows = @ \ CommentsPart!RowsOf(db, m)]
    BY <2>1
  <2> HIDE DEF new
  <2>5. DOMAIN t = DOMAIN db.media /\ t[m] = new /\ \A k \in DOMAIN db.media : k # m => t[k] = db.media[k]
    BY <2>2
  <2>6. IsList(t)
    <3> DEFINE W == {db.media[k] : k \in DOMAIN db.media} \cup {new}
    <3>1. db.media \in Seq(W) /\ new \in W
      BY <2>2 DEF IsList
    <3> HIDE DEF W
    <3>2. t \in Seq(W)
      BY <3>1, <2>2
    <3> HIDE DEF t
    <3>3. t \in Seq({t[k] : k \in DOMAIN t})
      BY <3>2
    <3> QED BY <3>3 DEF IsList
  <2> HIDE DEF t
  <2>7. DbFields \subseteq DOMAIN db' /\ db'.media = t /\ \A c : c \in db'.rows <=> c \in db.rows /\ c.media # m
    BY <2>2, <2>4 DEF DbFields, CommentsPart!RowsOf
  <2>8. Sound(db')
    BY <2>3, <2>5, <2>6, <2>7 DEF ArchiveInv, Sound
  <2>9. CommentsPart!Own(db')
    BY <2>5, <2>7 DEF ArchiveInv, Sound, CommentsPart!Own
  <2>10. ASSUME NEW k \in DOMAIN db.media, k # m PROVE CommentsPart!RowsOf(db', k) = CommentsPart!RowsOf(db, k)
    BY <2>7, <2>10 DEF CommentsPart!RowsOf
  <2>11. CommentsPart!Told(db')
    <3> SUFFICES ASSUME NEW k \in DOMAIN db.media
                 PROVE LET q == CommentsPart!Cardinality(CommentsPart!RowsOf(db', k)) IN
                       /\ db'.media[k].count = q /\ db'.media[k].has = (q > 0)
                       /\ db'.media[k].state = "available" <=> q > 0
      BY <2>5, <2>7, Zenon DEF CommentsPart!Told
    <3>1. CASE k # m
      <4>1. db'.media[k] = db.media[k] /\ CommentsPart!RowsOf(db', k) = CommentsPart!RowsOf(db, k)
        BY <3>1, <2>5, <2>7, <2>10
      <4> QED BY <4>1, Zenon DEF ArchiveInv, CommentsPart!Told
    <3>2. CASE k = m
      <4>1. CommentsPart!RowsOf(db', k) = {}
        BY <3>2, <2>7 DEF CommentsPart!RowsOf
      <4>2. CommentsPart!Cardinality(CommentsPart!RowsOf(db', k)) = 0
        BY <4>1, NoRows, Zenon
      <4>3. db'.media[k].count = 0 /\ db'.media[k].has = FALSE /\ db'.media[k].state = "unknown"
        BY <3>2, <2>3, <2>5, <2>7
      <4>4. (0 > 0) = FALSE
        OBVIOUS
      <4>5. db'.media[k].has = (0 > 0)
        BY <4>3, <4>4, Zenon
      <4>6. db'.media[k].state = "available" <=> 0 > 0
        BY <4>3
      <4> QED BY <4>2, <4>3, <4>5, <4>6, Zenon
    <3> QED BY <3>1, <3>2
  <2>12. Archives(db, db')
    <3>1. \A k \in DOMAIN db.media : db'.media[k] = db.media[k] \/ db'.media[k].video = CommentsPart!None
      BY <2>3, <2>5, <2>7
    <3>2. \A c \in db.rows : db'.media[c.media].video # CommentsPart!None => c \in db'.rows
      BY <2>3, <2>5, <2>7
    <3> QED BY <3>1, <3>2, ArchiveIsKept DEF Archives
  <2>13. \A f \in Fetches : FetchFits(f)'
    <3>1. DOMAIN db.media \subseteq DOMAIN db'.media
          /\ \A k \in DOMAIN db.media : db'.media[k].video \in {db.media[k].video, CommentsPart!None}
      BY <2>3, <2>5, <2>7
    <3> QED BY <2>1, <3>1, FetchesStay DEF ArchiveInv
  <2> QED BY <2>1, <2>8, <2>9, <2>11, <2>12, <2>13 DEF ArchiveInv
<1>4. CASE CommentsPart!apply_pending_database_import
  <2>1. session = 1 /\ session' = 2 /\ db' = Imported /\ fetch' = [f \in Fetches |-> CommentsPart!Idle]
    BY <1>4 DEF CommentsPart!apply_pending_database_import
  <2>2. Sound(Imported) /\ CommentsPart!Own(Imported) /\ CommentsPart!Told(Imported)
    BY ArchiveAssumption DEF Sound, DbFields, MediaFields, SoundRow, RowFields, IsList
  <2>3. \A f \in Fetches : fetch'[f].pc = "idle"
    BY <2>1, <1>a
  <2> QED BY <2>1, <2>2, <2>3 DEF ArchiveInv, FetchFits
<1>5. ASSUME NEW f \in Fetches, CommentsPart!fetch_media_comments(f)
      PROVE  ArchiveInv' /\ (session' = session => Archives(db, db'))
  <2>1. PICK m, v : /\ CommentsPart!ensure_video_belongs_to_media(m, v) /\ UNCHANGED db
                    /\ fetch' = [fetch EXCEPT ![f] = [pc |-> "youtube", media |-> m, video |-> v]]
    BY <1>5 DEF CommentsPart!fetch_media_comments
  <2>2. m \in DOMAIN db.media /\ db.media[m].video = v
    BY <2>1 DEF CommentsPart!ensure_video_belongs_to_media, CommentsPart!Exists
  <2>3. /\ DOMAIN fetch' = Fetches /\ fetch'[f].media = m /\ fetch'[f].video = v
        /\ \A g \in Fetches : g # f => fetch'[g] = fetch[g]
    BY <2>1 DEF ArchiveInv
  <2>4. \A g \in Fetches : FetchFits(g)'
    BY <2>1, <2>2, <2>3 DEF ArchiveInv, FetchFits
  <2>5. Sound(db') /\ CommentsPart!Own(db') /\ CommentsPart!Told(db')
    BY <2>1 DEF ArchiveInv
  <2> QED BY <2>1, <2>3, <2>4, <2>5, ArchivesStay DEF ArchiveInv
<1>6. ASSUME NEW f \in Fetches, CommentsPart!FetchFails(f)
      PROVE  ArchiveInv' /\ (session' = session => Archives(db, db'))
  BY <1>6, <1>b, <1>c DEF CommentsPart!FetchFails
<1>7. ASSUME NEW f \in Fetches, CommentsPart!store_fetched_comments(f)
      PROVE  ArchiveInv' /\ (session' = session => Archives(db, db'))
  <2> DEFINE m == fetch[f].media
             v == fetch[f].video
  <2>1. PICK r \in Responses :
          /\ fetch[f].pc = "youtube" /\ fetch' = [fetch EXCEPT ![f] = CommentsPart!Idle]
          /\ db' = CommentsPart!merge_media_comments(m, CommentsPart!fetch_youtube_comments_async(f, r))
    BY <1>7 DEF CommentsPart!store_fetched_comments
  <2> DEFINE got == CommentsPart!fetch_youtube_comments_async(f, r)
  <2>2. AllBrought(got, v)
    BY FetchBrought
  <2>3. db' = db \/ (CommentsPart!Exists(m) /\ db' = CommentsPart!merge_media_comments_in_pool(db, m, got))
    BY <2>1, Zenon DEF CommentsPart!merge_media_comments
  <2> HIDE DEF got
  <2>4. CASE UNCHANGED db
    BY <2>1, <2>4, <1>b, <1>c
  <2>5. CASE CommentsPart!Exists(m) /\ db' = CommentsPart!merge_media_comments_in_pool(db, m, got)
    <3>1. m \in DOMAIN db.media /\ db.media[m].video = v
      BY <2>1, <2>5 DEF ArchiveInv, FetchFits, CommentsPart!Exists
    <3>2. DbFields \subseteq DOMAIN db /\ RowsUnder(db, m, v)
      BY <3>1 DEF ArchiveInv, Sound, RowsUnder, CommentsPart!Own
    <3>3. Merges(db, m, v, db')
      <4> HIDE DEF m, v
      <4> QED BY <2>2, <2>5, <3>2, MergeGrows, Zenon
    <3>4. PICK e, s : Grown(db, e, m, v) /\ db' = CommentsPart!Counted(e, m, s)
      BY <3>3 DEF Merges
    <3>5. /\ Sound(db') /\ CommentsPart!Own(db') /\ CommentsPart!Told(db') /\ Archives(db, db')
          /\ DOMAIN db'.media = DOMAIN db.media /\ \A k \in DOMAIN db.media : db'.media[k].video = db.media[k].video
      <4>1. Sound(db) /\ CommentsPart!Own(db) /\ CommentsPart!Told(db) /\ Grown(db, e, m, db.media[m].video)
        BY <3>1, <3>4 DEF ArchiveInv
      <4> HIDE DEF m, v
      <4> QED BY <4>1, <3>1, <3>4, MergeTells
    <3>6. \A g \in Fetches : FetchFits(g)'
      BY <2>1, <3>5, <1>b, FetchesStay
    <3> QED BY <2>1, <3>5, <3>6, <1>b DEF ArchiveInv
  <2> QED BY <2>3, <2>4, <2>5
<1>8. ASSUME NEW r \in Readers, \/ CommentsPart!list_media_comments_by_media_id(r) \/ CommentsPart!Returned(r)
                                \/ CommentsPart!list_media_comments_within(r)
      PROVE  ArchiveInv' /\ (session' = session => Archives(db, db'))
  <2>1. UNCHANGED <<db, fetch>>
    BY <1>8 DEF CommentsPart!list_media_comments_by_media_id, CommentsPart!Returned, CommentsPart!list_media_comments_within
  <2> QED BY <2>1, <1>c DEF ArchiveInv
<1> QED BY <1>1, <1>2, <1>3, <1>4, <1>5, <1>6, <1>7, <1>8 DEF CommentsPart!Next

(***************************************************************************)
(* All parts together. A step of another part leaves the variables of a    *)
(* part as they are, so each invariant holds whichever part runs.          *)
(***************************************************************************)

BoundsInv ==
  /\ ProbesBehind /\ ImagesReach /\ RunsCount /\ TriesInv
  /\ PartialsInv /\ MakersCount /\ CopiesInv /\ ReadsInv

LEMMA PartsMove ==
  ASSUME [AllNext]_all
  PROVE  /\ [ProgramsPart!Next]_programs /\ [ImagesPart!Next]_images /\ [PreviewsPart!Next]_shots
         /\ [CookiesPart!Next]_jars /\ [ServedPart!Next]_served /\ [ThumbsPart!Next]_thumbs
         /\ [CommentsPart!Next]_comments
  BY Zenon DEF AllNext, all

LEMMA BoundsInit == AllInit => BoundsInv
  BY ProbesInit, ReachInit, RunsInit, TriesInit, PartialsInit, MakersInit, CopiesInit, ReadsInit, Zenon
  DEF AllInit, BoundsInv

LEMMA BoundsStep == BoundsInv /\ [AllNext]_all => BoundsInv'
  BY PartsMove, ProbesStep, ReachStep, RunsStep, TriesStep, PartialsStep, MakersStep, CopiesStep, ReadsStep, Zenon
  DEF BoundsInv

LEMMA BoundsTell == BoundsInv => FetchesBounded
  BY ProbesTell, ReachTells, RunsTell, TriesTell, PartialsTell, MakersTell, CopiesTell, ReadsTell, Zenon
  DEF BoundsInv, FetchesBounded

\* For any number of calls, of redirects and of runs at once: what a fetch, a preview, a run with
\* cookies, a read of the player or a program is started for stays within its bounds. A fetch asks
\* image servers over TLS at public addresses only and follows so many redirects; the candidates of
\* a media are few, direct and different; the permits and the places in the queues are as many as
\* the runs that hold them; what a preview writes is gone when it ends, a cookies copy of an earlier
\* session after the launch sweep, and the process tree of a probe when its report is made.
THEOREM FetchesStayBounded == AllSpec => []FetchesBounded
<1>1. AllInit => BoundsInv
  BY BoundsInit
<1>2. BoundsInv /\ [AllNext]_all => BoundsInv'
  BY BoundsStep
<1>3. BoundsInv => FetchesBounded
  BY BoundsTell
<1> QED BY <1>1, <1>2, <1>3, PTL DEF AllSpec

FilesInv == CacheInv /\ FoldersInv /\ PartialsInv /\ ShownInv /\ CopiesInv /\ ExportInv

LEMMA FilesInit == AllInit => FilesInv
  BY CacheInit, FoldersInit, PartialsInit, ShownInit, CopiesInit, ExportInit, Zenon DEF AllInit, FilesInv

LEMMA FilesStep == FilesInv /\ [AllNext]_all => FilesInv'
  BY PartsMove, CacheStep, FoldersStep, PartialsStep, ShownSteps, CopiesStep, ExportSteps, Zenon DEF FilesInv

LEMMA FilesTell == FilesInv => FilesKept
  BY CacheTells, FoldersTell, ShownTells, ExportTells, Zenon DEF FilesInv, FilesKept

\* For any number of calls and runs, over any deaths and restarts of the app: a display copy the
\* cache answers with is whole, an image that is stored came out of a folder of its own call, what a
\* preview or an import is answered with is a whole image of the content its name tells unless the
\* chosen file changed after it was hashed, and the export of the user's cookies that was last
\* chosen is never lost to a run that writes its renewed copy back.
THEOREM FilesStayWhole == AllSpec => []FilesKept
<1>1. AllInit => FilesInv
  BY FilesInit
<1>2. FilesInv /\ [AllNext]_all => FilesInv'
  BY FilesStep
<1>3. FilesInv => FilesKept
  BY FilesTell
<1> QED BY <1>1, <1>2, <1>3, PTL DEF AllSpec

\* For any comments yt-dlp answers with and any order of fetches, deletions and an import: until its
\* media is deleted a stored comment keeps the text it was first archived with, an author, and its
\* date; it stands under the video it was written under; and the row of the media counts what there is.
THEOREM ArchiveStaysWhole == AllSpec => ArchiveKept
<1>1. AllInit => ArchiveInv
  BY ArchiveInit, Zenon DEF AllInit
<1>2. ArchiveInv /\ [AllNext]_all => ArchiveInv'
  BY PartsMove, ArchiveStep, Zenon
<1>3. ArchiveInv => (part = "comments" => CommentsPart!OwnComments /\ CommentsPart!StateTells)
  BY Zenon DEF ArchiveInv, CommentsPart!OwnComments, CommentsPart!StateTells
<1>4. ArchiveInv /\ [AllNext]_all => [session' = session => CommentsPart!Archives]_(CommentsPart!vars)
  <2>1. Archives(db, db') <=> CommentsPart!Archives
    BY DEF Archives, CommentsPart!Archives
  <2> QED BY <2>1, PartsMove, ArchiveStep, Zenon
<1> QED BY <1>1, <1>2, <1>3, <1>4, PTL DEF AllSpec, ArchiveKept, CommentsPart!ArchiveKept
=============================================================================
