------------------------------- MODULE Tools -------------------------------
(***************************************************************************)
(* The programs the app runs and does not ship: where yt-dlp, FFmpeg and   *)
(* Deno are looked for, how each is asked for its version within a limit,  *)
(* what Diagnostics is told of them, and how a yt-dlp run is shown the     *)
(* Deno the app found (services/binaries.rs, utils/process.rs,             *)
(* utils/io.rs).                                                           *)
(*                                                                         *)
(* A directory is a name, a file in it a kind: "exe", "com" or "shim" by   *)
(* its extension, "bare" without one, "plain" one that may not be executed. *)
(***************************************************************************)
EXTENDS Integers, Sequences, FiniteSets, FiniteSetsExt

CONSTANTS
    Machines,    \* the computers: [windows, path, fallback, holds, movable, acts]
    Relative,    \* the entries of a PATH that are not absolute
    Today,
    PIPE_BUFFER, HEALTH_CHECK_MAX_OUTPUT_BYTES,
    MaxChanges   \* bound: installs, removals and failed waits of one behaviour

VARIABLES
    machine,   \* the computer: what its directories hold and what a program does when run
    status,    \* resolve_external_tools_status: [pc, tool, at, js]
    probe,     \* the child of the probe: [pc, left, pipe, kept, helper, late]
    report,    \* the tools of Diagnostics
    jsDir,     \* js_runtime_dir
    download,  \* a yt-dlp run: [pc, js, path]
    changes,
    disturbed,   \* history: the machine is not the one the call of Diagnostics began on
    crossed    \* history: a call stored where Deno was after the run stored where it is

vars == <<machine, status, probe, report, jsDir, download, changes, disturbed, crossed>>

Tools == <<"yt-dlp", "ffmpeg", "deno">>
Nowhere == [dir |-> "none", kind |-> "none"]
Unasked == [path |-> Nowhere, healthy |-> FALSE, version |-> "none", age |-> -1, timedOut |-> FALSE]
NoChild == [pc |-> "none", left |-> 0, pipe |-> 0, kept |-> 0, helper |-> FALSE, late |-> FALSE]

Init ==
    /\ machine \in Machines
    /\ status = [pc |-> "idle", tool |-> 1, at |-> Nowhere, js |-> Nowhere]
    /\ probe = [t \in 1 .. Len(Tools) |-> NoChild]
    /\ report = [t \in 1 .. Len(Tools) |-> Unasked]
    /\ jsDir = "none"
    /\ download = [pc |-> "idle", js |-> Nowhere, path |-> <<>>]
    /\ changes = MaxChanges /\ disturbed = FALSE /\ crossed = FALSE

(***************************************************************************)
(* The lookup.                                                             *)
(***************************************************************************)

\* Each name looked for, with the files that answer to it in a directory of PATH.  A batch file is
\* none of them.
Candidates(m) == IF m.windows THEN << <<"exe">>, <<"bare", "com", "exe">> >> ELSE << <<"bare">> >>

\* Elsewhere a name is only itself.
Names(m) == [c \in DOMAIN Candidates(m) |-> << Candidates(m)[c][1] >>]

\* The first name that is in a directory, in the first directory it is in.
FirstIn(m, tool, dirs, candidates) ==
    LET places == {h \in (DOMAIN candidates) \X (DOMAIN dirs) \X (1 .. 3) :
                      h[3] \in DOMAIN candidates[h[1]] /\ <<dirs[h[2]], tool, candidates[h[1]][h[3]]>> \in m.holds}
        rank(h) == 100 * h[1] + 10 * h[2] + h[3]
        first == CHOOSE h \in places : \A g \in places : rank(h) <= rank(g)
    IN  IF places = {} THEN Nowhere
        ELSE [dir |-> dirs[first[2]], kind |-> candidates[first[1]][first[3]]]

\* Mutant: an entry of PATH is searched whatever it names.
AnyEntry(m) == m.path

\* An empty or relative entry would be the working directory.
AbsoluteEntries(m) == SelectSeq(m.path, LAMBDA dir : dir \notin Relative)

resolve_from_path_var(m, tool) == FirstIn(m, tool, AbsoluteEntries(m), Candidates(m))
resolve_from_dirs(m, tool, dirs) == FirstIn(m, tool, dirs, Names(m))

\* Mutant: without a PATH nothing else is searched.
OnlyWithPath(m, tool) ==
    LET found == resolve_from_path_var(m, tool) IN
    IF found # Nowhere \/ m.path = <<>> THEN found ELSE resolve_from_dirs(m, tool, m.fallback)

\* A program opened from the Finder may have no PATH at all.
resolve_from_path(m, tool) ==
    LET found == resolve_from_path_var(m, tool) IN
    IF found # Nowhere THEN found ELSE resolve_from_dirs(m, tool, m.fallback)

resolve_binary_from_candidates(m, tool) ==
    LET found == resolve_from_path(m, tool) IN
    IF found # Nowhere THEN found ELSE resolve_from_dirs(m, tool, <<"tools">>)

(***************************************************************************)
(* Where Deno is, for the runs.                                            *)
(***************************************************************************)

\* Mutant: the folder of Deno comes before the ones PATH names.
DirFirst(path, dir) == IF dir = "none" THEN path ELSE <<dir>> \o path

path_with_dir_last(path, dir) ==
    IF dir = "none" \/ \E i \in DOMAIN path : path[i] = dir THEN path ELSE Append(path, dir)

RunStays == UNCHANGED <<machine, status, probe, report, changes, disturbed>>

\* A run finds yt-dlp, looks for Deno, stores where it is, and starts its child.
RunResolves ==
    /\ download.pc = "idle" /\ resolve_binary_from_candidates(machine, "yt-dlp") # Nowhere
    /\ download' = [download EXCEPT !.pc = "js"]
    /\ UNCHANGED <<jsDir, crossed>> /\ RunStays

resolve_js_runtime ==
    /\ download.pc = "js"
    /\ download' = [download EXCEPT !.pc = "remember", !.js = resolve_binary_from_candidates(machine, "deno")]
    /\ UNCHANGED <<jsDir, crossed>> /\ RunStays

remember_js_runtime ==
    /\ download.pc = "remember"
    /\ download' = [download EXCEPT !.pc = "spawn"]
    /\ jsDir' = download.js.dir /\ crossed' = FALSE
    /\ RunStays

expose_js_runtime_to_child ==
    /\ download.pc = "spawn"
    /\ download' = [download EXCEPT !.pc = "over", !.path = path_with_dir_last(machine.path, jsDir)]
    /\ UNCHANGED <<jsDir, crossed>> /\ RunStays

(***************************************************************************)
(* Diagnostics.                                                            *)
(***************************************************************************)
Tool == Tools[status.tool]
Child == probe[status.tool]
Behaviour(t) == machine.acts[Tools[t]]
Moves(with) == status' = [status EXCEPT !.pc = with]
Probes(child) == probe' = [probe EXCEPT ![status.tool] = child]
NextTool == status' = [status EXCEPT !.tool = @ + 1, !.at = Nowhere,
                          !.pc = IF status.tool = Len(Tools) THEN "over" ELSE "resolve"]
Outside == UNCHANGED <<machine, download, changes, disturbed>>

StatusBegins ==
    /\ status.pc = "idle"
    /\ Moves("resolve")
    /\ disturbed' = FALSE
    /\ UNCHANGED <<machine, probe, report, jsDir, download, changes, crossed>>

\* Mutant: a tool that is missing ends the report.
EndsAtMissing ==
    LET found == resolve_binary_from_candidates(machine, Tool) IN
    /\ status.pc = "resolve"
    /\ status' = [status EXCEPT !.at = found,
                     !.pc = IF found = Nowhere THEN "over" ELSE IF Tool = "yt-dlp" THEN "js" ELSE "spawn"]
    /\ UNCHANGED <<probe, report, jsDir, crossed>> /\ Outside

\* Each tool on its own.  yt-dlp, once found, has Deno looked for too.
Resolve ==
    LET found == resolve_binary_from_candidates(machine, Tool) IN
    /\ status.pc = "resolve"
    /\ IF found = Nowhere THEN NextTool
       ELSE status' = [status EXCEPT !.at = found, !.pc = IF Tool = "yt-dlp" THEN "js" ELSE "spawn"]
    /\ UNCHANGED <<probe, report, jsDir, crossed>> /\ Outside

LookForDeno ==
    /\ status.pc = "js"
    /\ status' = [status EXCEPT !.pc = "remember", !.js = resolve_binary_from_candidates(machine, "deno")]
    /\ UNCHANGED <<probe, report, jsDir, crossed>> /\ Outside

RememberDeno ==
    /\ status.pc = "remember"
    /\ Moves("spawn")
    /\ jsDir' = status.js.dir
    /\ crossed' = (crossed \/ (download.pc = "spawn" /\ status.js # download.js))
    /\ UNCHANGED <<probe, report>> /\ Outside

(***************************************************************************)
(* The probe: the child, the readers of its pipe, and the wait.            *)
(***************************************************************************)
Reports(r) == report' = [report EXCEPT ![status.tool] = [r EXCEPT !.path = status.at]]
NoReport == UNCHANGED report
ProbeOnly == UNCHANGED <<jsDir, crossed>> /\ Outside

\* A program that was found and is gone, or cannot be started, is a tool that is not healthy.
Spawn ==
    /\ status.pc = "spawn"
    /\ IF <<status.at.dir, Tool, status.at.kind>> \in machine.holds
       THEN LET act == Behaviour(status.tool) IN
            /\ Moves("wait") /\ NoReport
            /\ Probes([pc |-> "running", left |-> act.output, pipe |-> 0, kept |-> 0,
                       helper |-> act.helper # "none", late |-> FALSE])
       ELSE Reports(Unasked) /\ NextTool /\ UNCHANGED probe
    /\ ProbeOnly

CanWrite == Child.left > 0 /\ Child.pipe < PIPE_BUFFER
CanEnd == Child.left = 0 /\ ~Behaviour(status.tool).hangs

Probing == status.pc \in {"wait", "join"}

ChildSteps(child) ==
    /\ Probes(child)
    /\ UNCHANGED <<status, report>> /\ ProbeOnly

ChildWrites ==
    /\ Probing /\ Child.pc = "running" /\ CanWrite
    /\ ChildSteps([Child EXCEPT !.left = @ - 1, !.pipe = @ + 1])

ChildEnds ==
    /\ Probing /\ Child.pc = "running" /\ CanEnd
    /\ ChildSteps([Child EXCEPT !.pc = "exited"])

\* What a shim started in the background, in the group of the child, with its pipes.
HelperEnds ==
    /\ Probing /\ Child.helper /\ Behaviour(status.tool).helper = "ends"
    /\ ChildSteps([Child EXCEPT !.helper = FALSE])

\* Past what is kept, the output is read and dropped.
StillReads(child) == child.pipe > 0

read_drain_capped ==
    /\ Probing /\ StillReads(Child)
    /\ ChildSteps([Child EXCEPT !.pipe = @ - 1, !.kept = Min({@ + 1, HEALTH_CHECK_MAX_OUTPUT_BYTES})])

\* The limit is generous: it passes for a child that does not go on.
DeadlinePasses ==
    /\ Probing /\ Child.pc = "running" /\ ~Child.late /\ ~CanWrite /\ ~CanEnd /\ ~StillReads(Child)
    /\ ChildSteps([Child EXCEPT !.late = TRUE])

\* Mutant: only the program itself is killed.
KillChildOnly(child) == [child EXCEPT !.pc = "exited", !.left = 0]

\* The whole group of the child.
kill_process_tree_blocking(child) == [child EXCEPT !.pc = "exited", !.left = 0, !.helper = FALSE]

\* try_wait, every so often.
Poll ==
    /\ status.pc = "wait"
    /\ \/ Child.pc = "exited" /\ Moves("join") /\ UNCHANGED <<probe, report>>
       \/ /\ Child.pc = "running" /\ Child.late
          /\ Probes(kill_process_tree_blocking(Child))
          /\ Reports([Unasked EXCEPT !.timedOut = TRUE])
          /\ NextTool
    /\ ProbeOnly

\* The wait itself fails: the child is left.
WaitFails ==
    /\ status.pc = "wait" /\ changes > 0
    /\ changes' = changes - 1 /\ disturbed' = TRUE
    /\ Reports(Unasked) /\ NextTool
    /\ UNCHANGED <<machine, probe, jsDir, download, crossed>>

\* A release dated tomorrow, by a clock set back, is of today.
release_age_days(released) == Max({Today - released, 0})

\* The first line, and for yt-dlp the age of the release it dates.
tool_health(act, kept) ==
    IF act.fails THEN Unasked
    ELSE [Unasked EXCEPT !.healthy = TRUE, !.version = IF kept > 0 THEN act.version ELSE "unknown",
             !.age = IF Tool = "yt-dlp" /\ kept > 0 /\ act.released # 0 THEN release_age_days(act.released) ELSE -1]

\* The readers end once nothing holds the pipe.
Join ==
    /\ status.pc = "join" /\ Child.pipe = 0 /\ ~Child.helper
    /\ Reports(tool_health(Behaviour(status.tool), Child.kept))
    /\ NextTool
    /\ UNCHANGED probe /\ ProbeOnly

\* A program is installed or removed.
Install ==
    /\ changes > 0 /\ changes' = changes - 1
    /\ \E file \in machine.movable :
          machine' = [machine EXCEPT !.holds = IF file \in @ THEN @ \ {file} ELSE @ \cup {file}]
    /\ disturbed' = TRUE
    /\ UNCHANGED <<status, probe, report, jsDir, download, crossed>>

Next ==
    \/ RunResolves \/ resolve_js_runtime \/ remember_js_runtime \/ expose_js_runtime_to_child
    \/ StatusBegins \/ Resolve \/ LookForDeno \/ RememberDeno \/ Spawn
    \/ ChildWrites \/ ChildEnds \/ HelperEnds \/ read_drain_capped \/ DeadlinePasses
    \/ Poll \/ WaitFails \/ Join \/ Install

Spec == Init /\ [][Next]_vars

(***************************************************************************)
(* Properties.                                                             *)
(***************************************************************************)

\* How good a place a file is found in: PATH, the directories of the platform's package managers, the
\* app's own folder; 4 for a file that may not be executed.
Place(m, file) ==
    LET dir == file[1]
        kind == file[3]
        named == kind \in (IF m.windows THEN {"exe", "bare"} ELSE {"bare"})
        runs == named \/ (m.windows /\ kind = "com")
    IN  IF runs /\ dir \notin Relative /\ \E i \in DOMAIN m.path : m.path[i] = dir THEN 1
        ELSE IF named /\ \E i \in DOMAIN m.fallback : m.fallback[i] = dir THEN 2
        ELSE IF named /\ dir = "tools" THEN 3 ELSE 4

\* A lookup finds a program that can be run, in the best place that has one, and never through the
\* working directory or a batch file; it finds none only when no place has one.
LookupTells ==
    \A i \in 1 .. Len(Tools) :
        LET found == resolve_binary_from_candidates(machine, Tools[i])
            places == {Place(machine, file) : file \in {f \in machine.holds : f[2] = Tools[i]}} \ {4}
        IN  IF found = Nowhere THEN places = {}
            ELSE /\ <<found.dir, Tools[i], found.kind>> \in machine.holds
                 /\ places # {} /\ Place(machine, <<found.dir, Tools[i], found.kind>>) = Min(places)

\* On a computer that does not change meanwhile, Diagnostics says of each tool what running it
\* says, whatever becomes of the others: one that prints much is not one that hangs, and a release
\* is not of tomorrow.
StatusTells ==
    status.pc = "over" /\ ~disturbed =>
        \A i \in 1 .. Len(Tools) :
            LET act == machine.acts[Tools[i]]
                found == resolve_binary_from_candidates(machine, Tools[i])
            IN  /\ report[i].path = found
                /\ report[i].healthy = (found # Nowhere /\ ~act.hangs /\ ~act.fails)
                /\ report[i].timedOut = (found # Nowhere /\ act.hangs)
                /\ report[i].age >= -1
                /\ report[i].age > 0 => act.released + report[i].age = Today

\* A program that did not answer in time leaves nothing running.
NothingLeft ==
    \A i \in 1 .. Len(Tools) :
        report[i].timedOut => probe[i].pc = "exited" /\ ~probe[i].helper

\* What a child finds by a bare name: the first directory that has it.
ChildLooksUp(m, tool, path) ==
    LET has == {i \in DOMAIN path : path[i] \notin Relative /\
                   \E h \in m.holds : h[1] = path[i] /\ h[2] = tool
                       /\ h[3] \in (IF m.windows THEN {"exe", "com", "shim"} ELSE {"bare"})}
    IN  IF has = {} THEN "none" ELSE path[Min(has)]

\* A yt-dlp child finds the Deno its run found, and every other program where PATH has it.  Not when
\* another call, that looked for Deno earlier, stored its answer after the run stored its own.
ChildrenFindDeno ==
    download.pc = "over" =>
        /\ ~crossed /\ <<download.js.dir, "deno", download.js.kind>> \in machine.holds =>
              ChildLooksUp(machine, "deno", download.path) # "none"
        /\ \A i \in 1 .. Len(Tools) :
              LET own == ChildLooksUp(machine, Tools[i], machine.path) IN
              own # "none" => ChildLooksUp(machine, Tools[i], download.path) = own
=============================================================================
