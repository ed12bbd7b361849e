---------------------------- MODULE CookiesFile ----------------------------
(***************************************************************************)
(* The user's cookies file and the copy each yt-dlp run makes of it        *)
(* (RunCookies of services/yt_dlp/cookies.rs), the replace that puts a     *)
(* renewed copy back (replace_file_safely of services/filesystem.rs), and  *)
(* the sweep of the copies a dead process left behind                      *)
(* (remove_leftover_cookie_copies of services/temp_cleanup.rs).            *)
(*                                                                         *)
(* The file is the user's: a browser's export may replace or remove it     *)
(* between any two steps.  yt-dlp rewrites whatever file it is given.      *)
(***************************************************************************)
EXTENDS Naturals, FiniteSets

CONSTANTS
    Runs,          \* the yt-dlp runs: a probe, a comment fetch, a download
    Budgets        \* bound: [exports, launches, faults] of a behaviour

VARIABLES
    jar,           \* what the user's path holds
    parked,        \* the hidden backups beside it
    run,           \* Runs -> [pc, copy, snapshot, mine]
    folders,       \* the scratch folders that hold a copy: [run, boot, held]
    writeBack,     \* COOKIES_WRITE_BACK: the run that holds it, or none
    up, boot,      \* the app runs; the launch it is
    swept,         \* this launch's sweep is over
    left,          \* what remains of the budget
    latest,        \* history: what the user last left there
    renewals,      \* history: the runs whose copy went back since
    direct,        \* history: runs that were given the user's own file
    raced          \* history: exports made while a run was replacing the file

vars == <<jar, parked, run, folders, writeBack, up, boot, swept, left,
          latest, renewals, direct, raced>>

Nobody == "nobody"
Missing == [export |-> 0, by |-> {}, state |-> "missing"]
Exported(n) == [export |-> n, by |-> {}, state |-> "whole"]
Idle == [pc |-> "idle", copy |-> Missing, snapshot |-> Missing, mine |-> Missing]

Fault == left.faults > 0 /\ left' = [left EXCEPT !.faults = @ - 1]

Init ==
    /\ jar = Exported(1) /\ latest = Exported(1)
    /\ parked = {} /\ folders = {}
    /\ run = [r \in Runs |-> Idle]
    /\ writeBack = Nobody
    /\ up = TRUE /\ boot = 1 /\ swept = FALSE
    /\ left \in Budgets
    /\ renewals = {} /\ direct = {} /\ raced = {}

\* the first line; a rewrite cut short may or may not have got that far
has_cookie_file_header(c) == c.state \in {"whole", "cut"}

\* What yt-dlp leaves of the file it was given: as it was, renewed, or no longer a jar.
Rewritten(r, c) == {c, [c EXCEPT !.by = @ \cup {r}], [c EXCEPT !.state = "other"]}
CutShort(c) == {c, [c EXCEPT !.state = "cut"], [c EXCEPT !.state = "other"]}

Folder(r) == [run |-> r, boot |-> boot, held |-> FALSE]
Goes(r, pc) == run' = [run EXCEPT ![r].pc = pc]
Leaves(r, pc) == run' = [run EXCEPT ![r] = [Idle EXCEPT !.pc = pc]]

(***************************************************************************)
(* A run.                                                                  *)
(***************************************************************************)

\* Without a cookies file the run has no copy and nothing to put back.
normalize_cookies_path(r) ==
    /\ up /\ run[r].pc = "idle" /\ has_cookie_file_header(jar)
    /\ Goes(r, "copy")
    /\ UNCHANGED <<jar, parked, folders, writeBack, up, boot, swept, left, latest, renewals, direct, raced>>

\* The copy fails when the file is gone by now; the run is then given the user's own path.
prepare(r) ==
    /\ run[r].pc = "copy"
    /\ \/ /\ jar # Missing
          /\ run' = [run EXCEPT ![r] = [pc |-> "runs", copy |-> jar, snapshot |-> jar, mine |-> Missing]]
          /\ folders' = folders \cup {Folder(r)}
          /\ UNCHANGED <<left, direct>>
       \/ /\ IF jar = Missing THEN UNCHANGED left ELSE Fault
          /\ Goes(r, "direct")
          /\ direct' = direct \cup {r}
          /\ UNCHANGED folders
    /\ UNCHANGED <<jar, parked, writeBack, up, boot, swept, latest, renewals, raced>>

\* yt-dlp ends well, or it is killed, by a cancel or its deadline, or fails: only the first goes on
\* to the write-back.
YtDlpEnds(r) ==
    /\ run[r].pc = "runs"
    /\ \/ \E c \in Rewritten(r, run[r].copy) :
             run' = [run EXCEPT ![r].pc = "keep", ![r].copy = c]
       \/ Leaves(r, "drop")
    /\ UNCHANGED <<jar, parked, folders, writeBack, up, boot, swept, left, latest, renewals, direct, raced>>

\* The run without a copy rewrites the user's file itself.
YtDlpEndsDirect(r) ==
    /\ run[r].pc = "direct"
    /\ IF jar # Missing THEN jar' \in Rewritten(r, jar) \cup CutShort(jar) ELSE UNCHANGED jar
    /\ Leaves(r, "over")
    /\ UNCHANGED <<parked, folders, writeBack, up, boot, swept, left, latest, renewals, direct, raced>>

\* Mutant: one run does not wait for the write-back of another.
WithoutTurn == TRUE

COOKIES_WRITE_BACK == writeBack = Nobody

\* Mutant: the user's file is not read again before it is replaced.
RenewedOnly(c, snapshot, current) == c # snapshot

WorthKeeping(c, snapshot, current) == c # snapshot /\ current = snapshot

keep_refreshed(r) ==
    /\ run[r].pc = "keep"
    /\ \/ /\ ~has_cookie_file_header(run[r].copy)
          /\ Leaves(r, "drop")
          /\ UNCHANGED writeBack
       \/ /\ has_cookie_file_header(run[r].copy)
          /\ COOKIES_WRITE_BACK
          /\ IF WorthKeeping(run[r].copy, run[r].snapshot, jar)
             THEN Goes(r, "park") /\ writeBack' = r
             ELSE Leaves(r, "drop") /\ UNCHANGED writeBack
    /\ UNCHANGED <<jar, parked, folders, up, boot, swept, left, latest, renewals, direct, raced>>

Drops(r) == Leaves(r, "drop") /\ writeBack' = Nobody

\* Mutant: the old file is removed, to make room for the new one.
Removed(c) == {}

BackedUp(c) == {c}

\* replace_file_safely up to the move: the file is renamed to a hidden name beside it. There is
\* nothing to rename when the user removed it meanwhile.
Park(r) ==
    /\ run[r].pc = "park"
    /\ \/ /\ jar # Missing
          /\ run' = [run EXCEPT ![r].pc = "move", ![r].mine = jar]
          /\ parked' = parked \cup BackedUp(jar)
          /\ jar' = Missing
          /\ UNCHANGED <<left, writeBack>>
       \/ /\ jar = Missing
          /\ Goes(r, "move")
          /\ UNCHANGED <<jar, parked, left, writeBack>>
       \/ /\ jar # Missing /\ Fault
          /\ Drops(r)
          /\ UNCHANGED <<jar, parked>>
    /\ UNCHANGED <<folders, up, boot, swept, latest, renewals, direct, raced>>

\* move_or_copy_file refuses to move over a file, and what was parked then goes back, over a file
\* the user put there meanwhile.
MoveIn(r) ==
    /\ run[r].pc = "move"
    /\ \/ /\ jar = Missing
          /\ jar' = run[r].copy
          /\ renewals' = renewals \cup {r}
          /\ IF run[r].mine = Missing THEN Drops(r) ELSE Goes(r, "unpark") /\ UNCHANGED writeBack
          /\ UNCHANGED left
       \/ /\ IF jar # Missing THEN UNCHANGED left ELSE Fault
          /\ IF run[r].mine = Missing THEN Drops(r) ELSE Goes(r, "restore") /\ UNCHANGED writeBack
          /\ UNCHANGED <<jar, renewals>>
    /\ UNCHANGED <<parked, folders, up, boot, swept, latest, direct, raced>>

\* The backup goes, or goes back; either may be refused, and it stays then.
Settle(r) ==
    /\ \/ /\ run[r].pc = "unpark"
          /\ parked' = parked \ {run[r].mine}
          /\ UNCHANGED <<jar, left>>
       \/ /\ run[r].pc = "restore"
          /\ jar' = run[r].mine
          /\ parked' = parked \ {run[r].mine}
          /\ UNCHANGED left
       \/ /\ run[r].pc \in {"unpark", "restore"} /\ Fault
          /\ UNCHANGED <<jar, parked>>
    /\ Drops(r)
    /\ UNCHANGED <<folders, up, boot, swept, latest, renewals, direct, raced>>

\* The run's folder goes with the run, unless something still holds it.
drop(r) ==
    /\ run[r].pc = "drop"
    /\ \/ folders' = folders \ {Folder(r)} /\ UNCHANGED left
       \/ Fault /\ UNCHANGED folders
    /\ Leaves(r, "over")
    /\ UNCHANGED <<jar, parked, writeBack, up, boot, swept, latest, renewals, direct, raced>>

(***************************************************************************)
(* The user, and the life of the process.                                  *)
(***************************************************************************)

\* Between the read that finds the file unchanged and the end of the replace, nothing tells the run
\* that the file changed.
Replacing == \E r \in Runs : run[r].pc \in {"park", "move", "restore"}

Export ==
    /\ left.exports > 0
    /\ left' = [left EXCEPT !.exports = @ - 1]
    /\ LET n == latest.export + 1
       IN  /\ jar' \in {Exported(n), Missing}
           /\ latest' = [jar' EXCEPT !.export = n]
           /\ raced' = IF Replacing THEN raced \cup {n} ELSE raced
    /\ renewals' = {}
    /\ UNCHANGED <<parked, run, folders, writeBack, up, boot, swept, direct>>

\* yt-dlp goes with the app, maybe in the middle of its rewrite.
AppDies ==
    /\ up /\ left.launches > 0
    /\ up' = FALSE
    /\ run' = [r \in Runs |-> Idle]     \* bound: each run once a launch
    /\ writeBack' = Nobody
    /\ IF jar # Missing /\ \E r \in Runs : run[r].pc = "direct"
       THEN jar' \in CutShort(jar) ELSE UNCHANGED jar
    /\ UNCHANGED <<parked, folders, boot, swept, left, latest, renewals, direct, raced>>

\* process_start is pinned before anything else of the launch.
Launch ==
    /\ ~up
    /\ up' = TRUE /\ boot' = boot + 1 /\ swept' = FALSE
    /\ left' = [left EXCEPT !.launches = @ - 1]
    /\ UNCHANGED <<jar, parked, run, folders, writeBack, latest, renewals, direct, raced>>

\* Mutant: every copy is taken for a leftover.
AnyCopy(f) == TRUE

written_before_this_session(f) == f.boot < boot

\* half a minute into the session, when runs may be under way
remove_leftover_cookie_copies ==
    /\ up /\ ~swept
    /\ LET old == {f \in folders : written_before_this_session(f)}
       IN  \/ folders' = folders \ old /\ UNCHANGED left
           \/ \E f \in old : folders' = (folders \ old) \cup {[f EXCEPT !.held = TRUE]} /\ Fault
    /\ swept' = TRUE
    /\ UNCHANGED <<jar, parked, run, writeBack, up, boot, latest, renewals, direct, raced>>

Next ==
    \/ \E r \in Runs :
          \/ normalize_cookies_path(r) \/ prepare(r) \/ YtDlpEnds(r) \/ YtDlpEndsDirect(r)
          \/ keep_refreshed(r) \/ Park(r) \/ MoveIn(r) \/ Settle(r) \/ drop(r)
    \/ Export \/ AppDies \/ Launch \/ remove_leftover_cookie_copies

Spec == Init /\ [][Next]_vars

-----------------------------------------------------------------------------
\* What the user last exported is still at its path, or parked beside it by a replace that was cut
\* short, with every renewal that was written back to it, and whole. An export made while a run was
\* replacing the file is not promised, and neither is a file a run was given directly.
ExportKept ==
    (latest.state = "whole" /\ latest.export \notin raced /\ direct = {}) =>
        \E c \in {jar} \cup parked :
           c.export = latest.export /\ c.state = "whole" /\ renewals \subseteq c.by

\* No run loses its copy to the sweep, and after the sweep no session's copy outlives that session
\* unless its removal was refused.
CopiesSwept ==
    /\ \A r \in Runs : run[r].pc \in {"runs", "keep", "park", "move", "unpark", "restore"} => Folder(r) \in folders
    /\ (up /\ swept) => \A f \in folders : f.boot = boot \/ f.held
=============================================================================
