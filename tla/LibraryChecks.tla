--------------------------- MODULE LibraryChecks ---------------------------
(***************************************************************************)
(* The checks of the library: the content verification, one run at a time, *)
(* with its cancel; the comparison of the rows with the folder, and the    *)
(* orphan removal it offers; the walk behind the size and the file counts  *)
(* (services/library/verification.rs, integrity.rs, summary.rs,            *)
(* plan_orphan_removal of cleanup.rs, LibraryPass of lock.rs).             *)
(*                                                                         *)
(* The library changes under them: media are added and deleted, files are  *)
(* damaged, the folder is moved, entries vanish between a listing and a    *)
(* look.                                                                   *)
(***************************************************************************)
EXTENDS Naturals, Sequences, FiniteSets, SequencesExt

CONSTANTS
    Checks,             \* verification calls
    Libraries,          \* starting points: [plan, files, rows, avatars, nodes]
    MAX_EXAMPLES,
    SHARE_RULE_MIN_FILES,
    MaxEvents           \* bound: changes made to the library during one behaviour

VARIABLES
    plan,        \* what this behaviour runs: "verify", "integrity" or "summary"
    files,       \* the library folder: [file, holds, recent]
    rows,        \* the videos table: [file, thumbnail, live_chat], the last two sets of at most one
    avatars,     \* the avatar paths of the channels table
    place,       \* how many times the folder moved: the files are in that one
    setting,     \* the folder the settings name
    generation,  \* MIGRATION_GENERATION
    running,     \* VERIFICATION_RUNNING
    stopping,    \* VERIFICATION_CANCELLED
    check,       \* Checks -> a verification
    scan,        \* the integrity check
    nodes,       \* the tree a walk meets: [path, is]
    walk,        \* the walk
    events,      \* changes left
    early,       \* history: verifications begun after a move, before its folder was stored
    told         \* history: verifications that were running when Cancel was pressed

vars == <<plan, files, rows, avatars, place, setting, generation, running, stopping, check, scan,
          nodes, walk, events, early, told>>
library == <<files, rows, avatars, place, setting, generation, nodes, events>>

None == "none"
\* A stored path: the group its folder belongs to, whether the name declares a digest, and whether
\* the path is a managed one of the library (relative, and not escaping it).
Path(group, name, digest, managed) ==
    [group |-> group, name |-> name, digest |-> digest, managed |-> managed]
Groups == {"media", "thumbnails", "live_chat"}

Resting == [pc |-> "idle", pass |-> 0, at |-> 0, artifacts |-> <<>>, guard |-> FALSE,
            outcome |-> None, report |-> <<>>, cancelled |-> FALSE]
Unscanned == [pc |-> "idle", at |-> 0, references |-> {}, avatars |-> {}, planned |-> {},
              refusal |-> FALSE, missing |-> {}, corrupt |-> {}, invalid |-> {}, orphans |-> {},
              targets |-> {}, before |-> [files |-> {}, named |-> {}]]
Unwalked == [pc |-> "idle", kind |-> None, stack |-> <<>>, entering |-> <<>>, entered |-> <<>>,
             counted |-> {}]

Named == UNION {{r.file} \cup r.thumbnail \cup r.live_chat : r \in rows} \cup avatars
Held == {f.file : f \in files}

Init ==
    /\ \E l \in Libraries :
          /\ plan = l.plan /\ files = l.files /\ rows = l.rows /\ avatars = l.avatars
          /\ nodes = l.nodes
    /\ place = 0 /\ setting = 0 /\ generation = 0
    /\ running = FALSE /\ stopping = FALSE
    /\ check = [c \in Checks |-> Resting]
    /\ scan = Unscanned /\ walk = Unwalked
    /\ events = MaxEvents
    /\ early = {} /\ told = {}

(***************************************************************************)
(* The content verification.                                               *)
(***************************************************************************)
Turns(c, with) == check' = [check EXCEPT ![c] = with]
At(c, pc) == plan = "verify" /\ check[c].pc = pc
Elsewhere == UNCHANGED <<plan, library, scan, walk>>

\* The guard of the slot is dropped on every way out.
Ends(c, how) == Turns(c, [check[c] EXCEPT !.pc = how, !.guard = FALSE]) /\ running' = FALSE
Queried == {"rows", "avatars", "next", "read", "record", "done"}
Holding == {"reset"} \cup Queried

BeginPass(c) ==
    /\ At(c, "idle")
    /\ Turns(c, [Resting EXCEPT !.pc = "path", !.pass = generation])
    /\ early' = IF setting # place THEN early \cup {c} ELSE early
    /\ UNCHANGED <<running, stopping, told>> /\ Elsewhere

ReadPath(c) ==
    /\ At(c, "path")
    /\ Turns(c, [check[c] EXCEPT !.pc = "claim", !.at = setting])
    /\ UNCHANGED <<running, stopping, early, told>> /\ Elsewhere

\* Mutant: the slot is taken whoever holds it.
TakeAnyway(c) ==
    /\ At(c, "claim")
    /\ running' = TRUE
    /\ Turns(c, [check[c] EXCEPT !.pc = "reset"])
    /\ UNCHANGED <<stopping, early, told>> /\ Elsewhere

Claim(c) ==
    /\ At(c, "claim")
    /\ running' = TRUE
    /\ Turns(c, [check[c] EXCEPT !.pc = IF running THEN "refused" ELSE "reset"])
    /\ UNCHANGED <<stopping, early, told>> /\ Elsewhere

\* Mutant: a cancel left by an earlier run is not cleared.
KeepCancel(c) ==
    /\ At(c, "reset")
    /\ Turns(c, [check[c] EXCEPT !.pc = "rows"])
    /\ UNCHANGED <<running, stopping, early, told>> /\ Elsewhere

\* A step after the claim: a cancel that lands between the two is lost.
ResetCancel(c) ==
    /\ At(c, "reset")
    /\ stopping' = FALSE
    /\ Turns(c, [check[c] EXCEPT !.pc = "rows"])
    /\ UNCHANGED <<running, early, told>> /\ Elsewhere

MediaArtifacts ==
    SetToSeq(UNION {{r.file} \cup r.thumbnail : r \in rows})

ListRows(c) ==
    /\ At(c, "rows")
    /\ Turns(c, [check[c] EXCEPT !.pc = "avatars", !.artifacts = MediaArtifacts])
    /\ UNCHANGED <<running, stopping, early, told>> /\ Elsewhere

\* Mutant: an avatar that is also a thumbnail is queued again.
EveryReference(listed, paths) == listed \o SetToSeq(paths)

keep_each_file_once(listed, paths) == listed \o SetToSeq(paths \ ToSet(listed))

ListAvatars(c) ==
    /\ At(c, "avatars")
    /\ Turns(c, [check[c] EXCEPT !.pc = "next",
                    !.artifacts = keep_each_file_once(@, avatars)])
    /\ UNCHANGED <<running, stopping, early, told>> /\ Elsewhere

\* Mutant: the guard is handed out whatever moved since.
AnyGuard(c) == TRUE

\* LibraryPass: nothing more is read once a migration ran since the pass began.
file_guard(c) == generation = check[c].pass

NextFile(c) ==
    /\ At(c, "next")
    /\ LET v == check[c] IN
          IF Len(v.report) = Len(v.artifacts)
          THEN Turns(c, [v EXCEPT !.pc = "done"]) /\ UNCHANGED running
          ELSE IF stopping
          THEN Turns(c, [v EXCEPT !.pc = "done", !.cancelled = TRUE]) /\ UNCHANGED running
          ELSE IF file_guard(c)
          THEN Turns(c, [v EXCEPT !.pc = "read", !.guard = TRUE]) /\ UNCHANGED running
          ELSE Ends(c, "failed")
    /\ UNCHANGED <<stopping, early, told>> /\ Elsewhere

\* A hash looks at the flag between two blocks, so a cancelled one answers either way.
Hashes(found) ==
    {CASE found = {} -> "unreadable"
       [] \E f \in found : f.holds = "unreadable" -> "unreadable"
       [] \E f \in found : f.holds = "whole" -> "verified"
       [] OTHER -> "corrupt"}
    \cup (IF stopping THEN {"unreadable"} ELSE {})

verify_stored_file(c, path) ==
    LET found == {f \in files : f.file = path /\ check[c].at = place} IN
    IF ~path.managed \/ ~path.digest \/ \E f \in found : f.holds = "link"
    THEN {"unverifiable"} ELSE Hashes(found)

ReadFile(c) ==
    /\ At(c, "read")
    /\ \E o \in verify_stored_file(c, check[c].artifacts[Len(check[c].report) + 1]) :
          Turns(c, [check[c] EXCEPT !.pc = "record", !.guard = FALSE, !.outcome = o])
    /\ UNCHANGED <<running, stopping, early, told>> /\ Elsewhere

Recorded(v) == Append(v.report, [path |-> v.artifacts[Len(v.report) + 1], outcome |-> v.outcome])

\* Mutant: what a cancelled hash answered is recorded.
RecordAnyway(c) ==
    /\ At(c, "record")
    /\ Turns(c, [check[c] EXCEPT !.pc = "next", !.report = Recorded(check[c])])
    /\ UNCHANGED <<running, stopping, events, early, told>>

\* The window that asked may be gone: its progress cannot be sent, and the run stops.
Record(c) ==
    /\ At(c, "record")
    /\ LET v == check[c] IN
          IF stopping
          THEN Turns(c, [v EXCEPT !.pc = "done", !.cancelled = TRUE]) /\ UNCHANGED <<running, events>>
          ELSE \/ Turns(c, [v EXCEPT !.pc = "next", !.report = Recorded(v)])
                  /\ UNCHANGED <<running, events>>
               \/ events > 0 /\ events' = events - 1 /\ Ends(c, "failed")
    /\ UNCHANGED <<stopping, early, told>>

AnswerDone(c) ==
    /\ At(c, "done")
    /\ Ends(c, "over")
    /\ UNCHANGED <<stopping, early, told>> /\ Elsewhere

QueryFails(c) ==
    /\ check[c].pc \in {"rows", "avatars"} /\ events > 0
    /\ events' = events - 1
    /\ Ends(c, "failed")
    /\ UNCHANGED <<stopping, early, told>>

Verify(c) ==
    \/ BeginPass(c) \/ ReadPath(c) \/ Claim(c) \/ ResetCancel(c) \/ ListRows(c) \/ ListAvatars(c)
    \/ NextFile(c) \/ ReadFile(c) \/ AnswerDone(c)
    \/ /\ Record(c) \/ QueryFails(c)
       /\ UNCHANGED <<plan, files, rows, avatars, place, setting, generation, nodes, scan, walk>>

request_verification_cancel ==
    /\ plan = "verify" /\ events > 0 /\ ~stopping
    /\ stopping' = TRUE
    /\ events' = events - 1
    /\ told' = told \cup {c \in Checks : check[c].pc \in Holding}
    /\ UNCHANGED <<plan, files, rows, avatars, place, setting, generation, nodes, running, check,
                   scan, walk, early>>

(***************************************************************************)
(* The rows compared with the folder.  No lock is held.                    *)
(***************************************************************************)
Scanning(pc) == plan = "integrity" /\ scan.pc = pc
Scans(with) ==
    /\ scan' = with
    /\ UNCHANGED <<plan, library, running, stopping, check, walk, early, told>>

BeginScan ==
    /\ Scanning("idle")
    /\ Scans([scan EXCEPT !.pc = "rows", !.at = setting,
                !.before = [files |-> Held, named |-> Named]])

list_media_integrity_references ==
    /\ Scanning("rows")
    /\ Scans([scan EXCEPT !.pc = "avatars", !.references = rows])

list_channel_avatar_paths ==
    /\ Scanning("avatars")
    /\ Scans([scan EXCEPT !.pc = "plan", !.avatars = avatars])

Stored(r, group) ==
    CASE group = "media" -> {r.file} [] group = "thumbnails" -> r.thumbnail [] OTHER -> r.live_chat

\* Mutant: only the rows of media say which thumbnails are expected.
WithoutAvatars(group) ==
    UNION {Stored(r, group) : r \in scan.references}

\* An avatar is a file of the thumbnails folder that the channels table names.
expected_library_paths(group) ==
    UNION {Stored(r, group) : r \in scan.references}
        \cup (IF group = "thumbnails" THEN scan.avatars ELSE {})

\* The folder a scan looks into: the one its path names, whatever moved since.
Folder(group) ==
    {f \in files : f.file.group = group /\ f.holds # "link" /\ f.file.managed /\ scan.at = place}

\* Mutant: what was just written is planned too.
NeverRecent(f) == FALSE

was_written_recently(f) == f.recent

\* Only what carries a digest no row names, in either folder: the rest may be the user's.
removable_orphans ==
    LET digests == {p.name : p \in {q \in expected_library_paths("media")
                                         \cup expected_library_paths("thumbnails") : q.digest}}
    IN  {f \in Folder("media") \cup Folder("thumbnails") :
            f.file.digest /\ f.file.name \notin digests /\ ~was_written_recently(f)}

Digested == {f \in Folder("media") \cup Folder("thumbnails") : f.file.digest}

plan_orphan_removal ==
    /\ Scanning("plan")
    /\ LET n == Cardinality(removable_orphans) IN
       Scans([scan EXCEPT !.pc = "media", !.planned = {f.file : f \in removable_orphans},
                !.refusal = n >= SHARE_RULE_MIN_FILES /\ n * 2 > Cardinality(Digested)])

\* The stored paths of one group against the disk; a link that leaves the library is missing.
collect_missing_paths(group, next) ==
    /\ Scanning(group)
    /\ LET stored == expected_library_paths(group)
           checked == {p \in stored : p.managed}
           there == {f \in Folder(group) : f.file \in checked}
       IN  Scans([scan EXCEPT !.pc = next,
                    !.invalid = @ \cup (stored \ checked),
                    !.missing = @ \cup (checked \ {f.file : f \in there}),
                    !.corrupt = @ \cup {f.file : f \in {g \in there : g.holds = "empty"}}])

\* A file under a dot-name is a scratch or the system's, and not reported.
collect_orphan_paths ==
    /\ Scanning("orphans")
    /\ Scans([scan EXCEPT !.pc = "targets",
                !.orphans = UNION { {f.file : f \in Folder(g)} \ expected_library_paths(g) :
                                        g \in Groups } \ {p \in Held : p.name = "dot"}])

\* The rows behind the examples that are shown, at most MAX_EXAMPLES of each kind.
media_targets_for_report ==
    /\ Scanning("targets")
    /\ LET Shown(paths) == {s \in SUBSET {p \in paths : p.group = "media"} :
                               Cardinality(s) <= MAX_EXAMPLES}
           Largest(paths) == {s \in Shown(paths) : \A t \in Shown(paths) : Cardinality(t) <= Cardinality(s)}
       IN \E m \in Largest(scan.missing), k \in Largest(scan.corrupt) :
              Scans([scan EXCEPT !.pc = "over",
                        !.targets = {r \in scan.references : r.file \in m \cup k}])

Scan ==
    \/ BeginScan \/ list_media_integrity_references \/ list_channel_avatar_paths
    \/ plan_orphan_removal
    \/ collect_missing_paths("media", "thumbnails")
    \/ collect_missing_paths("thumbnails", "live_chat")
    \/ collect_missing_paths("live_chat", "orphans")
    \/ collect_orphan_paths \/ media_targets_for_report

(***************************************************************************)
(* The walk: a folder is listed, then each entry looked at.  The size and  *)
(* the counts end with an error a folder gives; a list leaves it out.      *)
(***************************************************************************)
Walking(pc) == plan = "summary" /\ walk.pc = pc
Walks(with) ==
    /\ walk' = with
    /\ UNCHANGED <<plan, library, running, stopping, check, scan, early, told>>
From(path, start) == Len(path) >= Len(start) /\ SubSeq(path, 1, Len(start)) = start
Children(path) == {n \in nodes : Len(n.path) = Len(path) + 1 /\ From(n.path, path)}
Top == Head(walk.stack)
Popped == [walk EXCEPT !.pc = "entry", !.stack = Tail(@)]

\* The size is of the whole library, a count or a list of a folder in it that need not be there.
Start(kind) == IF kind = "size" THEN <<>> ELSE <<"video">>

StartWalk ==
    /\ Walking("idle")
    /\ \E k \in {"size", "count", "list"} :
          Walks([walk EXCEPT !.pc = "enter", !.kind = k, !.entering = Start(k)])

\* Mutant: a folder that went after it was listed ends the walk.
GoneIsAnError == walk.kind = "list"

\* Below the library itself, a folder that is gone when it is read is looked for and left out.
GoneIsNone == walk.kind = "list" \/ Len(walk.entering) > 0

EnterFolder ==
    /\ Walking("enter")
    /\ IF \E n \in nodes : n.path = walk.entering /\ n.is = "dir"
       THEN Walks([walk EXCEPT !.pc = "entry", !.entered = Append(@, walk.entering),
                     !.stack = <<Children(walk.entering)>> \o @])
       ELSE Walks([walk EXCEPT !.pc = IF GoneIsNone THEN "entry" ELSE "failed"])

\* Mutant: a link is followed, here to the folder the walk began with.
FollowLinks(n) == IF n.is = "link" THEN "dir" ELSE n.is

dir_entry_is_symlink(n) == n.is

LookAtEntry ==
    /\ Walking("entry") /\ walk.stack # <<>> /\ Top # {}
    /\ \E n \in Top :
          LET rest == [walk EXCEPT !.stack = <<Top \ {n}>> \o Tail(@)]
              is == dir_entry_is_symlink(n)
          IN  IF is = "link" \/ n \notin nodes THEN Walks(rest)
              ELSE IF is = "dir"
              THEN Walks([rest EXCEPT !.pc = "enter",
                            !.entering = IF n.is = "link" THEN Start(walk.kind) ELSE n.path])
              ELSE Walks([rest EXCEPT !.counted = @ \cup {n}])

LeaveFolder ==
    /\ Walking("entry")
    /\ IF walk.stack = <<>> THEN Walks([walk EXCEPT !.pc = "over"])
       ELSE Top = {} /\ Walks(Popped)

Walk == StartWalk \/ EnterFolder \/ LookAtEntry \/ LeaveFolder

(***************************************************************************)
(* What happens meanwhile.                                                 *)
(***************************************************************************)
Happens ==
    /\ events > 0 /\ events' = events - 1
    /\ UNCHANGED <<plan, running, stopping, check, scan, walk, early, told>>

\* A disk or a sync client: the content is damaged, emptied, or away.
FileGoesBad ==
    /\ plan # "summary" /\ Happens
    /\ \E f \in files, h \in {"damaged", "empty", "unreadable"} :
          /\ f.holds = "whole"
          /\ files' = (files \ {f}) \cup {[f EXCEPT !.holds = h]}
    /\ UNCHANGED <<rows, avatars, place, setting, generation, nodes>>

\* A media is deleted, its row first; its files after, those nothing else names.
DeleteRow ==
    /\ plan # "summary" /\ Happens
    /\ \E r \in rows : rows' = rows \ {r}
    /\ UNCHANGED <<files, avatars, place, setting, generation, nodes>>

RemoveFile ==
    /\ plan # "summary" /\ Happens
    /\ \E f \in files : f.file.digest /\ f.file \notin Named /\ files' = files \ {f}
    /\ UNCHANGED <<rows, avatars, place, setting, generation, nodes>>

\* An import writes its file, then its row.
StoreFile ==
    /\ plan # "summary" /\ Happens
    /\ LET p == Path("media", "new", TRUE, TRUE) IN
          /\ p \notin Held
          /\ files' = files \cup {[file |-> p, holds |-> "whole", recent |-> TRUE]}
    /\ UNCHANGED <<rows, avatars, place, setting, generation, nodes>>

StoreRow ==
    /\ plan # "summary" /\ Happens
    /\ \E f \in files :
          /\ f.file.name = "new" /\ f.file \notin Named
          /\ rows' = rows \cup {[file |-> f.file, thumbnail |-> {}, live_chat |-> {}]}
    /\ UNCHANGED <<files, avatars, place, setting, generation, nodes>>

\* The migration holds the gate alone, and counts twice; the settings name the folder afterwards.
MoveLibrary ==
    /\ plan # "summary" /\ setting = place /\ Happens
    /\ \A c \in Checks : ~check[c].guard
    /\ place' = place + 1
    /\ generation' = generation + 2
    /\ UNCHANGED <<files, rows, avatars, setting, nodes>>

StoreMoved ==
    /\ setting # place
    /\ setting' = place
    /\ UNCHANGED <<plan, files, rows, avatars, place, generation, nodes, running, stopping, check,
                   scan, walk, events, early, told>>

EntryVanishes ==
    /\ plan = "summary" /\ Happens
    /\ \E n \in nodes :
          /\ n.path # <<>>
          /\ nodes' = {m \in nodes : ~From(m.path, n.path)}
    /\ UNCHANGED <<files, rows, avatars, place, setting, generation>>

Environment ==
    \/ FileGoesBad \/ DeleteRow \/ RemoveFile \/ StoreFile \/ StoreRow \/ MoveLibrary \/ StoreMoved
    \/ EntryVanishes

Next == (\E c \in Checks : Verify(c)) \/ request_verification_cancel \/ Scan \/ Walk \/ Environment

Spec == Init /\ [][Next]_vars

(***************************************************************************)
(* Properties.                                                             *)
(***************************************************************************)

\* A verification that says it is complete covered each file once, and what a report says of a file
\* is true of it: no cancel, no move and no other run makes a good file read as damaged or gone.
\* One that began between a move and the storing of its folder is told the old one.
VerificationTells ==
    \A c \in Checks \ early :
        LET v == check[c]
            Of(outcome) == {e.path : e \in {r \in ToSet(v.report) : r.outcome = outcome}}
            Still(h) == {f.file : f \in {g \in files : g.holds \in h}}
        IN  /\ \A i, j \in DOMAIN v.report : i # j => v.report[i].path # v.report[j].path
            /\ v.pc = "over" /\ ~v.cancelled => {e.path : e \in ToSet(v.report)} = ToSet(v.artifacts)
            /\ Of("corrupt") \cap Still({"whole"}) = {}
            /\ Of("unreadable") \cap Still({"whole", "damaged", "empty"}) = {}

\* One verification at a time, the slot is taken exactly while one works, and only a cancel pressed
\* while it worked stops it.
OneVerification ==
    /\ \A c, d \in Checks : c # d => ~(check[c].pc \in Holding /\ check[d].pc \in Holding)
    /\ running = (\E c \in Checks : check[c].pc \in Holding)
    /\ \A c \in Checks : check[c].cancelled => c \in told

\* What the comparison reports is true of what stayed as it was while it ran: a file that was there
\* all along is not missing, one that was named all along is neither an orphan nor planned for
\* removal, and neither is one just written.  A move meanwhile makes every file missing.
ScanTells ==
    scan.pc = "over" /\ scan.at = place =>
        /\ scan.missing \cap scan.before.files \cap {f.file : f \in {g \in files : g.holds # "link"}} = {}
        /\ (scan.orphans \cup scan.planned) \cap scan.before.named \cap Named = {}
        /\ scan.planned \cap {f.file : f \in {g \in files : g.recent}} = {}

\* A walk meets every file that stays, enters no folder twice, and does not fail because an entry
\* went after it was listed.
WalkTells ==
    /\ walk.pc # "failed"
    /\ \A i, j \in DOMAIN walk.entered : i # j => walk.entered[i] # walk.entered[j]
    /\ walk.pc = "over" =>
        {n \in nodes : n.is = "file" /\ From(n.path, Start(walk.kind))} \subseteq walk.counted
=============================================================================
