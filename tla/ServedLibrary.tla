--------------------------- MODULE ServedLibrary ---------------------------
(***************************************************************************)
(* What the webview may read of the library: the folders granted in the    *)
(* asset scope and forbidden for good when the library leaves them, the    *)
(* share the player's protocol may resolve, the folders made in a library  *)
(* that may be unplugged, and the answers of the protocol                  *)
(* (commands/security.rs, commands/library.rs, services/media_protocol.rs, *)
(* services/library/guard.rs and paths.rs, utils/path.rs).                 *)
(*                                                                         *)
(* How a move copies and recovers is in LibraryMove.                       *)
(***************************************************************************)
EXTENDS Naturals, FiniteSets, FiniteSetsExt

CONSTANTS
    Folders,            \* folders a library may be in: [name, share]
    Registrations,      \* calls of register_library_asset_scope
    MediaRequests,      \* requests of media elements
    Wanted,             \* MediaRequests -> the [folder, header] it may ask with
    Lengths,            \* lengths of the media file
    MAX_RANGE_BYTES, MAX_CONCURRENT_MEDIA_READS, MAX_MEDIA_READS_IN_FLIGHT,
    Scenes,             \* what a behaviour is about: "serving", "ranges"
    MaxTroubles         \* bound: moves, pulls, refusals and restarts of one behaviour

VARIABLES
    scene,
    configured,  \* the library folder of the settings
    home,        \* the folder the files are in
    mounted,     \* the folders whose drive is there
    phantom,     \* the folders made anew where their drive was not
    granted,     \* the asset scope: <<folder, managed directory>> allowed
    forbidden,   \* the same, forbidden, which wins for the rest of the session
    recorded,    \* session_forbidden_dirs, by folder
    share,       \* library_share
    page,        \* the settings of the webview: [path, waits, told, by]
    granting,    \* Registrations -> a registration
    mover,       \* migrate_library_directory: [pc, from, to]
    writer,      \* a command that stores a file: [pc, folder]
    reads,       \* MediaRequests -> a request
    slots,       \* MEDIA_READ_SEMAPHORE: [running, inFlight]
    length,      \* of the media file
    troubles,
    excused      \* history: "pulled", "away" or "overtaken", see the properties

vars == <<scene, configured, home, mounted, phantom, granted, forbidden, recorded, share, page,
          granting, mover, writer, reads, slots, length, troubles, excused>>
scope == <<granted, forbidden, recorded, share>>

None == "none"
Dirs == {"video", "thumbnails"}
managed_asset_scope_dirs(folder) == {folder} \X Dirs
Exists(folder) == folder \in mounted \cup phantom

Unasked == [pc |-> "idle", folder |-> None, header |-> None, total |-> 0, status |-> 0,
            start |-> 0, end |-> 0, body |-> 0]
Resting == [pc |-> "idle", folder |-> None, there |-> FALSE, failed |-> {}]

Init ==
    /\ scene \in Scenes
    /\ \E f \in Folders :
          /\ configured = f /\ home = f
          /\ page = [path |-> f, waits |-> scene = "serving", told |-> None, by |-> None]
          /\ granted = IF scene = "ranges" THEN managed_asset_scope_dirs(f) ELSE {}
          /\ share = IF scene = "ranges" THEN f.share ELSE None
    /\ mounted = Folders /\ phantom = {}
    /\ forbidden = {} /\ recorded = {}
    /\ granting = [g \in Registrations |-> Resting]
    /\ mover = [pc |-> "idle", from |-> None, to |-> None]
    /\ writer = [pc |-> "idle", folder |-> None]
    /\ reads = [r \in MediaRequests |-> Unasked]
    /\ slots = [running |-> 0, inFlight |-> 0]
    /\ length \in Lengths
    /\ troubles = MaxTroubles
    /\ excused = {}

Trouble == troubles > 0 /\ troubles' = troubles - 1
Calm == UNCHANGED troubles

(***************************************************************************)
(* The registration of the scope.                                          *)
(***************************************************************************)
At(g, pc) == scene = "serving" /\ granting[g].pc = pc
Goes(g, with) == granting' = [granting EXCEPT ![g] = with]
Step(g, pc) == Goes(g, [granting[g] EXCEPT !.pc = pc])
Tells(g, answer) == page' = IF page.by = g THEN [page EXCEPT !.told = answer] ELSE page
Unmoved == UNCHANGED <<scene, configured, home, mounted, mover, writer, reads, slots, length>>

\* The effect of the settings runs for a folder that is there, at startup and at every change.
Effect ==
    /\ scene = "serving" /\ page.waits /\ Exists(page.path)
    /\ \E g \in Registrations :
          /\ granting[g].pc = "idle"
          /\ Goes(g, [Resting EXCEPT !.pc = "path", !.folder = page.path])
          /\ page' = [page EXCEPT !.waits = FALSE, !.told = None, !.by = g]
    /\ UNCHANGED <<phantom, excused>> /\ UNCHANGED scope /\ Unmoved /\ Calm

ensure_configured_library_path(g) ==
    /\ At(g, "path")
    /\ IF granting[g].folder = configured THEN Step(g, "forbidden") /\ UNCHANGED page
       ELSE Goes(g, Resting) /\ Tells(g, "mismatch")
    /\ UNCHANGED <<phantom, excused>> /\ UNCHANGED scope /\ Unmoved /\ Calm

any_managed_dir_is_forbidden(g) == granting[g].folder \in recorded

RefuseReleased(g) ==
    /\ At(g, "forbidden")
    /\ IF any_managed_dir_is_forbidden(g) THEN Goes(g, Resting) /\ Tells(g, "restart")
       ELSE Step(g, "look") /\ UNCHANGED page
    /\ UNCHANGED <<phantom, excused>> /\ UNCHANGED scope /\ Unmoved /\ Calm

\* Mutant: the folders are made whether the library is there or not.
MakeAnyway(folder) == TRUE

\* Never the library folder itself: its drive may be away.
create_dir_in_existing_library(folder) == Exists(folder)

Look(g) ==
    /\ At(g, "look")
    /\ Goes(g, [granting[g] EXCEPT !.pc = "grant",
                   !.there = create_dir_in_existing_library(granting[g].folder)])
    /\ UNCHANGED <<phantom, page, excused>> /\ UNCHANGED scope /\ Unmoved /\ Calm

\* What making a directory does: its drive may have gone since it was looked for.
Makes(folder) ==
    /\ phantom' = IF folder \in mounted THEN phantom ELSE phantom \cup {folder}
    /\ UNCHANGED excused

\* A directory that cannot be made is passed over, a grant that fails does not stop the others.
Grant(g) ==
    /\ At(g, "grant")
    /\ LET c == granting[g] IN
          IF ~c.there
          THEN /\ Step(g, "share") /\ excused' = excused \cup {"away"}
               /\ UNCHANGED <<phantom, granted>> /\ Calm
          ELSE /\ Makes(c.folder)
               /\ \E failed \in SUBSET Dirs :
                     /\ IF failed = {} THEN Calm ELSE Trouble
                     /\ granted' = granted \cup ({c.folder} \X (Dirs \ failed))
                     /\ Goes(g, [c EXCEPT !.pc = "share", !.failed = failed])
    /\ UNCHANGED <<forbidden, recorded, share, page>> /\ Unmoved

\* Mutant: the last grant decides the answer.
LastGrantTells(g) ==
    /\ At(g, "share")
    /\ share' = granting[g].folder.share
    /\ Tells(g, IF "thumbnails" \in granting[g].failed THEN "error" ELSE "ok")
    /\ Goes(g, Resting)
    /\ excused' = IF page.by = g THEN excused ELSE excused \cup {"overtaken"}
    /\ UNCHANGED <<phantom, granted, forbidden, recorded>> /\ Unmoved /\ Calm

\* A registration of the folder before may set its share after the one of the folder that is.
set_library_share(g) ==
    /\ At(g, "share")
    /\ share' = granting[g].folder.share
    /\ Tells(g, IF granting[g].failed = {} THEN "ok" ELSE "error")
    /\ Goes(g, Resting)
    /\ excused' = IF page.by = g THEN excused ELSE excused \cup {"overtaken"}
    /\ UNCHANGED <<phantom, granted, forbidden, recorded>> /\ Unmoved /\ Calm

Register(g) ==
    \/ ensure_configured_library_path(g) \/ RefuseReleased(g) \/ Look(g) \/ Grant(g)
    \/ set_library_share(g)

(***************************************************************************)
(* The library moves, and what it leaves is forbidden.                     *)
(***************************************************************************)
MoverSteps(pc, next) ==
    /\ scene = "serving" /\ mover.pc = pc
    /\ mover' = [mover EXCEPT !.pc = next]
    /\ UNCHANGED <<scene, mounted, phantom, granting, writer, reads, slots, length, excused>>

MoveLibrary ==
    /\ scene = "serving" /\ mover.pc = "idle" /\ page.told # None
    /\ Trouble
    /\ \E to \in mounted \ {page.path} :
          /\ page.path = configured /\ Exists(page.path)
          /\ mover' = [pc |-> "record", from |-> page.path, to |-> to]
          /\ home' = to
    /\ UNCHANGED <<scene, configured, mounted, phantom, page, granting, writer, reads, slots,
                   length, excused>> /\ UNCHANGED scope

record_forbidden_library_dirs ==
    /\ MoverSteps("record", "forbid")
    /\ recorded' = recorded \cup {mover.from}
    /\ UNCHANGED <<configured, home, page, granted, forbidden, share>> /\ Calm

\* Best effort, a directory at a time.
revoke_directory_from_asset_scope ==
    /\ MoverSteps("forbid", "store")
    /\ \E failed \in SUBSET managed_asset_scope_dirs(mover.from) :
          /\ IF failed = {} THEN Calm ELSE Trouble
          /\ forbidden' = forbidden \cup (managed_asset_scope_dirs(mover.from) \ failed)
    /\ UNCHANGED <<configured, home, page, granted, recorded, share>>

store_migrated_library_path ==
    /\ MoverSteps("store", "answer")
    /\ configured' = mover.to
    /\ UNCHANGED <<home, page>> /\ UNCHANGED scope /\ Calm

AnswerMove ==
    /\ MoverSteps("answer", "idle")
    /\ page' = [path |-> mover.to, waits |-> TRUE, told |-> None, by |-> None]
    /\ UNCHANGED <<configured, home>> /\ UNCHANGED scope /\ Calm

(***************************************************************************)
(* A command that stores a file makes its folder, in a library that is     *)
(* there.                                                                  *)
(***************************************************************************)
WriterStays == UNCHANGED <<scene, configured, home, mounted, page, granting, mover, reads, slots,
                           length, troubles>> /\ UNCHANGED scope

\* The folder is resolved before a download or an import that may take hours.
resolve_existing_library_dir ==
    /\ scene = "serving" /\ writer.pc = "idle" /\ Exists(configured)
    /\ writer' = [pc |-> "work", folder |-> configured]
    /\ UNCHANGED <<phantom, excused>> /\ WriterStays

ensure_path_parent_inside_dir ==
    /\ writer.pc = "work"
    /\ writer' = [writer EXCEPT !.pc = IF create_dir_in_existing_library(writer.folder) THEN "make" ELSE "idle"]
    /\ UNCHANGED <<phantom, excused>> /\ WriterStays

MakeParent ==
    /\ writer.pc = "make"
    /\ writer' = [writer EXCEPT !.pc = "idle"]
    /\ Makes(writer.folder)
    /\ WriterStays

(***************************************************************************)
(* The player's protocol.                                                  *)
(***************************************************************************)
Reads(r, with) == reads' = [reads EXCEPT ![r] = with]
Protocol == UNCHANGED <<scene, configured, home, mounted, phantom, page, granting, mover, writer,
                        troubles, excused>> /\ UNCHANGED scope
Answers(r, status) ==
    /\ Reads(r, [reads[r] EXCEPT !.pc = "over", !.status = status])
    /\ slots' = [running |-> slots.running - 1, inFlight |-> slots.inFlight - 1]

\* Refused at once, or queued for one of the reads.
handle(r) ==
    /\ scene = "ranges" /\ reads[r].pc = "idle"
    /\ \E want \in Wanted[r] :
          LET asked == [Unasked EXCEPT !.folder = want.folder, !.header = want.header] IN
          IF slots.inFlight < MAX_MEDIA_READS_IN_FLIGHT
          THEN /\ Reads(r, [asked EXCEPT !.pc = "queued"])
               /\ slots' = [slots EXCEPT !.inFlight = @ + 1]
          ELSE /\ Reads(r, [asked EXCEPT !.pc = "over", !.status = 503])
               /\ UNCHANGED slots
    /\ UNCHANGED length /\ Protocol

Take(r) ==
    /\ reads[r].pc = "queued" /\ slots.running < MAX_CONCURRENT_MEDIA_READS
    /\ Reads(r, [reads[r] EXCEPT !.pc = "check"])
    /\ slots' = [slots EXCEPT !.running = @ + 1]
    /\ UNCHANGED length /\ Protocol

\* A network path is resolved on the library's own share only.
may_resolve(folder) == folder.share = None \/ folder.share = share
Allowed(folder) == <<folder, "video">> \in granted \ forbidden

serve(r) ==
    /\ reads[r].pc = "check"
    /\ LET f == reads[r].folder IN
          IF ~may_resolve(f) \/ ~Allowed(f) THEN Answers(r, 403)
          ELSE IF f # home \/ f \notin mounted THEN Answers(r, 404)
          ELSE Reads(r, [reads[r] EXCEPT !.pc = "read", !.total = length]) /\ UNCHANGED slots
    /\ UNCHANGED length /\ Protocol

\* Mutant: what names no range is answered as if it asked for everything.
FromTheStart(header, len) ==
    CASE header.form = "closed" /\ header.a < len /\ header.b >= header.a -> <<header.a, Min({header.b, len - 1})>>
      [] header.form = "open" /\ header.a < len -> <<header.a, len - 1>>
      [] OTHER -> <<0, len - 1>>

\* The inclusive window a header asks for, or <<>>: its end is brought inside the file, and the
\* suffix form counts from there.
parse_byte_range(header, len) ==
    CASE header.form = "closed" /\ header.a < len /\ Min({header.b, len - 1}) >= header.a ->
            <<header.a, Min({header.b, len - 1})>>
      [] header.form = "open" /\ header.a < len -> <<header.a, len - 1>>
      [] header.form = "suffix" /\ header.a > 0 ->
            <<IF header.a > len THEN 0 ELSE len - header.a, len - 1>>
      [] header.form = "none" -> <<0, len - 1>>
      [] OTHER -> <<>>

\* Mutant: the cap counts the distance to the last byte.
OneMore(start, end) == Min({end, start + MAX_RANGE_BYTES})

clamp_range(start, end) == Min({end, start + MAX_RANGE_BYTES - 1})

byte_count(start, end) == end + 1 - start

\* The file is open, and may have been cut since its length was read.
plan_range(r) ==
    /\ reads[r].pc = "read"
    /\ LET len == reads[r].total
           asked == parse_byte_range(reads[r].header, len)
           end == clamp_range(asked[1], asked[2])
       IN  CASE len = 0 -> Answers(r, 200)
             [] len > 0 /\ asked = <<>> -> Answers(r, 416)
             [] len > 0 /\ asked # <<>> /\ length < end + 1 -> Answers(r, 500)
             [] OTHER ->
                  /\ Reads(r, [reads[r] EXCEPT !.pc = "over", !.status = 206, !.start = asked[1],
                                 !.end = end, !.body = byte_count(asked[1], end)])
                  /\ slots' = [running |-> slots.running - 1, inFlight |-> slots.inFlight - 1]
    /\ UNCHANGED length /\ Protocol

Request(r) == handle(r) \/ Take(r) \/ serve(r) \/ plan_range(r)

(***************************************************************************)
(* Outside.                                                                *)
(***************************************************************************)
Outside == UNCHANGED <<scene, configured, home, writer, mover, granting, reads, slots>>

\* A drive goes, under a command that has just looked for it, or comes back and the page is loaded
\* again.
Pull ==
    /\ scene = "serving" /\ Trouble
    /\ \E f \in mounted :
          /\ mounted' = mounted \ {f}
          /\ excused' = IF (writer.pc = "make" /\ writer.folder = f)
                           \/ \E g \in Registrations : At(g, "grant") /\ granting[g].there /\ granting[g].folder = f
                        THEN excused \cup {"pulled"} ELSE excused
    /\ UNCHANGED <<phantom, page, length>> /\ UNCHANGED scope /\ Outside

Plug ==
    /\ \E f \in Folders \ (mounted \cup phantom) :
          /\ mounted' = mounted \cup {f}
          /\ page' = IF page.path = f THEN [page EXCEPT !.waits = TRUE, !.told = None, !.by = None]
                     ELSE page
    /\ UNCHANGED <<phantom, length, troubles, excused>> /\ UNCHANGED scope /\ Outside

Truncate ==
    /\ scene = "ranges" /\ Trouble
    /\ \E l \in Lengths : l < length /\ length' = l
    /\ UNCHANGED <<mounted, phantom, page, excused>> /\ UNCHANGED scope /\ Outside

\* The scope and what it forbids live as long as the process.
Restart ==
    /\ scene = "serving" /\ Trouble
    /\ granted' = {} /\ forbidden' = {} /\ recorded' = {} /\ share' = None
    /\ granting' = [g \in Registrations |-> Resting]
    /\ mover' = [pc |-> "idle", from |-> None, to |-> None]
    /\ configured' = home      \* LibraryMove shows the launch finds it
    /\ writer' = [pc |-> "idle", folder |-> None]
    /\ reads' = [r \in MediaRequests |-> Unasked]
    /\ slots' = [running |-> 0, inFlight |-> 0]
    /\ page' = [path |-> home, waits |-> TRUE, told |-> None, by |-> None]
    /\ UNCHANGED <<scene, home, mounted, phantom, length, excused>>

Next ==
    \/ Effect \/ \E g \in Registrations : Register(g)
    \/ MoveLibrary \/ record_forbidden_library_dirs \/ revoke_directory_from_asset_scope
    \/ store_migrated_library_path \/ AnswerMove
    \/ resolve_existing_library_dir \/ ensure_path_parent_inside_dir \/ MakeParent
    \/ \E r \in MediaRequests : Request(r)
    \/ Pull \/ Plug \/ Truncate \/ Restart

Spec == Init /\ [][Next]_vars

(***************************************************************************)
(* Properties.                                                             *)
(***************************************************************************)

\* A page that was told its library is registered is served from it, also after the library moved
\* away and back within a session.  Not when the folder was away as it was registered, nor when the
\* registration of an earlier folder set its share last.
ServedAsTold ==
    page.told = "ok" /\ mover.pc = "idle" /\ excused \cap {"away", "overtaken"} = {} =>
        may_resolve(page.path) /\ managed_asset_scope_dirs(page.path) \subseteq granted \ forbidden

\* A library whose drive is away is not made anew, empty, where it was.  A drive pulled between the
\* look and the making is.
NotMadeAnew == "pulled" \notin excused => phantom = {}

\* The positions a header names in a file of len bytes.
Asked(header, len) ==
    {i \in 0 .. (len - 1) :
        CASE header.form = "closed" -> header.a <= i /\ i <= header.b
          [] header.form = "open" -> header.a <= i
          [] header.form = "suffix" -> len - i <= header.a
          [] OTHER -> header.form = "none"}

\* An answer holds the first bytes of what was asked, says which they are, and is not larger than a
\* response may be; a range that names no byte is refused as one.
RangesTell ==
    \A r \in MediaRequests :
        LET a == reads[r]
            asked == Asked(a.header, a.total)
        IN  a.pc = "over" =>
              /\ a.status = 206 => /\ asked # {} /\ a.start = Min(asked)
                                   /\ a.start .. a.end \subseteq asked
                                   /\ a.body = Cardinality(a.start .. a.end)
                                   /\ a.body = Min({MAX_RANGE_BYTES, Cardinality(asked)})
              /\ a.status = 416 => asked = {} /\ a.total > 0
              /\ a.status = 200 => a.total = 0

\* The reads under way are as many as the slots taken, and within their bounds.
ReadsCounted ==
    /\ slots.running = Cardinality({r \in MediaRequests : reads[r].pc \in {"check", "read"}})
    /\ slots.inFlight = Cardinality({r \in MediaRequests : reads[r].pc \notin {"idle", "over"}})
    /\ slots.running <= MAX_CONCURRENT_MEDIA_READS /\ slots.inFlight <= MAX_MEDIA_READS_IN_FLIGHT
=============================================================================
