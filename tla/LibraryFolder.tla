--------------------------- MODULE LibraryFolder ---------------------------
(***************************************************************************)
(* Which folder is the library: read and checked by the page at startup,   *)
(* chosen in a dialog, moved after a confirmation, stored with the other   *)
(* settings of its row, and accepted by the backend only when the user     *)
(* picked it or it is stored (hooks/settings, use-cases/change-library-    *)
(* path.ts, commands/settings.rs and library.rs, services/                 *)
(* chosen_folders.rs, services/library/paths.rs and guard.rs). The drive   *)
(* of a folder comes and goes meanwhile.                                   *)
(*                                                                         *)
(* How the files move, what a crash leaves of it, and settings saved while *)
(* they move are in LibraryMove; here a move is one step of the backend.   *)
(***************************************************************************)
EXTENDS Naturals, Sequences

CONSTANTS
    Folders,     \* [name, drive, kind]: the drive "system" stays, kind is "plain", "root", "config" (inside the app's), or "share"
    Machines     \* what a behaviour starts with: [local, imported, kept, there, budget]

VARIABLES
    stored,      \* the row of app_settings: [library, images]
    kept,        \* the folder the files of the rows are in, NoFolder without rows
    there,       \* the folders that exist on their drives
    plugged,     \* the drives that are connected
    chosen,      \* chosen_folders, of the purpose Library
    page,        \* what the hook holds: [library, images, loaded, unreachable, move]
    start,       \* prepareSettings
    change,      \* changeLibraryPath and confirmLibraryMove: isMigratingLibraryPath while it runs
    queue,       \* settingsUpdateQueue, its head running
    contacted,   \* shares resolved without having been picked on this machine
    toggled,     \* history: the images setting the user was last told is saved
    agreed,      \* history: where the user last agreed to go without the files, or None
    early,       \* history: a toggle ran before the settings were prepared
    remade,      \* history: the destination was removed while its confirmation was open
    refused,     \* history: the page was refused a folder the user picked or has
    budget       \* bounds: [drives, removals, picks, toggles, launches]

vars == <<stored, kept, there, plugged, chosen, page, start, change, queue, contacted, toggled, agreed,
          early, remade, refused, budget>>
world == <<kept, there, plugged>>
history == <<contacted, toggled, agreed, early, remade, refused>>

NoFolder == [name |-> "none", drive |-> "none", kind |-> "none"]
None == [at |-> NoFolder, as |-> "none"]

\* A folder is spelled as it was picked or typed, or as `canonicalize` spells it.
Typed(f) == [at |-> f, as |-> "typed"]
Canonical(f) == [at |-> f, as |-> "canonical"]
Reachable(f) == f \in there /\ f.drive \in plugged

Resting == [pc |-> "idle", library |-> None, images |-> FALSE]
Unmoved == [pc |-> "idle", to |-> None]
NoMove == [to |-> None, unreachable |-> FALSE]
NewPage == [library |-> None, images |-> FALSE, loaded |-> FALSE, unreachable |-> FALSE, move |-> NoMove]

-----------------------------------------------------------------------------
(* The backend.                                                            *)

is_network_path(spelled) == spelled.at.kind = "share"
reject_filesystem_root(f) == f.kind # "root"
library_path_is_inside_dir(f) == Reachable(f) /\ f.kind = "config"

validate_settings_library_path(spelled) ==
    \/ spelled = None
    \/ /\ Reachable(spelled.at) /\ reject_filesystem_root(spelled.at)
       /\ ~library_path_is_inside_dir(spelled.at)

\* What an imported database says of its library is taken only where this machine has no library, and
\* only a folder that is here, was used as a library, and is reached without asking another computer.

\* Mutant: a share is checked like any folder.
AnyFolder(spelled) == spelled

imported_folder_to_check(spelled) ==
    IF spelled = None \/ is_network_path(spelled) THEN None ELSE spelled
imported_library_is_usable(spelled, holds) ==
    LET checked == imported_folder_to_check(spelled) IN
    checked # None /\ validate_settings_library_path(checked) /\ checked.at = holds
machine_setting_after_import(local, imported, holds) ==
    IF local # None THEN local ELSE IF imported_library_is_usable(imported, holds) THEN imported ELSE None

\* A folder the user neither picked nor has is refused before it is resolved.
ensure_chosen(spelled, alsoStored) == spelled \in chosen \cup alsoStored

paths_refer_to_same_location(requested, configured) ==
    /\ requested # None /\ configured # None
    /\ \/ requested = configured
       \/ (Reachable(requested.at) /\ requested.at = configured.at)

\* The path already stored is written back unchecked; a new one is one the user picked, and is checked.

\* Mutant: what the user picked is not checked.
TrustsPicked(row) ==
    row.library = stored.library \/ row.library = None \/ ensure_chosen(row.library, {})

SettingsTaken(row) ==
    \/ row.library = stored.library
    \/ /\ row.library = None \/ ensure_chosen(row.library, {})
       /\ validate_settings_library_path(row.library)
set_app_settings(row) == stored' = IF SettingsTaken(row) THEN row ELSE stored

\* Both helpers answer with the canonical spelling, and record it since the page stores it next.
resolve_existing_directory(spelled) ==
    /\ ensure_chosen(spelled, {stored.library}) /\ Reachable(spelled.at)
    /\ chosen' = chosen \cup {Canonical(spelled.at)} /\ UNCHANGED there

\* Mutant: the spelling it answers with is not recorded.
EnsureOnly(spelled) ==
    /\ ensure_chosen(spelled, {stored.library}) /\ spelled.at.drive \in plugged
    /\ there' = there \cup {spelled.at} /\ UNCHANGED chosen

ensure_directory_exists(spelled) ==
    /\ ensure_chosen(spelled, {stored.library}) /\ spelled.at.drive \in plugged
    /\ there' = there \cup {spelled.at} /\ chosen' = chosen \cup {Canonical(spelled.at)}

-----------------------------------------------------------------------------
Init ==
    \E m \in Machines :
        /\ there = m.there /\ plugged = {f.drive : f \in Folders} /\ kept = m.kept
        /\ stored = [library |-> machine_setting_after_import(m.local, m.imported, m.kept), images |-> FALSE]
        /\ contacted = {spelled \in {m.imported} \ {m.local} :
                            imported_folder_to_check(spelled) # None /\ is_network_path(spelled)}
        /\ chosen = {} /\ page = NewPage /\ start = [Resting EXCEPT !.pc = "load"]
        /\ change = Unmoved /\ queue = <<>> /\ toggled = FALSE /\ agreed = None /\ early = FALSE
        /\ remade = FALSE /\ refused = FALSE /\ budget = m.budget

(* The page at startup.                                                    *)
Preparing == start.pc \notin {"idle"}

PrepareLoads ==
    /\ start.pc = "load"
    /\ start' = [pc |-> IF stored.library = None THEN "persist" ELSE "resolve",
                 library |-> stored.library, images |-> stored.images]
    /\ UNCHANGED <<stored, world, chosen, page, change, queue, history, budget>>

\* The settings shown are the ones read before, whatever was saved meanwhile.
Prepared(library, unreachable) ==
    [page EXCEPT !.library = library, !.images = start.images, !.loaded = TRUE, !.unreachable = unreachable]

PrepareResolves ==
    /\ start.pc \in {"resolve", "ensure"}
    /\ \/ /\ IF start.pc = "resolve" THEN resolve_existing_directory(start.library)
             ELSE ensure_directory_exists(start.library)
          /\ start' = [start EXCEPT !.pc = IF @ = "resolve" THEN "ensure" ELSE "persist",
                                    !.library = Canonical(@.at)]
          /\ UNCHANGED <<page, refused>>
       \/ /\ ~ensure_chosen(start.library, {stored.library}) \/ ~Reachable(start.library.at)
          /\ start.pc = "resolve" \/ start.library.at.drive \notin plugged
          /\ page' = Prepared(stored.library, TRUE) /\ start' = Resting
          /\ refused' = (refused \/ ~ensure_chosen(start.library, {stored.library}))
          /\ UNCHANGED <<chosen, there>>
    /\ UNCHANGED <<stored, kept, plugged, change, queue, contacted, toggled, agreed, early, remade, budget>>

\* Written before the page shows them; this write is not one of the queue's.
PreparePersists ==
    /\ start.pc = "persist"
    /\ LET row == [library |-> start.library, images |-> start.images] IN
       /\ set_app_settings(row)
       /\ page' = IF SettingsTaken(row) THEN Prepared(start.library, FALSE) ELSE page
       /\ refused' = (refused \/ (row.library # None /\ ~ensure_chosen(row.library, {stored.library})))
    /\ start' = Resting
    /\ UNCHANGED <<world, chosen, change, queue, contacted, toggled, agreed, early, remade, budget>>

-----------------------------------------------------------------------------
(* The dialog and what it leads to.                                        *)
Pick(f) ==
    /\ page.loaded /\ change = Unmoved /\ budget.picks > 0
    /\ budget' = [budget EXCEPT !.picks = @ - 1]
    /\ chosen' = chosen \cup {Typed(f)}
    /\ change' = IF f.kind = "root" THEN Unmoved ELSE [pc |-> "ensure", to |-> Typed(f)]
    /\ UNCHANGED <<stored, world, page, start, queue, history>>

\* The change lasts until the page has stored its folder.
Stores(spelled) ==
    /\ queue' = Append(queue, [pc |-> "load", sets |-> "library", to |-> spelled, row |-> stored])
    /\ change' = [pc |-> "save", to |-> spelled]
\* The first library is stored at once, a move waits for its confirmation.
PlanChange ==
    /\ change.pc = "ensure"
    /\ LET ensured == Canonical(change.to.at) IN
       \/ /\ ensure_directory_exists(change.to) /\ ensured = page.library
          /\ change' = Unmoved /\ UNCHANGED <<page, queue>>
       \/ /\ ensure_directory_exists(change.to) /\ page.library = None
          /\ Stores(ensured) /\ UNCHANGED page
       \/ /\ ensure_directory_exists(change.to) /\ page.library \notin {None, ensured}
          /\ page' = [page EXCEPT !.move = [to |-> ensured, unreachable |-> page.unreachable]]
          /\ change' = Unmoved /\ UNCHANGED queue
       \/ /\ change.to.at.drive \notin plugged
          /\ change' = Unmoved /\ UNCHANGED <<page, queue, chosen, there>>
    /\ UNCHANGED <<stored, kept, plugged, start, history, budget>>

\* While the confirmation is open nothing else of the page runs a change.
Dismiss ==
    /\ page.move # NoMove /\ change = Unmoved
    /\ page' = [page EXCEPT !.move = NoMove]
    /\ UNCHANGED <<stored, world, chosen, start, change, queue, history, budget>>

\* migrate_library_directory, up to the move: the destination was picked and is not inside the app's
\* folder, as far as it can be resolved, and the folder left is the configured one.
migrate_library_directory ==
    /\ page.move # NoMove /\ change = Unmoved
    /\ agreed' = IF page.move.unreachable THEN page.move.to ELSE agreed
    /\ refused' = (refused \/ ~ensure_chosen(page.move.to, {}))
    /\ IF /\ ensure_chosen(page.move.to, {})
          /\ ~library_path_is_inside_dir(page.move.to.at)
          /\ paths_refer_to_same_location(page.library, stored.library)
       THEN change' = [pc |-> "move", to |-> page.move.to] /\ UNCHANGED page
       ELSE page' = [page EXCEPT !.move = NoMove] /\ UNCHANGED change
    /\ UNCHANGED <<stored, world, chosen, start, queue, contacted, toggled, early, remade, budget>>

\* Mutant: a folder that cannot be reached is left as one that was never used.
NeverAsks == FALSE

\* Whether the backend asks before it leaves a folder that cannot be reached.
must_ask_before_switching == kept # NoFolder /\ ~page.move.unreachable

\* The destination is made, and the files follow when the folder they are in is there. The new folder
\* is stored before the command returns.
migrate_library_directory_in_context ==
    /\ change.pc = "move"
    /\ LET to == change.to.at  from == page.library.at  left == Reachable(from) IN
       \/ /\ to.drive \notin plugged \/ ~reject_filesystem_root(to) \/ (left /\ to = from)
          /\ page' = [page EXCEPT !.move = NoMove] /\ change' = Unmoved
          /\ UNCHANGED <<stored, kept, there, queue, chosen>>
       \/ /\ to.drive \in plugged /\ reject_filesystem_root(to) /\ ~left /\ must_ask_before_switching
          /\ page' = [page EXCEPT !.move.unreachable = TRUE] /\ change' = Unmoved
          /\ there' = there \cup {to} /\ UNCHANGED <<stored, kept, queue, chosen>>
       \/ /\ to.drive \in plugged /\ reject_filesystem_root(to)
          /\ IF left THEN to # from ELSE ~must_ask_before_switching
          /\ there' = (there \cup {to}) \ (IF left THEN {from} ELSE {})
          /\ kept' = IF left /\ kept = from THEN to ELSE kept
          /\ stored' = [stored EXCEPT !.library = Canonical(to)] /\ chosen' = chosen \cup {Canonical(to)}
          /\ page' = [page EXCEPT !.move = NoMove] /\ Stores(Canonical(to))
    /\ UNCHANGED <<plugged, start, history, budget>>

-----------------------------------------------------------------------------
(* The queue of settings updates: each reads the row, then writes it whole. *)
Toggle ==
    /\ budget.toggles > 0
    /\ budget' = [budget EXCEPT !.toggles = @ - 1]
    /\ queue' = Append(queue, [pc |-> "load", sets |-> "images", to |-> ~page.images, row |-> stored])
    /\ early' = (early \/ Preparing)
    /\ UNCHANGED <<stored, world, chosen, page, start, change, contacted, toggled, agreed, remade, refused>>


\* Mutant: an update writes back the row as it was when the update was asked for.
FromWhenAsked ==
    /\ queue # <<>> /\ Head(queue).pc = "load"
    /\ LET h == Head(queue) IN
       queue' = <<[h EXCEPT !.pc = "save",
                            !.row = IF h.sets = "library" THEN [@ EXCEPT !.library = h.to]
                                    ELSE [@ EXCEPT !.images = h.to]]>> \o Tail(queue)
    /\ UNCHANGED <<stored, world, chosen, page, start, change, history, budget>>

updateStoredField ==
    /\ queue # <<>> /\ Head(queue).pc = "load"
    /\ LET h == Head(queue) IN
       queue' = <<[h EXCEPT !.pc = "save",
                            !.row = IF h.sets = "library" THEN [stored EXCEPT !.library = h.to]
                                    ELSE [stored EXCEPT !.images = h.to]]>> \o Tail(queue)
    /\ UNCHANGED <<stored, world, chosen, page, start, change, history, budget>>

UpdateSaves ==
    /\ queue # <<>> /\ Head(queue).pc = "save"
    /\ LET h == Head(queue)  taken == SettingsTaken(h.row) IN
       /\ set_app_settings(h.row)
       /\ page' = IF taken
                  THEN [page EXCEPT !.library = h.row.library, !.images = h.row.images,
                                    !.unreachable = IF h.sets = "library" THEN FALSE ELSE @]
                  ELSE page
       /\ toggled' = IF taken /\ h.sets = "images" THEN h.to ELSE toggled
       /\ change' = IF h.sets = "library" THEN Unmoved ELSE change
    /\ queue' = Tail(queue)
    /\ UNCHANGED <<world, chosen, start, contacted, agreed, early, remade, refused, budget>>

-----------------------------------------------------------------------------
(* The drives, the user's file manager, and the next launch.               *)
Drive(d) ==
    /\ budget.drives > 0 /\ budget' = [budget EXCEPT !.drives = @ - 1]
    /\ plugged' = IF d \in plugged THEN plugged \ {d} ELSE plugged \cup {d}
    /\ UNCHANGED <<stored, kept, there, chosen, page, start, change, queue, history>>

RemoveFolder(f) ==
    /\ budget.removals > 0 /\ budget' = [budget EXCEPT !.removals = @ - 1]
    /\ Reachable(f) /\ f # kept /\ f.kind \notin {"root", "share"}
    /\ there' = there \ {f}
    /\ remade' = (remade \/ (page.move # NoMove /\ f = page.move.to.at))
    /\ UNCHANGED <<stored, kept, plugged, chosen, page, start, change, queue, contacted, toggled, agreed,
                   early, refused>>

\* retryLibraryFolder, or a pick of the folder itself, reloads the page; a launch also forgets what
\* was picked. Neither interrupts a move here.
Anew(forgets) ==
    /\ change = Unmoved /\ queue = <<>> /\ ~Preparing
    /\ page' = NewPage /\ start' = [Resting EXCEPT !.pc = "load"]
    /\ chosen' = IF forgets THEN {} ELSE chosen
    /\ UNCHANGED <<stored, world, change, queue, history>>
Reload == page.unreachable /\ Reachable(page.library.at) /\ Anew(FALSE) /\ UNCHANGED budget
Launch == budget.launches > 0 /\ Anew(TRUE) /\ budget' = [budget EXCEPT !.launches = @ - 1]

Next ==
    \/ PrepareLoads \/ PrepareResolves \/ PreparePersists
    \/ \E f \in Folders : Pick(f) \/ RemoveFolder(f)
    \/ PlanChange \/ Dismiss \/ migrate_library_directory \/ migrate_library_directory_in_context
    \/ Toggle \/ updateStoredField \/ UpdateSaves
    \/ \E d \in {f.drive : f \in Folders} \ {"system"} : Drive(d)
    \/ Reload \/ Launch

Spec == Init /\ [][Next]_vars

-----------------------------------------------------------------------------
\* The library stored is the folder the files are in, whatever drive went meanwhile, unless the user
\* was told it cannot be reached and agreed to use this very folder without them.
LibraryFound ==
    kept # NoFolder /\ queue = <<>> /\ change = Unmoved =>
        stored.library.at = kept \/ (stored.library = agreed /\ agreed # None)

\* A folder the user picked or has stored is never refused as a made-up one.
PickedTaken == ~refused

\* The library is never the root of a drive or inside the app's own folder. A destination removed
\* while its confirmation is open cannot be resolved, so nothing tells where it is, and the move makes
\* it again.
LibraryApart == stored.library # None /\ ~remade => stored.library.at.kind \notin {"root", "config"}

\* A setting the user was told is saved stays, whichever other update ran beside it, unless it was
\* toggled while the settings were still being prepared, whose write is not in the queue.
ToggleKept == queue = <<>> /\ ~Preparing /\ ~early => stored.images = toggled

\* A database from elsewhere reaches no other computer.
ImportStaysHere == contacted = {}
=============================================================================
