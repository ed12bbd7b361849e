----------------------------- MODULE ReplayFiles -----------------------------
(***************************************************************************)
(* The files of the live chat replays: the pass that moves the ones of     *)
(* older versions into the library and compresses them, the download that  *)
(* stores a new one compressed, and the startup sweep of what a killed     *)
(* operation left (services/live_chat_storage.rs, store_live_chat of       *)
(* services/yt_dlp/download/post_download.rs, services/temp_cleanup.rs).   *)
(*                                                                         *)
(* A replay of a finished livestream may not be fetched again. A file is a *)
(* record [gz, whole, by, born]: compressed or not, every byte there or    *)
(* not, the call that has it open for writing or wrote it, and the launch  *)
(* it was written in. A rename carries the open file and its age along.    *)
(***************************************************************************)
EXTENDS Naturals, FiniteSets

CONSTANTS
    Legacy,       \* replays older versions left in the app data folder
    Fresh,        \* replays the downloads bring
    Downloads,    \* the downloads of one launch
    MaxLaunches,  \* bound: launches of the app
    MaxMoves      \* bound: library moves

Names == Legacy \cup Fresh
Suffixes == (Downloads \cup {"pass"}) \X (1 .. MaxLaunches)   \* the call and its launch
NoFile == [gz |-> FALSE, whole |-> FALSE, by |-> "none", born |-> 0]
NoName == "none"
NoSweep == [kind |-> "none", name |-> NoName, of |-> <<>>]
Closed == "closed"
Both == "both"    \* two calls write one open file

VARIABLES
    old,      \* Names -> the file in the app data folder, or NoFile
    live,     \* Names -> the file under the replay's name in the library
    gztmp,    \* Names -> `<name>.gztmp`, the compressed copy being staged
    scratch,  \* Names -> `.<name>.tmp-<suffix>`, a copy from the other volume
    backup,   \* Names -> Suffixes -> `.<name>.backup-<suffix>`
    gen,      \* how often the library was moved
    launch,   \* which launch this is
    pass,     \* the startup pass: [pc, todo, name, gen]
    dl,       \* Downloads -> [pc, name, gen]
    sweep,    \* what the sweep is about to remove
    owed,     \* replays the app has accepted: legacy ones, and those reported stored
    shared    \* history: the replays two calls staged at once

vars == <<old, live, gztmp, scratch, backup, gen, launch, pass, dl, sweep, owed, shared>>

Plain(born) == [gz |-> FALSE, whole |-> TRUE, by |-> Closed, born |-> born]
Opened(by) == [gz |-> TRUE, whole |-> FALSE, by |-> by, born |-> launch]

NoPass == [pc |-> "idle", todo |-> {}, name |-> NoName, gen |-> 0]
NoDownload == [pc |-> "idle", name |-> NoName, gen |-> 0]

Init ==
    /\ old = [n \in Names |-> IF n \in Legacy THEN Plain(0) ELSE NoFile]
    /\ live = [n \in Names |-> NoFile]
    /\ gztmp = [n \in Names |-> NoFile]
    /\ scratch = [n \in Names |-> NoFile]
    /\ backup = [n \in Names |-> [x \in Suffixes |-> NoFile]]
    /\ gen = 0 /\ launch = 1
    /\ pass = NoPass
    /\ dl = [d \in Downloads |-> NoDownload]
    /\ sweep = NoSweep
    /\ owed = Legacy
    /\ shared = {}

(***************************************************************************)
(* Compressing a file and replacing another one with the result. `c` is    *)
(* the call and n the name; the callers add where each step leads.         *)
(***************************************************************************)

Whole(file) == file # NoFile /\ file.whole
Writing(c) == \/ c = "pass" /\ pass.pc = "stage"
              \/ c \in Downloads /\ dl[c].pc = "stage"

\* the calls between File::create and the rename of the staged file of n
Staging(n) == {c \in Downloads : dl[c].name = n /\ dl[c].pc \in {"stage", "verify", "place", "install"}}
              \cup (IF pass.name = n /\ pass.pc \in {"stage", "verify", "park", "install"} THEN {"pass"} ELSE {})

\* File::create on the staged name, which an earlier attempt or another call may have written
temp_sibling_path(c, n) ==
    /\ gztmp' = [gztmp EXCEPT ![n] = Opened(IF @.by # c /\ Writing(@.by) THEN Both ELSE c)]
    /\ shared' = IF Staging(n) = {} THEN shared ELSE shared \cup {n}

\* the open file of call c gets its last byte, under whatever name it has by now; a bad write is
\* not noticed here
compress_file_to_temp(c, n, good) ==
    LET Ended(file) == IF file.by = c /\ file.born = launch
                       THEN [file EXCEPT !.whole = good, !.by = Closed] ELSE file
    IN /\ gztmp' = [gztmp EXCEPT ![n] = Ended(@)]
       /\ live' = [live EXCEPT ![n] = Ended(@)]

\* Mutant: the staged file is taken as written.
TakenAsWritten(n) == gztmp[n] # NoFile

\* the staged file is read back from the disk and compared with the source
verify_compressed_matches(n) == Whole(gztmp[n])

\* replace_file_safely: the file in the way becomes a backup
Parked(c, n) ==
    /\ live' = [live EXCEPT ![n] = NoFile]
    /\ backup' = [backup EXCEPT ![n][<<c, launch>>] = live[n]]

\* the staged file takes the name
Installed(n) ==
    /\ live' = [live EXCEPT ![n] = gztmp[n]]
    /\ gztmp' = [gztmp EXCEPT ![n] = NoFile]

Restored(c, n) ==
    /\ live' = [live EXCEPT ![n] = backup[n][<<c, launch>>]]
    /\ backup' = [backup EXCEPT ![n][<<c, launch>>] = NoFile]

(***************************************************************************)
(* migrate_live_chat_to_library: the startup pass.                         *)
(***************************************************************************)

\* Mutant: the guard is taken, and what moved meanwhile is not looked at.
GuardOnly(g) == TRUE

\* the read guard of the library for one file, unless a move ran since the pass began
file_guard(g) == gen = g

\* a pass or a download that is between its read guard and its end
Guarded == pass.pc \notin {"idle", "migrate", "compress"} \/ \E d \in Downloads : dl[d].pc \notin {"idle", "run", "over"}

\* a folder the library left is no longer looked at: what lands there is out of the library
InLibrary(g, file) == IF gen = g THEN file ELSE NoFile

StartPass ==
    /\ pass.pc = "idle" /\ pass.name = NoName
    /\ pass' = [pc |-> "migrate", todo |-> {n \in Names : old[n] # NoFile}, name |-> "started", gen |-> gen]
    /\ UNCHANGED <<old, live, gztmp, scratch, backup, gen, launch, dl, sweep, owed, shared>>

PassEnds == pass' = [pass EXCEPT !.pc = "idle", !.todo = {}]

\* Mutant: what is already in the library is taken for an older attempt and replaced in place.
CopiedInPlace(n) ==
    /\ scratch' = scratch
    /\ live' = [live EXCEPT ![n] = [Plain(launch) EXCEPT !.whole = FALSE]]

\* copy_file_atomic: the copy grows under a scratch name
CopyStaged(n) ==
    /\ scratch' = [scratch EXCEPT ![n] = [Plain(launch) EXCEPT !.whole = FALSE]]
    /\ live' = live

\* the guard of one file: dropped as moved already, renamed, or copied from the other volume
migrate_live_chat_files ==
    /\ pass.pc = "migrate"
    /\ IF pass.todo = {}
       THEN /\ pass' = [pass EXCEPT !.pc = "compress", !.todo = {n \in Names : live[n] # NoFile}]
            /\ UNCHANGED <<old, live, scratch>>
       ELSE \E n \in pass.todo :
          \/ /\ ~file_guard(pass.gen)
             /\ pass' = [pass EXCEPT !.pc = "compress", !.todo = {m \in Names : live[m] # NoFile}]
             /\ UNCHANGED <<old, live, scratch>>
          \/ /\ file_guard(pass.gen)
             /\ live[n] # NoFile
             /\ old' = [old EXCEPT ![n] = NoFile]
             /\ pass' = [pass EXCEPT !.todo = @ \ {n}]
             /\ UNCHANGED <<live, scratch>>
          \/ /\ file_guard(pass.gen)
             /\ live[n] = NoFile
             /\ live' = [live EXCEPT ![n] = InLibrary(pass.gen, old[n])]
             /\ old' = [old EXCEPT ![n] = NoFile]
             /\ pass' = [pass EXCEPT !.todo = @ \ {n}]
             /\ UNCHANGED scratch
          \/ /\ file_guard(pass.gen)        \* on another volume a rename fails
             /\ live[n] = NoFile
             /\ CopyStaged(n)
             /\ pass' = [pass EXCEPT !.pc = "copy", !.name = n]
             /\ UNCHANGED old
    /\ UNCHANGED <<gztmp, backup, gen, launch, dl, sweep, owed, shared>>

\* the copy is whole and flushed, then takes the name; a failed one ends the pass
CopyRenamed ==
    /\ pass.pc = "copy"
    /\ scratch' = [scratch EXCEPT ![pass.name] = NoFile]
    /\ \/ /\ live' = [live EXCEPT ![pass.name] = InLibrary(pass.gen, Plain(launch))]
          /\ pass' = [pass EXCEPT !.pc = "copied"]
       \/ /\ live' = live
          /\ PassEnds
    /\ UNCHANGED <<old, gztmp, backup, gen, launch, dl, sweep, owed, shared>>

\* the source is removed, best effort
SourceDropped ==
    /\ pass.pc = "copied"
    /\ old' \in {old, [old EXCEPT ![pass.name] = NoFile]}
    /\ pass' = [pass EXCEPT !.pc = "migrate", !.todo = @ \ {pass.name}]
    /\ UNCHANGED <<live, gztmp, scratch, backup, gen, launch, dl, sweep, owed, shared>>

\* compress_existing_live_chat_files: each file that is not gzip yet, under a guard of its own
compress_existing_live_chat_files ==
    /\ pass.pc = "compress"
    /\ IF pass.todo = {} \/ ~file_guard(pass.gen)
       THEN PassEnds /\ UNCHANGED <<gztmp, shared>>
       ELSE \E n \in pass.todo :
          IF live[n] = NoFile \/ live[n].gz
          THEN pass' = [pass EXCEPT !.todo = @ \ {n}] /\ UNCHANGED <<gztmp, shared>>
          ELSE /\ temp_sibling_path("pass", n)
               /\ pass' = [pass EXCEPT !.pc = "stage", !.name = n]
    /\ UNCHANGED <<old, live, scratch, backup, gen, launch, dl, sweep, owed>>

\* a failure is counted and the pass goes on with the next file
PassNext == pass' = [pass EXCEPT !.pc = "compress", !.todo = @ \ {pass.name}]

PassStage ==
    /\ pass.pc = "stage"
    /\ \/ /\ \E good \in BOOLEAN : compress_file_to_temp("pass", pass.name, good)
          /\ pass' = [pass EXCEPT !.pc = "verify"]
       \/ PassNext /\ UNCHANGED <<gztmp, live>>
    /\ UNCHANGED <<old, scratch, backup, gen, launch, dl, sweep, owed, shared>>

PassVerify ==
    /\ pass.pc = "verify"
    /\ IF verify_compressed_matches(pass.name) THEN pass' = [pass EXCEPT !.pc = "park"] ELSE PassNext
    /\ UNCHANGED <<old, live, gztmp, scratch, backup, gen, launch, dl, sweep, owed, shared>>

compress_file_in_place ==
    LET n == pass.name IN
    /\ \/ /\ pass.pc = "park" /\ gztmp[n] = NoFile
          /\ PassNext
          /\ UNCHANGED <<live, gztmp, backup>>
       \/ /\ pass.pc = "park" /\ gztmp[n] # NoFile
          /\ Parked("pass", n)
          /\ pass' = [pass EXCEPT !.pc = "install"]
          /\ UNCHANGED gztmp
       \/ /\ pass.pc = "install" /\ gztmp[n] # NoFile
          /\ Installed(n)
          /\ pass' = [pass EXCEPT !.pc = "unpark"]
          /\ UNCHANGED backup
       \/ /\ pass.pc = "install"       \* the rename failed
          /\ Restored("pass", n)
          /\ PassNext
          /\ UNCHANGED gztmp
       \/ /\ pass.pc = "unpark"
          /\ backup' = [backup EXCEPT ![n][<<"pass", launch>>] = NoFile]
          /\ PassNext
          /\ UNCHANGED <<live, gztmp>>
    /\ UNCHANGED <<old, scratch, gen, launch, dl, sweep, owed, shared>>

(***************************************************************************)
(* store_live_chat: a download stores its replay, which lies whole in its  *)
(* run folder until the file in the library is in place.                   *)
(***************************************************************************)

At(d, pc) == dl' = [dl EXCEPT ![d].pc = pc]

StartDownload(d) ==
    \E n \in Fresh :
       /\ dl[d].pc = "idle"
       /\ dl' = [dl EXCEPT ![d] = [pc |-> "run", name |-> n, gen |-> gen]]
       /\ UNCHANGED <<old, live, gztmp, scratch, backup, gen, launch, pass, sweep, owed, shared>>

\* a replay stored under the name stays, and the new one is dropped
KeptExisting(n) == live[n] # NoFile

\* whether the last lines yt-dlp wrote are whole: either, for a process that can be killed
live_chat_file_looks_finished == BOOLEAN

store_live_chat(d) ==
    LET n == dl[d].name IN
    /\ dl[d].pc = "run"
    /\ \/ /\ ~file_guard(dl[d].gen)     \* the library moved: the media is saved without it
          /\ At(d, "over") /\ UNCHANGED owed
       \/ /\ FALSE \in live_chat_file_looks_finished     \* cut short: not stored
          /\ At(d, "over") /\ UNCHANGED owed
       \/ /\ file_guard(dl[d].gen) /\ KeptExisting(n)
          /\ At(d, "over") /\ owed' = owed \cup {n}
       \/ /\ file_guard(dl[d].gen) /\ ~KeptExisting(n)
          /\ At(d, "create") /\ UNCHANGED owed
    /\ UNCHANGED <<old, live, gztmp, scratch, backup, gen, launch, pass, sweep, shared>>

DownloadCreate(d) ==
    /\ dl[d].pc = "create"
    /\ temp_sibling_path(d, dl[d].name)
    /\ At(d, "stage")
    /\ UNCHANGED <<old, live, scratch, backup, gen, launch, pass, sweep, owed>>

DownloadStage(d) ==
    /\ dl[d].pc = "stage"
    /\ \/ /\ \E good \in BOOLEAN : compress_file_to_temp(d, dl[d].name, good)
          /\ At(d, "verify")
       \/ At(d, "over") /\ UNCHANGED <<gztmp, live>>
    /\ UNCHANGED <<old, scratch, backup, gen, launch, pass, sweep, owed, shared>>

DownloadVerify(d) ==
    /\ dl[d].pc = "verify"
    /\ At(d, IF verify_compressed_matches(dl[d].name) THEN "place" ELSE "over")
    /\ UNCHANGED <<old, live, gztmp, scratch, backup, gen, launch, pass, sweep, owed, shared>>

\* replace_file_safely, with a file of the name or without, then the source goes
compress_file_to(d) ==
    LET n == dl[d].name IN
    /\ \/ /\ dl[d].pc = "place" /\ gztmp[n] = NoFile     \* another call took the staged file
          /\ At(d, "over") /\ UNCHANGED <<live, gztmp, backup, owed>>
       \/ /\ dl[d].pc = "place" /\ gztmp[n] # NoFile
          /\ IF live[n] = NoFile
             THEN Installed(n) /\ At(d, "over") /\ owed' = owed \cup {n} /\ UNCHANGED backup
             ELSE Parked(d, n) /\ At(d, "install") /\ UNCHANGED <<gztmp, owed>>
       \/ /\ dl[d].pc = "install" /\ gztmp[n] # NoFile /\ live[n] = NoFile
          /\ Installed(n)
          /\ At(d, "unpark")
          /\ owed' = owed \cup {n} /\ UNCHANGED backup
       \/ /\ dl[d].pc = "install"
          /\ Restored(d, n)
          /\ At(d, "over") /\ UNCHANGED <<gztmp, owed>>
       \/ /\ dl[d].pc = "unpark"
          /\ backup' = [backup EXCEPT ![n][<<d, launch>>] = NoFile]
          /\ At(d, "over") /\ UNCHANGED <<live, gztmp, owed>>
    /\ UNCHANGED <<old, scratch, gen, launch, pass, sweep, shared>>

(***************************************************************************)
(* The startup sweep of the library, and the faults.                       *)
(***************************************************************************)

\* Mutant: a backup is scratch like any other.
AnyBackup(n) == TRUE

\* a backup whose file is gone may be the only copy
replace_backup_target_present(n) == live[n] # NoFile

\* a launch may come a week after the one before; a rename keeps the age of the file
OldEnough(file) == file.born < launch

\* the names of scratch files, old ones only; a backup only beside the file it was made from
cleanup_leftovers_in_dir ==
    {[kind |-> "gztmp", name |-> n, of |-> <<>>] : n \in {m \in Names : gztmp[m] # NoFile /\ OldEnough(gztmp[m])}}
    \cup {[kind |-> "tmp", name |-> n, of |-> <<>>] :
              n \in {m \in Names : scratch[m] # NoFile /\ OldEnough(scratch[m])}}
    \cup {[kind |-> "backup", name |-> y[1], of |-> y[2]] :
              y \in {z \in Names \X Suffixes : /\ backup[z[1]][z[2]] # NoFile
                                             /\ OldEnough(backup[z[1]][z[2]])
                                             /\ replace_backup_target_present(z[1])}}

\* the sweep looks at one leftover
cleanup_library_leftovers_sync ==
    /\ sweep = NoSweep
    /\ sweep' \in cleanup_leftovers_in_dir
    /\ UNCHANGED <<old, live, gztmp, scratch, backup, gen, launch, pass, dl, owed, shared>>

remove_path_if_old ==
    /\ sweep # NoSweep
    /\ LET n == sweep.name IN
       \/ /\ sweep.kind = "gztmp" /\ gztmp' = [gztmp EXCEPT ![n] = NoFile]
          /\ UNCHANGED <<scratch, backup>>
       \/ /\ sweep.kind = "tmp" /\ scratch' = [scratch EXCEPT ![n] = NoFile]
          /\ UNCHANGED <<gztmp, backup>>
       \/ /\ sweep.kind = "backup" /\ backup' = [backup EXCEPT ![n][sweep.of] = NoFile]
          /\ UNCHANGED <<gztmp, scratch>>
    /\ sweep' = NoSweep
    /\ UNCHANGED <<old, live, gen, launch, pass, dl, owed, shared>>

\* a library move waits for the guards, then takes every file along
LibraryMoves ==
    /\ gen < MaxMoves /\ ~Guarded /\ sweep = NoSweep
    /\ gen' = gen + 1
    /\ UNCHANGED <<old, live, gztmp, scratch, backup, launch, pass, dl, sweep, owed, shared>>

\* the app is killed and started again, a week later for what it left
Kill ==
    /\ launch < MaxLaunches
    /\ launch' = launch + 1
    /\ pass' = NoPass
    /\ dl' = [d \in Downloads |-> NoDownload]
    /\ sweep' = NoSweep
    /\ UNCHANGED <<old, live, gztmp, scratch, backup, gen, owed, shared>>

Next ==
    \/ StartPass \/ migrate_live_chat_files \/ CopyRenamed \/ SourceDropped
    \/ compress_existing_live_chat_files \/ PassStage \/ PassVerify \/ compress_file_in_place
    \/ \E d \in Downloads :
          \/ StartDownload(d) \/ store_live_chat(d) \/ DownloadCreate(d) \/ DownloadStage(d) \/ DownloadVerify(d)
          \/ compress_file_to(d)
    \/ cleanup_library_leftovers_sync \/ remove_path_if_old \/ LibraryMoves \/ Kill

Spec == Init /\ [][Next]_vars

(***************************************************************************)
(* Properties.                                                             *)
(***************************************************************************)

KeptSomewhere(n) == \/ Whole(old[n]) \/ Whole(live[n])
                    \/ \E x \in Suffixes : Whole(backup[n][x])

\* A replay the app has accepted is whole somewhere it is looked for: where the older version left
\* it, under its name in the library, or in a backup beside it, whatever is killed when. One that
\* two calls staged at once is left to StoredReplayKept.
ReplayKept == \A n \in owed \ shared : KeptSomewhere(n)

\* What compress_file_to promises of every replay it stores: no bad compression can lose the only
\* copy of one a download just brought.
StoredReplayKept == \A n \in owed : KeptSomewhere(n)
=============================================================================
