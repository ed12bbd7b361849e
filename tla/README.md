# Kavynex: a verification project in TLA+

Kavynex is a desktop application (Tauri v2: a Rust backend in `src-tauri/src`, a React frontend in
`src`) that keeps a personal library of media files. It downloads them with yt-dlp, imports local
files, and records every file in a SQLite database beside its configuration. What it must never do is
lose or misplace what the user keeps: a row without its file, a file without a row and without
anybody who will deal with it, a database replaced by an older or an emptier one, a comment or a replay
that cannot be fetched again.

These modules model the parts of the backend and of the webview on which that depends, together with
what runs at the same time and every point at which the process may die. Paths below are relative to
the repository; `services/`, `commands/` and `utils/` stand for directories of `src-tauri/src/`, and
`hooks/` and `components/` for directories of `src/`.

## 1. The system

### 1.1 Components, their state and their operations

| Component | State it keeps | Operations |
|---|---|---|
| media creation (`services/media_creation.rs`) | rows of `videos`, `CREATION_GATE`, `MEDIA_REGISTRATION_LOCK` | create by download, copy or move; register; clean up after a refusal |
| local import staging (`services/library/media.rs`, `services/filesystem.rs`) | files of the library folder | copy, hard-linked move, renamed move, adoption of content already there; hash, flush, rename |
| crash markers (`services/pending_media.rs`) | files in `pending-media/` | record, clear, the sweep at launch with its retry ceiling |
| removal, trash, orphans (`services/library/cleanup.rs`) | library files, `.trash` | plan in the deleting transaction, recount under the lock, unlink or trash, remove orphans |
| channels and avatars (`commands/channels.rs`) | rows of `channels` | insert, replace an avatar, delete |
| library lock (`services/library/lock.rs`) | one `RwLock`, `MIGRATION_GENERATION` | read guard of a file operation, write guard of a move, the generation a `LibraryPass` compares |
| library move and its recovery (`services/library/{migration,recovery}.rs`) | the library folder, `library-migration-commit`, the stored path | copy, check, commit marker, removal, storing the path; reconciliation at the next read of the settings |
| settings (`commands/settings.rs`, `hooks/settings/`) | `app_settings` | read, change one key at a time through the webview's queue |
| database swap (`services/db_backup/{import,restore}.rs`) | a dozen files beside `kavynex.db` | stage an import or an undo, apply it at launch, restore a snapshot, resume either after a crash |
| opening the database (`services/database.rs`) | the shared pool | open, refuse, create; migrate |
| daily snapshots and the external mirror (`services/db_backup/{mod,snapshot,external}.rs`) | `.bak` .. `.bak.6`, the mirror folder | snapshot, rotate, promote; export, adopt, rotate |
| integrity, lineage, compaction (`services/db_backup/`) | `.integrity-failed`, `.lineage` | weekly full check, which copies belong to which database, `VACUUM` |
| schema (`services/db_schema/`) | `user_version`, `.pre-migration-v*` | one migration per version, the copy taken before them and its pruning |
| download runs (`services/yt_dlp/`, `services/process_registry.rs`) | the registry of runs, pids, cancel flags | register, wait for a slot, run, cancel, place the file |
| concurrency gate (`utils/bounded_semaphore.rs`) | permits and a count | reserve, wait, release |
| comments (`services/media_comments.rs`) | rows of `media_comments` | fetch, merge in one transaction, read by page |
| live chat (`services/live_chat_storage.rs`) | `.json.gz` files, staging and parked copies | store, compress, migrate from the old folder, stream in batches, cancel |
| thumbnails (`services/thumbnail/`) | display cache, previews, scratch folders | make display copies, generate and stage previews, fetch an image |
| cookies (`services/yt_dlp/cookies.rs`) | private copies, the user's file | copy for a run, write back what was renewed, replace safely |
| verification, integrity scan, summary (`services/library/`) | one flag, the progress | hash every file, compare rows and folder, walk, plan an orphan removal |
| media protocol and scope (`services/media_protocol.rs`, `commands/security.rs`) | granted and forbidden folders, the share | register the library, serve ranges |
| paths and guards (`utils/path.rs`, `services/library/{paths,guard}.rs`) | none | accept, refuse and resolve the path of a row; the folder of the library |
| binaries (`services/binaries.rs`, `utils/process.rs`) | the last Deno found | look up, ask for a version within a deadline, show Deno to yt-dlp |
| temporary files (`services/temp_cleanup.rs`) | none of its own | the sweeps of a launch |
| startup notices, kept files, logger, file manager | small sets of the process | record, deliver once, reveal |
| webview (`src/`) | React state | lists, player, the Add media form, channels, settings: calls the commands above |

### 1.2 How they interact

- The webview calls commands over IPC. Tauri runs them concurrently on the tokio runtime, with file
  operations on its blocking pool. Two commands interleave at every `await` and, once one is on the
  blocking pool, at every system call. Answers and events reach the webview in any order.
- All components share one SQLite pool. A transaction is atomic; two transactions of one operation
  are not.
- Rows name library files by a path derived from the content, so two creations of the same content
  share one file. Everything that inserts a media row, and everything that removes a file, therefore
  goes through `MEDIA_REGISTRATION_LOCK`, and removals count the references again under it.
- Creations and the orphan removal exclude one another through `CREATION_GATE`, which a creation takes
  before that lock. A library move excludes creations with the same gate and every guarded file
  operation with the library lock.
- What must survive the death of the process is a file: a crash marker per creation, the commit marker
  of a library move, the marker of an import being applied, and the names of the database's siblings.
  Each is read by a recovery that runs at launch before, or while, commands are served.

### 1.3 What is hard

Deletions that commit before their file removal gets the lock; creations that adopt a file another
creation stored; a rename that carries the user's only copy; sweeps of leftovers beside new creations;
a settings write that read before a move and writes after it; four families of renames with a crash
between any two of them; rollbacks that fail in turn; two locks taken in opposite order; a lock that
prefers writers and functions that take it twice; a run cancelled while it waits for a permit; a pid
that outlives its child; a migration cut short after some of its versions committed; a fetch that takes
minutes and stores into a media that is gone; a replay replaced while it is compressed; a list whose
rows are deleted while its next page is under way. `PROJECT.json` lists these hazards at their lines.

## 2. The modules

| Module | What it models | Stands beside |
|---|---|---|
| `MediaLibrary` | rows and files of the library under creations, deletions, avatars, the crash-marker sweep and the orphan removal | `MediaLibraryProofs` |
| `DatabaseSwap` | the files beside `kavynex.db` while one database replaces another, over launches and crashes | `MCDatabaseSwap`, `DatabaseSwapProofs` |
| `LibraryMove` | the move of the library to another folder, beside its writers and the settings form | `LibraryMoveProofs` |
| `Backups` | the daily snapshots and the external mirror: write, check, rotate, promote, restore | `MCBackups`, `SnapshotQueue` (what the daily family promises), `BackupsProofs` |
| `SchemaUpgrade` | the launch that migrates: the copy before it, each version, refusals, kills and power loss | `MCSchemaUpgrade`, `SchemaUpgradeProofs` |
| `DownloadRuns` | runs of yt-dlp: registry, gates, children, cancel, exit, what becomes of the file | `MCDownloadRuns`, `DownloadRunsProofs` |
| `ReplayFiles` | the files of the live chat replays: the startup pass, the downloads, the sweep | `SideData`, `ReplayFilesProofs` |
| `LibraryWrites`, `Comments`, `ReplayStream`, `DisplayCache`, `RemoteImages`, `CookiesFile`, `Previews`, `LibraryChecks`, `ServedLibrary`, `Tools`, `StoredPaths` | the files of the library and the data beside the media, a module each | `SideData` (all of them, and `ReplayFiles`), `MCSideData`, `SideDataProofs` |
| `MediaPages`, `PlayerProgress`, `TempThumbnail`, `AddMediaRun`, `Channels`, `LibraryFolder` | the state of the webview against the backend it calls | `MCWebview` (all of them) |

The specifications share no variable. Each takes the others as its environment: a database in
`DatabaseSwap` is one id whatever its rows, a daily copy there is the one file `bak`; in `Backups` a
restore is one step, whose file operations are those of `DatabaseSwap`; in `LibraryMove` a creation is a
write followed by a row, whose inside is `MediaLibrary`; in `LibraryFolder` a move is one step, whose
inside is `LibraryMove`.

Every module keeps one rule about atomicity. A step is what the code cannot be interrupted in: one
file-system call, one SQL transaction, one critical section of a `std::sync::Mutex`, in the webview the
code between two `await`s. Between two such steps the process may die, and another command may run,
unless a lock the code takes forbids it, and then that lock is a variable.

### 2.1 MediaLibrary

Files are content-addressed, so a path stands for its content: `disk`, `trash` and `originals` (files
outside the library that a Move is to take) are sets of paths. `recent` are the files younger than the
window in which the orphan removal leaves files alone. `channels`, `avatar` and `rows` are the database.
`markers` are the files of `pending-media/`, with what the process knows of each (which creation owns it,
whether it predates this process, how often its sweep failed). `lock` is the holder of
`MEDIA_REGISTRATION_LOCK`; `CREATION_GATE` needs no variable, since a creation is inside it exactly while
its `pc` is not `idle`.

| Actions | Code |
|---|---|
| `Create`, `StoreThumb`, `StageCopy`, `StageRename`, `StageFails`, `Place`, `MarkPlacement`, `CancelPlaced` | `media_creation.rs` up to the registration, `library/media.rs`, `placement.rs` |
| `BeginRegistration`, `RecordMarker`, `ClearInterim`, `CheckFiles`, `Insert`, `InsertFails`, `ClearMarkers`, `RemoveSource`, `PutBack`, `Close` | `register_prepared_media` and what follows it, under the lock |
| `Count`, `Acquire`, `Recount`, `Remove` | the removal that every path shares (`library/cleanup.rs`): the deleting transaction plans, the lock is taken, the references are counted again, the files go |
| `DeleteMedia`, `DeleteChannel`, `StoreAvatar`, `ReplaceAvatar`, `InsertChannel`, `RefuseChannel` | the user's commands; their transactions hold no lock, their removals do |
| `ReadMarkers`, `SpareLive`, `Settle`, `SweepDone` | `sweep_pending_media_artifacts`, once per launch |
| `ExcludeCreations`, `RefuseOrphans`, `ListOrphans` | `remove_orphan_artifacts` |
| `Age`, `Restart` | the clock; the end of the process at any point, and the next launch |

What the disk or the database may refuse is switched on by constants (`RecountMayFail`,
`MarkerMayFail`, `RemovalMayFail`), and `HardLinks` says which of the two Moves the volume allows.

### 2.2 DatabaseSwap

`file` maps each name beside `kavynex.db` to the database in it, an id and whether the file holds its
last transactions or they are still in its log. `log` does the same for the three names a write-ahead log
can have. `marker` is `.import-applying`. The actions are the renames, removals and marker writes of
`resume_interrupted_restore` (`Resume`), `apply_pending_database_import` (`Apply`), the opening of the pool
(`Open`), the session and the commands that stage an import or an undo (`User`), and
`restore_database_from_backup` (`Restore`), in the order of `setup()` in `lib.rs`. `pc` is the next of
them; a crash sets it to `off` and leaves the files.

`owed`, `spare` and `live` are history variables: the libraries the app has opened and may not lose, the
one an import just replaced and promised an undo to, and the one in use. They are written by the step
that opens, swaps or gives up a library and constrain nothing; nor does `leftLog`, the log of an undo copy
whose best-effort removal was refused (`import.rs:835`).

What may go wrong is budgeted per behaviour (`limits`, one of `Budgets`), so that one run covers several
mixes of failures without paying for their product.

### 2.3 LibraryMove

`content` and `present` are the folders, `stored` is `app_settings.library_path`, `marker` the commit
marker. `mover` is `migrate_library_directory` with its `pc`: wait for the gate, copy, check, write the
marker, remove, release, store the path, clear the marker, hand over to the window's own save. `form` is
the settings queue of the webview, whose every update reads the settings (settling an interrupted move on
the way: `Probe`, `ReadStored`, `Evaluate`, `Adopt`, `Unmark`) and writes them back (`Load`, `Compare`,
`Save`, `ClearAfterSave`). `writer` are commands that read the library path, take the read side of the
gate, write a file and add a row: creations, picked images and avatar downloads, which differ in what
excludes them (the creation gate; nothing; the generation of a `LibraryPass`).

`Scenarios` is a set of sets of risks, one of which a behaviour is exposed to.

### 2.4 Backups and SnapshotQueue

A copy is a number, in the order in which copies were taken. `slot` are the generations, `parked` is
`.rotating`, `tmp` what `VACUUM INTO` is writing, `staged` the mirror's `.new`. `whole` are the copies that
were finished, `kind` what the database was when each was taken, `recent` the copies within the 24 hours of
the throttle, `aside` what was renamed out of the rotation for good. Each caller has a place in its run
(`pc`), in the shift (`gen`), and remembers whether it parked (`parkedIt`). `lock` is `BACKUP_IN_PROGRESS`.

Two callers run either family. Those of the daily one, the pool's background snapshot and the periodic loop,
exclude one another by that lock; those of the mirror, the loop and the setting of its folder
(`settings.rs:167`), by nothing, so a run of the mirror may begin while another is under way wherever the
behaviour's budget (`limits`, one of `Budgets`) has `overlap`. Two history variables record what the properties
need: `overlapped`, that two runs of the mirror were once under way together; `sawEmpty`, that the last daily run
found no rows when it looked.

| Actions | Code |
|---|---|
| `BeginSnapshot`, `BeginMirror`, `ApplyRules`, `SetAsideEarlier` | throttle, lock and the rules that turn a run away (`snapshot.rs`, `external.rs`) |
| `ClearTmp`, `StartVacuum`, `VacuumRefused`, `FinishVacuum`, `CopyFails`, `CheckCopy`, `StageExport` | writing the copy and reading it back before anything moves |
| `PutBackParked`, `ParkNewest`, `ShiftGeneration`, `PlaceParked`, `Unpark`, `Promote` | `rotate_generations`, `promote_generation`, `unpark_generation` |
| `Restore`, `SetAsideBackup`, `CreateEmpty`, `Import`, `FullCheck`, `Edit`, `Decay` | what becomes of the database, and of the copies when it is gone |
| `Hold`, `Release`, `Expire`, `Crash` | a program that keeps a file open (renames are refused), the clock, the end of the process |

`SnapshotQueue` says what the daily family promises without any of this: a set of copies to which only
newer ones are pushed, from which only the oldest is dropped and never the last one, and from which the
user may set copies aside. `Backups` implements it (`OnlyOldestDropped`) under the mapping

    kept <- (Generations \cup {parked}) \ {0}     aside <- aside

so a copy counts while it is in a generation or parked between two renames of a rotation. The mirror
promises less (see 6.2), and maps to a queue that never changes; what it does promise is `MirrorsKept`.

### 2.5 SchemaUpgrade

A database is its version, the columns and indexes that versions after the baseline add, its triggers, and
which rules of later versions its rows violate (`flaws`). `file` is the database, `fallback` the earlier
commits of this launch that a loss of power may take it back to (`synchronous = NORMAL` does not flush the log
at a commit), `copies` the `.pre-migration-v*` files, `tmp` the one being written, `pending`, `created`,
`version`, `current` and `step` what the launch read on its way. The actions are `Inspect`, `Check`,
`DailyInstead`, `Vacuum`, `Store`, `Prune` (`build_pool_at`, `snapshot_before_migration`), `OpenPool`,
`Migrate`, `Ready` (`ensure_schema`, one version at a time; `Migration(v, d)` says what version `v` makes of
`d`, or that it cannot), and between launches `Quit`, `Kill`, `PowerLoss`, `Lost`, `Swap` and
`start_with_empty_database`. An imported file passes `validate_import_source` and loses its triggers and views
first. Files that look like ours and lack a column the validation does not ask for are accepted by the code
and by the model. When the version cannot be read, only the daily backup, with its throttle, stands in for
the copy; the damage a check finds is left to `DatabaseSwap`.

### 2.6 DownloadRuns

`pc` is where each run is; `registry` and `cancelled` are the registry of runs, `pidOf` and `tracked` the two
ways the exit handler finds children, `proc` the children, `slots` and `free` the counter and the permits of
the two gates, `holds` and `want` what a run has and waits for, `place` and `folder` the produced file and the
run folder. A download takes both gates in turn (it reads its metadata first), so all of them waiting on one
another is a behaviour the model has. `gaveUp` and `result` say what the caller was told. A child is killed
with its tree, which may fail and is tried again; on Windows children sit in a kill-on-close job, on Unix a
probe started after the last sweep of the exit can outlive the app, and the model leaves it alive. `exitOk`
is a success of yt-dlp that left a file with a media extension.

### 2.7 The files of the library and the data beside the media

Each module below has its own state, actions and properties. `SideData` composes all of them, and a
behaviour is of the one its variable `part` names; `MCSideData` gives its constants values. `Lists` holds the
one helper on lists that two of them share. Where a module has a variable that says a known weakness
happened (`raced`, `gone`, `early`, `away`, ...), that is a history variable, and section 6.2 says what it
leaves out.

| Module | State | Actions |
|---|---|---|
| `LibraryWrites` | names, files, which names and contents are durable, the per-file lock | hash, copy, flush, link or rename, look at what is there, replace a damaged file, put back, remove the source; power loss (`crashDirs`) |
| `Comments` | media and comment rows, fetches, readers | fetch, merge in one transaction, delete, import, page reads and their cap |
| `ReplayFiles` | old folder, library, staging and parked names, with the call that has each open | migrate, compress, replace, sweep; downloads; kill, launch, library move |
| `ReplayStream` | reads, the list of abandoned ids | start, wait, batch, cancel before, during and after |
| `DisplayCache` | sources, cache, budget, the generation slot | resolve a page, run FFmpeg, evict at startup, remove a thumbnail |
| `RemoteImages` | request, hop, body, scratch folder, the semaphore of yt-dlp runs | look up, connect, follow, read, next candidate, run yt-dlp, store |
| `CookiesFile` | the user's file, hidden backups, copies, the write-back mutex | copy, run, compare, replace step by step, put back; export by a browser; death and sweep |
| `Previews` | preview folder, calls, the semaphore | hash, look, make, rename, delete, sweep by age; the source edited meanwhile |
| `LibraryChecks` | folder, rows, the flag and cancel of a verification, the scan, the walk | begin, hash, report, cancel; list, compare, plan; the library changing under each |
| `ServedLibrary` | configured folder, granted and forbidden folders, the share, reads | register step by step, forbid, make folders, serve ranges; move, pulled drive, restart |
| `Tools` | a computer, a lookup, a probe with its pipe, the report, the last Deno | look up, spawn, read, time out, kill, join; remember Deno, start yt-dlp |
| `StoredPaths` | a text, the path of its row, what it opens, its name read again | `sanitize`, resolve, read back |

What each leaves out, besides the data its properties do not depend on:

- `LibraryWrites`: a rename across volumes that was corrected is not followed by a flush of the directory, and
  flushing one is best effort in the code; pairs of calls meet refusals or a damaged file, not both (the run's
  comment says why).
- `Comments`: what a fetch brings does not depend on the database, so the answer and the merge are one step.
  An older answer merged later sets a text back, as the code does; the text first archived is kept beside
  it. A comment that came first without an id and then with one is stored twice by design.
- `RemoteImages`: no caller passes a cancel flag; FFmpeg ends before yt-dlp; an answer without a length that
  is closed early cannot be told from a whole one; what a kill leaves waits for the week-old sweep.
- `CookiesFile`, `Previews`: each run and call happens once per launch.
- `LibraryChecks`, `StoredPaths`: the other separator of Windows, symbolic links below the top.
- `StoredPaths`: a row keeps the text it came with; nothing in the app writes a leading space, `./` or a
  doubled slash, which would be a second name of the same file. The second pass of the sanitising only lets
  more through. The parsing of a network path is not modelled.
- `Tools`: a lookup is one step; the deadline passes only for a child that does not go on.
- `DisplayCache`: a partial copy stays until it is evicted, and eviction happens only at startup.

### 2.8 The webview

| Module | State | Actions |
|---|---|---|
| `MediaPages` | the sorted rows, the page state of the hook, requests and edits in flight | load, append, answer, delete, mark, create, jump to one media, change channel |
| `PlayerProgress` | the row, its copy in the list and in the player, saves and marks in flight | open, move, save, mark, close, unmount, answers in any order |
| `TempThumbnail` | previews on disk, the chosen file, the shown path, callbacks that wait | pick, generate, choose an image, clear, add, reset |
| `AddMediaRun` | form, format loader, terminal, creation, the runs the backend knows | open, edit, load formats, add, events, cancel, close |
| `Channels` | rows, list, selection, dialog, loads in flight | create, edit, delete, avatar, reload, count of media |
| `LibraryFolder` | the stored settings, folders and drives, picked folders, the page | prepare at startup, pick, confirm, move, store; toggles; import, launch |

A request is sent, takes effect and is answered at three moments, and what one render can see of another is
taken from the hooks' refs. `MCWebview` composes them as `SideData` does.

## 3. The runs

A run names its configuration in `PROJECT.json`. The numbers are distinct states.

| Run | Instance | States | Properties | Question |
|---|---|---|---|---|
| `media_races` | two creations (copy, move) of one file, a user, the sweep, the orphan removal, 3 requests, refused markers and removals | 1.8 million | `RowFilesExist`, `SourceGoneOnlyAfterCopy`, `OrphansSpareCreations` | does any order of creations, deletions and sweeps leave a row without its file, or take a file that a creation counts on? |
| `media_markers` | two downloads of one file, two restarts, removals that fail, one attempt per marker | 99 thousand | `TypeOK`, `NothingForgotten` | is a crash marker ever given up while a file it names is nobody's? |
| `media_moves` | one renaming Move at a time, a user, a restart, removals that fail | 123 thousand | `OnlyCopyKept`, `EveryOperationEnds`, `EveryLeftoverIsSwept` | does the only copy survive, does everything that begins end, does the last launch deal with what earlier ones left? |
| `swap_launches` | four budgets of crashes, refusals, damage and imports | 1.1 million | `LibraryFileKept`, `UndoKept`, `LogsStay`, `DamagedKept`, `RecoveryTellsApart`, `LaunchEnds` | does a launch lose, mix up or hide a library? |
| `move_scenarios` | two files, three folders, one writer, four scenarios of risks | 1.3 million | `LibraryFound`, `MoveLosesNothing`, `MoveEnds` | whenever the process dies, does the folder the next launch opens hold what the rows name? |
| `backups_families` | three generations, two callers, up to four copies, four budgets: a crash, a held file or failed copy and an event of the database, for either family; three events in the daily one; overlapping runs of the mirror | 2.0 million | `TypeOK` and seven of section 3.1 | does a rotation, interrupted or refused anywhere, lose a copy that it should keep, and does the next one succeed? |
| `schema_upgrade` | databases of every shape of upgrade, two crashes, one fault, one import or loss | 3.4 million | `Upgraded`, `RollbackPoint`, `MigrationsPass` | is what the app opens the current schema in full, and can the user go back to the launch before? |
| `download_runs` | up to three runs, two ids, one permit and two places per gate, four mixes of calls | 332 thousand | `GatesKeepCount`, `RunsTracked`, `DownloadKept`, `EveryRunEnds` | does a run give back what it took, can it always be found, is a finished file kept? |
| `side_data` | the twelve modules of 2.7, one per behaviour | 1.3 million | `FilesKept`, `ReplayKept`, `AnswersTell`, `FetchesBounded`, `ArchiveKept` | is what the app has made its own kept whole, is what it answers so, do fetches stay within their bounds? |
| `webview` | the six modules of 2.8, one per behaviour, under several budgets | 1.6 million | `ListsTell`, `ChoicesKept`, `DialogsTell` | does the window show, keep and act on what is there, in whatever order answers come? |

The other two runs, `media_only_copy` and `move_stale_save`, are expected to find a violation; section 6 is
about them.

### 3.1 The properties

- `RowFilesExist`: a media row never names a file that is gone.
- `OnlyCopyKept`: a file that a Move renamed into the library is in the library or back at its source
  for as long as the creation runs.
- `SourceGoneOnlyAfterCopy`: a Move gives its source up only while the library has the content.
- `NothingForgotten`: a marker goes only when each file it names is gone, referenced, or named by another
  marker, command or creation.
- `OrphansSpareCreations`: the orphan removal takes no file of a running creation.
- `EveryOperationEnds`, `EveryLeftoverIsSwept`: liveness of the gate and the lock, and of the sweep.
- `LibraryFileKept`, `UndoKept`: an owed library is in one of the places from which it comes back;
  the library that an import replaced can be undone to (`UndoFileKept`) and, without a crash, opens with its
  last transactions (`UndoCopyOpensWhole`).
- `LogsStay` (`OpensWhole` and `NoForeignLog`): a database is never separated from its log, nor put
  beside another's; beside the undo copy there may lie the log of the copy before, where its removal was refused,
  and no other. Stated for behaviours without a crash, with one it is false (6.2).
- `RecoveryTellsApart`: no empty library over a stranded one, and a restore is the only thing resumed as a restore.
- `DamagedKept`: no step takes the only file of a damaged database unless it is superseded: it was the undo copy an
  import replaces, the oldest generation of a rotation, or lay under the scratch name, where only a restore that was
  cut short or refused leaves it, when another restore begins.
- `LaunchEnds`: every launch comes to a library or to the recovery prompt.
- `LibraryFound`, `MoveLosesNothing`, `MoveEnds`: the rows' files are in the folder a launch would open;
  a file leaves a folder only when that folder has it; a move ends.
- `OneADay`, `GenerationsWhole`, `OnlyOldestDropped`: the throttle holds and generations are whole, for the daily
  family always and for the mirror until two of its runs have overlapped; the daily family is the queue.
- `LibraryCopyKept`: a library's last daily copy goes only for a checked copy waiting to be promoted, which is of a
  library too, or of a database that had rows when its run looked and lost them before the `VACUUM`.
- `MirrorsKept`: whichever caller asks, the mirror's newest copy survives and copies of another database are
  renamed, not dropped, until two of its runs overlap.
- `RestoreTakesNewest`: a restore takes the newest generation in place.
- `FreshCopyLands`: when nothing more goes wrong, the very next run puts its copy in generation 0. It is asked of
  the state in which one copy is left to take, so that no later run can make good for one that fails, and
  whatever earlier runs, overlapping ones too, left under the temporary and parked names.
- `Upgraded`, `RollbackPoint`, `MigrationsPass`: a database that opens has every column, index and trigger and
  no row that violates them; the state a launch found stays on disk while it migrates and runs; no database a
  build leaves, or an import accepts, is one a migration cannot pass.
- `GatesKeepCount`, `RunsTracked`, `DownloadKept`, `EveryRunEnds`: permits and places are neither lost nor
  invented; an id names its run, and a pid only a supervised child; a finished download goes only by a cancel
  or when it was given up before; no run waits for ever.
- `ArchiveKept`: a comment keeps the text, author and date it was first archived with, until it is deleted or
  another database is imported; the comments of a media are those of its video (`OwnComments`), its row counts
  them and its state says whether they were read (`StateTells`).
- `ReplayKept`: a replay the app has accepted is whole where the older version left it, under its name, or in a
  backup beside it, unless two calls staged its compressed copy at once.
- `FilesKept`: what the cache, the fetches and the previews leave under a final name is whole (`CacheWhole`,
  `ImagesWhole`, `PreviewsWhole`); the user's export of cookies is never replaced by an older one (`ExportKept`).
- `AnswersTell`: a file given to the library is somewhere until the library holds it whole (`GivenKept`), a hashed
  name holds its content (`NamesTellContent`), a row's path is the one name of its file and opens it
  (`OneNameEach`, `StoredOpens`); a list, a stream, a verification, a scan, a walk, a range, a lookup says what
  there is (`ReadWhole`, `StreamsTell`, `FinalAnswers`, `VerificationTells`, `OneVerification`, `ScanTells`,
  `WalkTells`, `ServedAsTold`, `NotMadeAnew`, `RangesTell`, `LookupTells`, `StatusTells`, `ChildrenFindDeno`).
- `FetchesBounded`: servers, tries, processes and leftovers stay within their bounds
  (`ReachesOnlyItsServers`, `RunsCounted`, `CandidatesDiffer`, `PreviewsCounted`, `PartialsGone`, `CopiesSwept`,
  `ReadsCounted`, `NothingLeft`).
- `ListsTell`: a channel's list is a list of that channel, ends complete, and a jump finds its media
  (`ListOfChannel`, `ListComplete`, `JumpFinds`); the list of media and of channels ends as the rows are
  (`PlayerProgress!ListTells`, `Channels!ListTold`), with a new channel selected (`NewSelected`).
- `ChoicesKept`: the last position is stored and a watched media begins anew (`PositionKept`,
  `WatchedFromStart`); the thumbnail shown is the chosen one, its file is there, none is left behind
  (`ShownAsChosen`, `ThumbnailThere`, `PreviewsTracked`); the library is where it was put, only a picked folder
  is taken, none inside the app's own, a setting stays, an import brings no folder of another machine
  (`LibraryFound`, `PickedTaken`, `LibraryApart`, `ToggleKept`, `ImportStaysHere`).
- `DialogsTell`: the formats are of the address, the terminal follows its run, Cancel cancels what is shown
  (`FormatsOfUrl`, `TerminalFollows`, `CancelsWhatIsShown`); a count and a dialog are of the channel named
  (`CountOfNamed`, `DialogOnChannel`).

Each property of a run is falsified, under the configuration of its own run, by a plausible fault in the code:
the definitions marked "Mutant" are those faults (a recount that replaces a lock, a rollback without its log, a
leftover taken for scrap), and `PROJECT.json` pairs each with the definition it replaces. A conjunction has one
for each of its parts.

### 3.2 Why these bounds

- Creations interfere in pairs: one stores what another adopts, deletes or sweeps. Two creations, one
  user, the sweep and the orphan removal give every pair, one path of each sort makes them all meet on it,
  and three requests are a creation, a second one and a deletion between. `TypeOK` and five safety properties
  are proved for any number, two of them under the conditions that 5.1 names.
- A launch reads only the names beside the database, and a second import starts from what the first left,
  so two imports, with a crash in each, go through every pair of a recovery and an operation that follows
  it. `MaxId` leaves room for the edits that make a log matter; `TopId` for an empty database created
  after each loss.
- A move has one commit marker, and a second move rewrites it; two moves, one crash and one save reach
  every order of marker, path and folder. Three folders let a second move differ from a return.
- Three generations are the least with a first, a middle and a last. The proofs of 5.2 cover the seven of the
  code. Four copies fill them and push one out. Three events empty a library, fill it and empty it again, each
  between a run's look and its `VACUUM` if need be, which pushes the last copy of a library out.
- A migration depends on the version and on what its file lacks, so one database before and after each
  version that repairs something, with all the flaws it may have and with none, meets every branch. Two
  crashes cut a launch and the one that resumes it; a third finds nothing new.
- Two places with one permit make a run wait and one be refused; a third run is the refused one. Four mixes
  of calls meet each pair of kinds and the exit.
- Replays are independent by name, so one name that an older version and a download both bring is enough, with a
  kill anywhere in the first of two launches. The proof covers any number of each, and several downloads.
- In `side_data` the caps of the code (`MAX_COMMENTS_PER_MEDIA`, batch lines, bytes, redirects, permits)
  become the smallest numbers at which the inputs fall on both sides of them; two calls at once, or three
  where a third is refused.
- In `webview` a budget is the most of each kind of request; the mixes differ in which of them a behaviour
  gets two or three of, since answers pass one another in pairs.

## 4. Fairness

- `MediaLibrary`: strong fairness for the steps of each actor. Commands are tasks of the tokio runtime,
  which polls every task that is ready; the registration lock is a tokio mutex, which is fair (first in, first
  out), so an actor that waits for it is granted it though it is taken and released many times. Requests,
  the clock and the end of the process are not fair.
- `DatabaseSwap`: weak fairness for `Resume`, `Apply`, `Open` and the steps of a restore. `setup()` runs
  them in sequence on one thread. What the user does and crashes are not fair.
- `LibraryMove`: weak fairness for the move, the form and each writer. The library lock is a
  `std::sync::RwLock` (`lock.rs:36`). The standard library promises no order; its implementation lets no new reader
  in before a waiting writer on the platforms the app is built for, which `lock.rs:77` counts on when it warns
  of nested reads. That is a guard of `TakeGuard`, and `MoveEnds` needs it.
- `Backups`: weak fairness for the beginning of some run (the periodic loop keeps asking; a launch or the setting
  of the folder need never do so) and for the steps of each run that began. That a program lets go of a file is
  not assumed: `FreshCopyLands` starts where nothing is held and nothing more may fail.
- `DownloadRuns`: weak fairness for the steps of each run, for `Notice` (the run-time cap of a supervised
  child always comes) and for the steps of the exit handler. That a child ends by itself, that a
  cancel comes and that the app exits are not assumed. Each run starts once, so weak fairness suffices for a
  permit: nobody can take it for ever.

The other modules state safety and have no fairness. Deadlock is checked by every run but `backups_families`,
`side_data` and `webview`, whose behaviours stop when the copies, calls and requests of their budgets are used
up: that is the bound, not the code.

## 5. What is proved

TLAPS checks every proof. All constants are arbitrary, under the assumptions their modules name; a theorem
that needs more says so in its statement.

### 5.1 MediaLibraryProofs

- `TypesKept`: `Spec => []TypeOK`. The sweep counts attempts up, and stays within `MaxAttempts` only
  because it never reads a marker that has reached it; `SweepTyped` adds that, and `AvatarTyped` that a
  stored avatar is an image.
- `RowsKeepTheirFiles`: `Spec => []RowFilesExist` when the volume has hard links and a recount answers.
  Without either it is false, and 6.1 and 6.2 show how. The inductive invariant `RowsInv` says why the
  lock and the recount are enough together: whoever is inside a critical step holds the lock (`MutexInv`);
  between the check and the insert of a registration its files are on disk (`CheckedInv`), because nobody
  else removes; between the recount and the removal no row names what is planned (`PlannedInv`), because
  nobody else inserts; and no file is renamed out again (`NoRenameInv`).
- `SourcesOutlived`: `Spec => SourceGoneOnlyAfterCopy`, with no such condition. `LockInv` takes the types and
  `MutexInv` from above and adds `SeenInv`: from the look at its file until the source is removed, the lock is
  held and the file is in the library. Row and file may still part company where `RowFilesExist` fails, but
  never together with the loss of the source.
- `OnlyCopySurvives`: `Spec => []OnlyCopyKept` when every creation is a Move that renames its file
  (`OnlyRenamingMoves`, the instance of `media_moves`; beside downloads of the same content it is false, which
  is the finding of 6.1). `CopyInv`: a file that still lies at its source, or that a Move renamed and has not
  registered, is one that no row, plan or marker names; so no removal can be after it, and the
  Move that renamed it is the only one to hold it.
- `MarkersAnswered`: `Spec => NothingForgotten`. Every marker that is alive, and the one in the hands of the
  sweep, names files that are `Cared` for: gone, referenced, planned by a command, owed by a creation under way, or
  named by a marker of this launch. `CareInv` has a part for each actor: `MarkInv` and `SweepInv` say what is cared
  for, `JobInv` and `TaskInv` that what a creation or a removal is about stays cared for until its step, and
  `FailInv` who answers for a removal that failed. Where no removal fails there is no other condition; where
  one may, `AnsweredRemovals` asks that each belongs to a creation that leaves its marker behind. The instance
  of `media_markers` satisfies it, and 6.2 says what happens without it.
- `OrphansWait`: `Spec => OrphansSpareCreations`. `GateInv`: while the orphan removal is under way no creation is.

### 5.2 BackupsProofs

- `BackupsTypesKept`: `Spec => []TypeOK` for both families, whatever callers do at once. The shift counts
  down, and `ShiftTyped` says that it never passes the first generation.
- `DailyIsQueue`: `Spec => OnlyOldestDropped`, the refinement. A step of `Backups` is a push, a drop of the
  oldest, a setting aside, or a stutter of the queue. The invariant has three parts. `OneRuns`: under
  `BACKUP_IN_PROGRESS` one caller is under way, so what it knows of the files stays true. `Ordered`: the
  copies are in the order of their age, the generations, then the parked one, then the one being written.
  `PlaceOf`: at each step of a rotation, where the free place is: the generation that the shift writes into
  is empty unless it is the last, so what a rename overwrites, or a refused one clears, is the oldest copy,
  while the one that was to move is still there.
- `CopiesADayApart`: `Spec => []OneADay`. `DayInv` says that a copy gets no younger: a run starts only when the
  newest generation is not of the last day, so while it is under way no generation is, nor is the parked one, and
  the one copy that may be recent is the one it promotes. It is kept by every step that does not overlap two
  runs of the mirror, and `overlapped`, once set, stays (`OverlapGrows`).
- `GenerationsStayWhole`: `Spec => []GenerationsWhole`. For the daily family `Checked` says that a rotation runs
  only for a copy that was read back. For the mirror `MirrorWhole` follows the one run under way: what it finds
  under the temporary name is its own, and a generation is adopted or promoted only after it was read back.
- `MirrorKeepsItsCopies`: `Spec => MirrorsKept`, for any number of callers. `InOrder` puts the mirror's copies in
  the order they were taken: the generations, what is parked behind generation 0, what is staged, what is
  being written. It is weaker than the order of the daily family, since a copy adopted from `.new` may lie in front
  of a parked one, which is then deleted: the copies behind it are older than both. `MirrorPlace` says which
  place is free at each step, so what a rename drops is older than what it puts there, and `MirrorRule` that a run
  over another lineage's copies goes on only when none of the generations above 0 holds a library.
- `NewestIsRestored`: `Spec => RestoreTakesNewest`, from `Ordered` alone: the first candidate that can be read, with
  none before it, is the newest.
- `LibraryOutlivesEmpty`: `Spec => LibraryCopyKept`. `RunRule` carries the rule from the step that applies it to the
  rotation: a run that found no rows found no library behind generation 0 either, so none is there to be rotated
  out. A run that found rows drops the oldest copy only for one that it has checked.

### 5.3 SchemaUpgradeProofs

- `UpgradeKeepsRollback`: `Spec => []RollbackPoint`, for any files at all. `CopyOnItsWay` says where the copy
  of what the launch found is before it has its name: unwritten while nothing changed, then the temporary
  file, then a copy; `PruneSparesWritten` that pruning keeps the version it was called for.
- `OpensCurrent`: `FilesAreBuilt /\ Spec => []Upgraded`. `FilesAreBuilt` asks that the files the app meets are
  what some build leaves at the version they claim (the files of `schema_upgrade` are, look-alikes included, of
  which `Upgraded` asks less). `EveryFileStored` says that of every file at every
  moment, the earlier commits that a loss of power may bring back included; `Passed` what has been skipped
  or committed so far; and `MigrationBuilds`, one case per version, that a migration takes what the version before left
  to what its own leaves.

- `MigrationsAlwaysPass`: `FilesAreBuilt /\ Spec => []MigrationsPass`, by the invariant of `OpensCurrent`. Only three
  kinds of statement of a migration can fail: an index over a column that is missing, a unique index over
  rows that repeat, and an UPDATE that the app's triggers refuse. What the versions before it left rules each out.

### 5.4 DownloadRunsProofs

- `RunsAreTracked`: `Spec => []RunsTracked`. `PlacesInv` says what a run holds and is at each place of its
  way; `EntriesOwned` that an entry of the registries is that of a run that has not left.
- `DownloadsAreKept`: `Spec => []DownloadKept`. The run folder is removed in one place; `FoldersTold` says what
  is known there: a file still in a folder about to go belongs to a run that was cancelled or given up.
- `GatesCount`: `Spec => []GatesKeepCount`, for any number of runs, permits and places. The counters are
  cardinalities of sets of runs; `CountsMove` says how a step of one run moves it between those sets.

### 5.5 LibraryMoveProofs

Both theorems assume `CalmScenarios`: the risks are among `ownFiles`, `markerRefused`, `removalStops`,
`secondMove` and `crash` (the first scenario of `library_move`), for any folders, files and writers and any number
of moves, saves and crashes. No settings write fails, none is under way when a move starts, and only creations
write into the library. The run checks other risks in pairs; some of those pairs break the properties (6.2), so no
proof covers them all.

- `MovedLibraryFound`: `Spec => []LibraryFound`. `TurnsTaken`: a creation runs beside no move, and a move beside no
  save. `MoveOnItsWay`: the old folder stays the setting until the new path is stored, and it is emptied only under
  a marker that names the move, after the copy was found complete. The form settles a marker it finds
  before it writes anything, so it never stores a path that an interrupted move has left.
- `MovesLoseNothing`: `Spec => MoveLosesNothing`, from the same invariant: a file that leaves a folder is in the folder
  that the marker or the setting names.

### 5.6 DatabaseSwapProofs

Any number of databases, imports, undos and restores, and damage at any time. What may be refused
or interrupted is bounded: `OneRefusal`, at most one refused rename, removal or write in a behaviour; `CalmBudgets`, that,
and either launches that all run to their end or any number of kills with nothing else going wrong. With
kills and a refusal or damage in one behaviour those properties are false (6.2), so the bound is the code's and not the
prover's. `DamagedAlwaysKept` and `DatabaseSwapTypes` need no bound.

- `NoLibraryLost`: under `CalmBudgets`, `Spec => []LibraryFileKept`. `OnItsWay` says which of the names exist at each
  step of a swap or a restore; `Kept`, that the library the app owes is the last it opened, and that it lies at the
  database path, or in the undo copy while that path is empty, or among the files a restore displaced;
  `RefusedOnce`, that what a refused step left behind is never met by a second refusal.
- `UndoAlwaysKept`: under `CalmBudgets`, `Spec => []UndoKept`. What an import replaced is the undo copy, and `Undamaged`
  that, while nothing was damaged, it stays that copy or one that a restore displaced, and no swap begins without it.
- `LogsAlwaysStay`: under `OneRefusal`, `Spec => []LogsStay`. `LogsBeside` says for each step which
  database a log belongs to: database and log differ in name only between the rename of the one and of the other, and
  everything that is to be put in place is whole without a log. `LeftOnce` says that a log left beside the next undo
  copy was the one refusal, so that no rollback puts that copy back with it.
- `RecoveriesTellApart`: under `CalmBudgets`, `Spec => RecoveryTellsApart`. `Tells` adds to the invariants above what a
  name means to the next launch: a library owed that lies in the undo copy is the last one opened (`UndoIsLive`), a
  launch that finds no database and has seen damage has no such library there (`UndoFound`), and a snapshot that a
  restore left staged can only have been refused its place, so that nothing else is refused, displaced or cut short
  beside it (`LeftStaged`).
- `DamagedAlwaysKept`: `Spec => DamagedKept`, for all budgets: restores in a row, each of them cut short or refused,
  included. `HarmInv` says that nothing copied or staged is a damaged database, that the first generation is free when the
  promotion renames the scratch file to it, and that a file lies under the scratch name between restores only after a
  crash or a refusal.
- `DatabaseSwapTypes`: `Spec => []TypeOK`, for all budgets.

### 5.7 ReplayFilesProofs

- `NoReplayLost`: `Spec => []ReplayKept`. `Apart` only says that a replay or a download is not named like one of
  the module's own marks. `Inv` says, of every name that no two calls staged at once (`Clean`): whatever lies under
  it is whole (`LiveWhole`); one call at most stages its copy, and from the comparison on that copy is whole
  (`OneStages`, `StagedWell`); a parked file is whole (`ParkedWell`); and the accepted replay is in the old
  folder, under its name, or in a backup that nobody is about to remove (`Kept`, `Held`, `Doomed`).
- The sweep is what makes it hard: it looks at a backup beside a file, and removes it one step later, when the
  file may have been parked in its turn. Three parts say why that is harmless. A backup in the eye of the sweep is
  never one of a call that has not finished (`SweptLate`), because such a call parked its file in this launch
  and the sweep takes older ones (`ParkedOnce`); a rename keeps the age of a file, so this needs that a file parked
  while another is under the name was written in this launch (`ParkedWell`), and that again that what
  a download finds while the pass may still bring the older replay is recent (`Recent`, `Pending`).
- `Calm` proves the step for every action that touches none of these; `Arrives`, `Stages`, `Parks`,
  `Installs`, `Restores`, `Unparks`, `Eyes`, `Sweeps` and `Killed` for the ones that do, for the pass and
  the downloads alike; the lemmas of the actions only place each branch among them.

### 5.8 SideDataProofs

Any number of calls, makers, runs, reads, videos and rows. `LimitsAssumption` says that callers are finitely many and
that a limit is a number; `ArchiveAssumption`, that what yt-dlp answers is a list of comments with a text, and that an
imported database is one of the app's own. Each part has an invariant of its own, and a step of one leaves the
others where they are.

- `ArchiveStaysWhole`: `AllSpec => ArchiveKept`. `ArchiveInv` carries `Own` and `Told` through every action, and
  `FetchFits` says that what a fetch asked for is of the video of the row it will be merged into, unless that row was
  deleted meanwhile. What a merge does to the table is the relation `Grown`:
  every row of before is there with its text, author and date, every other row is new and of that video. `MergeGrows`
  proves it of the merge of any list of comments, by induction over the list.
- `FilesStayWhole`: `AllSpec => []FilesKept`. A final name in the cache is written by a rename alone (`CacheInv`); a
  call of `RemoteImages` that is outside has no folder of its own (`FoldersInv`). `ShownInv` follows a preview from the
  hash to the answer: the name was read from a content the source has, or had before it changed. The hard one is
  `ExportInv`: the newest export lies under the user's name or, where that is missing, in a backup beside it, and `RunKept` says
  for each step of a write-back what its copy and the backup it made hold; one write-back holds the mutex, so no
  other run is at such a step.
- `FetchesStayBounded`: `AllSpec => []FetchesBounded`. `RunsCount`, `MakersCount` and `ReadsInv` make the counters of
  the three semaphores cardinalities of sets of calls. `ImagesReach` says that a call under way asks a server of its own
  candidate, whatever redirects came; `TriesInv` that the candidates differ, which rests on
  `CandidatesAreDifferent`, by induction over the list they are chosen from. `PartialsInv`, `CopiesInv` and
  `ProbesBehind` name who still has each partial file, each copy of the cookies and each child.

The provers take no induction over an operator, so the module derives what it needs from well-founded induction over
sets: `SetInduction` over the numbers up to a bound, and `Recursion`, that a recursive function over such numbers
exists and unfolds as written. `RemovedKeeps`, `CandidatesAreDifferent` and `MergesUnfold` are what the three
recursive functions of these parts compute.

### 5.9 What stays with the model checker

- All liveness (`EveryOperationEnds`, `EveryLeftoverIsSwept`, `LaunchEnds`, `MoveEnds`, `FreshCopyLands`,
  `EveryRunEnds`): reasoning about `ENABLED` and fairness is out of the prover's reach.
- `AnswersTell`. Its parts about the library's files hold in the scenarios listed and not in all; the ones about
  paths and lists are about folds and sorts over texts and rows, whose definitions in the community modules are recursive
  operators or choices over permutations.
- The scenarios of `LibraryMove` and the budgets of `DatabaseSwap` beyond those above; the webview.

No module uses a recursive operator: recursion is a recursive function.

## 6. Findings

### 6.1 Runs that end in a violation

Each shows a sequence of legal steps after which the code is not what its own comments or documents say.
`PROJECT.json` quotes them.

| Run | What happens |
|---|---|
| `media_only_copy` | A creation adopts the file of a renaming Move that has not registered yet; deleting its row unlinks the only copy. |
| `move_stale_save` | A setting saved during a move was compared before the new folder was stored and is written after: the old, removed folder is stored again, and the marker is gone. |

### 6.2 Weaknesses that a change of constants or of a condition shows

They are not runs of the project: some need two failures at once, some contradict a comment only by a
narrow window, some contradict no line. They are why a property carries a condition or an instance a limit.

`DatabaseSwap`, with the one budget given as (crashes, faults, damages, imports):

- `UndoCopyOpensWhole` with (1, 0, 0, 1): a crash between the rename of the database to `.pre-import` and
  that of its log; the next launch finds no database, takes the log under the live name for a leftover and
  deletes it, so the undo copy has lost its last transactions.
- `LibraryFileKept` with (0, 2, 0, 1): a swap is refused and so is its rollback, and nothing on disk says
  that the library is in the undo copy (`import.rs:846`).
- `LibraryFileKept` with (1, 1, 1, 2), (2, 0, 1, 2) and (3, 1, 0, 3): a kill leaves half a swap, and a refusal, or
  the loss of a database, meets it at the next launch.
- `LogsStay` with (0, 2, 0, 1): the swap and the return of the log are both refused.
- `RecoveryTellsApart` with `MaxId` 6 and (2, 0, 1, 2): a `.restore.tmp` that a restore left after it
  succeeded otherwise is taken, launches later, for a restore in progress.
- `DamagedKept` without the last disjunct of `Superseded`, with `MaxId` 4 and (1, 0, 2, 0) or (0, 1, 2, 0): a restore
  deletes the scratch name under which an interrupted or refused one left the damaged database (`restore.rs:108`).
  The run has such restores in a row, and the property names this as the one loss a restore causes.
- `NoForeignLog` without `leftLog`, with (0, 1, 0, 2): the removal of the previous undo copy's log is refused and
  ignored (`import.rs:835`), and where the database set aside has no log of its own, that log lies beside the new undo
  copy. An undo that stages the copy replays it (`StageMixedUndo`): what it then holds is neither of the two.
- `OpensWhole` without its `crashes = 0` with (1, 1, 0, 1), and `NoForeignLog` without its own with
  (1, 1, 0, 2): a crash between the renames of a database and of its log, met by a refusal.
- `UndoFileKept` without its `damages = 0` with (0, 1, 1, 2): the database vanishes between two imports and
  the second is rolled back, which puts the older undo copy in place.

`MediaLibrary`: `RowFilesExist` with `HardLinks` false, kinds copy and move and two creators: a renaming Move
that is refused takes its file back although another creation has adopted it and inserted its row.
`RowFilesExist` with `RecountMayFail`, since a recount that cannot answer keeps the decision made before the
lock; `NothingForgotten` with `RemovalMayFail` together with `MarkerMayFail`, with users, with images, or with
renaming Moves: the removal that failed is then of a file that no marker names, and the marker that named it has
been given up for the removal. An avatar's row is committed outside the lock, so
`RowFilesExist` is about media rows and not about avatars; an image that a cancelled download could not
trash is recorded by no marker.

`LibraryMove`: `AvatarsFollowTheLibrary` with `{"avatar", "ownFiles"}`: an avatar download reads the library
path, a move runs from beginning to end, and only then does the pass begin that was to notice it
(`configured_library_path` is read before `LibraryPass::begin`). `LibraryFound` with
`{"storeFails", "ownFiles"}`, `{"storeFails", "crash"}`, `{"avatar", "ownFiles"}`, `{"picked", "ownFiles"}`,
`{"picked", "secondMove"}`, `{"avatar", "secondMove"}` and `{"clearFails", "markerRefused"}` with a second
move. The four scenarios of the run are maximal sets around those; a removal of the marker that fails is met by a second
move in one of them. `"saveDuringMove"` is in none, because alone it is the finding of 6.1.

`Backups`: once two runs of the mirror overlap, `OneADay`, `GenerationsWhole` and both parts of `MirrorsKept` are
violated without their condition on `overlapped`, in the run's own instance, and it is not even sure that one
whole copy is left: one run renames to `.new` the file the other is still writing, over the only whole one; a
parked copy that the other run has put away makes `promote_generation` remove `.1`. Nothing in
`external.rs` keeps two runs apart, and the loop and `set_external_backup_dir` may both be in one.

`LibraryCopyKept` without `~sawEmpty` is violated in the run's instance: the rule against an empty copy reads the
database before the copy is made (`snapshot.rs:375`), so a library whose last row is deleted between the two, each
day anew, has its copies pushed out by as many empty ones as there are generations. A library's copy that still
waits under `.bak.tmp` is not counted as kept: a kill before its promotion leaves it to the next run, which
removes it. A copy left parked by a crash is no candidate of a restore (`RestoreTakesNewest` says "in place") and
Start empty does not set it aside. In the mirror, a copy adopted from `.new` while `.rotating` holds one makes the
next rotation delete the parked one, though it is newer than those behind it; so `LibraryCopyKept` and
`OnlyOldestDropped` are about the daily family.

`SchemaUpgrade`: `LeftAsItWas` with no crash, one fault and no import: `database.rs` says of a blocked
migration that the database "was left as it was", and the versions before the one that failed have committed.
After two launches cut short at two versions, the copy of the first may be pruned.

`ReplayFiles`: `StoredReplayKept` with `Legacy` empty, one fresh replay, two downloads and three launches:
two downloads of one replay share a staging name, and one can cut the other's file. Two startup passes after a
renderer reload share the compressor's temporary name in the same way.

`CookiesFile`: an export between the comparison and the end of `replace_file_safely` is not noticed, and a
failed replacement then puts the older file back over it (`raced`); a death in the replacement leaves the
file only under its hidden name, and a run that starts meanwhile finds no cookies.

`Previews`: two calls on one content share a preview, and one's deletion removes the other's (`gone`); the
week-old sweep may remove a preview just answered again; a file edited between its hash and its frame gives
its frame the older name (`changed`).

`LibraryChecks`: a verification begun after a move released the gate and before its folder is stored reads the
old folder and reports every file as unreadable (`early`). A cancel between the claim and the reset of the
flag is lost. The comparison takes no lock, so a move meanwhile makes every file missing in its report; the
removal it offers plans again.

`ServedLibrary`: a registration answers that all is well when the folder was away and nothing was granted
(`away`); an older one may set the share last (`overtaken`); a drive pulled between `is_dir` and `create_dir_all`
makes an empty library on the volume below (`pulled`).

`Tools`: after a probe's child has ended, its readers are joined without a limit, so something it started that
keeps the pipe open holds the probe past its deadline; a wait that fails leaves the child running; a
lookup that began earlier may store an older Deno (`crossed`).

`LibraryFolder`: a toggle while the settings are being prepared is overwritten by the row read before it, which is
written outside the queue (`early`). A destination removed while its confirmation is open is resolved as
"not inside", made again and stored, so the library can end up inside the app's own directory (`remade`).

`MediaPages`: a page that is read after a deletion committed, and answered before the deletion is, makes cursor
and total count it twice, and one row is not loaded until the list is (`skewed`, `NeverSkipped`); a late answer
of an append clears the flag of a newer one. `PlayerProgress`: a save answered after closing puts an old
position on a list item marked watched (`relisted`). `TempThumbnail`: what is chosen while the preview before it is
being deleted may be hidden by it (`hurried`), and a media added before its picked image was staged goes
without it (`late`). `Channels`: the reload after a change is not
guarded, so an older list may land last (`overtaken`).

## 7. What is not modelled

`PROJECT.json` gives every component its status and what it leaves out. In short:

- pure functions of strings and of what the file system answers: the parsing of yt-dlp's output, of
  addresses, cookies selectors and network paths; the classification of addresses; search and sorting;
- I/O without state of its own: the file manager, the logger, the startup notices (a list taken once under a
  mutex), kept files, the webview check, decoding and resizing of images;
- code that decides nothing more: `db_schema/rebuild.rs`, which no migration uses now; the compaction, one
  transaction under the lock that `Backups` models; the predicates on the path of an export or an import;
- rendering, translation, themes, keyboard, menus, the build and its scripts.

Symbolic links, two names of one file, bytes that differ under an equal name (outside `LibraryWrites`), and the
wording of reports are left out of the modules above. Power loss that reorders what the code flushes is in
`LibraryWrites` and `SchemaUpgrade`; elsewhere a crash loses the process, not what a completed call wrote. A
mount point that stays as an empty folder when its drive is pulled is, for the code, a folder like any other,
and is not modelled. In the webview, the uniqueness of handles, the deletion of the media that plays and the
count in a channel's header are left out; native dialogs are modal to the window.

## 8. What is left

1. An abstract library (rows and files, with creation and deletion as one step each) that `MediaLibrary`
   implements.
2. Proofs: the other scenarios of `LibraryMove`, one theorem for each risk that leaves the properties true; the
   parts of `AnswersTell`; the webview.
3. Liveness of the modules of 2.7: that a queued stream or preview is served, that a registration ends.
4. The live-chat migration as one more writer of `LibraryMove`, and the webview's parts composed where they
   meet (a media deleted while it plays, a channel deleted while its page is under way).
