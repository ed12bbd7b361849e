--------------------------- MODULE SchemaUpgrade ---------------------------
(***************************************************************************)
(* Opening the database and bringing its schema up to date                 *)
(* (services/database.rs build_pool_at, services/db_schema,                *)
(* db_backup/snapshot.rs snapshot_before_migration) and what an imported   *)
(* file must satisfy to be put in its place (db_backup/import.rs).         *)
(*                                                                         *)
(* Each migration commits alone, and the process may be killed, or power   *)
(* lost, between any two steps.  The log is not flushed at a commit        *)
(* (synchronous = NORMAL), so power loss may take the file back to an      *)
(* earlier commit of the same launch.                                      *)
(*                                                                         *)
(* A database is its version, the columns and indexes that later versions  *)
(* added, its triggers, and what its rows violate of the rules that later  *)
(* versions enforce.  The SQL is SQLite's.                                 *)
(***************************************************************************)
EXTENDS Integers, FiniteSets

CONSTANTS Found,      \* databases that may be there when the app starts
          Incoming,   \* files a user may import
          Older,      \* sets of copies that earlier upgrades may have left
          MaxCrashes, MaxFaults, MaxImports

SCHEMA_VERSION == 17
BASELINE_SCHEMA_VERSION == 7
TRIGGERS_COMPLETE_FROM_VERSION == 14
PRE_MIGRATION_SNAPSHOTS_KEPT == 2

ASSUME MaxCrashes \in Nat /\ MaxFaults \in Nat /\ MaxImports \in Nat

VARIABLES
  file,      \* the database at its path, or Nothing, or NoSchema
  fallback,  \* what power loss may leave of it
  copies,    \* .pre-migration-v<n>, as a set of databases: one per version
  tmp,       \* .pre-migration.tmp
  backups,   \* a daily snapshot of the database is on disk
  lineage,   \* the lineage file was written for this database
  allow,     \* allow_create_missing
  pc,
  pending,   \* is_schema_migration_pending, as this launch read it
  created,   \* created_from_nothing, as this launch read it
  version,   \* the version the snapshot is named by; -1 when unread
  current,   \* the version ensure_schema read
  step,      \* the version whose migration comes next
  code,      \* the error the launch ended with
  from,      \* history: the database as this launch found it
  crashes, faults, imports

disk   == <<file, fallback, copies, tmp, backups, lineage>>
launch == <<pending, created, version, current, step, code, from>>
world  == <<crashes, faults, imports>>
vars   == <<disk, allow, pc, launch, world>>

(***************************************************************************)
(* Databases.                                                              *)
(***************************************************************************)
\* The columns some supported database lacks: is_live, has_live_chat and
\* live_chat_file_path go together as "live".
VIDEOS_ADDITIVE_COLUMNS == {"live", "title_normalized", "comments_state"}
VIDEO_COMMENTS_ADDITIVE_COLUMNS == {"original_text"}
Columns == VIDEOS_ADDITIVE_COLUMNS \cup VIDEO_COMMENTS_ADDITIVE_COLUMNS \cup {"comments_count"}

\* The groups of INDEX_DDLS by the version that first created them, and the
\* columns each group needs.
Indexes == {7, 8, 9, 11, 12}
IndexColumns(i) == CASE i \in {7, 9} -> {"live"}
                     [] i = 8  -> {}
                     [] i = 11 -> {"title_normalized"}
                     [] i = 12 -> {"title_normalized", "comments_count"}

\* A database of ours: Flaws is what its rows may violate.
Flaws == {"duplicateComments", "untitled", "chatWithoutPath",
          "longComment", "unpromoted"}
Databases == [version : Int, columns : SUBSET Columns, indexes : SUBSET Indexes,
              unique : BOOLEAN, retired : BOOLEAN,
              triggers : SUBSET {"videos", "comments"}, foreign : BOOLEAN,
              legacy : BOOLEAN, flaws : SUBSET Flaws]

Nothing == [version |-> -1]
NoSchema == [version |-> 0]   \* a file that a first open left with no table
HasSchema(d) == "columns" \in DOMAIN d

(***************************************************************************)
(* The statements migrations are made of, each from a database to the set  *)
(* of databases it may leave: empty when the statement fails.              *)
(***************************************************************************)
\* A column added to existing rows is NULL, or holds its default.
WithVideosColumns(d) ==
  [d EXCEPT !.columns = @ \cup VIDEOS_ADDITIVE_COLUMNS,
            !.flaws = @ \cup (IF "title_normalized" \in d.columns THEN {}
                              ELSE {"untitled"})
                        \cup (IF "comments_state" \notin d.columns
                                 /\ "comments_count" \in d.columns
                              THEN {"unpromoted"} ELSE {})]

WithIndexesThrough(v, d) ==
  LET new == {i \in Indexes : i <= v} \ d.indexes
  IN  IF \A i \in new : IndexColumns(i) \subseteq d.columns
      THEN {[d EXCEPT !.indexes = @ \cup new]}
      ELSE {}

\* CREATE UNIQUE INDEX fails on rows that repeat a key.
WithUniqueComments(d) ==
  IF "duplicateComments" \in d.flaws THEN {} ELSE {[d EXCEPT !.unique = TRUE]}

WithTriggers(d) == [d EXCEPT !.triggers = @ \cup {"videos", "comments"}]
Repaired(flaws, d) == [d EXCEPT !.flaws = @ \ flaws]

\* A row that the triggers refuse aborts an UPDATE of it.
Promoted(d) ==
  IF "comments_count" \notin d.columns THEN {d}
  ELSE IF "videos" \in d.triggers /\ "unpromoted" \in d.flaws
          /\ {"untitled", "chatWithoutPath"} \cap d.flaws # {}
  THEN {}
  ELSE {Repaired({"unpromoted"}, d)}

Stamped(v, ds) == {[d EXCEPT !.version = v] : d \in ds}

\* Mutant: the unique index is built with the others.
BaselineWithUnique(d) ==
  UNION {WithUniqueComments(e) :
           e \in WithIndexesThrough(BASELINE_SCHEMA_VERSION,
                   WithVideosColumns(IF HasSchema(d) THEN [d EXCEPT !.legacy = FALSE]
                     ELSE [version |-> 0, columns |-> Columns, indexes |-> {},
                           unique |-> FALSE, retired |-> FALSE, triggers |-> {},
                           foreign |-> FALSE, legacy |-> FALSE, flaws |-> {}]))}

\* Tables are created whole, so a database made from nothing has every
\* column, and no row.
apply_baseline_schema(d) ==
  LET tables == IF HasSchema(d) THEN d
                ELSE [version |-> 0, columns |-> Columns, indexes |-> {},
                      unique |-> FALSE, retired |-> FALSE, triggers |-> {},
                      foreign |-> FALSE, legacy |-> FALSE, flaws |-> {}]
      dropped == [tables EXCEPT !.legacy = FALSE]
  IN  WithIndexesThrough(BASELINE_SCHEMA_VERSION, WithVideosColumns(dropped))

apply_index_only_migration(v, d) == WithIndexesThrough(v, WithVideosColumns(d))

apply_migration_10(d) ==
  UNION {WithUniqueComments(e) :
           e \in WithIndexesThrough(10,
                   WithVideosColumns(Repaired({"duplicateComments"}, d)))}

apply_migration_11(d) ==
  WithIndexesThrough(11, Repaired({"untitled"}, WithVideosColumns(d)))

apply_migration_13(d) ==
  {WithTriggers(Repaired({"untitled"},
                  WithVideosColumns(Repaired({"chatWithoutPath"}, d))))}

apply_migration_14(d) == {WithTriggers(Repaired({"longComment"}, d))}
apply_migration_15(d) == Promoted(WithVideosColumns(d))
apply_migration_16(d) == {[d EXCEPT !.retired = FALSE]}
apply_migration_17(d) ==
  {[d EXCEPT !.columns = @ \cup VIDEO_COMMENTS_ADDITIVE_COLUMNS]}

\* The transaction of one version: what it commits, or nothing.
Migration(v, d) ==
  Stamped(v,
    CASE v = 7  -> apply_baseline_schema(d)
      [] v = 10 -> apply_migration_10(d)
      [] v = 11 -> apply_migration_11(d)
      [] v = 13 -> apply_migration_13(d)
      [] v = 14 -> apply_migration_14(d)
      [] v = 15 -> apply_migration_15(d)
      [] v = 16 -> apply_migration_16(d)
      [] v = 17 -> apply_migration_17(d)
      [] OTHER  -> apply_index_only_migration(v, d))

(***************************************************************************)
(* An import: what is refused, and what is done to the file that is        *)
(* staged.  The swap itself is DatabaseSwap's.                             *)
(***************************************************************************)
\* The tables, their keys and cascades, rows that point nowhere.
IsKavynex(d) == HasSchema(d)

validate_import_source(d) ==
  /\ IsKavynex(d) /\ d.version <= SCHEMA_VERSION
  /\ d.version >= 11 => /\ "title_normalized" \in d.columns
                        /\ "untitled" \notin d.flaws
  /\ d.version >= 17 => "original_text" \in d.columns
  /\ d.version >= 13 /\ "live" \in d.columns => "chatWithoutPath" \notin d.flaws

\* Mutant: the app's own triggers are created over what the file brought.
TriggersAdded(d) ==
  [d EXCEPT !.triggers = @ \cup (IF d.version >= TRIGGERS_COMPLETE_FROM_VERSION
                                 THEN {"videos", "comments"} ELSE {})]

reset_triggers_and_views(d) ==
  [d EXCEPT !.foreign = FALSE,
            !.triggers = IF d.version >= TRIGGERS_COMPLETE_FROM_VERSION
                         THEN {"videos", "comments"} ELSE {}]

(***************************************************************************)
(* A launch.                                                               *)
(***************************************************************************)
Init ==
  /\ file \in Found /\ fallback = {}
  /\ copies \in Older /\ tmp = Nothing
  /\ backups \in BOOLEAN /\ lineage = TRUE /\ allow = FALSE
  /\ pc = "closed" /\ pending = FALSE /\ created = FALSE
  /\ version = -1 /\ current = -1 /\ step = 0 /\ code = "" /\ from = Nothing
  /\ crashes = 0 /\ faults = 0 /\ imports = 0

\* Another program holds the file, or the disk is full.
Fault == faults < MaxFaults /\ faults' = faults + 1
NoFault == UNCHANGED faults

Refuse(c) == pc' = "refused" /\ code' = c

\* A file that is gone, or empty, while snapshots of it are there.
missing_database_error(holds) == ~allow /\ ~holds /\ backups

\* holds_data, then the pending check; a read that fails counts as data and
\* as pending.  Closing the connection that reads folds the log into the
\* file and flushes it.
Inspect ==
  /\ pc = "closed"
  /\ from' = file /\ fallback' = {}
  /\ current' = -1 /\ step' = 0 /\ version' = -1
  /\ \E unread \in {"none", "schema", "version"} :
       LET holds == HasSchema(file) \/ unread = "schema"
           behind == file.version < SCHEMA_VERSION \/ unread = "version"
       IN  /\ IF unread = "none" THEN NoFault ELSE Fault /\ file # Nothing
           /\ IF missing_database_error(holds)
              THEN /\ Refuse("DatabaseMissing")
                   /\ created' = FALSE /\ pending' = FALSE
              ELSE /\ created' = ~holds /\ pending' = behind
                   /\ pc' = IF behind THEN "check" ELSE "openPool"
                   /\ code' = ""
  /\ UNCHANGED <<file, copies, tmp, backups, lineage, allow, crashes, imports>>

\* quick_check before a migration; damage it finds is DatabaseSwap's
\* subject, so here it passes or cannot run.  Then the version that names
\* the copy is read, and a copy taken before is removed.
Check ==
  /\ pc = "check"
  /\ \/ /\ NoFault /\ code' = code
        /\ pc' = IF created THEN "openPool" ELSE "vacuum"
        /\ version' = file.version
        /\ tmp' = IF created THEN tmp ELSE Nothing
     \/ /\ Fault /\ file # Nothing
        /\ Refuse("DatabaseUnavailable")
        /\ UNCHANGED <<version, tmp>>
     \/ /\ Fault /\ ~created
        /\ pc' = "daily" /\ version' = -1 /\ UNCHANGED <<tmp, code>>
  /\ UNCHANGED <<file, fallback, copies, backups, lineage, allow, pending, created,
                 current, step, from, crashes, imports>>

\* The version could not be read: the daily snapshot, which is throttled,
\* stands in for the copy.
DailyInstead ==
  /\ pc = "daily"
  /\ \/ NoFault /\ pc' = "openPool" /\ code' = code /\ backups' \in {backups, TRUE}
     \/ Fault /\ Refuse("DatabaseMigrationBlocked") /\ UNCHANGED backups
  /\ UNCHANGED <<file, fallback, copies, tmp, lineage, allow, pending, created,
                 version, current, step, from, crashes, imports>>

Vacuum ==
  /\ pc = "vacuum"
  /\ \/ NoFault /\ tmp' = file /\ pc' = "store" /\ code' = code
     \/ Fault /\ tmp' = Nothing /\ Refuse("DatabaseMigrationBlocked")
  /\ UNCHANGED <<file, fallback, copies, backups, lineage, allow, pending, created,
                 version, current, step, from, crashes, imports>>

\* Flushed, renamed over a copy of the same version, and its entry flushed.
Store ==
  /\ pc = "store"
  /\ \/ /\ NoFault /\ code' = code
        /\ copies' = {c \in copies : c.version # version} \cup {tmp}
        /\ tmp' = Nothing /\ pc' = "prune"
     \/ Fault /\ Refuse("DatabaseMigrationBlocked") /\ UNCHANGED <<copies, tmp>>
  /\ UNCHANGED <<file, fallback, backups, lineage, allow, pending, created,
                 version, current, step, from, crashes, imports>>

\* Mutant: the highest versions stay, whichever was just written.
HighestStay(versions, just_written, keep) ==
  {v \in versions : Cardinality({w \in versions : w > v}) >= keep}

\* The versions whose copies go: all but the one just written and the
\* highest of the others.
pre_migration_versions_to_prune(versions, just_written, keep) ==
  LET others == versions \ {just_written}
  IN  {v \in others : Cardinality({w \in others : w > v}) >= keep - 1}

\* Best effort.
Prune ==
  /\ pc = "prune"
  /\ LET go == pre_migration_versions_to_prune({c.version : c \in copies}, version,
                                               PRE_MIGRATION_SNAPSHOTS_KEPT)
     IN  \E held \in SUBSET go :
           /\ IF held = {} THEN NoFault ELSE Fault
           /\ copies' = {c \in copies : c.version \notin go \ held}
  /\ pc' = "openPool"
  /\ UNCHANGED <<file, fallback, tmp, backups, lineage, allow, pending, created,
                 version, current, step, code, from, crashes, imports>>

\* The pool creates a file that is missing, and ensure_schema reads the
\* version.
OpenPool ==
  /\ pc = "openPool"
  /\ \/ /\ NoFault
        /\ file' = IF file = Nothing THEN NoSchema ELSE file
        /\ current' = file'.version
        /\ IF current' > SCHEMA_VERSION
           THEN Refuse("DatabaseSchemaTooNew") /\ step' = step
           ELSE pc' = "migrate" /\ step' = BASELINE_SCHEMA_VERSION /\ code' = code
     \/ /\ Fault /\ Refuse("DatabaseUnavailable")
        /\ UNCHANGED <<file, current, step>>
  /\ UNCHANGED <<fallback, copies, tmp, backups, lineage, allow, pending, created,
                 version, from, crashes, imports>>

needs_migration(target) == current < target

\* One version of ensure_schema: skipped, committed, or failed, in which
\* case its own transaction rolls back.
Migrate ==
  /\ pc = "migrate" /\ step <= SCHEMA_VERSION
  /\ IF ~needs_migration(step)
     THEN NoFault /\ step' = step + 1 /\ UNCHANGED <<file, fallback, pc, code>>
     ELSE \/ /\ NoFault
             /\ \E d \in Migration(step, file) :
                  file' = d /\ fallback' = fallback \cup {file}
             /\ step' = step + 1 /\ UNCHANGED <<pc, code>>
          \/ /\ \/ NoFault /\ Migration(step, file) = {}
                \/ Fault
             /\ Refuse(IF pending THEN "DatabaseMigrationBlocked" ELSE "AppError")
             /\ UNCHANGED <<file, fallback, step>>
  /\ UNCHANGED <<copies, tmp, backups, lineage, allow, pending, created, version,
                 current, from, crashes, imports>>

\* A database made from nothing gets a lineage of its own; the daily
\* snapshot follows when no migration ran.
Ready ==
  /\ pc = "migrate" /\ step > SCHEMA_VERSION
  /\ pc' = "open"
  /\ lineage' = (lineage \/ created)
  /\ backups' \in (IF pending THEN {backups} ELSE {backups, TRUE})
  /\ UNCHANGED <<file, fallback, copies, tmp, allow, launch, world>>

(***************************************************************************)
(* Between launches.                                                       *)
(***************************************************************************)
\* The process ends or is killed.
Quit ==
  /\ pc \in {"open", "refused"}
  /\ pc' = "closed" /\ allow' = FALSE
  /\ UNCHANGED <<disk, launch, world>>

Kill ==
  /\ pc \notin {"closed", "open", "refused"} /\ crashes < MaxCrashes
  /\ crashes' = crashes + 1 /\ pc' = "closed" /\ allow' = FALSE
  /\ UNCHANGED <<disk, launch, faults, imports>>

PowerLoss ==
  /\ pc \notin {"closed", "refused"} /\ crashes < MaxCrashes
  /\ crashes' = crashes + 1 /\ pc' = "closed" /\ allow' = FALSE
  /\ file' \in fallback \cup {file} /\ fallback' = {}
  /\ tmp' \in {tmp, Nothing}
  /\ UNCHANGED <<copies, backups, lineage, launch, faults, imports>>

\* The database goes missing (a quarantine, a deletion by mistake).
Lost ==
  /\ pc = "closed" /\ imports < MaxImports /\ imports' = imports + 1
  /\ file # Nothing /\ file' = Nothing /\ fallback' = {} /\ lineage' = FALSE
  /\ UNCHANGED <<copies, tmp, backups, allow, pc, launch, crashes, faults>>

\* The user starts over from the recovery dialog; the daily snapshots are
\* set aside first.
start_with_empty_database ==
  /\ pc = "refused" /\ code = "DatabaseMissing" /\ file = Nothing
  /\ backups' = FALSE /\ allow' = TRUE /\ pc' = "closed"
  /\ UNCHANGED <<file, fallback, copies, tmp, lineage, launch, world>>

\* A staged import takes the database's place at a launch; a copy from
\* before an upgrade is one of the files a user may choose.
Swap ==
  /\ pc = "closed" /\ imports < MaxImports /\ imports' = imports + 1
  /\ \E d \in Incoming \cup copies :
       /\ validate_import_source(d)
       /\ file' = reset_triggers_and_views(d)
  /\ fallback' = {} /\ lineage' = TRUE
  /\ UNCHANGED <<copies, tmp, backups, allow, pc, launch, crashes, faults>>

Next == \/ Inspect \/ Check \/ DailyInstead \/ Vacuum \/ Store \/ Prune
        \/ OpenPool \/ Migrate \/ Ready
        \/ Quit \/ Kill \/ PowerLoss \/ Lost \/ start_with_empty_database \/ Swap

Spec == Init /\ [][Next]_vars

(***************************************************************************)
(* Properties.                                                             *)
(***************************************************************************)
\* A database the app opens is the current schema in full, whatever version
\* it was found at, whichever launches were cut short on the way, and
\* whatever triggers an imported file brought: no column, index or trigger
\* is missing, and no row violates what they enforce from then on.  A file
\* that looks like ours and lacks a column no migration adds gets the rest.
Upgraded ==
  pc = "open" =>
    /\ file.version = SCHEMA_VERSION
    /\ Columns \ {"comments_count"} \subseteq file.columns
    /\ file.triggers = {"videos", "comments"} /\ file.flaws = {}
    /\ ~file.foreign /\ ~file.legacy /\ ~file.retired
    /\ "comments_count" \in file.columns => file.indexes = Indexes /\ file.unique

\* From before the first migration of a launch commits, and for as long as
\* the launch lasts, a copy of the database as the launch found it is on
\* disk, however many copies of other versions are pruned for it.  (A
\* version that could not be read leaves the daily snapshot alone.)
RollbackPoint ==
  pc \in {"openPool", "migrate", "open"} /\ pending /\ ~created /\ version # -1
    => from \in copies

\* A migration that no fault hits commits, from every database a build of
\* the app leaves and from those an import accepts, unless the file lacks a
\* column no migration adds.  A step that cannot pass would leave the user
\* with a library no build opens.
MigrationsPass ==
  [][pc = "migrate" /\ pc' = "refused" /\ UNCHANGED faults
       => "comments_count" \notin file.columns]_vars

\* The refusal says that the database "was left as it was": it is what the
\* launch found.
LeftAsItWas == pc = "refused" /\ code = "DatabaseMigrationBlocked" => file = from
=============================================================================
