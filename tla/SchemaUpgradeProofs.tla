------------------------- MODULE SchemaUpgradeProofs -------------------------
(***************************************************************************)
(* Proofs about SchemaUpgrade, for every database that may be found or     *)
(* imported, every set of copies left by earlier upgrades, and any number  *)
(* of crashes, faults and imports.                                         *)
(***************************************************************************)
EXTENDS SchemaUpgrade, TLAPS

(***************************************************************************)
(* The copy from before the upgrade.  RollbackPoint says nothing until the *)
(* pool opens; what makes it true then is where the copy is on the way: in *)
(* the database itself until VACUUM INTO, in the temporary file until the  *)
(* rename, and from then on under a version that pruning spares.           *)
(***************************************************************************)
CopyOnItsWay ==
  /\ pc = "check" => file = from
  /\ pc = "daily" => version = -1
  /\ pc = "vacuum" => file = from /\ version = from.version
  /\ pc = "store" => tmp = from /\ version = from.version
  /\ pc = "prune" => from \in copies /\ version = from.version

RollbackInv == CopyOnItsWay /\ RollbackPoint

\* The version just written is never among those that pruning removes.
LEMMA PruneSparesWritten ==
  ASSUME NEW versions, NEW v, NEW keep
  PROVE  v \notin pre_migration_versions_to_prune(versions, v, keep)
  BY DEF pre_migration_versions_to_prune

LEMMA RollbackInit == Init => RollbackInv
  BY DEF Init, RollbackInv, CopyOnItsWay, RollbackPoint

LEMMA RollbackStep == RollbackInv /\ [Next]_vars => RollbackInv'
<1> SUFFICES ASSUME RollbackInv, [Next]_vars PROVE RollbackInv'
  OBVIOUS
<1> USE DEF RollbackInv, CopyOnItsWay, RollbackPoint, Refuse
<1>1. CASE Inspect
  BY <1>1 DEF Inspect
<1>2. CASE Check
  BY <1>2 DEF Check
<1>3. CASE DailyInstead
  BY <1>3 DEF DailyInstead
<1>4. CASE Vacuum
  BY <1>4 DEF Vacuum
<1>5. CASE Store
  BY <1>5 DEF Store
<1>6. CASE Prune
  <2>1. PICK held : copies' = {c \in copies : c.version \notin
          pre_migration_versions_to_prune({d.version : d \in copies}, version,
                                          PRE_MIGRATION_SNAPSHOTS_KEPT) \ held}
    BY <1>6 DEF Prune
  <2>2. from \in copies /\ from.version = version
    BY <1>6 DEF Prune
  <2>3. from \in copies'
    BY <2>1, <2>2, PruneSparesWritten
  <2> QED
    BY <1>6, <2>3 DEF Prune
<1>7. CASE OpenPool
  BY <1>7 DEF OpenPool
<1>8. CASE Migrate
  BY <1>8 DEF Migrate
<1>9. CASE Ready
  BY <1>9 DEF Ready, launch, world
<1>10. CASE Quit \/ Kill \/ PowerLoss
  BY <1>10 DEF Quit, Kill, PowerLoss, launch, disk
<1>11. CASE Lost \/ start_with_empty_database \/ Swap
  BY <1>11 DEF Lost, start_with_empty_database, Swap, launch, world
<1>12. CASE UNCHANGED vars
  BY <1>12 DEF vars, disk, launch, world
<1> QED
  BY <1>1, <1>2, <1>3, <1>4, <1>5, <1>6, <1>7, <1>8, <1>9, <1>10, <1>11, <1>12 DEF Next

\* While a launch migrates, and for as long as it lasts, the database as it
\* was found is on disk as a copy (services/db_backup/snapshot.rs,
\* snapshot_before_migration), whatever copies of other versions pruning
\* meets, and whichever calls fail.
THEOREM UpgradeKeepsRollback == Spec => []RollbackPoint
<1>1. RollbackInv => RollbackPoint
  BY DEF RollbackInv
<1> QED
  BY RollbackInit, RollbackStep, <1>1, PTL DEF Spec

(***************************************************************************)
(* What is opened is current.  A database at version v carries everything  *)
(* that the migrations up to v leave, whichever build ran them; each       *)
(* migration has only to add its own part and to keep the others.  Built   *)
(* names that part by part: an import is taken with triggers of its own,   *)
(* so Guarded is apart.                                                    *)
(***************************************************************************)
Titled(v, columns) == v >= 13 => "title_normalized" \in columns

ColumnsBuilt(v, columns) ==
  /\ v >= 15 => VIDEOS_ADDITIVE_COLUMNS \subseteq columns
  /\ v >= 17 => "original_text" \in columns

IndexesBuilt(v, columns, indexes) ==
  v >= 12 /\ "comments_count" \in columns => indexes = Indexes

RowsRepaired(v, columns, flaws) ==
  /\ v >= 10 => "duplicateComments" \notin flaws
  /\ v >= 13 => "untitled" \notin flaws
  /\ v >= 13 => "chatWithoutPath" \notin flaws
  /\ v >= 14 => "longComment" \notin flaws
  /\ v >= 15 => "unpromoted" \notin flaws
  /\ "unpromoted" \in flaws => "comments_count" \in columns

TablesBuilt(v, d) ==
  /\ v >= 7  => ~d.legacy
  /\ v >= 10 => d.unique
  /\ v >= 16 => ~d.retired

BuiltTo(v, d) ==
  /\ d \in Databases
  /\ TablesBuilt(v, d)
  /\ Titled(v, d.columns) /\ ColumnsBuilt(v, d.columns)
  /\ IndexesBuilt(v, d.columns, d.indexes)
  /\ RowsRepaired(v, d.columns, d.flaws)

GuardedTo(v, d) == ~d.foreign /\ (v >= 14 => d.triggers = {"videos", "comments"})

Built(d)   == d.version \in Nat /\ BuiltTo(d.version, d)
Guarded(d) == GuardedTo(d.version, d)

Stored(d) == d \in {Nothing, NoSchema} \/ (Built(d) /\ Guarded(d))

(* The versions that ensure_schema has passed are in the file.             *)
Passed ==
  /\ pc = "migrate" =>
       /\ current \in Int /\ current <= SCHEMA_VERSION /\ step \in 7..18
       /\ step = 7 => file.version = current
       /\ step > 7 => file.version = (IF current > step - 1 THEN current ELSE step - 1)
  /\ pc = "open" => file.version = SCHEMA_VERSION

EveryFileStored ==
  /\ Stored(file)
  /\ \A d \in fallback : Stored(d)
  /\ \A d \in copies : Stored(d)
  /\ pc = "store" => Stored(tmp)

UpgradeInv == EveryFileStored /\ Passed

\* What the theorem asks of the files the app meets.
FilesAreBuilt ==
  /\ \A d \in Found : Stored(d)
  /\ \A older \in Older : \A d \in older : Stored(d)
  /\ \A d \in Incoming : HasSchema(d) => Built(d)

LEMMA NothingIsNoDatabase ==
  /\ ~HasSchema(Nothing) /\ Nothing.version = -1
  /\ ~HasSchema(NoSchema) /\ NoSchema.version = 0
  BY DEF HasSchema, Nothing, NoSchema

LEMMA DatabaseHasSchema == ASSUME NEW d \in Databases PROVE HasSchema(d)
  BY DEF Databases, HasSchema

(* What each statement does to a database.                                 *)
LEMMA VideosColumnsAdded ==
  ASSUME NEW d \in Databases
  PROVE  LET e == WithVideosColumns(d)
         IN  /\ e \in Databases
             /\ e.columns = d.columns \cup VIDEOS_ADDITIVE_COLUMNS
             /\ "duplicateComments" \in e.flaws <=> "duplicateComments" \in d.flaws
             /\ "chatWithoutPath" \in e.flaws <=> "chatWithoutPath" \in d.flaws
             /\ "longComment" \in e.flaws <=> "longComment" \in d.flaws
             /\ "title_normalized" \in d.columns =>
                  ("untitled" \in e.flaws <=> "untitled" \in d.flaws)
             /\ "unpromoted" \in e.flaws =>
                  "unpromoted" \in d.flaws \/ "comments_count" \in d.columns
             /\ e.version = d.version /\ e.indexes = d.indexes /\ (e.unique <=> d.unique)
             /\ (e.retired <=> d.retired) /\ e.triggers = d.triggers
             /\ (e.foreign <=> d.foreign) /\ (e.legacy <=> d.legacy)
  BY DEF WithVideosColumns, Databases, VIDEOS_ADDITIVE_COLUMNS, Columns, Flaws

LEMMA IndexesAdded ==
  ASSUME NEW d \in Databases, NEW v \in 7..17, NEW e \in WithIndexesThrough(v, d)
  PROVE  /\ e \in Databases
         /\ e.version = d.version /\ e.columns = d.columns /\ (e.unique <=> d.unique)
         /\ (e.retired <=> d.retired) /\ e.triggers = d.triggers
         /\ (e.foreign <=> d.foreign) /\ (e.legacy <=> d.legacy) /\ e.flaws = d.flaws
         /\ v >= 12 => e.indexes = Indexes
  BY DEF WithIndexesThrough, Databases, Indexes


\* A migration meets the version before its own, and the baseline any
\* version before it.
Due(v, d) == IF v = 7 THEN d.version < 7 ELSE HasSchema(d) /\ d.version = v - 1

\* A version written over another changes nothing else.
LEMMA StampedFields ==
  ASSUME NEW v \in 7..17, NEW x \in Databases
  PROVE  LET e == [x EXCEPT !.version = v]
         IN  /\ e \in Databases /\ e.version = v
             /\ e.columns = x.columns /\ e.indexes = x.indexes /\ (e.unique <=> x.unique)
             /\ (e.retired <=> x.retired) /\ e.triggers = x.triggers
             /\ (e.foreign <=> x.foreign) /\ (e.legacy <=> x.legacy) /\ e.flaws = x.flaws
  BY DEF Databases

LEMMA Repairs ==
  ASSUME NEW d \in Databases, NEW fs
  PROVE  LET e == Repaired(fs, d)
         IN  /\ e \in Databases /\ e.version = d.version
             /\ e.columns = d.columns /\ e.indexes = d.indexes /\ (e.unique <=> d.unique)
             /\ (e.retired <=> d.retired) /\ e.triggers = d.triggers
             /\ (e.foreign <=> d.foreign) /\ (e.legacy <=> d.legacy) /\ e.flaws = d.flaws \ fs
  BY DEF Databases, Repaired

LEMMA TriggersCreated ==
  ASSUME NEW d \in Databases
  PROVE  LET e == WithTriggers(d)
         IN  /\ e \in Databases /\ e.version = d.version
             /\ e.columns = d.columns /\ e.indexes = d.indexes /\ (e.unique <=> d.unique)
             /\ (e.retired <=> d.retired) /\ e.triggers = {"videos", "comments"}
             /\ (e.foreign <=> d.foreign) /\ (e.legacy <=> d.legacy) /\ e.flaws = d.flaws
  BY DEF Databases, WithTriggers

LEMMA UniqueBuilt ==
  ASSUME NEW d \in Databases, NEW e \in WithUniqueComments(d)
  PROVE  /\ e \in Databases /\ e.version = d.version
         /\ e.columns = d.columns /\ e.indexes = d.indexes /\ e.unique
         /\ (e.retired <=> d.retired) /\ e.triggers = d.triggers
         /\ (e.foreign <=> d.foreign) /\ (e.legacy <=> d.legacy) /\ e.flaws = d.flaws
         /\ "duplicateComments" \notin e.flaws
  BY DEF Databases, WithUniqueComments

LEMMA StatePromoted ==
  ASSUME NEW d \in Databases, NEW e \in Promoted(d)
  PROVE  /\ e \in Databases /\ e.version = d.version
         /\ e.columns = d.columns /\ e.indexes = d.indexes /\ (e.unique <=> d.unique)
         /\ (e.retired <=> d.retired) /\ e.triggers = d.triggers
         /\ (e.foreign <=> d.foreign) /\ (e.legacy <=> d.legacy)
         /\ e.flaws \subseteq d.flaws
         /\ "comments_count" \in d.columns => "unpromoted" \notin e.flaws
<1>1. CASE "comments_count" \notin d.columns
  BY <1>1 DEF Promoted
<1>2. CASE "comments_count" \in d.columns
  <2>1. e = Repaired({"unpromoted"}, d)
    BY <1>2 DEF Promoted
  <2> DEFINE fs == {"unpromoted"}
  <2>2. e = Repaired(fs, d) /\ e.flaws = d.flaws \ fs
    BY <2>1, Repairs
  <2> QED
    BY <2>2, Repairs
<1> QED
  BY <1>1, <1>2


LEMMA BaselineBuilds ==
  ASSUME NEW d, Stored(d), d.version < 7, NEW x \in apply_baseline_schema(d)
  PROVE  /\ x \in Databases /\ ~x.foreign /\ ~x.legacy
         /\ "unpromoted" \in x.flaws => "comments_count" \in x.columns
<1> DEFINE fresh == [version |-> 0, columns |-> Columns, indexes |-> {},
                     unique |-> FALSE, retired |-> FALSE, triggers |-> {},
                     foreign |-> FALSE, legacy |-> FALSE, flaws |-> {}]
           tables == IF HasSchema(d) THEN d ELSE fresh
           dropped == [tables EXCEPT !.legacy = FALSE]
           w == WithVideosColumns(dropped)
<1>1. /\ tables \in Databases /\ ~tables.foreign
      /\ "unpromoted" \in tables.flaws => "comments_count" \in tables.columns
  <2>1. CASE HasSchema(d)
    BY <2>1, NothingIsNoDatabase DEF Stored, Built, BuiltTo, Guarded, GuardedTo, RowsRepaired
  <2>2. CASE ~HasSchema(d)
    BY <2>2 DEF Databases
  <2> QED
    BY <2>1, <2>2
<1>2. dropped \in Databases /\ ~dropped.legacy /\ ~dropped.foreign
      /\ dropped.flaws = tables.flaws /\ dropped.columns = tables.columns
  <2> HIDE DEF tables
  <2> QED
    BY <1>1 DEF Databases
<1>3. x \in WithIndexesThrough(7, w)
  BY DEF apply_baseline_schema, BASELINE_SCHEMA_VERSION
<1> HIDE DEF dropped
<1>4. /\ w \in Databases
      /\ w.columns = dropped.columns \cup VIDEOS_ADDITIVE_COLUMNS
      /\ "unpromoted" \in w.flaws =>
           "unpromoted" \in dropped.flaws \/ "comments_count" \in dropped.columns
      /\ (w.foreign <=> dropped.foreign) /\ (w.legacy <=> dropped.legacy)
  BY <1>2, VideosColumnsAdded
<1> HIDE DEF w, tables
<1>5. /\ x \in Databases /\ x.columns = w.columns /\ x.flaws = w.flaws
      /\ (x.foreign <=> w.foreign) /\ (x.legacy <=> w.legacy)
  <2>1. 7 \in 7..17
    OBVIOUS
  <2> QED
    BY <1>3, <1>4, <2>1, IndexesAdded
<1> QED
  BY <1>1, <1>2, <1>4, <1>5

LEMMA MigrationBuilds ==
  ASSUME NEW v \in 7..17, NEW d, Stored(d), Due(v, d), NEW e \in Migration(v, d)
  PROVE  BuiltTo(v, e) /\ GuardedTo(v, e) /\ e.version = v
<1> DEFINE ds == CASE v = 7  -> apply_baseline_schema(d)
      [] v = 10 -> apply_migration_10(d)
      [] v = 11 -> apply_migration_11(d)
      [] v = 13 -> apply_migration_13(d)
      [] v = 14 -> apply_migration_14(d)
      [] v = 15 -> apply_migration_15(d)
      [] v = 16 -> apply_migration_16(d)
      [] v = 17 -> apply_migration_17(d)
      [] OTHER  -> apply_index_only_migration(v, d)
<1>1. PICK x \in ds : e = [x EXCEPT !.version = v]
  BY DEF Migration, Stamped
<1>2. v # 7 => /\ d \in Databases /\ BuiltTo(v - 1, d) /\ GuardedTo(v - 1, d)
  BY NothingIsNoDatabase DEF Due, Stored, Built, BuiltTo, Guarded
<1>3. SUFFICES BuiltTo(v, x) /\ GuardedTo(v, x)
  <2>1. x \in Databases
    BY <1>3 DEF BuiltTo
  <2>2. /\ e \in Databases /\ e.version = v
        /\ e.columns = x.columns /\ e.indexes = x.indexes /\ (e.unique <=> x.unique)
        /\ (e.retired <=> x.retired) /\ e.triggers = x.triggers
        /\ (e.foreign <=> x.foreign) /\ (e.legacy <=> x.legacy) /\ e.flaws = x.flaws
    BY <1>1, <2>1, StampedFields
  <2>3. TablesBuilt(v, e)
    BY <1>3, <2>2 DEF TablesBuilt, BuiltTo
  <2>4. GuardedTo(v, e)
    BY <1>3, <2>2 DEF GuardedTo
  <2> QED
    BY <1>3, <2>2, <2>3, <2>4 DEF BuiltTo
<1> HIDE DEF ds
<1>7. CASE v = 7
  <2>1. x \in apply_baseline_schema(d) /\ d.version < 7
    BY <1>7 DEF ds, Due
  <2>2. /\ x \in Databases /\ ~x.foreign /\ ~x.legacy
        /\ "unpromoted" \in x.flaws => "comments_count" \in x.columns
    BY <2>1, BaselineBuilds
  <2>3. TablesBuilt(v, x) /\ GuardedTo(v, x)
    BY <1>7, <2>2 DEF TablesBuilt, GuardedTo
  <2>4. RowsRepaired(v, x.columns, x.flaws)
    BY <1>7, <2>2 DEF RowsRepaired
  <2>5. Titled(v, x.columns) /\ ColumnsBuilt(v, x.columns) /\ IndexesBuilt(v, x.columns, x.indexes)
    BY <1>7 DEF Titled, ColumnsBuilt, IndexesBuilt
  <2> QED
    BY <2>2, <2>3, <2>4, <2>5 DEF BuiltTo
<1> DEFINE w == WithVideosColumns(d)
\* Adding the columns again undoes nothing, except that titles are still to
\* be filled when their column is new, and states when theirs is.
<1>4. ASSUME v # 7
      PROVE  /\ w \in Databases /\ TablesBuilt(v - 1, w) /\ GuardedTo(v - 1, w)
             /\ w.columns = d.columns \cup VIDEOS_ADDITIVE_COLUMNS
             /\ IndexesBuilt(v - 1, w.columns, w.indexes)
             /\ v >= 14 => "untitled" \notin w.flaws
             /\ v >= 14 => "chatWithoutPath" \notin w.flaws
             /\ v >= 15 => "longComment" \notin w.flaws
             /\ v >= 11 => "duplicateComments" \notin w.flaws
             /\ "unpromoted" \in w.flaws => "comments_count" \in w.columns
  <2>1. d \in Databases /\ BuiltTo(v - 1, d) /\ GuardedTo(v - 1, d)
    BY <1>2, <1>4
  <2>2. w \in Databases /\ TablesBuilt(v - 1, w) /\ GuardedTo(v - 1, w)
    BY <2>1, VideosColumnsAdded DEF BuiltTo, TablesBuilt, GuardedTo
  <2>3. /\ w.columns = d.columns \cup VIDEOS_ADDITIVE_COLUMNS
        /\ IndexesBuilt(v - 1, w.columns, w.indexes)
    BY <2>1, VideosColumnsAdded DEF BuiltTo, IndexesBuilt, VIDEOS_ADDITIVE_COLUMNS
  <2>4. /\ v >= 14 => "untitled" \notin w.flaws
        /\ v >= 14 => "chatWithoutPath" \notin w.flaws
        /\ v >= 15 => "longComment" \notin w.flaws
        /\ v >= 11 => "duplicateComments" \notin w.flaws
    BY <2>1, VideosColumnsAdded DEF BuiltTo, RowsRepaired, Titled
  <2>5. "unpromoted" \in w.flaws => "comments_count" \in w.columns
    BY <2>1, VideosColumnsAdded DEF BuiltTo, RowsRepaired
  <2> QED
    BY <2>2, <2>3, <2>4, <2>5
<1> HIDE DEF w
<1>8. CASE v \in {8, 9, 12}
  <2>1. x \in WithIndexesThrough(v, w)
    BY <1>8 DEF ds, apply_index_only_migration, w
  <2>2. /\ w \in Databases /\ TablesBuilt(v - 1, w) /\ GuardedTo(v - 1, w)
        /\ IndexesBuilt(v - 1, w.columns, w.indexes)
        /\ v >= 11 => "duplicateComments" \notin w.flaws
        /\ "unpromoted" \in w.flaws => "comments_count" \in w.columns
    BY <1>4, <1>8
  <2>3. /\ x \in Databases /\ x.columns = w.columns /\ (x.unique <=> w.unique)
        /\ (x.foreign <=> w.foreign) /\ (x.legacy <=> w.legacy) /\ x.flaws = w.flaws
        /\ v >= 12 => x.indexes = Indexes
    BY <1>8, <2>1, <2>2, IndexesAdded
  <2>a. TablesBuilt(v, x) /\ GuardedTo(v, x)
    BY <1>8, <2>2, <2>3 DEF BuiltTo, TablesBuilt, GuardedTo
  <2>b. Titled(v, x.columns) /\ ColumnsBuilt(v, x.columns) /\ IndexesBuilt(v, x.columns, x.indexes)
    BY <1>8, <2>2, <2>3 DEF BuiltTo, Titled, ColumnsBuilt, IndexesBuilt, VIDEOS_ADDITIVE_COLUMNS
  <2>c. RowsRepaired(v, x.columns, x.flaws)
    BY <1>8, <2>2, <2>3 DEF BuiltTo, RowsRepaired
  <2> QED
    BY <1>8, <1>8, <2>2, <2>3, <2>a, <2>b, <2>c DEF BuiltTo
<1>10. CASE v = 10
  <2> DEFINE r == Repaired({"duplicateComments"}, d)
             wr == WithVideosColumns(r)
  <2>1. PICK y \in WithIndexesThrough(10, wr) : x \in WithUniqueComments(y)
    BY <1>10 DEF ds, apply_migration_10
  <2>2. d \in Databases /\ BuiltTo(9, d) /\ GuardedTo(9, d)
    BY <1>2, <1>10
  <2>3. /\ r \in Databases /\ r.columns = d.columns /\ ~r.foreign /\ ~r.legacy
        /\ "duplicateComments" \notin r.flaws
        /\ "unpromoted" \in r.flaws => "comments_count" \in r.columns
    BY <2>2, Repairs DEF BuiltTo, TablesBuilt, GuardedTo, RowsRepaired
  <2> HIDE DEF r
  <2>4. /\ wr \in Databases /\ ~wr.foreign /\ ~wr.legacy
        /\ "duplicateComments" \notin wr.flaws
        /\ "unpromoted" \in wr.flaws => "comments_count" \in wr.columns
    BY <2>3, VideosColumnsAdded
  <2> HIDE DEF wr
  <2>5. /\ y \in Databases /\ ~y.foreign /\ ~y.legacy
        /\ "duplicateComments" \notin y.flaws
        /\ "unpromoted" \in y.flaws => "comments_count" \in y.columns
    <3>1. 10 \in 7..17
      OBVIOUS
    <3> QED
      BY <2>1, <2>4, <3>1, IndexesAdded
  <2>6. /\ x \in Databases /\ ~x.foreign /\ ~x.legacy /\ x.unique
        /\ "duplicateComments" \notin x.flaws
        /\ "unpromoted" \in x.flaws => "comments_count" \in x.columns
    BY <2>1, <2>5, UniqueBuilt
  <2>a. TablesBuilt(10, x) /\ GuardedTo(10, x)
    BY <2>6 DEF BuiltTo, TablesBuilt, GuardedTo
  <2>b. Titled(10, x.columns) /\ ColumnsBuilt(10, x.columns) /\ IndexesBuilt(10, x.columns, x.indexes)
    BY <2>6 DEF BuiltTo, Titled, ColumnsBuilt, IndexesBuilt, VIDEOS_ADDITIVE_COLUMNS
  <2>c. RowsRepaired(10, x.columns, x.flaws)
    BY <2>6 DEF BuiltTo, RowsRepaired
  <2> QED
    BY <1>10, <2>6, <2>a, <2>b, <2>c DEF BuiltTo
<1>11. CASE v = 11
  <2> DEFINE r == Repaired({"untitled"}, w)
  <2>1. x \in WithIndexesThrough(11, r)
    BY <1>11 DEF ds, apply_migration_11, w
  <2>2. /\ w \in Databases /\ TablesBuilt(10, w) /\ GuardedTo(10, w)
        /\ "duplicateComments" \notin w.flaws
        /\ "unpromoted" \in w.flaws => "comments_count" \in w.columns
    BY <1>4, <1>11
  <2>3. /\ r \in Databases /\ r.columns = w.columns /\ ~r.foreign /\ ~r.legacy /\ r.unique
        /\ "duplicateComments" \notin r.flaws
        /\ "unpromoted" \in r.flaws => "comments_count" \in r.columns
    BY <2>2, Repairs DEF TablesBuilt, GuardedTo
  <2> HIDE DEF r
  <2>4. /\ x \in Databases /\ ~x.foreign /\ ~x.legacy /\ x.unique
        /\ "duplicateComments" \notin x.flaws
        /\ "unpromoted" \in x.flaws => "comments_count" \in x.columns
    <3>1. 11 \in 7..17
      OBVIOUS
    <3> QED
      BY <2>1, <2>3, <3>1, IndexesAdded
  <2>a. TablesBuilt(11, x) /\ GuardedTo(11, x)
    BY <2>4 DEF BuiltTo, TablesBuilt, GuardedTo
  <2>b. Titled(11, x.columns) /\ ColumnsBuilt(11, x.columns) /\ IndexesBuilt(11, x.columns, x.indexes)
    BY <2>4 DEF BuiltTo, Titled, ColumnsBuilt, IndexesBuilt, VIDEOS_ADDITIVE_COLUMNS
  <2>c. RowsRepaired(11, x.columns, x.flaws)
    BY <2>4 DEF BuiltTo, RowsRepaired
  <2> QED
    BY <1>11, <2>4, <2>a, <2>b, <2>c DEF BuiltTo
<1>13. CASE v = 13
  <2> DEFINE r == Repaired({"chatWithoutPath"}, d)
             wr == WithVideosColumns(r)
             t == Repaired({"untitled"}, wr)
  <2>1. x = WithTriggers(t)
    BY <1>13 DEF ds, apply_migration_13
  <2>2. d \in Databases /\ BuiltTo(12, d) /\ GuardedTo(12, d)
    BY <1>2, <1>13
  <2>3. /\ r \in Databases /\ r.columns = d.columns /\ r.indexes = d.indexes
        /\ ~r.foreign /\ ~r.legacy /\ r.unique
        /\ "duplicateComments" \notin r.flaws /\ "chatWithoutPath" \notin r.flaws
        /\ "unpromoted" \in r.flaws => "comments_count" \in r.columns
    BY <2>2, Repairs DEF BuiltTo, TablesBuilt, GuardedTo, RowsRepaired
  <2>i. "comments_count" \in d.columns => d.indexes = Indexes
    BY <2>2 DEF BuiltTo, IndexesBuilt
  <2> HIDE DEF r
  <2>4. /\ wr \in Databases /\ wr.columns = d.columns \cup VIDEOS_ADDITIVE_COLUMNS
        /\ wr.indexes = d.indexes
        /\ ~wr.foreign /\ ~wr.legacy /\ wr.unique
        /\ "duplicateComments" \notin wr.flaws /\ "chatWithoutPath" \notin wr.flaws
        /\ "unpromoted" \in wr.flaws => "comments_count" \in wr.columns
    BY <2>3, VideosColumnsAdded
  <2> HIDE DEF wr
  <2>5. /\ t \in Databases /\ t.columns = wr.columns /\ t.indexes = wr.indexes
        /\ ~t.foreign /\ ~t.legacy /\ t.unique
        /\ "duplicateComments" \notin t.flaws /\ "chatWithoutPath" \notin t.flaws
        /\ "untitled" \notin t.flaws
        /\ "unpromoted" \in t.flaws => "comments_count" \in t.columns
    BY <2>4, Repairs
  <2> HIDE DEF t
  <2>6. /\ x \in Databases /\ x.columns = t.columns /\ x.indexes = t.indexes
        /\ ~x.foreign /\ ~x.legacy /\ x.unique /\ x.flaws = t.flaws
    BY <2>1, <2>5, TriggersCreated
  <2>a. TablesBuilt(13, x) /\ GuardedTo(13, x)
    BY <2>i, <2>4, <2>5, <2>6 DEF BuiltTo, TablesBuilt, GuardedTo
  <2>b. Titled(13, x.columns) /\ ColumnsBuilt(13, x.columns) /\ IndexesBuilt(13, x.columns, x.indexes)
    BY <2>i, <2>4, <2>5, <2>6 DEF BuiltTo, Titled, ColumnsBuilt, IndexesBuilt, VIDEOS_ADDITIVE_COLUMNS
  <2>c. RowsRepaired(13, x.columns, x.flaws)
    BY <2>i, <2>4, <2>5, <2>6 DEF BuiltTo, RowsRepaired
  <2> QED
    BY <1>13, <2>i, <2>4, <2>5, <2>6, <2>a, <2>b, <2>c DEF BuiltTo
<1>14. CASE v = 14
  <2> DEFINE r == Repaired({"longComment"}, d)
  <2>1. x = WithTriggers(r)
    BY <1>14 DEF ds, apply_migration_14
  <2>2. d \in Databases /\ BuiltTo(13, d) /\ GuardedTo(13, d)
    BY <1>2, <1>14
  <2>3. /\ r \in Databases /\ r.columns = d.columns /\ r.indexes = d.indexes
        /\ (r.unique <=> d.unique) /\ (r.foreign <=> d.foreign) /\ (r.legacy <=> d.legacy)
        /\ r.flaws = d.flaws \ {"longComment"}
    BY <2>2, Repairs
  <2> HIDE DEF r
  <2>4. /\ x \in Databases /\ x.columns = d.columns /\ x.indexes = d.indexes
        /\ (x.unique <=> d.unique) /\ (x.foreign <=> d.foreign) /\ (x.legacy <=> d.legacy)
        /\ x.flaws = d.flaws \ {"longComment"} /\ x.triggers = {"videos", "comments"}
    BY <2>1, <2>3, TriggersCreated
  <2>a. TablesBuilt(14, x) /\ GuardedTo(14, x)
    BY <2>2, <2>4 DEF BuiltTo, TablesBuilt, GuardedTo
  <2>b. Titled(14, x.columns) /\ ColumnsBuilt(14, x.columns) /\ IndexesBuilt(14, x.columns, x.indexes)
    BY <2>2, <2>4 DEF BuiltTo, Titled, ColumnsBuilt, IndexesBuilt, VIDEOS_ADDITIVE_COLUMNS
  <2>c. RowsRepaired(14, x.columns, x.flaws)
    BY <2>2, <2>4 DEF BuiltTo, RowsRepaired
  <2> QED
    BY <1>14, <2>2, <2>4, <2>a, <2>b, <2>c DEF BuiltTo
<1>15. CASE v = 15
  <2>1. x \in Promoted(w)
    BY <1>15 DEF ds, apply_migration_15, w
  <2>2. d \in Databases /\ BuiltTo(14, d) /\ GuardedTo(14, d)
    BY <1>2, <1>15
  <2>3. /\ w \in Databases /\ TablesBuilt(14, w) /\ GuardedTo(14, w)
        /\ w.columns = d.columns \cup VIDEOS_ADDITIVE_COLUMNS
        /\ IndexesBuilt(14, w.columns, w.indexes)
        /\ "untitled" \notin w.flaws /\ "chatWithoutPath" \notin w.flaws
        /\ "longComment" \notin w.flaws /\ "duplicateComments" \notin w.flaws
        /\ "unpromoted" \in w.flaws => "comments_count" \in w.columns
    BY <1>4, <1>15
  <2>4. /\ x \in Databases /\ x.columns = w.columns /\ x.indexes = w.indexes
        /\ (x.unique <=> w.unique) /\ (x.foreign <=> w.foreign) /\ (x.legacy <=> w.legacy)
        /\ x.triggers = w.triggers /\ x.flaws \subseteq w.flaws
        /\ "comments_count" \in w.columns => "unpromoted" \notin x.flaws
    BY <2>1, <2>3, StatePromoted
  <2>a. TablesBuilt(15, x) /\ GuardedTo(15, x)
    BY <2>3, <2>4 DEF BuiltTo, TablesBuilt, GuardedTo
  <2>b. Titled(15, x.columns) /\ ColumnsBuilt(15, x.columns) /\ IndexesBuilt(15, x.columns, x.indexes)
    BY <2>3, <2>4 DEF BuiltTo, Titled, ColumnsBuilt, IndexesBuilt, VIDEOS_ADDITIVE_COLUMNS
  <2>c. RowsRepaired(15, x.columns, x.flaws)
    BY <2>3, <2>4 DEF BuiltTo, RowsRepaired
  <2> QED
    BY <1>15, <2>3, <2>4, <2>a, <2>b, <2>c DEF BuiltTo
<1>16. CASE v = 16
  <2>1. x = [d EXCEPT !.retired = FALSE]
    BY <1>16 DEF ds, apply_migration_16
  <2>2. d \in Databases /\ BuiltTo(15, d) /\ GuardedTo(15, d)
    BY <1>2, <1>16
  <2>3. /\ x \in Databases /\ x.columns = d.columns /\ (x.unique <=> d.unique)
        /\ (x.foreign <=> d.foreign) /\ (x.legacy <=> d.legacy) /\ x.flaws = d.flaws
        /\ x.indexes = d.indexes /\ x.triggers = d.triggers /\ ~x.retired
    BY <2>1, <2>2 DEF Databases
  <2>4. TablesBuilt(16, x) /\ GuardedTo(16, x)
    BY <2>2, <2>3 DEF BuiltTo, TablesBuilt, GuardedTo
  <2>5. Titled(16, x.columns) /\ ColumnsBuilt(16, x.columns) /\ IndexesBuilt(16, x.columns, x.indexes)
    BY <2>2, <2>3 DEF BuiltTo, Titled, ColumnsBuilt, IndexesBuilt
  <2>6. RowsRepaired(16, x.columns, x.flaws)
    BY <2>2, <2>3 DEF BuiltTo, RowsRepaired
  <2> QED
    BY <1>16, <2>3, <2>4, <2>5, <2>6 DEF BuiltTo
<1>17. CASE v = 17
  <2>1. x = [d EXCEPT !.columns = @ \cup VIDEO_COMMENTS_ADDITIVE_COLUMNS]
    BY <1>17 DEF ds, apply_migration_17
  <2>2. d \in Databases /\ BuiltTo(16, d) /\ GuardedTo(16, d)
    BY <1>2, <1>17
  <2>3. /\ x \in Databases /\ x.columns = d.columns \cup {"original_text"}
        /\ (x.unique <=> d.unique) /\ (x.foreign <=> d.foreign) /\ (x.legacy <=> d.legacy)
        /\ x.indexes = d.indexes /\ x.triggers = d.triggers /\ (x.retired <=> d.retired)
        /\ x.flaws = d.flaws
    BY <2>1, <2>2 DEF Databases, VIDEO_COMMENTS_ADDITIVE_COLUMNS, Columns
  <2>a. TablesBuilt(17, x) /\ GuardedTo(17, x)
    BY <2>2, <2>3 DEF BuiltTo, TablesBuilt, GuardedTo
  <2>b. Titled(17, x.columns) /\ ColumnsBuilt(17, x.columns) /\ IndexesBuilt(17, x.columns, x.indexes)
    BY <2>2, <2>3 DEF BuiltTo, Titled, ColumnsBuilt, IndexesBuilt, VIDEOS_ADDITIVE_COLUMNS
  <2>c. RowsRepaired(17, x.columns, x.flaws)
    BY <2>2, <2>3 DEF BuiltTo, RowsRepaired
  <2> QED
    BY <1>17, <2>2, <2>3, <2>a, <2>b, <2>c DEF BuiltTo
<1> QED
  BY <1>7, <1>8, <1>10, <1>11, <1>13, <1>14, <1>15, <1>16, <1>17

LEMMA NothingStored == Stored(Nothing) /\ Stored(NoSchema)
  BY DEF Stored

\* An import keeps what the file carries, and the triggers become the app's.
LEMMA ResetGuards ==
  ASSUME NEW d, Built(d)
  PROVE  Stored(reset_triggers_and_views(d))
<1> DEFINE e == reset_triggers_and_views(d)
<1>1. d \in Databases
  BY DEF Built, BuiltTo
<1>2. /\ e \in Databases /\ e.version = d.version
      /\ e.columns = d.columns /\ e.indexes = d.indexes /\ (e.unique <=> d.unique)
      /\ (e.retired <=> d.retired) /\ (e.legacy <=> d.legacy) /\ e.flaws = d.flaws
      /\ ~e.foreign
      /\ d.version >= 14 => e.triggers = {"videos", "comments"}
  BY <1>1 DEF reset_triggers_and_views, Databases, TRIGGERS_COMPLETE_FROM_VERSION
<1> HIDE DEF e
<1>3. GuardedTo(e.version, e) /\ TablesBuilt(e.version, e)
  BY <1>2 DEF Built, BuiltTo, TablesBuilt, GuardedTo
<1>4. Built(e)
  BY <1>2, <1>3 DEF Built, BuiltTo
<1> QED
  BY <1>3, <1>4 DEF Stored, Guarded, e

LEMMA UpgradeInit == FilesAreBuilt /\ Init => UpgradeInv
<1> SUFFICES ASSUME FilesAreBuilt, Init PROVE UpgradeInv
  OBVIOUS
<1>1. EveryFileStored
  BY NothingStored DEF Init, FilesAreBuilt, EveryFileStored
<1>2. Passed
  BY DEF Init, Passed
<1> QED
  BY <1>1, <1>2 DEF UpgradeInv

\* One version of ensure_schema leads from what the versions before it left
\* to what this one leaves.
LEMMA MigrateStep ==
  ASSUME UpgradeInv, Migrate
  PROVE  UpgradeInv'
<1> USE DEF UpgradeInv, SCHEMA_VERSION
<1>0. /\ pc = "migrate" /\ step \in 7..17 /\ current \in Int /\ current <= 17
      /\ step = 7 => file.version = current
      /\ step > 7 => file.version = (IF current > step - 1 THEN current ELSE step - 1)
      /\ Stored(file) /\ (\A d \in fallback : Stored(d)) /\ (\A d \in copies : Stored(d))
      /\ copies' = copies /\ current' = current /\ tmp' = tmp
  BY DEF Migrate, Passed, EveryFileStored
<1>1. CASE UNCHANGED file /\ fallback' = fallback /\ ~needs_migration(step)
           /\ step' = step + 1 /\ pc' = pc
  <2>1. EveryFileStored'
    BY <1>0, <1>1 DEF EveryFileStored
  <2>2. Passed'
    BY <1>0, <1>1 DEF Passed, needs_migration
  <2> QED
    BY <2>1, <2>2
<1>2. CASE needs_migration(step) /\ file' \in Migration(step, file)
           /\ fallback' = fallback \cup {file} /\ step' = step + 1 /\ pc' = pc
  <2>1. current < step
    BY <1>2 DEF needs_migration
  <2>2. step # 7 => file.version = step - 1 /\ file.version >= 7
    BY <1>0, <2>1
  <2>3. step # 7 => HasSchema(file)
    BY <1>0, <2>2, NothingIsNoDatabase, DatabaseHasSchema DEF Stored, Built, BuiltTo
  <2>4. Due(step, file)
    BY <1>0, <2>1, <2>2, <2>3 DEF Due
  <2>5. BuiltTo(step, file') /\ GuardedTo(step, file') /\ file'.version = step
    BY <1>0, <1>2, <2>4, MigrationBuilds
  <2>6. Stored(file')
    BY <1>0, <2>5 DEF Stored, Built, Guarded
  <2>7. EveryFileStored'
    BY <1>0, <1>2, <2>6 DEF EveryFileStored
  <2>8. Passed'
    BY <1>0, <1>2, <2>1, <2>5 DEF Passed
  <2> QED
    BY <2>7, <2>8
<1>3. CASE UNCHANGED <<file, fallback, step>> /\ pc' = "refused"
  BY <1>0, <1>3 DEF EveryFileStored, Passed
<1> QED
  BY <1>1, <1>2, <1>3 DEF Migrate, Refuse

LEMMA UpgradeStep == FilesAreBuilt /\ UpgradeInv /\ [Next]_vars => UpgradeInv'
<1> SUFFICES ASSUME FilesAreBuilt, UpgradeInv, [Next]_vars PROVE UpgradeInv'
  OBVIOUS
<1>1. Stored(file) /\ (\A d \in fallback : Stored(d)) /\ (\A d \in copies : Stored(d))
  BY DEF UpgradeInv, EveryFileStored
<1>2. CASE Inspect \/ Check \/ DailyInstead
  BY <1>1, <1>2 DEF Inspect, Check, DailyInstead, Refuse, UpgradeInv, EveryFileStored, Passed
<1>3. CASE Vacuum
  BY <1>1, <1>3 DEF Vacuum, Refuse, UpgradeInv, EveryFileStored, Passed
<1>4. CASE Store
  BY <1>1, <1>4 DEF Store, Refuse, UpgradeInv, EveryFileStored, Passed
<1>5. CASE Prune
  BY <1>1, <1>5 DEF Prune, UpgradeInv, EveryFileStored, Passed
<1>6. CASE OpenPool
  <2>1. Stored(file')
    BY <1>1, <1>6, NothingStored DEF OpenPool
  <2>2. file'.version \in Int
    BY <2>1, NothingIsNoDatabase DEF Stored, Built
  <2>3. pc' # "migrate" => pc' = "refused"
    BY <1>6 DEF OpenPool, Refuse
  <2>4. pc' = "migrate" => current' = file'.version /\ step' = 7 /\ current' <= SCHEMA_VERSION
    BY <1>6, <2>2 DEF OpenPool, Refuse, BASELINE_SCHEMA_VERSION, SCHEMA_VERSION
  <2>5. copies' = copies /\ fallback' = fallback
    BY <1>6 DEF OpenPool
  <2>6. EveryFileStored'
    BY <1>1, <2>1, <2>3, <2>5 DEF EveryFileStored
  <2>7. Passed'
    BY <2>2, <2>3, <2>4 DEF Passed
  <2> QED
    BY <2>6, <2>7 DEF UpgradeInv
<1>7. CASE Migrate
  BY <1>7, MigrateStep
<1>8. CASE Ready
  <2>1. file.version = SCHEMA_VERSION
    BY <1>8 DEF Ready, UpgradeInv, Passed, SCHEMA_VERSION
  <2> QED
    BY <1>1, <1>8, <2>1 DEF Ready, launch, UpgradeInv, EveryFileStored, Passed
<1>9. CASE Quit \/ Kill \/ start_with_empty_database
  BY <1>1, <1>9 DEF Quit, Kill, start_with_empty_database, disk, UpgradeInv, EveryFileStored, Passed
<1>10. CASE PowerLoss
  BY <1>1, <1>10 DEF PowerLoss, UpgradeInv, EveryFileStored, Passed
<1>11. CASE Lost
  BY <1>1, <1>11, NothingStored DEF Lost, UpgradeInv, EveryFileStored, Passed
<1>12. CASE Swap
  <2>1. PICK d \in Incoming \cup copies :
          validate_import_source(d) /\ file' = reset_triggers_and_views(d)
    BY <1>12 DEF Swap
  <2>2. Built(d)
    BY <1>1, <2>1, NothingIsNoDatabase DEF validate_import_source, IsKavynex, FilesAreBuilt, Stored
  <2>3. Stored(file')
    BY <2>1, <2>2, ResetGuards
  <2>4. pc' = "closed" /\ fallback' = {} /\ copies' = copies
    BY <1>12 DEF Swap
  <2> QED
    BY <1>1, <2>3, <2>4 DEF UpgradeInv, EveryFileStored, Passed
<1>13. CASE UNCHANGED vars
  BY <1>1, <1>13 DEF vars, disk, launch, UpgradeInv, EveryFileStored, Passed
<1> QED
  BY <1>2, <1>3, <1>4, <1>5, <1>6, <1>7, <1>8, <1>9, <1>10, <1>11, <1>12, <1>13 DEF Next

\* A file that is stored at the current version lacks nothing.
LEMMA CurrentIsWhole == UpgradeInv => Upgraded
<1> SUFFICES ASSUME UpgradeInv, pc = "open" PROVE Upgraded
  BY DEF Upgraded
<1>1. file.version = 17 /\ BuiltTo(17, file) /\ GuardedTo(17, file)
  BY NothingIsNoDatabase
     DEF UpgradeInv, EveryFileStored, Passed, SCHEMA_VERSION, Stored, Built, Guarded
<1>2. Columns \ {"comments_count"} \subseteq file.columns
  BY <1>1 DEF BuiltTo, ColumnsBuilt, Columns, VIDEO_COMMENTS_ADDITIVE_COLUMNS
<1>3. file.triggers = {"videos", "comments"} /\ ~file.foreign
  BY <1>1 DEF GuardedTo
<1>4. file.flaws = {}
  BY <1>1 DEF BuiltTo, RowsRepaired, Databases, Flaws
<1>5. ~file.legacy /\ ~file.retired /\ file.unique
  BY <1>1 DEF BuiltTo, TablesBuilt
<1>6. "comments_count" \in file.columns => file.indexes = Indexes
  BY <1>1 DEF BuiltTo, IndexesBuilt
<1> QED
  BY <1>1, <1>2, <1>3, <1>4, <1>5, <1>6 DEF Upgraded, SCHEMA_VERSION

\* A database that opens is the current schema in full (db_schema/mod.rs,
\* ensure_schema), whatever version it was found or imported at and
\* wherever launches were cut short, provided each file the app meets is
\* what some build leaves at its version, with whatever triggers when it is
\* imported.
THEOREM OpensCurrent == FilesAreBuilt /\ Spec => []Upgraded
<1>1. FilesAreBuilt /\ Init => UpgradeInv
  BY UpgradeInit
<1>2. FilesAreBuilt /\ UpgradeInv /\ [Next]_vars => UpgradeInv'
  BY UpgradeStep
<1>3. UpgradeInv => Upgraded
  BY CurrentIsWhole
<1>4. ASSUME FilesAreBuilt PROVE Spec => []Upgraded
  <2>1. Init => UpgradeInv
    BY <1>1, <1>4
  <2>2. UpgradeInv /\ [Next]_vars => UpgradeInv'
    BY <1>2, <1>4
  <2> QED
    BY <2>1, <2>2, <1>3, PTL DEF Spec
<1> QED
  BY <1>4

(***************************************************************************)
(* A migration passes.  Only three statements can fail: an index over a    *)
(* column that is missing, a unique index over rows that repeat, and an    *)
(* UPDATE of rows that the triggers refuse; what the versions before left  *)
(* rules out each of them.                                                 *)
(***************************************************************************)
\* Only comments_count is never added by a migration.
LEMMA IndexesPass ==
  ASSUME NEW v \in 7..17, NEW d \in Databases,
         VIDEOS_ADDITIVE_COLUMNS \cup {"comments_count"} \subseteq d.columns
  PROVE  WithIndexesThrough(v, d) # {}
  BY DEF WithIndexesThrough, Indexes, IndexColumns, VIDEOS_ADDITIVE_COLUMNS

LEMMA StampedStays ==
  ASSUME NEW v, NEW ds, ds # {}
  PROVE  Stamped(v, ds) # {}
  BY DEF Stamped

LEMMA MigrationPasses ==
  ASSUME NEW v \in 7..17, NEW d, Stored(d), Due(v, d),
         HasSchema(d) => "comments_count" \in d.columns
  PROVE  Migration(v, d) # {}
<1> DEFINE w == WithVideosColumns(d)
<1>1. v # 7 => /\ d \in Databases /\ BuiltTo(v - 1, d) /\ "comments_count" \in d.columns
  BY NothingIsNoDatabase DEF Due, Stored, Built, BuiltTo
<1>2. v # 7 => /\ w \in Databases
               /\ w.columns = d.columns \cup VIDEOS_ADDITIVE_COLUMNS
               /\ v >= 15 => "untitled" \notin w.flaws /\ "chatWithoutPath" \notin w.flaws
  BY <1>1, VideosColumnsAdded DEF BuiltTo, RowsRepaired, Titled
<1> HIDE DEF w
<1>7. CASE v = 7
  <2> DEFINE fresh == [version |-> 0, columns |-> Columns, indexes |-> {},
                       unique |-> FALSE, retired |-> FALSE, triggers |-> {},
                       foreign |-> FALSE, legacy |-> FALSE, flaws |-> {}]
             tables == IF HasSchema(d) THEN d ELSE fresh
             dropped == [tables EXCEPT !.legacy = FALSE]
             added == WithVideosColumns(dropped)
  <2>1. tables \in Databases /\ "comments_count" \in tables.columns
    <3>1. CASE HasSchema(d)
      BY <3>1, NothingIsNoDatabase DEF Stored, Built, BuiltTo
    <3>2. CASE ~HasSchema(d)
      BY <3>2 DEF Databases, Columns
    <3> QED
      BY <3>1, <3>2
  <2>2. dropped \in Databases /\ dropped.columns = tables.columns
    <3> HIDE DEF tables
    <3> QED
      BY <2>1 DEF Databases
  <2>3. apply_baseline_schema(d) = WithIndexesThrough(7, added)
    BY DEF apply_baseline_schema, BASELINE_SCHEMA_VERSION
  <2> HIDE DEF dropped, tables
  <2>4. added \in Databases /\ added.columns = dropped.columns \cup VIDEOS_ADDITIVE_COLUMNS
    BY <2>2, VideosColumnsAdded
  <2> HIDE DEF added
  <2>5. 7 \in 7..17 /\ VIDEOS_ADDITIVE_COLUMNS \cup {"comments_count"} \subseteq added.columns
    BY <2>1, <2>2, <2>4
  <2>6. apply_baseline_schema(d) # {}
    BY <2>3, <2>4, <2>5, IndexesPass
  <2> QED
    BY <1>7, <2>6, StampedStays DEF Migration
<1>8. CASE v \in {8, 9, 12}
  <2>1. apply_index_only_migration(v, d) # {}
    BY <1>2, <1>1, <1>8, IndexesPass DEF apply_index_only_migration, w
  <2> QED
    BY <1>8, <2>1, StampedStays DEF Migration
<1>10. CASE v = 10
  <2> DEFINE fs == {"duplicateComments"}
             r == Repaired(fs, d)
             wr == WithVideosColumns(r)
  <2>1. r \in Databases /\ r.columns = d.columns /\ "duplicateComments" \notin r.flaws
    BY <1>1, <1>10, Repairs
  <2> HIDE DEF r
  <2>2. /\ wr \in Databases /\ wr.columns = d.columns \cup VIDEOS_ADDITIVE_COLUMNS
        /\ "duplicateComments" \notin wr.flaws
    BY <2>1, VideosColumnsAdded
  <2> HIDE DEF wr
  <2>3. PICK e \in WithIndexesThrough(10, wr) : TRUE
    <3>1. 10 \in 7..17
      OBVIOUS
    <3> QED
      BY <1>1, <1>10, <2>2, <3>1, IndexesPass
  <2>4. e.flaws = wr.flaws
    <3>1. 10 \in 7..17
      OBVIOUS
    <3> QED
      BY <2>2, <2>3, <3>1, IndexesAdded
  <2>5. WithUniqueComments(e) # {}
    BY <2>2, <2>4 DEF WithUniqueComments
  <2>6. apply_migration_10(d) # {}
    BY <2>3, <2>5 DEF apply_migration_10, r, wr
  <2> QED
    BY <1>10, <2>6, StampedStays DEF Migration
<1>11. CASE v = 11
  <2> DEFINE fs == {"untitled"}
             r == Repaired(fs, w)
  <2>1. r \in Databases /\ r.columns = w.columns
    BY <1>2, <1>11, Repairs
  <2>2. 11 \in 7..17 /\ VIDEOS_ADDITIVE_COLUMNS \cup {"comments_count"} \subseteq r.columns
    BY <1>1, <1>2, <1>11, <2>1
  <2> HIDE DEF r
  <2>3. WithIndexesThrough(11, r) # {}
    BY <2>1, <2>2, IndexesPass
  <2>4. apply_migration_11(d) # {}
    BY <2>3 DEF apply_migration_11, r, w
  <2> QED
    BY <1>11, <2>4, StampedStays DEF Migration
<1>15. CASE v = 15
  <2>1. Promoted(w) # {}
    BY <1>2, <1>15 DEF Promoted
  <2>2. apply_migration_15(d) # {}
    BY <2>1 DEF apply_migration_15, w
  <2> QED
    BY <1>15, <2>2, StampedStays DEF Migration
<1>16. CASE v \in {13, 14, 16, 17}
  <2>1. /\ apply_migration_13(d) # {} /\ apply_migration_14(d) # {}
        /\ apply_migration_16(d) # {} /\ apply_migration_17(d) # {}
    BY DEF apply_migration_13, apply_migration_14, apply_migration_16, apply_migration_17
  <2> QED
    BY <1>16, <2>1, StampedStays DEF Migration
<1> QED
  BY <1>7, <1>8, <1>10, <1>11, <1>15, <1>16

\* A step refuses without a fault only where the migration itself fails.
LEMMA RefusedMigration ==
  ASSUME FilesAreBuilt, UpgradeInv, faults \in Nat, [Next]_vars,
         pc = "migrate", pc' = "refused", UNCHANGED faults
  PROVE  Migration(step, file) = {} /\ needs_migration(step) /\ step <= SCHEMA_VERSION
<1>1. Migrate
  BY DEF Next, vars, Inspect, Check, DailyInstead, Vacuum, Store, Prune, OpenPool, Ready, Quit,
         Kill, PowerLoss, Lost, start_with_empty_database, Swap
<1>2. ~Fault
  BY DEF Fault
<1> QED
  BY <1>1, <1>2 DEF Migrate

LEMMA FaultsCounted == faults \in Nat /\ [Next]_vars => faults' \in Nat
<1> SUFFICES ASSUME faults \in Nat, [Next]_vars PROVE faults' \in Nat
  OBVIOUS
<1>1. NoFault \/ Fault => faults' \in Nat
  BY DEF NoFault, Fault
<1>2. CASE Inspect \/ Check \/ DailyInstead \/ Vacuum \/ Store \/ Prune \/ OpenPool \/ Migrate
  <2>1. NoFault \/ Fault
    BY <1>2 DEF Inspect, Check, DailyInstead, Vacuum, Store, Prune, OpenPool, Migrate
  <2> QED
    BY <1>1, <2>1
<1>3. CASE Ready \/ Quit \/ Kill \/ PowerLoss \/ Lost \/ start_with_empty_database \/ Swap
           \/ UNCHANGED vars
  BY <1>3 DEF Ready, Quit, Kill, PowerLoss, Lost, start_with_empty_database, Swap, vars, world
<1> QED
  BY <1>2, <1>3 DEF Next

LEMMA RefusedForAColumn ==
  ASSUME FilesAreBuilt, UpgradeInv, faults \in Nat, [Next]_vars,
         pc = "migrate", pc' = "refused", UNCHANGED faults
  PROVE  "comments_count" \notin file.columns
<1>1. Migration(step, file) = {} /\ needs_migration(step) /\ step <= SCHEMA_VERSION
  BY RefusedMigration
<1>2. /\ step \in 7..17 /\ current \in Int /\ Stored(file)
      /\ step = 7 => file.version = current
      /\ step > 7 => file.version = (IF current > step - 1 THEN current ELSE step - 1)
  BY <1>1 DEF UpgradeInv, EveryFileStored, Passed, SCHEMA_VERSION
<1>3. current < step
  BY <1>1 DEF needs_migration
<1>4. step # 7 => file.version = step - 1 /\ file.version >= 7
  BY <1>2, <1>3
<1>5. step # 7 => HasSchema(file)
  BY <1>2, <1>4, NothingIsNoDatabase, DatabaseHasSchema DEF Stored, Built, BuiltTo
<1>6. Due(step, file)
  BY <1>2, <1>3, <1>4, <1>5 DEF Due
<1> QED
  BY <1>1, <1>2, <1>6, MigrationPasses

\* No migration fails by itself (db_schema/mod.rs, ensure_schema and the
\* migrations it calls), from every database that a build leaves or an
\* import accepts, unless the file lacks a column no migration adds: no
\* version leaves a library that the next one cannot take over.
THEOREM MigrationsAlwaysPass == FilesAreBuilt /\ Spec => MigrationsPass
<1>1. ASSUME FilesAreBuilt PROVE Spec => MigrationsPass
  <2> DEFINE Counted == UpgradeInv /\ faults \in Nat
  <2>1. Init => Counted
    <3>1. Init => faults = 0
      BY Zenon DEF Init
    <3> QED
      BY <1>1, <3>1, UpgradeInit
  <2>2. Counted /\ [Next]_vars => Counted'
    BY <1>1, UpgradeStep, FaultsCounted
  <2>3. Counted /\ [Next]_vars =>
          [pc = "migrate" /\ pc' = "refused" /\ UNCHANGED faults
             => "comments_count" \notin file.columns]_vars
    BY <1>1, RefusedForAColumn
  <2> QED
    BY <2>1, <2>2, <2>3, PTL DEF Spec, MigrationsPass
<1> QED
  BY <1>1
=============================================================================
