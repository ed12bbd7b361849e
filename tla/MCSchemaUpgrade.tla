-------------------------- MODULE MCSchemaUpgrade --------------------------
(* A database for every shape of upgrade: before the baseline, before the  *)
(* unique comments, before the titles, before the triggers, current, and   *)
(* newer than the build.                                                   *)
EXTENDS SchemaUpgrade

\* What builds up to version v leave, with every flaw its rows may have.
AppDatabase(v, flawed) ==
  [version |-> v,
   columns |-> {"comments_count"} \cup (IF v >= 7 THEN {"live"} ELSE {})
               \cup (IF v >= 11 THEN {"title_normalized"} ELSE {})
               \cup (IF v >= 15 THEN {"comments_state"} ELSE {})
               \cup (IF v >= 17 THEN {"original_text"} ELSE {}),
   indexes |-> {i \in Indexes : i <= v}, unique |-> v >= 10, retired |-> v < 16,
   triggers |-> (IF v >= 13 THEN {"videos"} ELSE {})
                \cup (IF v >= 14 THEN {"comments"} ELSE {}),
   foreign |-> FALSE, legacy |-> v < 7,
   flaws |-> IF ~flawed THEN {}
             ELSE (IF v < 10 THEN {"duplicateComments"} ELSE {})
               \cup (IF v \in 11..12 THEN {"untitled"} ELSE {})
               \cup (IF v \in 7..12 THEN {"chatWithoutPath"} ELSE {})
               \cup (IF v < 14 THEN {"longComment"} ELSE {})]

\* A file that lacks columns the import does not ask for.
LookAlike(v) ==
  LET d == AppDatabase(v, FALSE)
  IN  [d EXCEPT !.columns = @ \ (IF v < 10 THEN {"live"} ELSE {"comments_count"}),
                !.indexes = IF v < 10 THEN {} ELSE @ \ {12}]

MCFound == {Nothing, NoSchema} \cup {AppDatabase(v, TRUE) : v \in {5, 9, 12, 16}}
             \cup {AppDatabase(v, FALSE) : v \in {7, 17, 18}}
\* Files with triggers of their own, and without the app's.
Stripped(d) == [d EXCEPT !.triggers = {}, !.foreign = TRUE]
MCIncoming ==
  {Stripped(AppDatabase(v, f)) : v \in {6, 10, 13, 14, 17}, f \in {TRUE, FALSE}}
    \cup {LookAlike(v) : v \in {8, 11, 13}}
MCOlder == {{}, {AppDatabase(14, FALSE), AppDatabase(16, FALSE)}}
=============================================================================
