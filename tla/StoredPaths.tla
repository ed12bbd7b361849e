---------------------------- MODULE StoredPaths ----------------------------
(***************************************************************************)
(* The library-relative paths: a text becomes the path of a row, a row is  *)
(* opened in the subtree its operation is about, and a file met on disk is *)
(* named again (utils/path.rs). A text is a sequence of the pieces its     *)
(* segments are made of. Whatever the checks let through must be one file  *)
(* with one name, here and on the Windows machine a library is carried to, *)
(* or a reference count taken by text misses a file that is in use.        *)
(***************************************************************************)
EXTENDS Naturals, Sequences, SequencesExt

CONSTANTS
    Texts,       \* what a page, an import or a row may name
    Subtrees     \* ManagedSubtree: name -> the directories it may start with

VARIABLES
    named,       \* the path named
    row,         \* the path of a row: its text, None, or "refused"
    opened,      \* the path it resolved to below the library, None, or "refused"
    reread       \* the file was met on disk and named again

vars == <<named, row, opened, reread>>

\* Pieces: "video" and "thumbnails" are managed directories, "word" any other name, "con" a device of
\* Windows with or without an ordinal, and the characters the checks treat specially.
None == <<"none">>
Refused == <<"refused">>
Space == "sp"
Dot == "dot"

Init == named \in Texts /\ row = None /\ opened = None /\ reread = FALSE

Segments(t) ==
    FoldLeft(LAMBDA segments, piece :
                IF piece = "slash" THEN Append(segments, <<>>)
                ELSE Append(Front(segments), Append(Last(segments), piece)),
             << <<>> >>, t)

Whitespace(t) == \A i \in DOMAIN t : t[i] = Space
\* str::trim
Trimmed(t) ==
    IF Whitespace(t) THEN <<>>
    ELSE LET solid == {i \in DOMAIN t : t[i] # Space} IN
         SubSeq(t, CHOOSE i \in solid : \A j \in solid : i <= j,
                   CHOOSE i \in solid : \A j \in solid : j <= i)

\* Path::components of a relative path: neither empty segments nor `.` ones.
Components(t) == SelectSeq(Segments(t), LAMBDA segment : segment \notin {<<>>, <<Dot>>})

BeforeDot(segment) ==
    LET dots == {i \in DOMAIN segment : segment[i] = Dot} IN
    IF dots = {} THEN segment ELSE SubSeq(segment, 1, (CHOOSE i \in dots : \A j \in dots : i <= j) - 1)
\* Mutant: only a bare device name is one, so `CON.txt` passes.
BareName(segment) == segment = <<"con">>

is_windows_reserved_name(segment) == Trimmed(BeforeDot(segment)) = <<"con">>

\* Mutant: only the space a name ends with is refused.
EndsWithDot(segment) ==
    /\ segment # <<Dot, Dot>> /\ ~Whitespace(segment) /\ Last(segment) # Space
    /\ \A i \in DOMAIN segment : segment[i] # "colon"
    /\ ~is_windows_reserved_name(segment)

Acceptable(segment) ==
    /\ segment # <<Dot, Dot>>
    /\ ~Whitespace(segment)
    /\ Last(segment) \notin {Space, Dot}
    /\ \A i \in DOMAIN segment : segment[i] # "colon"
    /\ ~is_windows_reserved_name(segment)

\* The text of a path with its separators.
Joined(segments) == FoldLeft(LAMBDA t, segment : IF t = <<>> THEN segment ELSE t \o <<"slash">> \o segment, <<>>, segments)

\* One pass over a text: the path, or Refused.
SanitizedOnce(t) ==
    LET path == Joined(Components(t)) IN
    IF /\ t # <<>> /\ Head(t) # "slash"
       /\ \A segment \in ToSet(Components(t)) : Acceptable(segment)
       /\ path # <<>>
    THEN path ELSE Refused

\* A `.` segment dropped from an end shields the whitespace next to it from the trim, so what is left
\* is checked again; a second pass drops no more segments.
sanitize_relative_path_strict(value) ==
    LET first == SanitizedOnce(Trimmed(value)) IN
    IF first = Refused \/ Trimmed(first) = first THEN first ELSE SanitizedOnce(Trimmed(first))

In(path, dirs) == path # Refused /\ Segments(path)[1] \in {<<dir>> : dir \in dirs}
Managed == UNION {Subtrees[s] : s \in DOMAIN Subtrees}
ensure_managed_library_relative_path(value) == In(sanitize_relative_path_strict(value), Managed)

\* A row is stored with the text it came with, once that passes.
Store ==
    /\ row = None
    /\ row' = IF ensure_managed_library_relative_path(named) THEN named ELSE Refused
    /\ UNCHANGED <<named, opened, reread>>

\* The subtree is of the operation, and the row, or the page itself, names the path.
absolute_path_from_relative(relative_path, subtree) ==
    LET path == sanitize_relative_path_strict(relative_path) IN
    IF In(path, Subtrees[subtree]) THEN path ELSE Refused
Open ==
    /\ opened = None
    /\ \E subtree \in DOMAIN Subtrees :
          opened' = absolute_path_from_relative(IF row \in {None, Refused} THEN named ELSE row, subtree)
    /\ UNCHANGED <<named, row, reread>>

\* What Windows opens for a path below the library: it drops the spaces and dots a name ends with,
\* opens a device or a stream of the file for some names, and a step up leaves the folder.
Shortened(segment) ==
    LET ends == {i \in DOMAIN segment : segment[i] \notin {Space, Dot}} IN
    IF ends = {} THEN <<>> ELSE SubSeq(segment, 1, CHOOSE i \in ends : \A j \in ends : j <= i)
Elsewhere(segment) ==
    \/ segment = <<Dot, Dot>> \/ Trimmed(BeforeDot(segment)) = <<"con">>
    \/ \E i \in DOMAIN segment : segment[i] = "colon"
OnWindows(path) ==
    LET segments == Segments(path) IN
    IF \E i \in DOMAIN segments : Elsewhere(segments[i]) THEN Refused
    ELSE Joined([i \in DOMAIN segments |-> Shortened(segments[i])])

\* A walk of the library, a store or a move names the file it met by its place below the folder.
relative_path_from_base ==
    /\ opened \notin {None, Refused} /\ ~reread
    /\ named' = OnWindows(opened) /\ row' = None /\ opened' = None /\ reread' = TRUE

Next == Store \/ Open \/ relative_path_from_base
Spec == Init /\ [][Next]_vars

\* Two paths the app accepts are two files on every system: what is opened is the very file its text
\* names on Windows, inside a managed directory.
OneNameEach ==
    opened \notin {None, Refused} => OnWindows(opened) = opened /\ In(opened, Managed)

\* A path the app stored opens in one subtree at least, and a file it opened can be stored again
\* under the name a walk gives it, so that no row is left that nothing can open or remove.
StoredOpens ==
    /\ row \notin {None, Refused} =>
          \E s \in DOMAIN Subtrees : absolute_path_from_relative(row, s) # Refused
    /\ reread => row # Refused /\ sanitize_relative_path_strict(named) = named
=============================================================================
