---------------------------- MODULE LibraryWrites ----------------------------
(***************************************************************************)
(* How the bytes of a file get into the library: a local import by copy or *)
(* by move, a finished download, a thumbnail.  A library file is named     *)
(* after the hash of its content, which several callers may be about to    *)
(* store at once, and what they write has to outlive a loss of power.      *)
(*                                                                         *)
(* A name holds a file, a file holds a content.  A change of a name is     *)
(* durable once its folder is flushed, or when a later change of the       *)
(* volume is, since the file system journals its names in order; a content *)
(* is durable once the file is flushed.  What a loss of power would leave  *)
(* is any of crashDirs, with the content of an unflushed file torn.        *)
(***************************************************************************)
EXTENDS Naturals, FiniteSets

CONSTANTS
  Writers,       \* the calls, each of them once
  Contents,      \* what a file may hold; its hash names it
  Bad,           \* a content, that of a copy whose bytes went wrong on the way
  None,
  Scenarios      \* [kind, faults, given]: what each writer does, the faults that may happen,
                 \* and the content each is given

Kinds  == {"copy", "move", "thumb", "download"}
Faults == {"corrupt", "sourceChanges", "otherVolume", "noLinks", "refused", "noFlush", "damagedAtStart"}

Lib(c) == <<"library", c>>         \* media_<hash>.<ext>
Src(w) == <<"source", w>>          \* the user's file, or the one in the run folder
Tmp(w) == <<"staging", w>>         \* .<name>.tmp-<suffix>
Bak(w) == <<"backup", w>>          \* .<name>.backup-<suffix>
Entries == {Lib(c) : c \in Contents} \cup {Src(w) : w \in Writers}
         \cup {Tmp(w) : w \in Writers} \cup {Bak(w) : w \in Writers}

Given(w)  == <<"given", w>>        \* the file the writer was given
Copied(w) == <<"copied", w>>       \* the one it makes
Damaged   == <<"damaged", None>>   \* one that was in the library and does not match its name
Inodes == {Given(w) : w \in Writers} \cup {Copied(w) : w \in Writers} \cup {Damaged}

VARIABLES
  scenario,
  dir,         \* [Entries -> Inodes or None]
  crashDirs,   \* the directories a loss of power now would leave
  data,        \* [Inodes -> Contents]
  synced,      \* the files whose content is on the disk
  locks,       \* the contents whose destination a download has locked
  pc,
  hash,        \* what the writer read as the hash of its source
  fresh,       \* it found nothing at the name
  seen         \* what its verification read back

vars == <<scenario, dir, crashDirs, data, synced, locks, pc, hash, fresh, seen>>

Kind(w) == scenario.kind[w]
May(fault) == fault \in scenario.faults

TypeOK ==
  /\ scenario \in Scenarios
  /\ dir \in [Entries -> Inodes \cup {None}] /\ crashDirs \subseteq [Entries -> Inodes \cup {None}]
  /\ dir \in crashDirs
  /\ data \in [Inodes -> Contents] /\ synced \subseteq Inodes /\ locks \subseteq Contents
  /\ pc \in [Writers -> {"idle", "lock", "look", "begin", "link", "rename source", "copy", "sync",
                         "rename", "flush", "verify", "correct", "settle", "backup", "move in",
                         "drop backup", "restore", "done", "failed"}]
  /\ hash \in [Writers -> Contents] /\ seen \in [Writers -> Contents] /\ fresh \in [Writers -> BOOLEAN]

Init ==
  /\ scenario \in Scenarios
  /\ data = [f \in Inodes |-> IF \E w \in Writers : f = Given(w)
                             THEN scenario.given[CHOOSE w \in Writers : f = Given(w)] ELSE Bad]
  /\ dir = [p \in Entries |->
              CASE \E w \in Writers : p = Src(w) /\ Kind(w) # None -> <<"given", p[2]>>
                [] May("damagedAtStart") /\ \E w \in Writers : p = Lib(scenario.given[w]) -> Damaged
                [] OTHER -> None]
  /\ crashDirs = {dir}
  /\ synced = {Given(w) : w \in Writers} \cup {Damaged}
  /\ locks = {}
  /\ pc = [w \in Writers |-> IF Kind(w) = None THEN "done" ELSE "idle"]
  /\ hash = scenario.given /\ seen = scenario.given
  /\ fresh = [w \in Writers |-> FALSE]

-----------------------------------------------------------------------------

Target(w) == Lib(hash[w])
At(w, step) == pc[w] = step
Goto(w, step) == pc' = [pc EXCEPT ![w] = step]
Unlock(w) == locks' = IF Kind(w) = "download" THEN locks \ {hash[w]} ELSE locks

(* A change of names, which a loss of power may or may not leave.  What a  *)
(* removal from another volume did may have arrived before all the rest.   *)
Names(new) == dir' = new /\ crashDirs' = crashDirs \cup {new}
RemovedAway(p) ==
  /\ dir' = [dir EXCEPT ![p] = None]
  /\ crashDirs' = {[d EXCEPT ![p] = None] : d \in crashDirs}
RemoveSource(w) ==
  IF May("otherVolume") THEN RemovedAway(Src(w)) ELSE Names([dir EXCEPT ![Src(w)] = None])

(* file_paths_have_same_content: a size, then a hash of every byte.        *)
SameContent(p, c) == dir[p] # None /\ data[dir[p]] = c

Stays == UNCHANGED <<dir, crashDirs>>

(* A copy that must be the only one left is read back before it counts.    *)
Verified(w) == Kind(w) \in {"move", "download"}

(* What was being copied cannot become anything: the staging file goes.    *)
AfterCopyFailed(w) == IF Kind(w) = "download" THEN "restore" ELSE "failed"
CopyFails(w) ==
  /\ Names([dir EXCEPT ![Tmp(w)] = None]) /\ Goto(w, AfterCopyFailed(w))
  /\ UNCHANGED <<scenario, data, synced, locks, hash, fresh, seen>>

-----------------------------------------------------------------------------

(* The hash that will be the name, read from the source before any lock.   *)
Hash(w) ==
  /\ At(w, "idle") /\ Goto(w, IF Kind(w) = "download" THEN "lock" ELSE "look")
  /\ hash' = [hash EXCEPT ![w] = data[dir[Src(w)]]]
  /\ UNCHANGED <<scenario, dir, crashDirs, data, synced, locks, fresh, seen>>

(* Another program may still be writing the user's file.                   *)
SourceChanges(w) ==
  /\ May("sourceChanges") /\ Kind(w) # "download"
  /\ pc[w] \in {"look", "begin", "copy", "link", "rename source"}
  /\ \E c \in Contents \ {Bad} : c # data[Given(w)] /\ data' = [data EXCEPT ![Given(w)] = c]
  /\ data[Given(w)] = scenario.given[w]
  /\ UNCHANGED <<scenario, dir, crashDirs, synced, locks, pc, hash, fresh, seen>>

(* destination_placement_lock: one download at a time per destination.     *)
Lock(w) ==
  /\ At(w, "lock") /\ hash[w] \notin locks
  /\ locks' = locks \cup {hash[w]} /\ Goto(w, "look")
  /\ UNCHANGED <<scenario, dir, crashDirs, data, synced, hash, fresh, seen>>

(* A file with the content of its name is adopted, and a move still owes   *)
(* its source.  One without it is refused by an import, and written over   *)
(* by a download and a thumbnail, which expect these very bytes.           *)
ImportNext(w, free) ==
  CASE Kind(w) = "move" \/ free -> "begin"
    [] Kind(w) = "copy" /\ ~free -> IF SameContent(Target(w), hash[w]) THEN "done" ELSE "failed"
ThumbNext(w, free)    == IF SameContent(Target(w), hash[w]) THEN "done" ELSE IF free THEN "begin" ELSE "copy"
DownloadNext(w, free) == IF SameContent(Target(w), hash[w]) THEN "done" ELSE IF free THEN "move in" ELSE "backup"

Look(w) ==
  /\ At(w, "look")
  /\ fresh' = [fresh EXCEPT ![w] = dir[Target(w)] = None]
  /\ Goto(w, CASE Kind(w) = "thumb"    -> ThumbNext(w, fresh'[w])
               [] Kind(w) = "download" -> DownloadNext(w, fresh'[w])
               [] OTHER                -> ImportNext(w, fresh'[w]))
  /\ IF pc'[w] = "done" THEN Unlock(w) ELSE UNCHANGED locks
  /\ UNCHANGED <<scenario, dir, crashDirs, data, synced, hash, seen>>

(* The writing functions look again for themselves: copy_file_atomic_with  *)
(* and stage_move_using.  (An import that copies compares the source as it *)
(* is by now.)                                                             *)
Begin(w) ==
  /\ At(w, "begin")
  /\ LET wanted == IF Kind(w) = "move" THEN hash[w] ELSE data[Given(w)]
         placed == IF Kind(w) = "move" /\ ~fresh[w] THEN "settle" ELSE "verify"
     IN  Goto(w, CASE dir[Target(w)] = None          -> IF Kind(w) = "move" THEN "link" ELSE "copy"
                   [] SameContent(Target(w), wanted) -> placed
                   [] OTHER                          -> "failed")
  /\ UNCHANGED <<scenario, dir, crashDirs, data, synced, locks, hash, fresh, seen>>

(* stage_move: a second name for the same file, when the volume has them;  *)
(* it is refused when the name was taken in the meantime.                  *)
Link(w) ==
  /\ At(w, "link")
  /\ \/ May("otherVolume") /\ Goto(w, "copy") /\ Stays
     \/ May("noLinks") /\ ~May("otherVolume") /\ Goto(w, "rename source") /\ Stays
     \/ /\ scenario.faults \cap {"otherVolume", "noLinks"} = {}
        /\ IF dir[Target(w)] = None
           THEN Names([dir EXCEPT ![Target(w)] = dir[Src(w)]]) /\ Goto(w, "flush")
           ELSE Goto(w, IF SameContent(Target(w), hash[w]) THEN "verify" ELSE "failed") /\ Stays
  /\ UNCHANGED <<scenario, data, synced, locks, hash, fresh, seen>>

(* Otherwise the file itself moves, over whatever has the name by then.    *)
RenameSource(w) ==
  /\ At(w, "rename source")
  /\ \/ Names([dir EXCEPT ![Target(w)] = dir[Src(w)], ![Src(w)] = None]) /\ Goto(w, "flush")
     \/ May("refused") /\ Goto(w, "failed") /\ Stays
  /\ UNCHANGED <<scenario, data, synced, locks, hash, fresh, seen>>

(* The bytes go to a staging file.  They may go wrong on the way.          *)
Copy(w) ==
  /\ At(w, "copy")
  /\ \/ /\ Names([dir EXCEPT ![Tmp(w)] = Copied(w)]) /\ Goto(w, "sync")
        /\ \E c \in {data[Given(w)]} \cup (IF May("corrupt") THEN {Bad} ELSE {}) :
             data' = [data EXCEPT ![Copied(w)] = c]
        /\ synced' = synced \ {Copied(w)}
        /\ UNCHANGED <<scenario, locks, hash, fresh, seen>>
     \/ May("refused") /\ CopyFails(w)

\* Mutant: the staging file gets its name before its bytes are on the disk.
SyncsLater(w) ==
  /\ At(w, "sync") /\ Goto(w, IF Kind(w) = "thumb" /\ ~fresh[w] THEN "backup" ELSE "rename")
  /\ UNCHANGED <<scenario, dir, crashDirs, data, synced, locks, hash, fresh, seen>>

(* They are flushed before the file gets its name, and read back when the  *)
(* source will go.                                                         *)
Sync(w) ==
  /\ At(w, "sync")
  /\ \/ /\ Verified(w) => data[Copied(w)] = data[Given(w)]
        /\ synced' = synced \cup {Copied(w)}
        /\ Goto(w, IF Kind(w) = "thumb" /\ ~fresh[w] THEN "backup" ELSE "rename")
        /\ UNCHANGED <<scenario, dir, crashDirs, data, locks, hash, fresh, seen>>
     \/ (May("refused") \/ (Verified(w) /\ data[Copied(w)] # data[Given(w)])) /\ CopyFails(w)

(* The staging file takes the name.  Refused, it counts as placed when     *)
(* another writer put the same content there.                              *)
Rename(w) ==
  /\ At(w, "rename")
  /\ \/ /\ Names([dir EXCEPT ![Target(w)] = Copied(w), ![Tmp(w)] = None]) /\ Goto(w, "flush")
        /\ UNCHANGED <<scenario, data, synced, locks, hash, fresh, seen>>
     \/ /\ May("refused")
        /\ IF SameContent(Target(w), data[Given(w)])
           THEN /\ Names([dir EXCEPT ![Tmp(w)] = None])
                /\ Goto(w, IF Kind(w) = "download" THEN "settle" ELSE "verify")
                /\ UNCHANGED <<scenario, data, synced, locks, hash, fresh, seen>>
           ELSE CopyFails(w)

\* Mutant: a move gives up its source as soon as the library has the name.
SettlesEarly(w) ==
  /\ At(w, "flush") /\ Goto(w, "done") /\ Unlock(w)
  /\ IF Verified(w) THEN RemoveSource(w) ELSE crashDirs' = {dir} /\ UNCHANGED dir
  /\ UNCHANGED <<scenario, data, synced, hash, fresh, seen>>

(* The folder is flushed, best effort: the names so far are durable.       *)
Flush(w) ==
  /\ At(w, "flush")
  /\ \/ crashDirs' = {dir}
     \/ May("noFlush") /\ UNCHANGED crashDirs
  /\ Goto(w, IF Kind(w) = "download" THEN "settle" ELSE "verify")
  /\ UNCHANGED <<scenario, dir, data, synced, locks, hash, fresh, seen>>

(* verify_content_addressed_write reads what is at the name.               *)
Verify(w) ==
  /\ At(w, "verify")
  /\ IF dir[Target(w)] = None THEN Goto(w, "failed") /\ UNCHANGED seen
     ELSE /\ seen' = [seen EXCEPT ![w] = data[dir[Target(w)]]]
          /\ Goto(w, IF seen'[w] = hash[w] THEN "settle" ELSE "correct")
  /\ UNCHANGED <<scenario, dir, crashDirs, data, synced, locks, hash, fresh>>

(* With the source as it was, the copy went wrong and goes.  With another  *)
(* source, the file gets the name of what it holds, or gives way to the    *)
(* one that has it.                                                        *)
Correct(w) ==
  /\ At(w, "correct")
  /\ LET gone == [dir EXCEPT ![Target(w)] = None] IN
     CASE SameContent(Src(w), hash[w]) -> Names(gone) /\ Goto(w, "failed")
       [] ~SameContent(Src(w), hash[w]) /\ dir[Lib(seen[w])] # None ->
            Names(gone) /\ Goto(w, "settle")
       [] OTHER ->
            \/ Names([gone EXCEPT ![Lib(seen[w])] = dir[Target(w)]]) /\ Goto(w, "settle")
            \/ May("refused") /\ Goto(w, "failed") /\ Stays
  /\ UNCHANGED <<scenario, data, synced, locks, hash, fresh, seen>>

(* What a move owes its source once the row is in, and a copied download   *)
(* its run folder.  A source that was renamed is gone already.             *)
Settle(w) ==
  /\ At(w, "settle")
  /\ \/ /\ Kind(w) \in {"move", "download"} /\ dir[Src(w)] # None /\ RemoveSource(w)
     \/ (Kind(w) \in {"copy", "thumb"} \/ dir[Src(w)] = None \/ May("refused")) /\ Stays
  /\ Goto(w, IF Kind(w) = "download" /\ dir[Bak(w)] # None THEN "drop backup" ELSE "done")
  /\ IF Kind(w) = "download" /\ dir[Bak(w)] # None THEN UNCHANGED locks ELSE Unlock(w)
  /\ UNCHANGED <<scenario, data, synced, hash, fresh, seen>>

-----------------------------------------------------------------------------
(* replace_file_safely: what has the name is put aside while the new file  *)
(* takes it, and put back when it cannot.  A download hands over its file, *)
(* a thumbnail a copy of the image.                                        *)

Handed(w) == IF Kind(w) = "thumb" THEN Tmp(w) ELSE Src(w)

Backup(w) ==
  /\ At(w, "backup")
  /\ IF dir[Target(w)] = None THEN Goto(w, "move in") /\ Stays
     ELSE \/ /\ Names([dir EXCEPT ![Bak(w)] = dir[Target(w)], ![Target(w)] = None])
             /\ Goto(w, "move in")
          \/ May("refused") /\ Goto(w, "restore") /\ Stays
  /\ UNCHANGED <<scenario, data, synced, locks, hash, fresh, seen>>

(* move_or_copy_file: the name another writer took stands, and with the    *)
(* same content it makes this file superfluous.                            *)
MoveIn(w) ==
  /\ At(w, "move in")
  /\ LET after == IF dir[Bak(w)] # None THEN "drop backup"
                  ELSE IF Kind(w) = "thumb" THEN "verify" ELSE "settle"
         away  == Kind(w) = "download" /\ May("otherVolume")
     IN  CASE SameContent(Target(w), data[dir[Handed(w)]]) ->
                /\ IF Kind(w) = "thumb" THEN Names([dir EXCEPT ![Tmp(w)] = None]) ELSE RemoveSource(w)
                /\ Goto(w, after)
           [] dir[Target(w)] # None /\ ~SameContent(Target(w), data[dir[Handed(w)]]) ->
                Goto(w, "restore") /\ Stays
           [] dir[Target(w)] = None /\ away -> Goto(w, "copy") /\ Stays
           [] OTHER ->
                \/ /\ Names([dir EXCEPT ![Target(w)] = dir[Handed(w)], ![Handed(w)] = None])
                   /\ Goto(w, after)
                \/ May("refused") /\ Goto(w, "restore") /\ Stays
  /\ UNCHANGED <<scenario, data, synced, locks, hash, fresh, seen>>

DropBackup(w) ==
  /\ At(w, "drop backup")
  /\ \/ Names([dir EXCEPT ![Bak(w)] = None])
     \/ May("refused") /\ Stays
  /\ IF Kind(w) = "thumb" THEN Goto(w, "verify") /\ UNCHANGED locks
                          ELSE Goto(w, "done") /\ Unlock(w)
  /\ UNCHANGED <<scenario, data, synced, hash, fresh, seen>>

Restore(w) ==
  /\ At(w, "restore") /\ Goto(w, "failed") /\ Unlock(w)
  /\ LET kept == IF Kind(w) = "thumb" THEN [dir EXCEPT ![Tmp(w)] = None] ELSE dir IN
     \/ dir[Bak(w)] # None /\ Names([kept EXCEPT ![Target(w)] = dir[Bak(w)], ![Bak(w)] = None])
     \/ (dir[Bak(w)] = None \/ May("refused")) /\ Names(kept)
  /\ UNCHANGED <<scenario, data, synced, hash, fresh, seen>>

-----------------------------------------------------------------------------

Next ==
  \/ \E w \in Writers :
       \/ Hash(w) \/ SourceChanges(w) \/ Lock(w) \/ Look(w) \/ Begin(w) \/ Link(w) \/ RenameSource(w)
       \/ Copy(w) \/ Sync(w) \/ Rename(w) \/ Flush(w) \/ Verify(w) \/ Correct(w) \/ Settle(w)
       \/ Backup(w) \/ MoveIn(w) \/ DropBackup(w) \/ Restore(w)
  \/ (\A w \in Writers : pc[w] \in {"done", "failed"}) /\ UNCHANGED vars

Spec == Init /\ [][Next]_vars

-----------------------------------------------------------------------------

(* Every writer that succeeds leaves, under the name it returns, a file    *)
(* with the content that name is the hash of, whichever writers store the  *)
(* same content at once and whatever goes wrong on the way (a thumbnail    *)
(* that replaces a damaged one may just have put it aside); and no library *)
(* file is ever torn by a loss of power.                                   *)
NamesTellContent ==
  /\ \A d \in crashDirs, c \in Contents : d[Lib(c)] \in synced \cup {None}
  /\ \A w \in Writers : pc[w] = "done" /\ Kind(w) # None =>
       \E p \in {Lib(seen[w])} \cup {Bak(v) : v \in Writers \ {w}} : SameContent(p, seen[w])

(* What a move or a download was given is at every moment under some name, *)
(* whole, whichever of its steps the process dies on, and a loss of power  *)
(* as well unless the folder refused its flush, which is only best effort. *)
GivenKept ==
  \A w \in Writers : Kind(w) \in {"move", "download"} =>
    \A d \in IF May("noFlush") THEN {dir} ELSE crashDirs : \E p \in Entries :
      d[p] # None /\ d[p] \in synced /\ data[d[p]] = data[Given(w)]
=============================================================================
