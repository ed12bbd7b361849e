--------------------------- MODULE SnapshotQueue ---------------------------
(***************************************************************************)
(* What the daily snapshots promise, without files, rotation or crashes: a *)
(* set of copies to which only newer ones are added, from which only the   *)
(* oldest is ever dropped and never the last, and which the user may set   *)
(* aside for good (docs/DATABASE.md, "Automatic backup").  Copies are      *)
(* numbered in the order they were taken.                                  *)
(***************************************************************************)
EXTENDS Integers

VARIABLES kept,   \* the copies the rotation holds
          aside   \* the copies set aside, which nothing drops

vars == <<kept, aside>>

Init == kept = {} /\ aside = {}

Push ==
  /\ \E s \in kept' : kept' = kept \cup {s} /\ \A k \in kept : k < s
  /\ UNCHANGED aside

DropOldest ==
  /\ \E s \in kept : /\ \A k \in kept : s <= k
                     /\ kept # {s}
                     /\ kept' = kept \ {s}
  /\ UNCHANGED aside

\* The copy set aside may be one that was never added.
SetAside ==
  \E s \in aside' : kept' = kept \ {s} /\ aside' = aside \cup {s}

Next == Push \/ DropOldest \/ SetAside

Spec == Init /\ [][Next]_vars
=============================================================================
