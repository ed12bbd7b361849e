------------------------------- MODULE Lists -------------------------------
(***************************************************************************)
(* A list with some of its members taken out. It is a recursive function,  *)
(* which the proofs can reason about and SelectSeq they cannot.            *)
(***************************************************************************)
EXTENDS Naturals, Sequences

\* The list s without the members at the positions out.
Removed(s, out) ==
    LET rest[i \in 0 .. Len(s)] ==
            IF i = 0 THEN <<>> ELSE IF i \in out THEN rest[i - 1] ELSE Append(rest[i - 1], s[i])
    IN  rest[Len(s)]
=============================================================================
