--------------------------- MODULE MCDatabaseSwap ---------------------------
(***************************************************************************)
(* Budgets for DatabaseSwap: which failures meet which in one behaviour.   *)
(***************************************************************************)
EXTENDS DatabaseSwap

Budget(c, f, d, i) == [crashes |-> c, faults |-> f, damages |-> d, imports |-> i]

\* Two imports between crashes and a refusal; three between refusals and damage,
\* uninterrupted, so that the copy a refusal spoilt is staged; a restore beside an
\* import, interrupted; and restores in a row, any of them cut short or refused.
FourBudgets == {Budget(2, 1, 0, 2), Budget(0, 1, 1, 3), Budget(1, 0, 1, 1),
                Budget(1, 1, 3, 0)}
=============================================================================
