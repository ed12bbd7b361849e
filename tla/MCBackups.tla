----------------------------- MODULE MCBackups -----------------------------
(***************************************************************************)
(* Budgets for Backups: which failures meet which in one behaviour.        *)
(***************************************************************************)
EXTENDS Backups

Budget(f, n, c, h, e, o) == [family |-> f, copies |-> n, crashes |-> c, faults |-> h,
                             events |-> e, overlap |-> o]

\* Everything at once with one event; a library emptied, filled and emptied
\* again; the mirror's callers one after the other; both at once.
FourBudgets == {Budget("daily", 4, 1, 1, 1, FALSE), Budget("daily", 4, 1, 0, 3, FALSE),
                Budget("mirror", 4, 1, 1, 1, FALSE), Budget("mirror", 3, 1, 1, 0, TRUE)}
=============================================================================
