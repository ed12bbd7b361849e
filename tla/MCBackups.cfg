CONSTANTS
  N = 2
  Callers = {c1, c2}
  NoCaller = NoCaller
  MaxCopies = 4
  Budgets <- FourBudgets
SPECIFICATION FairSpec
INVARIANTS
  TypeOK
  OneADay
  GenerationsWhole
PROPERTIES
  OnlyOldestDropped
  LibraryCopyKept
  MirrorsKept
  RestoreTakesNewest
  FreshCopyLands
CHECK_DEADLOCK FALSE
