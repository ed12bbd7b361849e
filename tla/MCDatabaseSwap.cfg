CONSTANTS
  MaxId = 5
  TopId = 8
  Budgets <- FourBudgets
SPECIFICATION FairSpec
INVARIANTS
  LibraryFileKept
  
  LogsStay
PROPERTIES
  DamagedKept
  RecoveryTellsApart
  LaunchEnds
