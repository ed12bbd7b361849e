\* Every version a database may be found at, one import or loss of the
\* file, two kills or power losses, one fault.
SPECIFICATION Spec
CONSTANTS
  Found <- MCFound
  Incoming <- MCIncoming
  Older <- MCOlder
  MaxCrashes = 2
  MaxFaults = 1
  MaxImports = 1
INVARIANTS
  Upgraded
  RollbackPoint
PROPERTIES
  MigrationsPass
