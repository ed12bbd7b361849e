SPECIFICATION Spec
CONSTANTS
  r1 = r1
  r2 = r2
  r3 = r3
  Runs = {r1, r2, r3}
  Ids = {i1, i2}
  MaxActive = 2
  Permits <- OnePermit
  Ceiling <- TwoAtOnce
  KillMayFail = TRUE
  Mixes <- SomeMixes
INVARIANTS
  GatesKeepCount
  RunsTracked
  DownloadKept
PROPERTIES
  EveryRunEnds
