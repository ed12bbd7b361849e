CONSTANTS
  Creators = {c1}
  Users = {u1}
  Sweeper = sweeper
  OrphanRemover = orphanRemover
  Nobody = nobody
  Media = {m1}
  Thumbs = {t1}
  NoThumb = noThumb
  Channels = {h1}
  Kinds = {"move"}
  HardLinks = FALSE
  RecountMayFail = FALSE
  MarkerMayFail = FALSE
  RemovalMayFail = TRUE
  MaxAttempts = 2
  MaxRequests = 3
  MaxCrashes = 1
SPECIFICATION FairSpec
INVARIANTS
  OnlyCopyKept
PROPERTIES
  EveryOperationEnds
  EveryLeftoverIsSwept
