CONSTANTS
  Creators = {c1, c2}
  Users = {u1}
  Sweeper = sweeper
  OrphanRemover = orphanRemover
  Nobody = nobody
  Media = {m1}
  Thumbs = {t1}
  NoThumb = noThumb
  Channels = {h1}
  Kinds = {"copy", "move"}
  HardLinks = FALSE
  RecountMayFail = FALSE
  MarkerMayFail = FALSE
  RemovalMayFail = FALSE
  MaxAttempts = 2
  MaxRequests = 3
  MaxCrashes = 0
SPECIFICATION Spec
INVARIANTS
  OnlyCopyKept
