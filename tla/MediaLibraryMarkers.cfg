CONSTANTS
  Creators = {c1, c2}
  Users = {}
  Sweeper = sweeper
  OrphanRemover = orphanRemover
  Nobody = nobody
  Media = {m1}
  Thumbs = {}
  NoThumb = noThumb
  Channels = {h1}
  Kinds = {"download"}
  HardLinks = TRUE
  RecountMayFail = FALSE
  MarkerMayFail = FALSE
  RemovalMayFail = TRUE
  MaxAttempts = 1
  MaxRequests = 3
  MaxCrashes = 2
SPECIFICATION Spec
INVARIANTS
  TypeOK
PROPERTIES
  NothingForgotten
