SPECIFICATION FairSpec
CONSTANTS
    Dirs = {A, B, C}
    Files = {f1, f2}
    NoDir = NoDir
    NoFile = NoFile
    Writers = {w1}
    Scenarios = {{"ownFiles", "markerRefused", "removalStops", "secondMove", "crash"}, {"ownFiles", "clearFails", "removalStops", "secondMove", "crash"}, {"picked", "avatar", "storeFails", "clearFails"}, {"picked", "avatar", "clearFails", "crash"}}
    MaxSaves = 1
    MaxCrashes = 1
INVARIANTS
  LibraryFound
PROPERTIES
  MoveLosesNothing
  MoveEnds
