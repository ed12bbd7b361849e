SPECIFICATION Spec
CONSTANTS
    Dirs = {A, B, C}
    Files = {f1, f2}
    NoDir = NoDir
    NoFile = NoFile
    Writers = {w1}
    Scenarios = {{"saveDuringMove"}}
    MaxSaves = 1
    MaxCrashes = 1
INVARIANT LibraryFound
