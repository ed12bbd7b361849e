SPECIFICATION MCSpec
CONSTANTS
  Videos = {"v1", "v2"}
  Responses <- SomeResponses
  Imported <- AnImport
  Fetches = {"f1", "f2"}
  Readers = {"r1"}
  MAX_COMMENTS_PER_MEDIA = 4
  LoadRows = 3
  LoadText = 4
  PageRows = 2
  MaxMedia = 1
  Legacy = {"r1"}
  Fresh = {"r1"}
  Downloads = {"d1"}
  MaxLaunches = 2
  MaxMoves = 1
  Streams = {"s1", "s2", "s3"}
  Files <- SomeFiles
  MAX_CONCURRENT_LIVE_CHAT_READS = 1
  MAX_LIVE_CHAT_READS_IN_FLIGHT = 2
  LIVE_CHAT_STREAM_BATCH_LINES = 2
  MAX_LIVE_CHAT_DECOMPRESSED_BYTES = 5
  MAX_ABANDONED_STREAMS = 2
  Paths = {"p1", "p2"}
  Size <- SomeSizes
  Calls = {"c1", "c2"}
  MAX_RESOLVED_PER_CALL = 2
  MAX_GENERATIONS_PER_CALL = 1
  DISPLAY_CACHE_MAX_BYTES = 2
  MaxRequest = 3
  MaxAsks = 2
  Writers <- TwoWriters
  Contents <- SomeContents
  Bad = bad
  Nothing = nothing
  Scenarios <- SomeScenarios
  w1 = w1
  w2 = w2
  x = x
  y = y
  bad = bad
  nothing = nothing
  Fetchers <- ThreeFetchers
  Plans <- SomePlans
  Places <- Redirects
  MaxBody = 3
  MAX_REDIRECT_HOPS = 2
  DIRECT_THUMBNAIL_MAX_BYTES = 2
  MAX_MEDIA_THUMBNAIL_ATTEMPTS = 3
  MAX_CONCURRENT_THUMBNAIL_RUNS = 1
  MAX_THUMBNAIL_RUNS_IN_FLIGHT = 2
  Runs = {"q1", "q2"}
  Budgets <- SomeBudgets
  Makers = {"m1", "m2"}
  Versions = {"k1", "k2"}
  PREVIEW_PERMITS = 1
  PREVIEW_IN_FLIGHT = 2
  Troubles <- SomeTroubles
  Checks = {"v1", "v2"}
  Libraries <- SomeLibraries
  MaxEvents = 2
  MAX_EXAMPLES = 1
  SHARE_RULE_MIN_FILES = 2
  Folders <- SomeFolders
  Registrations = {"g1", "g2"}
  MediaRequests = {"r1", "r2", "r3"}
  Wanted <- SomeWanted
  Lengths = {0, 1, 2, 3}
  Scenes = {"serving", "ranges"}
  MaxTroubles = 2
  MAX_RANGE_BYTES = 2
  MAX_CONCURRENT_MEDIA_READS = 1
  MAX_MEDIA_READS_IN_FLIGHT = 2
  Machines <- SomeComputers
  Relative = {"cwd"}
  Today = 10
  MaxChanges = 1
  Texts <- SomeTexts
  Subtrees <- SomeSubtrees
  PIPE_BUFFER = 1
  HEALTH_CHECK_MAX_OUTPUT_BYTES = 1
INVARIANTS
  FilesKept
  ReplayKept
  AnswersTell
  FetchesBounded
PROPERTIES
  ArchiveKept
CHECK_DEADLOCK FALSE
