SPECIFICATION Parts
CONSTANTS
  Workers = {w1}
  UI = ui
  Stoppers = {runner, closer}
  MaxPauses = 2
  NoFile = NoFile
  Keys = {1, 2, 3}
  Latencies <- Kept
  Rounds = TRUE
  BatchSize = 2
  Results = {r1, r2, r3}
  Closers = {c1, c2}
  ChanSize = 2
  FlushSize = 2
  IgnoreErr = FALSE
  MaxMerges = 2
  RingBits = 3
  DigitBits = 1
  Digits = 5
  StreamLimits = {0, 2}
  Files <- MCFiles
  NoRow = NoRow
  ChunkLines = 2
  Tries = 2
  Pingers = {p1, p2}
  Targets = {a, d}
  Answering = {a}
  SeqSpace = 2
  PingTries = 2
  MaxRuns = 1
  NoWaiter = NoWaiter
  MaxStarts = 2
  NoValue = NoValue
INVARIANTS NoPassAfterStop PauseHolds Conservation CloseMeansDurable
           FileSorted BestKept EachOnce 
PROPERTIES StopReleases CallsReturn KeepsStore StreamEnds TunnelReleased PingsMatched SettingsHold
CHECK_DEADLOCK FALSE
