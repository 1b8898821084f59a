SPECIFICATION MergeSpec
CONSTANTS
  NoFile = NoFile
  Keys = {1, 2}
  Latencies <- Fractions
  Rounds = TRUE
  BatchSize = 2
  MaxMerges = 2
INVARIANT FileSorted
CHECK_DEADLOCK FALSE
