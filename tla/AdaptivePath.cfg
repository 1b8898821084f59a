SPECIFICATION ScanSpec
CONSTANTS
  Workers = {w1, w2}
  Runner = run
  Clients = {w1, w2, run}
  Foreign = foreign
  Nobody = nobody
  Start = 1
  Count = 2
  Ephemeral = 3
  Tries = 2
  Addresses = 2
  MaxForeign = 1
INVARIANTS ChecksThePath
CHECK_DEADLOCK FALSE
