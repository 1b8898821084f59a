SPECIFICATION Spec
CONSTANTS
  N = 2
  a1 = a1
  a2 = a2
  b1 = b1
  b2 = b2
  Workers = {a1, b1, b2}
  StageOf <- MCStageOf
  IPs = {p1, p2, p3}
  Limit = 1
  Cap = 1
  BatchSize = 2
SYMMETRY Symmetry
INVARIANT NilMeansSaved
CHECK_DEADLOCK FALSE
