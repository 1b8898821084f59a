SPECIFICATION PhasesSpec
CONSTANTS
  N = 2
  a1 = a1
  b1 = b1
  b2 = b2
  p1 = p1
  p2 = p2
  p3 = p3
  Workers = {a1, b1, b2}
  StageOf <- MCStageOf
  IPs = {p1, p2, p3}
  Limit = 1
  Cap = 1
  BatchSize = 2
INVARIANTS LimitRespected NoWriteAfterClose  ReleasedAtEnd
PROPERTIES KeepsContract Terminates
CHECK_DEADLOCK FALSE
