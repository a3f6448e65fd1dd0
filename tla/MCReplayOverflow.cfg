CONSTANTS
  Producers = {p1}
  QueueCap = 1
  RingSize = 3
  MaxSeq = 3
  MaxConns = 2
  MaxBreaks = 1
  MaxBoots = 1
  MaxRestarts = 0
  Overlap = FALSE
SPECIFICATION Spec
INVARIANT AckedIsReflected
CHECK_DEADLOCK FALSE
