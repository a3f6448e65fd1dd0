CONSTANTS
  Producers = {p1}
  QueueCap = 2
  RingSize = 1
  MaxSeq = 2
  MaxConns = 3
  MaxBreaks = 1
  MaxBoots = 2
  MaxRestarts = 0
  Overlap = FALSE
SPECIFICATION Spec
INVARIANT AckedIsReflected
CHECK_DEADLOCK FALSE
