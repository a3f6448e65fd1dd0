CONSTANTS
  Producers = {p1}
  QueueCap = 1
  RingSize = 1
  MaxSeq = 2
  MaxConns = 2
  MaxBreaks = 1
  MaxBoots = 2
  MaxRestarts = 1
  Overlap = TRUE
SPECIFICATION Spec
INVARIANTS TypeOK SessionIsExclusive
PROPERTY CursorMonotone
CHECK_DEADLOCK FALSE
