CONSTANTS
  Producers = {p1}
  QueueCap = 3
  RingSize = 2
  MaxSeq = 3
  MaxConns = 3
  MaxBreaks = 1
  MaxBoots = 1
  MaxRestarts = 0
  Overlap = FALSE
SPECIFICATION FairSpec
 
PROPERTIES
  ReattachesEventually
  CatchesUp
CHECK_DEADLOCK FALSE
