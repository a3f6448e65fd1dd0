SPECIFICATION FairSpec
CONSTANTS
  Workers = {w1}
  MaxSlot = 4
  MaxChunks = 1
  MaxLate = 0
  MaxRestarts = 1
  SlotLimit = 2
  FinalizeCap = 1
  PruneBatch = 1
  Retention = 2
  Limit = 2
 
PROPERTIES
  BuiltIsStored
  PruneEnds
CHECK_DEADLOCK FALSE
