SPECIFICATION Spec
CONSTANTS
  Workers = {w1, w2}
  MaxSlot = 3
  MaxChunks = 2
  MaxLate = 1
  MaxRestarts = 0
  SlotLimit = 2
  FinalizeCap = 1
  PruneBatch = 1
  Retention = 1
  Limit = 2
INVARIANTS
  LeftSlotsAreFinalized
  WrittenIsComplete
  MemoryBounded
PROPERTIES
  ListingIsComplete
  PruneRespectsRetention
CHECK_DEADLOCK FALSE
