CONSTANTS
  Cont = 4
  MaxVarintLen = 3
  MaxRPCSize = 4
  Unmarshal <- MCUnmarshal
  Inputs <- MCInputs
  SlotLength = 4
  BucketWidth = 2
  decodeCacheMax = 2
  MaxChunks = 3
  MaxResets = 1
SPECIFICATION Spec
CHECK_DEADLOCK FALSE
INVARIANTS
  FramesAreExact
  DecoderBounded
  EveryByteOnce
  ViewsAgree
  BleedIsTrue
  MetaIsTrue
PROPERTY HistoryGrows
