CONSTANTS
  Sources = {"a", "b"}
  Slots = {"1", "2"}
  MaxStops = 1
SPECIFICATION FairSpec
INVARIANTS
  NothingLost
  MarkerIsTrue
PROPERTIES
  ImplementsImport
  MigrationEnds
CHECK_DEADLOCK FALSE
