SPECIFICATION FairSpec
CONSTANTS
  Workers = {w1}
  Slots = {s1}
  Conns = {c1, c2}
  MaxUpdates = 3
INVARIANTS
  PendingIsScheduled
  
  GreetingIsAlone
PROPERTIES
  PendingIsSent
  DeadIsForgotten
CHECK_DEADLOCK FALSE
