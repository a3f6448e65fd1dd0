SPECIFICATION Spec
CONSTANTS
  Workers = {w1}
  Slots = {s1}
  Conns = {c1}
  MaxUpdates = 2
INVARIANT OneWriter
CHECK_DEADLOCK FALSE
