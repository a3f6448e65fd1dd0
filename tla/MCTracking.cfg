SPECIFICATION FairSpec
CONSTANTS
  k1 = k1
  k2 = k2
  w1 = w1
  w2 = w2
  p1 = p1
  None = None
  MaxSnapshots = 2
  Conns = {k1, k2}
  Wraps = {w1, w2}
  OnConn <- MCOnConn
  PeerOf <- MCPeerOf
INVARIANTS
  TypeOK
  PeerMapAgrees
  OneAlias
  OpenIsKnown
  BackendAgrees
PROPERTY CallbacksEnd
CHECK_DEADLOCK FALSE
