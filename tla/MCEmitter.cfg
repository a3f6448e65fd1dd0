CONSTANTS
  Producers = {p1, p2}
  Sinks = {s1, s2}
  BufferSize = 2
  MaxSeq = 3
SPECIFICATION Spec
INVARIANTS RingIsSuffix FanoutExact
PROPERTY ImplementsWindow
