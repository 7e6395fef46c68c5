SPECIFICATION Spec
CONSTANTS
  Writers = {w1, w2}
  Streams = {s1}
  Capacity = 2
  ChanSize = 2
  MaxLines = 4
INVARIANTS KeepsLatest NoGap WriterOrder
PROPERTIES NeverBlocks
CHECK_DEADLOCK FALSE
