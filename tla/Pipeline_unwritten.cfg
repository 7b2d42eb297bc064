SPECIFICATION Spec
CONSTANTS
  NumLBs = 2
  FpsPerLB = 1
  MaxSize = 1
  MaxPackets = 3
  Header = Header
  t1 = t1
  t2 = t2
  t3 = t3
  Tuples = {t1, t2}
  Hash <- MCHash
INVARIANT
  WritesUnblocked
CHECK_DEADLOCK FALSE
