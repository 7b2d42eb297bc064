SPECIFICATION Spec
CONSTANTS
  NumLBs = 2
  FpsPerLB = 2
  MaxSize = 1
  MaxPackets = 2
  Header = Header
  t1 = t1
  t2 = t2
  t3 = t3
  Tuples = {t2, t3}
  Hash <- MCHash
INVARIANT
  ConnectionTogether
CHECK_DEADLOCK FALSE
