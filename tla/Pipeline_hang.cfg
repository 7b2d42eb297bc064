SPECIFICATION FairSpec
CONSTANTS
  NumLBs = 1
  FpsPerLB = 2
  MaxSize = 1
  MaxPackets = 3
  Header = Header
  t1 = t1
  t2 = t2
  t3 = t3
  Tuples = {t1, t2}
  Hash <- MCHash
PROPERTY
  StopReturns
CHECK_DEADLOCK FALSE
