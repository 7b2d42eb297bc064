SPECIFICATION FairSpec
CONSTANTS
  MaxSize = 2
  Producers = {p1, p2, p3}
  Consumers = {c1, c2}
  Items = {a, b}
  MaxPushes = 4
INVARIANTS
  TypeOK
  NoLostWakeup
  NoWaitAfterShutdown
PROPERTIES
  IsFifo
  PushReturns
  ShutdownReleases
