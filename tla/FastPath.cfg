SPECIFICATION Spec
CONSTANTS
  web = web
  tls = tls
  dns = dns
  ip1 = ip1
  ip2 = ip2
  netflix = netflix
  plain = plain
  NoHost = NoHost
  Tuples = {web, tls, dns}
  Hosts = {netflix, plain}
  IsTCP <- MCIsTCP
  SrcIP <- MCSrcIP
  SrcPort <- MCSrcPort
  DstPort <- MCDstPort
  Contains <- MCContains
  RuleSets <- FewRuleSets
  FlagSets <- FewFlagSets
  MaxConns = 2
  StaleAfter = 0
  MaxTime = 1
  MaxPackets = 3
INVARIANTS
  TypeOK
  BlockedIffRuleMatches
  VerdictMatchesState
  SignaturesDecide
  TableBound
  CountersCover
PROPERTIES
  ClassifiedOnce
  BlockedSticks
CHECK_DEADLOCK FALSE
