SPECIFICATION Spec
CONSTANTS
  web = web
  tls = tls
  dns = dns
  ip1 = ip1
  ip2 = ip2
  netflix = netflix
  plain = plain
  NoHost = NoHost
  Tuples = {tls}
  Hosts = {netflix, plain}
  IsTCP <- MCIsTCP
  SrcIP <- MCSrcIP
  SrcPort <- MCSrcPort
  DstPort <- MCDstPort
  Contains <- MCContains
  RuleSets <- MCRuleSets
  FlagSets <- MCFlagSets
  MaxConns = 2
  StaleAfter = 1
  MaxTime = 0
  MaxPackets = 3
INVARIANT
  SignatureFlagged
CHECK_DEADLOCK FALSE
