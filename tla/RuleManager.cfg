SPECIFICATION Spec
CONSTANTS
  x = x
  y = y
  Star = Star
  Space = Space
  Admins = {a1, a2}
  FastPaths = {f1}
  Letters <- MCLetters
  IPs <- MCIPs
  Ports <- MCPorts
  Names <- MCNames
  AppNames <- MCAppNames
  Queries <- MCQueries
  Files <- MCFiles
  MaxOps = 3
SYMMETRY Symmetry
PROPERTY
  SaveRegular
INVARIANTS
  TypeOK
  LoadFollowsFile
  RoundTrip
  LookupRegular
CHECK_DEADLOCK FALSE
