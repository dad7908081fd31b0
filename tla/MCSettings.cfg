\* Two callers of the control API with every pair of calls overlapping, writes that fail or are cut off, and a restart.
SPECIFICATION Spec
CONSTANTS
  Names <- MCNames
  Addrs = {lan, ru4, w4, w6}
  lan = lan
  ru4 = ru4
  V6 = {w6}
  GeoSite <- MCGeoSite
  GeoIP = {ru4}
  Node <- MCNode
  NoName = noname
  Callers = {a1, a2}
  Ids = {i1, i2}
  Ports = {0, 3, 4}
  DefaultSocks = 1
  DefaultHTTP = 2
  Lists <- MCLists
  Russia = {TRUE, FALSE}
  None = none
  Torn = torn
  May = {"write", "registry", "start"}
  MaxCalls = 3
INVARIANTS
  MappingsApart
  DiskIsMemory
  PortsInForce
  RunsAsConfigured
  SplitTunnel
  ResolverFollowsRoute
PROPERTIES
  MappingsKept
SYMMETRY Symmetry
CHECK_DEADLOCK FALSE
