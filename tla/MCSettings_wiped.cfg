\* One call at a time: the settings page is saved while a proxy runs.
SPECIFICATION Spec
CONSTANTS
  Names <- MCNames
  Addrs = {lan, ru4, w4, w6}
  lan = lan
  ru4 = ru4
  V6 = {w6}
  GeoSite <- MCGeoSite
  GeoIP = {ru4}
  Node <- MCNode
  NoName = noname
  Callers = {a1}
  Ids = {i1, i2}
  Ports = {0, 3, 4}
  DefaultSocks = 1
  DefaultHTTP = 2
  Lists <- MCLists
  Russia = {FALSE}
  None = none
  Torn = torn
  May = {"write", "registry", "start"}
  MaxCalls = 3
INVARIANTS
  EmptyOnlyWhenUnused
SYMMETRY Symmetry
CHECK_DEADLOCK FALSE
