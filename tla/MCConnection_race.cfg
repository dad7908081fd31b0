\* Two callers at once, one engine crash, refreshes, and backend calls, launches and waits that fail, some calls with a mode that does not exist.
SPECIFICATION Spec
CONSTANTS
  Callers = {a1, a2}
  RL = rl
  Loops = {l1, l2}
  NoLoop = nil
  Servers = {}
  Customs = {c1}
  AutoServerID = auto
  Removable = {}
  TunAllowed = TRUE
  KillSwitch = {FALSE}
  May = {"age", "backend", "launch", "ready", "config", "badmode"}
  MaxCalls = 2
  MaxCrashes = 1
  MaxAttempts = 1
INVARIANTS
  SingleReconnect
  ProxyIsOwned
  ConnectedIsRefreshed
  CustomStaysLocal
SYMMETRY Symmetry
CHECK_DEADLOCK FALSE
