\* One caller, one crash, every goroutine scheduled; a custom server that may be deleted, and failures of backend, netsh and registry.
SPECIFICATION FairSpec
CONSTANTS
  Callers = {a1}
  RL = rl
  Loops = {l1, l2}
  NoLoop = nil
  Servers = {}
  Customs = {c1}
  AutoServerID = auto
  Removable = {c1}
  TunAllowed = TRUE
  KillSwitch = {TRUE, FALSE}
  May = {"backend", "firewall", "registry", "badmode"}
  MaxCalls = 2
  MaxCrashes = 1
  MaxAttempts = 2
INVARIANTS
  ConnectingIsExplained
PROPERTIES
  ReconnectEnds
CHECK_DEADLOCK FALSE
