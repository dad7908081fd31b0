\* Calls, crashes, reconnects and refreshes one after the other: what each leaves behind.
SPECIFICATION SerialSpec
CONSTANTS
  Callers = {a1, a2}
  RL = rl
  Loops = {l1, l2}
  NoLoop = nil
  Servers = {s1}
  Customs = {c1}
  AutoServerID = auto
  Removable = {c1}
  TunAllowed = TRUE
  KillSwitch = {TRUE, FALSE}
  May = {"backend", "config", "ready", "age", "badmode"}
  MaxCalls = 4
  MaxCrashes = 1
  MaxAttempts = 2
INVARIANTS
  TornDown
  ConnectedAsAsked
SYMMETRY Symmetry
CHECK_DEADLOCK FALSE
