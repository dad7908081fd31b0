\* Two goroutines of callers, three events out of calls, crashes and refreshes, every failure.
SPECIFICATION Spec
CONSTANTS
  Ids = {p1, p2}
  None = none
  Callers = {a1, a2}
  Workers = {w1, w2}
  NoLoop = nil
  Managers = {1, 2, 3}
  May = {"backend", "launch", "ready", "registry", "clear"}
  MaxEvents = 3
  MaxAttempts = 2
INVARIANTS
  ProxyIsOwned
  ConnectedIsRefreshed
  
  StopClearsProxy
SYMMETRY Symmetry
CHECK_DEADLOCK FALSE
