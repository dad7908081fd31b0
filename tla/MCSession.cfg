\* Two goroutines, every mishap, one restart.
SPECIFICATION Spec
CONSTANTS
  Callers = {a1, a2}
  None = none
  NoOne = noone
  May = {"bare", "loss", "revoke", "write"}
  MaxTokens = 3
  MaxCalls = 4
  MaxRestarts = 1
INVARIANTS
  NoReuse
  SessionSurvives
  DiskFollowsMemory
  LogoutIsFinal
SYMMETRY Symmetry
CHECK_DEADLOCK FALSE
