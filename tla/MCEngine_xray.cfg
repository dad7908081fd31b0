\* The xray manager: three launches, five generations.
SPECIFICATION FairSpec
CONSTANTS
  MaxProc = 3
  MaxGen = 5
  Waiters = {w1}
  Probe = "port"
INVARIANTS
  PlannedStopIsSilent
  NoUnmanagedProcess
PROPERTIES
  CrashIsReported
  EarlyExitEndsWait
  ImplementsAbs
CHECK_DEADLOCK FALSE
