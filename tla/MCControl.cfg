\* The update check, custom servers with their pings and the window beside one connection.
SPECIFICATION Spec
CONSTANTS
  Tags <- MCTags
  Assets <- MCAssets
  Current <- MCCurrent
  Callers = {u1}
  Loop = loop
  Failed = failed
  Ids = {i1, i2}
  Inputs <- MCInputs
  Probes = {b1}
  Openers = {o1, o2}
  None = none
  MaxEvents = 6
INVARIANTS
  OneWindow
  LaunchedIsNewer
  ServersSurvive
PROPERTIES
  PendingUpdateStays
CHECK_DEADLOCK FALSE
