\* Every command may be refused, the process may end at every command.
SPECIFICATION Spec
CONSTANTS
  Requests = {{"lan", "node", "tun"}}
  MaxCalls = 6
INVARIANTS
  EngagedMeansBlocked
PROPERTIES
  ExitsBeforeBlock
  RecoverableAfterCrash
  ImplementsAbs
CHECK_DEADLOCK FALSE
