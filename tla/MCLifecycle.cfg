\* Three launches, killed or ended anywhere.
SPECIFICATION Spec
CONSTANTS
  Launches = {p1, p2, p3}
  Ports = {q1, q2}
  MultiPort = qm
  Foreign = {f1, f2}
  Lookalikes = {f2}
  None = none
  MaxEvents = 5
SYMMETRY Symmetry
INVARIANTS
  NoOrphans
  NothingLeft
PROPERTIES
  RunningIsKept
  ForeignKept
CHECK_DEADLOCK FALSE
