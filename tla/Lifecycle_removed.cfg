\* The same, against the comment of main.go on the system proxy.
SPECIFICATION Spec
CONSTANTS
  Launches = {p1, p2, p3}
  Ports = {q1, q2}
  MultiPort = qm
  Foreign = {f1, f2}
  Lookalikes = {f2}
  None = none
  MaxEvents = 5
PROPERTIES
  RemovedCrashSafely
CHECK_DEADLOCK FALSE
