SPECIFICATION Spec
CONSTANTS
  Timers = {p, o}
  Periodic = {p}
  Nodes = {n1, n2}
  Ctx = {m}
  NULL = NULL
  MaxOps = 3
PROPERTIES CancelledStays
CHECK_DEADLOCK FALSE
