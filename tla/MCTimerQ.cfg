SPECIFICATION FairSpec
CONSTANTS
  Timers = {p, o}
  Periodic = {p}
  Nodes = {n1, n2}
  Ctx = {m}
  NULL = NULL
  MaxOps = 3
INVARIANTS TypeOK ListsSound CancelHolds
PROPERTIES PeriodicRuns TaskEnds
CHECK_DEADLOCK FALSE
