SPECIFICATION Spec
CONSTANTS
  NPipes = 1
  MgmtRingSize = 2
  Ctx = {c1, c2}
  CmdThread = cmd
  WordSize = 65536
  MaxFailures = 0
  MaxSends = 2
INVARIANTS MgmtIndexMatches
CHECK_DEADLOCK FALSE
SYMMETRY Symmetry
