SPECIFICATION FairSpec
CONSTANTS
  NPipes = 2
  MgmtRingSize = 1
  Ctx = {c1, c2}
  CmdThread = cmd
  WordSize = 65536
  MaxFailures = 1
  MaxSends = 2
INVARIANTS TypeOK PipeExclusive PendingHasUser
PROPERTIES ResetServed
CHECK_DEADLOCK FALSE
