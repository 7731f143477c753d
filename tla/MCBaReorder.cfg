SPECIFICATION FairSpec
CONSTANTS
  ModSeq = 16
  WinSize = 3
  Ents = 2
  Blocks = 3
  Ulong = 8
  FirstNum = 13
  LastNum = 17
  MaxGap = 2
  MaxOps = 2
  Eap = {16}
INVARIANTS TypeOK DeliveredInOrder ListInWindow PoolConserved SessionsCounted
PROPERTIES GapReleased
CHECK_DEADLOCK FALSE
