SPECIFICATION FairSpec
CONSTANTS
  RxRingSize = 2
  Kickers = {k}
  MaxFills = 3
  MaxEvents = 2
INVARIANTS TypeOK BufferExclusive
PROPERTIES  ReceivedKept ReceiveContinues
CHECK_DEADLOCK FALSE
