SPECIFICATION FairSpec
CONSTANTS
  RxRingSize = 2
  Kickers = {}
  MaxFills = 1
  MaxEvents = 2
PROPERTIES ReceiveResumes
CHECK_DEADLOCK FALSE
