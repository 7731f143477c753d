SPECIFICATION FairSpec
CONSTANTS
  MAX_LEN_OF_MLME_QUEUE = 2
  Senders = {"s1"}
  MaxMsgs = 4
  MaxSwitches = 1
  MaxPauses = 1
INVARIANTS TypeOK
PROPERTIES FifoSpec OverrunOnlyWhenFull Handled
CHECK_DEADLOCK FALSE
