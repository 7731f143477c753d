SPECIFICATION FairSpec
CONSTANTS
  LocalTxBuf = 9
  AggReserve = 6
  TailReserve = 12
  Limit = 26
  BulkCap = 6
  Ovh = 2
  Batches <- MCBatches
  Aggregation = TRUE
  MaxFrames = 2
  MaxErrors = 0
  MaxDupReset = 0
  MayStop = FALSE
PROPERTY ReadyIsSent
CHECK_DEADLOCK FALSE
