SPECIFICATION Spec
CONSTANTS
  LocalTxBuf = 9
  AggReserve = 6
  TailReserve = 12
  Limit = 26
  BulkCap = 6
  Ovh = 2
  Batches <- MCBatches
  Aggregation = TRUE
  MaxFrames = 5
  MaxErrors = 1
  MaxDupReset = 1
  MayStop = TRUE
INVARIANTS TypeOK WritesInBounds SentIntact FirstSentInOrder EmptyMeansDrained NoZeroLengthFrame
PROPERTIES UrbStable
CHECK_DEADLOCK FALSE
