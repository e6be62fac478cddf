SPECIFICATION FairSpec
CONSTANTS
  WAL <- OneTxn
  MaxBatch = 2
  QueueDepth = 2
  MaxSlices = 2
INVARIANTS
  TypeOK
  ConfirmedIsHandled
  ConfirmedAtBoundary
  StatusIsSafe
  DeliveredInOrder
  NothingOutstanding
  WatermarkAfterRows
PROPERTIES
  ImplementsContract
  EventuallyConfirmed
  StopCompletes
