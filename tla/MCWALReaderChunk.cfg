SPECIFICATION Spec
CONSTANTS
  WAL <- TwoTxns
  MaxBatch = 2
  QueueDepth = 2
  MaxSlices = 2
INVARIANT
  WatermarkIsWhole
