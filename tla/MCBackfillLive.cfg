SPECIFICATION FairSpec
CONSTANTS
  Nodes = {"a"}
  NumKeys = 2
  Initial = {1}
  ChunkSize = 1
  PipelineDepth = 2
  Ops = {"rekey", "truncate"}
  MaxChanges = 1
  MaxFaults = 1
  FaultKinds = {"crash", "break", "lane"}
  MaxReplays = 1
PROPERTIES
  PendingIsCopied
  
CHECK_DEADLOCK FALSE
