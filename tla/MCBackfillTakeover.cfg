SPECIFICATION FairSpec
CONSTANTS
  Nodes = {"a", "b"}
  NumKeys = 1
  Initial = {1}
  ChunkSize = 1
  PipelineDepth = 2
  Ops = {"write"}
  MaxChanges = 0
  MaxFaults = 1
  FaultKinds = {"break"}
  MaxReplays = 0
PROPERTY
  PendingIsCopied
CHECK_DEADLOCK FALSE
