SPECIFICATION Spec
CONSTANTS
  Nodes = {"a"}
  NumKeys = 1
  Initial = {1}
  ChunkSize = 1
  PipelineDepth = 2
  Ops = {"truncate"}
  MaxChanges = 1
  MaxFaults = 0
  FaultKinds = {}
  MaxReplays = 0
INVARIANT
  CopiedRowsAreCurrent
CHECK_DEADLOCK FALSE
