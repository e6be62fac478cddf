SPECIFICATION Spec
CONSTANTS
  Nodes = {"a", "b"}
  NumKeys = 2
  Initial = {1, 2}
  ChunkSize = 1
  PipelineDepth = 2
  Ops = {"write"}
  MaxChanges = 1
  MaxFaults = 1
  FaultKinds = {"crash", "break", "mark", "save", "lane", "list"}
  MaxReplays = 0
INVARIANTS
  TypeOK
  CopiedRowsAreCurrent
  ChunksDoNotOverlap
  HeadIsInFlight
CHECK_DEADLOCK FALSE
