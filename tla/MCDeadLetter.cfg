SPECIFICATION FairSpec
CONSTANTS
  NumEvents = 3
  MaxBatch = 3
  Bad = {1, 3}
  Flaky = {}
  SinkStates = {"up", "slow", "down"}
  Threshold = 2
  FailureThreshold = 3
  MaxEntries = 1
INVARIANTS
  TypeOK
  NothingLost
  IsolatesInOrder
  
  
PROPERTY
  PoisonPasses
