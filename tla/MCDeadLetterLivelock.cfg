SPECIFICATION QuietSpec
CONSTANTS
  NumEvents = 4
  MaxBatch = 4
  Bad = {}
  Flaky = {1}
  SinkStates = {"up"}
  Threshold = 3
  FailureThreshold = 5
  MaxEntries = 10
PROPERTY
  PoisonPasses
