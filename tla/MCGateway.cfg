SPECIFICATION GatewaySpec
CONSTANTS
  Sinks <- TwoSinks
  Limit <- OneByOne
  NumEvents = 3
  Excluded = {2}
  MaxBatch = 3
INVARIANTS
  GatewayTypeOK
  
  NoCallAfterShutdown
PROPERTIES
  ServiceImplementsContract
  StopIsGraceful
  
