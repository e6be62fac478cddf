SPECIFICATION Spec
CONSTANTS
  Source <- TwoTables
  Altered = {"u"}
  Names <- TwoNames
  Alterable = {"a"}
  Null = Null
  None = None
  HistoryCapacity = 1
  MaxChanges = 2
  MaxRecords = 2
  Tables <- AllTables
  Columns = {"k", "a", "b"}
  Values <- AllValues
  Filters = {"live", "streamed", "gone"}
  Eval <- EvalOf
  Partial <- PartialOf
  NoFilter = NoFilter
  NoTable = NoTable
  Masked = Masked
  Configurations <- AllConfigurations
  MaxFaults = 1
INVARIANTS
  TypeOK
  HandedAsWritten
  
  NothingDropped
  SkippedIsUnwanted
CHECK_DEADLOCK FALSE
