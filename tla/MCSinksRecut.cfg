SPECIFICATION Spec
CONSTANTS
  Columns <- FourColumns
  DropColumns = {"d"}
  MaskColumns = {"m"}
  NoKey = NoKey
  Null = Null
  Sources <- Updates
  InitialDocs <- OneRow
  Recuts = {"meili"}
  PublishWindow = 2
  MaxFaults = 4
INVARIANT
  MirrorIsCurrent
CHECK_DEADLOCK FALSE
