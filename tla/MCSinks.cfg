SPECIFICATION FairSpec
CONSTANTS
  Columns <- FourColumns
  DropColumns = {"d"}
  MaskColumns = {"m"}
  NoKey = NoKey
  Null = Null
  Sources <- AllSources
  InitialDocs <- OneRow
  Recuts = {"json", "stream", "outbox", "nats", "webhook"}
  PublishWindow = 2
  MaxFaults = 2
INVARIANTS
  TypeOK
  MirrorIsCurrent
  DeletedWasPublished
  AcceptedIsPublished
  
  StoredOnce
PROPERTY
  AllConfirmed
CHECK_DEADLOCK FALSE
