SPECIFICATION Spec
CONSTANTS
  Entries <- WriteEntries
  MaxEntries = 3
  PipelineCountLimit = 1
  QuerybufLimit = 3
  BufioSize = 2
  OffReply = FALSE
  Replies = {"ok"}
  BusykeyBehavior = "panic"
CHECK_DEADLOCK FALSE
INVARIANTS
  WaitsOnlyForTheTarget
