SPECIFICATION FairSpec
CONSTANTS
  Entries <- AllEntries
  MaxEntries = 3
  PipelineCountLimit = 1
  QuerybufLimit = 4
  BufioSize = 2
  OffReply = FALSE
  Replies = {"ok", "busykey"}
  BusykeyBehavior = "panic"
CHECK_DEADLOCK FALSE
INVARIANTS
  RepliesPaired
  ExecutedInItsDb
  CountersExact
  CloseWaitsForWrites
  RejectionIsFatal
PROPERTIES
  EveryEntryExecuted
  CloseReturns
