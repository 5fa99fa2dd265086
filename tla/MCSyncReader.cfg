CONSTANTS
  StartOffset = 2
  Stream <- MixedStream
  RdbDbs <- TwoKeys
  ReplStreamDb = 2
  SyncRdb = TRUE
  SyncAof = TRUE
  MaxFileSize = 1
  ReadSize = 2
  ReadAhead = 4
  ChCap = 1
SPECIFICATION FairSpec
CHECK_DEADLOCK FALSE
INVARIANTS
  BytesInOrder
  AckedIsOnDisk
  EntriesExact
  ConsistentAfterRdb
PROPERTIES
  ReceivedIsDelivered
  CancelCloses
