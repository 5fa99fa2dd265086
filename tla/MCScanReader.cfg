CONSTANTS
  Dbs = {0, 1}
  Names = {"k"}
  FirstVersions <- BothExist
  Volatile = {2}
  Big = {1}
  Foreign = {3}
  SkipUnknownType = TRUE
  Modes <- AllModes
  Changing <- OneChanges
  MaxChanges = 2
  MaxEvents = 1
  RestoreCap = 1
  ChCap = 1
SPECIFICATION FairSpec
CHECK_DEADLOCK FALSE
INVARIANTS
  ValueBelongsToKey
  OneProducerIsSafe
PROPERTIES
  TargetCatchesUp
  ScanEnds
  QueueIsFifo
