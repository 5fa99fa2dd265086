CONSTANTS
  Byte <- Bytes
  Marker <- RepeatMarker
  BufSize = 5
  MaxPayload = 7
  Payloads <- AllPayloads
  Stream <- TwoCommands
SPECIFICATION FairSpec
CHECK_DEADLOCK FALSE
INVARIANTS
  DoneIsComplete
PROPERTIES
  TransferEnds
