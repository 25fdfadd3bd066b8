SPECIFICATION ReceiveSpec
CONSTANTS
  NumPackets = 2
  len <- MCLen
  SofBytes = {}
  DebugPackets = {}
  Backlog = 12
  MaxStrikes = 0
CHECK_DEADLOCK FALSE
INVARIANT
  CompletePacket
