SPECIFICATION FairSpec
CONSTANTS
  ClientOps <- AllOps
  RecLen = 4
  RingSize = 16
  DiffSize = 4
  PacketLimit = 9
  LenOut = 12
  MaxBatch = 2
  MaxUnread = 11
  OverlapsFlush = FALSE
  FlushMayTimeOut = FALSE
  MaxRecords = 6
  MaxErrors = 1
PROPERTIES
  FlushAnswered
  CloseTerminates
  DrainsAboveThreshold
