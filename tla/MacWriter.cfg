SPECIFICATION MacFairSpec
CONSTANTS
  ClientOps <- AllOps
  RecLen = 2
  RingSize = 6
  DiffSize = 2
  PacketLimit = 5
  LenOut = 6
  MaxBatch = 2
  MaxUnread = 5
  OverlapsFlush = FALSE
  FlushMayTimeOut = TRUE
  MaxRecords = 4
  MaxErrors = 2
INVARIANTS
  MacTypeOK
  MacPacketsFit
  NothingMislaid
  FlushHandsOver
  LossIsCounted
  QuietWhenClosed
PROPERTIES
  MacImplementsPipe
  CloseTerminates
  FlushedGoesOut
