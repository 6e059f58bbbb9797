SPECIFICATION Spec
CONSTANTS
  ClientOps <- AllOps
  RecLen = 2
  RingSize = 8
  DiffSize = 2
  PacketLimit = 5
  LenOut = 6
  MaxBatch = 2
  MaxUnread = 100
  OverlapsFlush = TRUE
  FlushMayTimeOut = TRUE
  MaxRecords = 4
  MaxErrors = 2
INVARIANTS
  PacketsFit
  LossIsCounted
