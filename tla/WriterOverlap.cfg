SPECIFICATION Spec
CONSTANTS
  ClientOps <- SignalOnly
  RecLen = 4
  RingSize = 16
  DiffSize = 4
  PacketLimit = 9
  LenOut = 12
  MaxBatch = 2
  MaxUnread = 15
  OverlapsFlush = TRUE
  FlushMayTimeOut = TRUE
  MaxRecords = 6
  MaxErrors = 2
INVARIANTS
  NoUnderrun
