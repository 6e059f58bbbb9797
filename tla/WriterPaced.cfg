SPECIFICATION Spec
CONSTANTS
  ClientOps <- AllOps
  RecLen = 4
  RingSize = 16
  DiffSize = 4
  PacketLimit = 9
  LenOut = 12
  MaxBatch = 2
  MaxUnread = 15
  OverlapsFlush = FALSE
  FlushMayTimeOut = TRUE
  MaxRecords = 6
  MaxErrors = 2
INVARIANTS
  TypeOK
  NoUnderrun
  FlushDrained
PROPERTIES
  ImplementsPipe
