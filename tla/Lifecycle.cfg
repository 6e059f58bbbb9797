SPECIFICATION FairSpec
CONSTANTS
  Picos <- TwoPicos
  Backends <- BothBackends
  Detaches = TRUE
  RingSizes <- MCRingSizes
  DiffSizes <- MCDiffSizes
  MinRingSize = 4
  MinDiffSize = 2
  DefaultRingSize = 8
  DefaultDiffSize = 2
  SpawnMayFail = TRUE
  MaxOpens = 2
  MaxSpawns = 2
INVARIANTS
  TypeOK
  OneConsumer
  ThreadsAgree
  ReleasedWhenClosed
  FreedIsQuiet
PROPERTIES
  StartsExclusive
  NotFoundIsJustified
  StopTerminates
