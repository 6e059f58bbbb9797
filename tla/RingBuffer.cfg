SPECIFICATION Spec
CONSTANTS
  Byte <- MCByte
  Zero = 0
  MinRingSize = 3
  MinDiffSize = 1
  DefaultRingSize = 4
  DefaultDiffSize = 2
  RingSizes <- MCRingSizes
  DiffSizes <- MCDiffSizes
INVARIANTS
  TypeOK
  NoDataRace
PROPERTY
  ImplementsFifo
