SPECIFICATION Spec
CONSTANTS
  Clocks <- MCClocks
  Devices <- TwoBoards
  V13 = 2
  ConfigLens <- MCConfigLens
  MaxCommands = 2
  MaxOpens = 2
  MaxFaults = 1
INVARIANTS
  TypeOK
  BacklogBounded
  CachesTrue
  StereoOnlyV13
  ClockInSyncUnlessProbed
