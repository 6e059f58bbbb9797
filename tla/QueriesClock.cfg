SPECIFICATION Spec
CONSTANTS
  Clocks <- MCClocks
  Devices <- OneBoard
  V13 = 2
  ConfigLens <- MCConfigLens
  MaxCommands = 2
  MaxOpens = 1
  MaxFaults = 0
INVARIANTS
  ClockInSync
