SPECIFICATION FairSpec
CONSTANTS
  Threads <- MCThreads
  Calls <- MCCalls
  ConfigLens <- MCConfigLens
  RawLens <- MCRawLens
  MaxCalls = 4
  MaxCommands = 2
  MaxFaults = 1
INVARIANTS
  TypeOK
PROPERTIES
  LeftOverByFailure
  StaysInStep
  CallsReturn
