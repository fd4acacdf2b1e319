CONSTANTS
  Settings <- EveryKind
  Values <- ThreeValues
  Default = 10
  NoValue = NoValue
  EarlyUsers = FALSE
  ConfigFails = FALSE
  MaxRestarts = 1
SPECIFICATION StoreSpec
INVARIANTS
  AckedSurvives
  StoreFollows
PROPERTIES
  CallsEnd
