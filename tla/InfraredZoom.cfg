CONSTANTS
  Settings <- ZoomOnly
  Values <- TwoValues
  Default = 10
  NoValue = NoValue
  EarlyUsers = FALSE
  ConfigFails = FALSE
  MaxRestarts = 1
SPECIFICATION Spec
INVARIANTS
  ZoomReachesCamera
