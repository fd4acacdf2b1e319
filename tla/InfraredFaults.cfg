CONSTANTS
  Settings <- BrightnessAndZoom
  Values <- TwoValues
  Default = 10
  NoValue = NoValue
  EarlyUsers = TRUE
  ConfigFails = TRUE
  MaxRestarts = 1
SPECIFICATION Spec
INVARIANTS
  TypeOK
  CameraFollows
