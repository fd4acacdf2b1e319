CONSTANTS
  i1 = i1
  i2 = i2
  i3 = i3
  i4 = i4
  i5 = i5
  u1 = u1
  u2 = u2
  Components <- TwoComponents
  Erasers <- PtzErases
  Inodes <- FiveInodes
  IniValues = {1, 2}
  Width <- SameWidth
  NoKey = NoKey
  NoFile = NoFile
  DiskFails = TRUE
  MaxCrashes = 1
  VisUsers <- TwoUsers
  VisSettings <- BrightnessAndZoom
  VisValues <- TwoVisValues
  VisNone = None
  VisMaxRestarts = 1
  Clients <- TwoUsers
  MaxYaw = 10
  YawStep = 10
  LowPitch = 0
  HighPitch = 5
  PitchStep = 5
  Unset = Unset
  ScanModes <- StillOrNot
  PtzMaxRestarts = 1
  Slots = 2
  PresetNames = {a, b}
  NoPreset = NoPreset
  PresetMaxRestarts = 1
SPECIFICATION MCSpec
SYMMETRY Symmetry
CONSTRAINT StillPromised
VIEW PartView
INVARIANTS
  MiddlewareTypeOK
  VisSectionExclusive
  VisAgrees
  ReadyAtRest
  UndisturbedAgrees
  PresetsOnFile
PROPERTIES
  ImplementsKeyStore
