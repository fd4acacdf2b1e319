CONSTANTS
  i1 = i1
  i2 = i2
  i3 = i3
  i4 = i4
  i5 = i5
  Components <- TwoComponents
  Erasers = {}
  Inodes <- FiveInodes
  IniValues = {1}
  Width <- SameWidth
  NoKey = NoKey
  NoFile = NoFile
  DiskFails = FALSE
  MaxCrashes = 0
SPECIFICATION IniSpec
INVARIANT SuccessIsStored
