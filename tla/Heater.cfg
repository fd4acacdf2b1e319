CONSTANTS
  Temps <- MCTemps
  Windows <- MCWindows
  Garbage <- MCGarbage
  FailingPins = {1}
  ReadFails = TRUE
  Commanded = {1}
  NoReading = NoReading
  MaxRestarts = 1
SPECIFICATION FairSpec
INVARIANTS
  TypeOK
  FlagsMatchPins
  OffOutsideAuto
  HeaterOnWithinWindow
  ModesAgree
PROPERTIES
  CutOffWorks
  ColdIsHeated
