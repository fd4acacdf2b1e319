CONSTANTS
  Temps <- FewTemps
  Windows <- DefaultWindow
  Garbage <- MCGarbage
  FailingPins = {}
  ReadFails = FALSE
  Commanded = {}
  NoReading = NoReading
  MaxRestarts = 1
SPECIFICATION Spec
INVARIANTS
  HeatOffIsOff
