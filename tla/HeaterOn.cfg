CONSTANTS
  Temps <- FewTemps
  Windows <- DefaultWindow
  Garbage <- NonMode
  FailingPins = {}
  ReadFails = FALSE
  Commanded = {}
  NoReading = NoReading
  MaxRestarts = 1
SPECIFICATION Spec
INVARIANTS
  HeatOnIsOn
