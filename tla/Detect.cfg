CONSTANTS
  Cameras = {cam1, cam2}
  Workers = {w1, w2}
  NumHandles = 2
  ViCap = 1
  FrameCap = 1
  ResultCap = 1
  None = None
  MaxCalls = 2
SPECIFICATION FairSpec
INVARIANTS
  TypeOK
  HandlesExclusive
  NoUseAfterFree
  LeaksAreFailures
  AdmissionBound
PROPERTIES
  ImplementsService
  EveryFrameEnds
CHECK_DEADLOCK FALSE
