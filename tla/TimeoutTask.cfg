CONSTANTS
  a1 = a1
  Users = {u1}
  MaxTasks = 2
  Cells = {a1, a2}
  None = None
SPECIFICATION FirstCellSpec
INVARIANTS
  TypeOK
  LinkedIsAllocated
  MisdirectedOnlyIfRemovedTwice
PROPERTIES
  ImplementsService
  EverythingEnds
CHECK_DEADLOCK FALSE
