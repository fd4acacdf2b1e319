CONSTANTS
  Producers = {p1, p2, p3}
  Consumers = {c1, c2}
  Controllers = {k1}
  InitMaxsize = 2
  Sizes = {0, 1}
  MaxItems = 1
SPECIFICATION FairSpec
INVARIANTS
  TypeOK
  WaitingCountersExact
  NobodyStranded
PROPERTIES
  ImplementsFifo
  EveryItemLeaves
CHECK_DEADLOCK FALSE
