SPECIFICATION FairSpec
CONSTANTS
  N = 3
  Conn = {c1, c2, c3}
  Cap = 1
CHECK_DEADLOCK FALSE
INVARIANTS
  ConnConserved
  CloseMeansStopped
PROPERTIES
  ConnServed
  CloseDrains
  ShutdownEnds
