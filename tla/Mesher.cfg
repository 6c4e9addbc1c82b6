SPECIFICATION FairSpec
CONSTANTS
  Node = {h, a, b}
  Hub = h
  MayStop = {a}
CHECK_DEADLOCK FALSE
PROPERTIES
  NobodyBlocked
  Discovery
