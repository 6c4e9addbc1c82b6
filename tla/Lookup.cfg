SPECIFICATION FairSpec
CONSTANTS
  None = None
  Peer = {p1, p2}
  Server = p1
  N = 2
  Wanted = 2
  TTL = 17
  Retry = 2
  Round = 1
  Failures = 1
CHECK_DEADLOCK FALSE
INVARIANTS
  NothingOnlyWithoutStatic
  NoPeerMeansNone
  GapBounded
PROPERTIES
  SearchReleased
  FoundUnlessLapsed
