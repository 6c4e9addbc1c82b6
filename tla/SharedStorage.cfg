SPECIFICATION FairStoreSpec
CONSTANTS
  Nobody = Nobody
  n1 = n1
  n2 = n2
  one = one
  both = both
  Notifier = {t1, t2}
  c1 = c1
  c2 = c2
  c3 = c3
  Caller = {c1, c2, c3}
  Reentrant = {c3}
  Ns = {n1, n2}
  Key = {one, both}
  Matches <- MCMatches
CHECK_DEADLOCK FALSE
INVARIANTS
  CalledExactly
PROPERTIES
  NobodyWaits
