SPECIFICATION ServersSpec
CHECK_DEADLOCK FALSE
INVARIANTS
  StatusExact
PROPERTIES
  ServersEnd
