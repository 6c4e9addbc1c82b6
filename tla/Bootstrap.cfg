SPECIFICATION FairSpec
CONSTANTS
  Peers <- MCPeers
  p1 = p1
  p2 = p2
  p3 = p3
CHECK_DEADLOCK FALSE
PROPERTIES
  Reconnects
  HookAndTaskEnd
