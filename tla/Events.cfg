SPECIFICATION FairSpec
CONSTANTS
  n1 = n1
  t1 = t1
  e1 = e1
  f1 = f1
  Nil = Nil
  Node = {n1}
  Topic = {t1}
  Handler = {1, 2, 3, 4}
  Event = {e1, f1}
  NodeOf <- OneNode
  TopicOf <- OneTopic
  TopicOfEvent <- OneEventTopic
  Foreign = {f1}
  Undecodable <- Refused
  Blocking = {3}
  Registrars = 2
  Copies <- Twice
  BufferSize = 1
CHECK_DEADLOCK FALSE
INVARIANTS
  KeptUnlessRaced
  NoSpuriousCall
PROPERTIES
  KeptHandlersRun
