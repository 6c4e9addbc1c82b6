SPECIFICATION Spec
CONSTANTS
  empty = empty
  one = one
  two = two
  three = three
  four = four
  six = six
  ten = ten
  None = None
  Garbled = Garbled
  Base = 2
  Window = 5
  Message = {empty, one, two, three, four, six, ten}
  Bytes <- Bits
CHECK_DEADLOCK FALSE
INVARIANTS
  AnswerIsReply
PROPERTIES
  Prompt
  DeadlinesEnd
