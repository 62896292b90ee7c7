SPECIFICATION Spec
CHECK_DEADLOCK FALSE
CONSTANTS
  CR = CR
  LF = LF
  NUL = NUL
  MaxNumberLine = 4
  MaxNumber = 3
  INT64_MAX = 31
  RESP_MAX_BULK_LEN = 9
  RESP_MAX_ARRAY_LEN = 4
  RESP_MAX_INLINE_LEN = 7
  RESP_MAX_DEPTH = 2
  CommandTable <- Table
  LookupSlots = 8
  MaxName = 5
  NameHash <- SmallHash
  Lower <- LowerCase
  Settings <- Reported
  Others <- Answers
  Work <- Tasks
  SocketRoom = 3
INVARIANTS
  PiecesInvisible
  RepliesReadBack
PROPERTIES
  BatchesEnd
