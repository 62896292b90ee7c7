SPECIFICATION Spec
CONSTANTS
  c1 = c1
  c2 = c2
  jobs = jobs
  done = done
  text = text
  Conns = {c1, c2}
  Keys = {jobs, done, text}
  StringKeys = {text}
  Cases <- LoopCases
  Size = 1
  TXN_MAX_CMDS = 2
  MaxQuery = 4
  SocketRoom = 3
  MaxTicks = 1
  Forever = Forever
  Invalid = Invalid
INVARIANTS
  TypeOK
  OneReplyEach
  OneHome
  FirstInFirstOut
PROPERTIES
  DeadlineKept
  NoLostWakeup
  RequestsExecuted
  StopsOnSignal
