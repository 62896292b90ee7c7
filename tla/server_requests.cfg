SPECIFICATION Spec
CONSTANTS
  c1 = c1
  c2 = c2
  jobs = jobs
  done = done
  text = text
  Conns = {c1, c2}
  Keys = {jobs, done, text}
  StringKeys = {text}
  Cases <- RequestCases
  Size = 2
  TXN_MAX_CMDS = 2
  MaxQuery = 3
  SocketRoom = 1
  MaxTicks = 1
  Forever = Forever
  Invalid = Invalid
CONSTRAINT
  FewErrors
INVARIANTS
  TxnDiscipline
  ExecAnswersQueue
  OneReplyEach
  OneHome
PROPERTIES
  DrainBeforeClose
