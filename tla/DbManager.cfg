SPECIFICATION Spec
CONSTANTS
  Procs = {m, p}
  Main = m
  N = 1
  Conns = {c}
  ThreadOf <- OneThread
  Cap = 1
  MaxTries = 1
  MaxPosts = 4
INVARIANTS InOrder NoDanglingConnection
PROPERTIES CommandsExecuted AnswersCome StopEnds DestroyEnds
CHECK_DEADLOCK FALSE
