SPECIFICATION Spec
CONSTANTS
  Procs = {m, p}
  Main = m
  N = 1
  Loggers = {l, k}
  ThreadOf <- OneThread
  Options <- OnlyBusy
  Busy = l
  Cap = 1
  PrintCap = 1
  MaxPosts = 2
INVARIANTS NoDanglingLogger StoppedWritten
PROPERTIES MainReturns
CHECK_DEADLOCK FALSE
