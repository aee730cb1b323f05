SPECIFICATION Spec
CONSTANTS
  Procs = {m, p}
  Main = m
  N = 2
  Conns = {c, d}
  ThreadOf <- EachItsOwn
  Cap = 1
  MaxTries = 1
  MaxPosts = 2
INVARIANTS TypeOK StopComplete
CHECK_DEADLOCK FALSE
