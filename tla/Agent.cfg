SPECIFICATION FairSpec
CONSTANTS
  Cap = 1
  MsgLen = 2
  MaxCache = 1
INVARIANTS TypeOK NoDanglingPointer InOrder CacheHasTimer
PROPERTIES AgentFreed
CHECK_DEADLOCK FALSE
