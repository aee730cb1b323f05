CONSTANTS
  Sockets = {s1, s2, s3}
  NoSock = NoSock
  DbThreads = {t1, t2}
  RingCap = 1
  MaxFaults = 2
  MaxRequests = 2
SPECIFICATION FairSpec
INVARIANTS NoDanglingSession InStep OrphansCounted
PROPERTIES StopEnds WorksAgain
CHECK_DEADLOCK FALSE
