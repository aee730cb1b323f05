CONSTANTS
  Sockets = {s1}
  NoSock = NoSock
  SendCap = 2
  RecvCap = 1
  Delay = 2
  MaxTry = 1
  MaxOpen = 1
  MaxSend = 2
  MaxRecv = 0
SPECIFICATION FairSpec
PROPERTIES
  SendDataFlows
  ClosedSocketsAreFreed
  ImplementsSessionLife
INVARIANTS
  SendAckCounts
