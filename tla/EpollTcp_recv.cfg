CONSTANTS
  Sockets = {s1}
  NoSock = NoSock
  SendCap = 1
  RecvCap = 2
  Delay = 2
  MaxTry = 1
  MaxOpen = 1
  MaxSend = 0
  MaxRecv = 3
SPECIFICATION FairSpec
PROPERTIES
  RecvDataFlows
INVARIANTS
  RecvDataAccounted
