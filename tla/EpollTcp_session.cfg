CONSTANTS
  Sockets = {s1}
  NoSock = NoSock
  SendCap = 1
  RecvCap = 1
  Delay = 0
  MaxTry = 1
  MaxOpen = 2
  MaxSend = 1
  MaxRecv = 1
SPECIFICATION Spec
INVARIANTS
  TypeOK
  NoDanglingSocket
  NothingAfterTheEnd
