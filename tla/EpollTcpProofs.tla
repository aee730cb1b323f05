--------------------------- MODULE EpollTcpProofs ---------------------------
(***************************************************************************)
(* What the two threads of epoll_tcp.c rest on when they share a socket,   *)
(* for any number of sockets and connections: no thread, queue or epoll    *)
(* set refers to a freed slot, the last event of a session is the last,    *)
(* send_req and send_ack count what they are taken to count, what has been *)
(* received is accounted for, and every socket goes through the states of  *)
(* SessionLife.                                                            *)
(***************************************************************************)
EXTENDS EpollTcp, FiniteSetTheorems, TLAPS

-----------------------------------------------------------------------------
(***************************************************************************)
(* Lemmas about the values the actions assign.                             *)
(***************************************************************************)

(* The constants are natural numbers.                                      *)
LEMMA ConstType ==
  /\ SendCap \in Nat \ {0} /\ RecvCap \in Nat \ {0} /\ Delay \in Nat
  /\ MaxTry \in Nat /\ MaxOpen \in Nat /\ MaxSend \in Nat /\ MaxRecv \in Nat
  /\ MaxTry \in 0 .. MaxTry
BY EpollAssumption

(* What a slot holds after its allocation (_epoll_tcp_socket_reset).       *)
LEMMA ResetType ==
  /\ ResetSocket \in SocketRec
  /\ [ResetSocket EXCEPT !.state = "CONNECT"] \in SocketRec
  /\ [ResetSocket EXCEPT !.fd = TRUE, !.accepted = TRUE] \in SocketRec
  /\ ResetSend \in SendRec
  /\ ResetRecv \in RecvRec
  /\ NoNet \in NetRec
  /\ [NoNet EXCEPT !.peer = "open"] \in NetRec
<1>1. ResetSocket \in SocketRec
  BY ConstType DEF ResetSocket, SocketRec, States
<1>2. [ResetSocket EXCEPT !.state = "CONNECT"] \in SocketRec
  BY <1>1 DEF SocketRec, States
<1>3. [ResetSocket EXCEPT !.fd = TRUE, !.accepted = TRUE] \in SocketRec
  <2>1. [ResetSocket EXCEPT !.fd = TRUE] \in SocketRec
    BY <1>1 DEF SocketRec
  <2>2. QED
    BY <2>1 DEF SocketRec
<1>4. ResetSend \in SendRec
  BY DEF ResetSend, SendRec, AckMod
<1>5. ResetRecv \in RecvRec
  BY DEF ResetRecv, RecvRec
<1>6. NoNet \in NetRec
  BY ConstType DEF NoNet, NetRec
<1>7. [NoNet EXCEPT !.peer = "open"] \in NetRec
  BY <1>6 DEF NetRec
<1>8. QED
  BY <1>1, <1>2, <1>3, <1>4, <1>5, <1>6, <1>7

(* send_req and send_ack stay in their range.                              *)
LEMMA CountedType ==
  ASSUME NEW n \in 0 .. AckMod - 1
  PROVE  Counted(n) \in 0 .. AckMod - 1
BY DEF Counted, AckMod

(* A queue keeps its type when an entry is pushed or popped.               *)
LEMMA PushReqType ==
  \A q \in Seq(Reqs), type \in ReqTypes, s \in Sockets \cup {NoSock} :
    Append(q, Entry(type, s, 0)) \in Seq(Reqs)
BY DEF Reqs, Entry

LEMMA PushEvtType ==
  \A q \in Seq(Evts), type \in EvtTypes, s \in Sockets \cup {NoSock}, n \in Nat :
    Append(q, Entry(type, s, n)) \in Seq(Evts)
BY DEF Evts, Entry

LEMMA PopType ==
  ASSUME NEW S, NEW q \in Seq(S), q # <<>>
  PROVE  Tail(q) \in Seq(S) /\ Head(q) \in S
OBVIOUS

(* The update of a field keeps the type of a half of the socket.           *)
LEMMA SockUpdate ==
  ASSUME NEW f \in [Sockets -> SocketRec], NEW s
  PROVE  /\ \A r \in SocketRec : [f EXCEPT ![s] = r] \in [Sockets -> SocketRec]
         /\ \A v \in States : [f EXCEPT ![s].state = v] \in [Sockets -> SocketRec]
         /\ \A v \in {"none", "send", "close"} :
              [f EXCEPT ![s].timer = v] \in [Sockets -> SocketRec]
         /\ \A v \in 0 .. MaxTry :
              [f EXCEPT ![s].try_close_send_count = v] \in [Sockets -> SocketRec]
         /\ \A v \in BOOLEAN : [f EXCEPT ![s].fd = v] \in [Sockets -> SocketRec]
         /\ \A v \in BOOLEAN :
              [f EXCEPT ![s].need_req_close = v] \in [Sockets -> SocketRec]
BY ZenonT(60) DEF SocketRec

LEMMA SndUpdate ==
  ASSUME NEW f \in [Sockets -> SendRec], NEW s
  PROVE  /\ \A r \in SendRec : [f EXCEPT ![s] = r] \in [Sockets -> SendRec]
         /\ \A v : (s \in Sockets => v \in 0 .. AckMod - 1) =>
              [f EXCEPT ![s].send_req = v] \in [Sockets -> SendRec]
         /\ \A v : (s \in Sockets => v \in 0 .. AckMod - 1) =>
              [f EXCEPT ![s].send_ack = v] \in [Sockets -> SendRec]
         /\ \A v : (s \in Sockets => v \in Nat) =>
              [f EXCEPT ![s].data_need_send = v] \in [Sockets -> SendRec]
         /\ \A v : (s \in Sockets => v \in Nat) =>
              [f EXCEPT ![s].data_has_send = v] \in [Sockets -> SendRec]
         /\ \A v : (s \in Sockets => v \in Nat) =>
              [f EXCEPT ![s].cache = v] \in [Sockets -> SendRec]
         /\ \A v \in BOOLEAN :
              [f EXCEPT ![s].need_send_active = v] \in [Sockets -> SendRec]
BY ZenonT(60) DEF SendRec

LEMMA RcvUpdate ==
  ASSUME NEW f \in [Sockets -> RecvRec], NEW s
  PROVE  /\ \A r \in RecvRec : [f EXCEPT ![s] = r] \in [Sockets -> RecvRec]
         /\ \A v : (s \in Sockets => v \in Nat) =>
              [f EXCEPT ![s].data_has_recv = v] \in [Sockets -> RecvRec]
         /\ \A v : (s \in Sockets => v \in Int) =>
              [f EXCEPT ![s].cache = v] \in [Sockets -> RecvRec]
         /\ \A v \in BOOLEAN :
              [f EXCEPT ![s].need_recv_active = v] \in [Sockets -> RecvRec]
BY DEF RecvRec

LEMMA NetUpdate ==
  ASSUME NEW f \in [Sockets -> NetRec], NEW s
  PROVE  /\ \A r : (s \in Sockets => r \in NetRec) => [f EXCEPT ![s] = r]
            \in [Sockets -> NetRec]
         /\ \A v \in BOOLEAN : [f EXCEPT ![s].watched = v] \in [Sockets -> NetRec]
         /\ \A v \in BOOLEAN : [f EXCEPT ![s].full = v] \in [Sockets -> NetRec]
         /\ [f EXCEPT ![s].peer = "pending"] \in [Sockets -> NetRec]
         /\ \A v : (s \in Sockets => v \in SUBSET {"out", "in", "err"}) =>
              [f EXCEPT ![s].edges = v] \in [Sockets -> NetRec]
         /\ \A v : (s \in Sockets => v \in Nat) =>
              [f EXCEPT ![s].inbound = v] \in [Sockets -> NetRec]
<1>1. \A r : (s \in Sockets => r \in NetRec) => [f EXCEPT ![s] = r]
            \in [Sockets -> NetRec]
  OBVIOUS
<1>2. \A v \in BOOLEAN : [f EXCEPT ![s].watched = v] \in [Sockets -> NetRec]
  BY ZenonT(60) DEF NetRec
<1>3. \A v \in BOOLEAN : [f EXCEPT ![s].full = v] \in [Sockets -> NetRec]
  BY ZenonT(60) DEF NetRec
<1>4. [f EXCEPT ![s].peer = "pending"] \in [Sockets -> NetRec]
  BY ZenonT(60) DEF NetRec
<1>5. \A v : (s \in Sockets => v \in SUBSET {"out", "in", "err"}) =>
         [f EXCEPT ![s].edges = v] \in [Sockets -> NetRec]
  BY ZenonT(60) DEF NetRec
<1>6. \A v : (s \in Sockets => v \in Nat) => [f EXCEPT ![s].inbound = v]
            \in [Sockets -> NetRec]
  BY ZenonT(60) DEF NetRec
<1>7. QED
  BY <1>1, <1>2, <1>3, <1>4, <1>5, <1>6

(* The update of a thread's locals keeps their type.                       *)
LEMMA MainUpdate ==
  ASSUME NEW pc \in {"idle", "delay", "request", "parse"}, NEW s \in Sockets \cup {NoSock},
         NEW ret \in {"idle", "parse"}, NEW n \in Nat, main \in MainRec
  PROVE  /\ [main EXCEPT !.pc = pc, !.sock = s, !.ret = ret] \in MainRec
         /\ [main EXCEPT !.pc = pc, !.parsed = n] \in MainRec
         /\ [main EXCEPT !.parsed = n] \in MainRec
BY DEF MainRec

IoPcs == {"idle", "on_send", "send", "send_block", "send_done", "on_recv",
          "recv", "recv_eof", "recv_error", "recv_full"}

LEMMA IoUpdate ==
  ASSUME NEW pc \in IoPcs, NEW s \in Sockets \cup {NoSock},
         NEW evts \in SUBSET {"out", "in", "err"}, NEW n \in Nat, NEW b \in BOOLEAN,
         io \in IoRec
  PROVE  /\ [io EXCEPT !.pc = pc] \in IoRec
         /\ [io EXCEPT !.pc = pc, !.sock = s, !.req = b] \in IoRec
         /\ [io EXCEPT !.evts = evts, !.sock = s] \in IoRec
         /\ [io EXCEPT !.pc = pc, !.evts = evts] \in IoRec
         /\ [io EXCEPT !.len = n] \in IoRec
         /\ [io EXCEPT !.pc = pc, !.req = b, !.len = n, !.sock = s] \in IoRec
BY DEF IoRec, IoPcs

(* The end of an IO handler, from which every branch of IoSend and IoRecv  *)
(* returns to the loop.                                                    *)
LEMMA IoReturnType ==
  ASSUME io \in IoRec, reqQ \in Seq(Reqs), io.req => reqQ # <<>>, IoReturn
  PROVE  io' \in IoRec /\ reqQ' \in Seq(Reqs)
<1>1. io.sock \in Sockets \cup {NoSock} /\ "idle" \in IoPcs
  BY DEF IoRec, IoPcs
<1>2. io' \in IoRec
  BY <1>1, IoUpdate DEF IoReturn
<1>3. reqQ' \in Seq(Reqs)
  BY PopType DEF IoReturn
<1>4. QED
  BY <1>2, <1>3

LEMMA IoGotoType ==
  ASSUME io \in IoRec, NEW pc \in IoPcs, IoGoto(pc)
  PROVE  io' \in IoRec
BY DEF IoGoto, IoRec, IoPcs

(* _epoll_tcp_socket_close, called by either thread.                       *)
LEMMA MainCloseType ==
  ASSUME sock \in [Sockets -> SocketRec], reqQ \in Seq(Reqs),
         NEW s \in Sockets \cup {NoSock}, NEW reason \in TerminateTypes, MainClose(s, reason)
  PROVE  sock' \in [Sockets -> SocketRec] /\ reqQ' \in Seq(Reqs)
<1>1. [sock EXCEPT ![s].state = "TERMINATE"] \in [Sockets -> SocketRec]
  BY SockUpdate DEF States
<1>2. Append(reqQ, Entry(reason, s, 0)) \in Seq(Reqs)
  BY PushReqType DEF ReqTypes, TerminateTypes
<1>3. QED
  BY <1>1, <1>2 DEF MainClose, PushReq

LEMMA IoCloseErrorType ==
  ASSUME sock
            \in [Sockets -> SocketRec], evtQ \in Seq(Evts), io \in IoRec, IoCloseError(io.sock)
  PROVE  sock' \in [Sockets -> SocketRec] /\ evtQ' \in Seq(Evts)
<1>1. [sock EXCEPT ![io.sock].state = "DELETE"] \in [Sockets -> SocketRec]
  BY SockUpdate DEF States
<1>2. Append(evtQ, Entry("SYSTEM_ERROR", io.sock, 0)) \in Seq(Evts)
  BY PushEvtType DEF EvtTypes, IoRec
<1>3. QED
  BY <1>1, <1>2 DEF IoCloseError, PushEvt

LEMMA ServedType ==
  ASSUME io \in IoRec, NEW e, Served(e)
  PROVE  io' \in IoRec
<1>1. /\ io.sock \in Sockets \cup {NoSock}
      /\ io.evts \ {e} \in SUBSET {"out", "in", "err"}
  BY DEF IoRec
<1>2. (IF io.evts = {e} THEN NoSock ELSE io.sock) \in Sockets \cup {NoSock}
  BY <1>1
<1>3. QED
  BY <1>1, <1>2, IoUpdate DEF Served, IoPcs

-----------------------------------------------------------------------------
(***************************************************************************)
(* A handler in progress has its entry at the head of its queue, because   *)
(* _do_net_evt and _do_net_req pop it only when they are done; and a check *)
(* of the main thread inside a callback returns to the parse loop.         *)
(***************************************************************************)
Heads ==
  /\ InParse => evtQ # <<>>
  /\ main.pc \in {"idle", "parse"} => main.ret = "idle"
  /\ io.req => reqQ # <<>> /\ io.pc # "idle"

LEMMA TypeInit == Init => TypeOK /\ Heads
<1>1. ASSUME Init PROVE TypeOK
  BY <1>1, ResetType, ConstType DEF Init, TypeOK, MainRec, IoRec
<1>2. ASSUME Init PROVE Heads
  BY <1>2 DEF Init, Heads, InParse
<1>3. QED
  BY <1>1, <1>2

(* the lesser of two numbers, as the room for a read is computed           *)
LEMMA MinBounds ==
  ASSUME NEW a \in Int, NEW b \in Int
  PROVE  Min2(a, b) \in Int /\ Min2(a, b) <= a
BY DEF Min2

(* Every action keeps the type, given that the queues are not empty where  *)
(* a handler is in progress.                                               *)
LEMMA TypeNext == TypeOK /\ Heads /\ [Next]_vars => TypeOK'
<1> SUFFICES ASSUME TypeOK, Heads, [Next]_vars PROVE TypeOK'
  OBVIOUS
<1>1. /\ allocated \subseteq Sockets
      /\ sock \in [Sockets -> SocketRec] /\ snd \in [Sockets -> SendRec]
      /\ rcv \in [Sockets -> RecvRec] /\ net \in [Sockets -> NetRec]
      /\ reqQ \in Seq(Reqs) /\ evtQ \in Seq(Evts)
      /\ main \in MainRec /\ io \in IoRec /\ opened \in 0 .. MaxOpen
  BY DEF TypeOK
<1>2. ASSUME NEW s \in Sockets, NetTcpConnect(s)
      PROVE  TypeOK'
  <2>1. [sock EXCEPT ![s] = [ResetSocket EXCEPT !.state = "CONNECT"]]
            \in [Sockets -> SocketRec]
    BY <1>1, SockUpdate, ResetType
  <2>2. ResetData(s) => (snd' \in [Sockets -> SendRec] /\ rcv'
            \in [Sockets -> RecvRec])
    BY <1>1, SndUpdate, RcvUpdate, ResetType DEF ResetData
  <2>3. [net EXCEPT ![s] = NoNet] \in [Sockets -> NetRec]
    BY <1>1, NetUpdate, ResetType
  <2>4. Append(reqQ, Entry("CONNECT", s, 0)) \in Seq(Reqs)
    BY <1>1, PushReqType DEF ReqTypes
  <2>5. opened + 1 \in 0 .. MaxOpen
    BY <1>1, <1>2, ConstType DEF NetTcpConnect
  <2>6. QED
    BY <1>1, <1>2, <2>1, <2>2, <2>3, <2>4, <2>5 DEF TypeOK, NetTcpConnect, PushReq
<1>3. ASSUME NEW s \in Sockets, NetTcpSend(s)
      PROVE  TypeOK'
  <2>1. main.sock \in Sockets \cup {NoSock} /\ main.ret \in {"idle", "parse"} /\ main.parsed \in Nat
    BY <1>1 DEF MainRec
  <2>2. MainClose(s, "MODULE_TERMINATE") => (sock'
            \in [Sockets -> SocketRec] /\ reqQ' \in Seq(Reqs))
    BY <1>1, MainCloseType DEF TerminateTypes
  <2>3. snd[s].cache + 1 \in Nat /\ snd[s].data_need_send + 1 \in Nat
    BY <1>1 DEF SendRec
  <2>4. [snd EXCEPT ![s].cache = snd[s].cache + 1] \in [Sockets -> SendRec]
    BY <1>1, <2>3, SndUpdate
  <2>5. [snd EXCEPT ![s].cache = snd[s].cache + 1,
                    ![s].data_need_send = snd[s].data_need_send + 1]
            \in [Sockets -> SendRec]
    BY <1>1, <2>3, <2>4, SndUpdate
  <2>6. main.pc \in {"idle", "parse"}
    BY <1>1, <1>3 DEF NetTcpSend, InUser
  <2>7. [main EXCEPT !.pc = "delay", !.sock = s, !.ret = main.pc] \in MainRec
    BY <1>1, <2>6, MainUpdate, ConstType
  <2>8. QED
    BY <1>1, <1>3, <2>1, <2>2, <2>3, <2>4, <2>5, <2>6, <2>7
    DEF TypeOK, NetTcpSend, MainCheck
<1>4. ASSUME NEW s \in Sockets, NetTcpCloseSession(s)
      PROVE  TypeOK'
  <2>1. MainClose(s, "TERMINATE") => (sock'
            \in [Sockets -> SocketRec] /\ reqQ' \in Seq(Reqs))
    BY <1>1, MainCloseType DEF TerminateTypes
  <2>2. QED
    BY <1>1, <1>4, <2>1 DEF TypeOK, NetTcpCloseSession
<1>5. ASSUME NEW s \in Sockets, OnTimerSend(s)
      PROVE  TypeOK'
  <2>1. main.sock \in Sockets \cup {NoSock} /\ main.ret \in {"idle", "parse"} /\ main.parsed \in Nat
    BY <1>1 DEF MainRec
  <2>2. [main EXCEPT !.pc = "request", !.sock = s, !.ret = "idle"] \in MainRec
    BY <1>1, MainUpdate
  <2>3. QED
    BY <1>1, <1>5, <2>1, <2>2 DEF TypeOK, OnTimerSend, MainCheck
<1>6. ASSUME NEW s \in Sockets, OnTimerCloseRetry(s)
      PROVE  TypeOK'
  <2>1. sock[s].try_close_send_count + 1 \in 0 .. MaxTry
    BY <1>1, <1>6, ConstType DEF OnTimerCloseRetry, SocketRec
  <2>2. [sock EXCEPT ![s].try_close_send_count = sock[s].try_close_send_count + 1]
            \in [Sockets -> SocketRec]
    BY <1>1, <2>1, SockUpdate
  <2>3. [main EXCEPT !.pc = "request", !.sock = s, !.ret = "idle"] \in MainRec
    BY <1>1, MainUpdate
  <2>4. QED
    BY <1>1, <1>6, <2>1, <2>2, <2>3 DEF TypeOK, OnTimerCloseRetry, MainCheck
<1>7. ASSUME NEW s \in Sockets, OnTimerCloseGiveUp(s)
      PROVE  TypeOK'
  <2>1. Min2(sock[s].try_close_send_count + 1, MaxTry) \in 0 .. MaxTry
    BY <1>1, ConstType DEF Min2, SocketRec
  <2>2. [sock EXCEPT ![s].state = "DELETE"] \in [Sockets -> SocketRec]
    BY <1>1, SockUpdate DEF States
  <2>3. [sock EXCEPT ![s].state = "DELETE", ![s].try_close_send_count =
           Min2(sock[s].try_close_send_count + 1, MaxTry)]
            \in [Sockets -> SocketRec]
    BY <1>1, <2>1, <2>2, SockUpdate
  <2>4. QED
    BY <1>1, <1>7, <2>1, <2>2, <2>3 DEF TypeOK, OnTimerCloseGiveUp
<1>8. ASSUME NEW s \in Sockets, OnTimerCloseRequest(s)
      PROVE  TypeOK'
  <2>1. [sock EXCEPT ![s].need_req_close = FALSE] \in [Sockets -> SocketRec]
    BY <1>1, SockUpdate, ConstType
  <2>2. snd[s].send_req \in 0 .. AckMod - 1
    BY <1>1 DEF SendRec
  <2>3. [snd EXCEPT ![s].send_req = Counted(snd[s].send_req)]
            \in [Sockets -> SendRec]
    BY <1>1, <2>2, CountedType, SndUpdate
  <2>4. Append(reqQ, Entry("CLOSE_SOCKET", s, 0)) \in Seq(Reqs)
    BY <1>1, PushReqType DEF ReqTypes
  <2>5. QED
    BY <1>1, <1>8, <2>1, <2>2, <2>3, <2>4 DEF TypeOK, OnTimerCloseRequest, PushReq
<1>9. ASSUME NEW s \in Sockets, OnTimerCloseFree(s)
      PROVE  TypeOK'
  <2>1. [sock EXCEPT ![s] = ResetSocket] \in [Sockets -> SocketRec]
    BY <1>1, SockUpdate, ResetType
  <2>2. ResetData(s) => (snd' \in [Sockets -> SendRec] /\ rcv'
            \in [Sockets -> RecvRec])
    BY <1>1, SndUpdate, RcvUpdate, ResetType DEF ResetData
  <2>3. [net EXCEPT ![s] = NoNet] \in [Sockets -> NetRec]
    BY <1>1, NetUpdate, ResetType
  <2>4. QED
    BY <1>1, <1>9, <2>1, <2>2, <2>3 DEF TypeOK, OnTimerCloseFree
<1>10. ASSUME NEW s \in Sockets, PeerAnswer(s)
       PROVE  TypeOK'
  <2>1. net[s] \in NetRec
    BY <1>1
  <2>2. [net[s] EXCEPT !.peer = "open"] \in NetRec
    BY <1>1, <2>1 DEF NetRec
  <2>3. [net[s] EXCEPT !.peer = "open", !.edges = net[s].edges \cup {"out"}] \in NetRec
    BY <1>1, <2>1, <2>2 DEF NetRec
  <2>4. [net[s] EXCEPT !.peer = "refused"] \in NetRec
    BY <1>1, <2>1 DEF NetRec
  <2>5. [net[s] EXCEPT !.peer = "refused", !.edges = {"out", "in", "err"}] \in NetRec
    BY <1>1, <2>4 DEF NetRec
  <2>6. \A r \in NetRec : [net EXCEPT ![s] = r] \in [Sockets -> NetRec]
    BY <1>1, NetUpdate
  <2>7. QED
    BY <1>1, <1>10, <2>1, <2>2, <2>3, <2>4, <2>5, <2>6
    DEF TypeOK, PeerAnswer, KernelStep
<1>11. ASSUME NEW s \in Sockets, PeerSend(s)
       PROVE  TypeOK'
  <2>1. net[s] \in NetRec
    BY <1>1
  <2>2. net[s].inbound + 1 \in Nat /\ net[s].sent + 1 \in 0 .. MaxRecv
    BY <1>1, <2>1, <1>11, ConstType DEF PeerSend, NetRec
  <2>3. [net[s] EXCEPT !.inbound = net[s].inbound + 1] \in NetRec
    BY <1>1, <2>1, <2>2 DEF NetRec
  <2>4. [net[s] EXCEPT !.inbound = net[s].inbound + 1, !.sent = net[s].sent + 1] \in NetRec
    BY <1>1, <2>1, <2>2, <2>3 DEF NetRec
  <2>5. net[s].edges \cup {"in"} \in SUBSET {"out", "in", "err"}
    BY <1>1, <2>1 DEF NetRec
  <2>6. [net[s] EXCEPT !.inbound = net[s].inbound + 1, !.sent = net[s].sent + 1,
                        !.edges = net[s].edges \cup {"in"}] \in NetRec
    BY <1>1, <2>4, <2>5 DEF NetRec
  <2>7. \A r \in NetRec : [net EXCEPT ![s] = r] \in [Sockets -> NetRec]
    BY <1>1, NetUpdate
  <2>8. QED
    BY <1>1, <1>11, <2>1, <2>2, <2>3, <2>4, <2>5, <2>6, <2>7
    DEF TypeOK, PeerSend, KernelStep
<1>12. ASSUME NEW s \in Sockets, PeerClose(s)
       PROVE  TypeOK'
  <2>1. net[s] \in NetRec
    BY <1>1
  <2>2. [net[s] EXCEPT !.peer = "eof"] \in NetRec
    BY <1>1, <2>1 DEF NetRec
  <2>3. net[s].edges \cup {"in"} \in SUBSET {"out", "in", "err"}
    BY <1>1, <2>1 DEF NetRec
  <2>4. [net[s] EXCEPT !.peer = "eof", !.edges = net[s].edges \cup {"in"}] \in NetRec
    BY <1>1, <2>2, <2>3 DEF NetRec
  <2>5. \A r \in NetRec : [net EXCEPT ![s] = r] \in [Sockets -> NetRec]
    BY <1>1, NetUpdate
  <2>6. QED
    BY <1>1, <1>12, <2>1, <2>2, <2>3, <2>4, <2>5 DEF TypeOK, PeerClose, KernelStep
<1>13. ASSUME NEW s \in Sockets, PeerReset(s)
       PROVE  TypeOK'
  <2>1. net[s] \in NetRec
    BY <1>1
  <2>2. [net[s] EXCEPT !.peer = "reset"] \in NetRec
    BY <1>1, <2>1 DEF NetRec
  <2>3. [net[s] EXCEPT !.peer = "reset", !.inbound = 0] \in NetRec
    BY <1>1, <2>2 DEF NetRec
  <2>4. [net[s] EXCEPT !.peer = "reset", !.inbound = 0, !.edges = {"out", "in", "err"}] \in NetRec
    BY <1>1, <2>3 DEF NetRec
  <2>5. \A r \in NetRec : [net EXCEPT ![s] = r] \in [Sockets -> NetRec]
    BY <1>1, NetUpdate
  <2>6. QED
    BY <1>1, <1>13, <2>1, <2>2, <2>3, <2>4, <2>5 DEF TypeOK, PeerReset, KernelStep
<1>14. ASSUME NEW s \in Sockets, KernelDrain(s)
       PROVE  TypeOK'
  <2>1. net[s] \in NetRec
    BY <1>1
  <2>2. [net[s] EXCEPT !.full = FALSE] \in NetRec
    BY <1>1, <2>1 DEF NetRec
  <2>3. net[s].edges \cup {"out"} \in SUBSET {"out", "in", "err"}
    BY <1>1, <2>1 DEF NetRec
  <2>4. [net[s] EXCEPT !.full = FALSE, !.edges = net[s].edges \cup {"out"}] \in NetRec
    BY <1>1, <2>2, <2>3 DEF NetRec
  <2>5. \A r \in NetRec : [net EXCEPT ![s] = r] \in [Sockets -> NetRec]
    BY <1>1, NetUpdate
  <2>6. QED
    BY <1>1, <1>14, <2>1, <2>2, <2>3, <2>4, <2>5
    DEF TypeOK, KernelDrain, KernelStep
<1>15. ASSUME SendDelayCheck
       PROVE  TypeOK'
  <2>1. main.sock \in Sockets \cup {NoSock} /\ main.ret \in {"idle", "parse"} /\ main.parsed \in Nat
    BY <1>1 DEF MainRec
  <2>2. [main EXCEPT !.pc = main.ret, !.sock = NoSock, !.ret = "idle"] \in MainRec
    BY <1>1, <2>1, MainUpdate
  <2>3. [main EXCEPT !.pc = "request", !.sock = main.sock, !.ret = main.ret] \in MainRec
    BY <1>1, <2>1, MainUpdate
  <2>4. QED
    BY <1>1, <1>15, <2>1, <2>2, <2>3
    DEF TypeOK, SendDelayCheck, MainReturn, MainCheck
<1>16. ASSUME SendRequest
       PROVE  TypeOK'
  <2>1. main.sock \in Sockets \cup {NoSock} /\ main.ret \in {"idle", "parse"} /\ main.parsed \in Nat
    BY <1>1 DEF MainRec
  <2>2. [main EXCEPT !.pc = main.ret, !.sock = NoSock, !.ret = "idle"] \in MainRec
    BY <1>1, <2>1, MainUpdate
  <2>3. main.sock \in Sockets => snd[main.sock].send_req \in 0 .. AckMod - 1
    BY <1>1 DEF SendRec
  <2>4. [snd EXCEPT ![main.sock].send_req = Counted(snd[main.sock].send_req)]
            \in [Sockets -> SendRec]
    BY <1>1, <2>3, CountedType, SndUpdate
  <2>5. Append(reqQ, Entry("SEND", main.sock, 0)) \in Seq(Reqs)
    BY <1>1, <2>1, PushReqType DEF ReqTypes
  <2>6. QED
    BY <1>1, <1>16, <2>1, <2>2, <2>3, <2>4, <2>5
    DEF TypeOK, SendRequest, MainReturn, MainCheck, PushReq
<1>17. ASSUME EvtEstablish
       PROVE  TypeOK'
  <2>1. evtQ # <<>> /\ Tail(evtQ) \in Seq(Evts) /\ Head(evtQ) \in Evts
    BY <1>1, <1>17, PopType DEF HeadIs, EvtEstablish
  <2>2. [sock EXCEPT ![EvtSock].timer = "send"] \in [Sockets -> SocketRec]
    BY <1>1, SockUpdate, ConstType
  <2>3. QED
    BY <1>1, <1>17, <2>1, <2>2 DEF TypeOK, EvtEstablish
<1>18. ASSUME NEW type \in FinalTypes, EvtFinal(type)
       PROVE  TypeOK'
  <2>1. evtQ # <<>> /\ Tail(evtQ) \in Seq(Evts) /\ Head(evtQ) \in Evts
    BY <1>1, <1>18, PopType DEF HeadIs, EvtFinal
  <2>2. [sock EXCEPT ![EvtSock].timer = "close"] \in [Sockets -> SocketRec]
    BY <1>1, SockUpdate, ConstType
  <2>3. QED
    BY <1>1, <1>18, <2>1, <2>2 DEF TypeOK, EvtFinal
<1>19. ASSUME EvtRecvActivate
       PROVE  TypeOK'
  <2>1. evtQ # <<>> /\ Tail(evtQ) \in Seq(Evts) /\ Head(evtQ) \in Evts
    BY <1>1, <1>19, PopType DEF HeadIs, EvtRecvActivate
  <2>2. EvtSock \in Sockets \cup {NoSock}
    BY <1>1, <2>1 DEF EvtSock, Evts
  <2>3. MainClose(EvtSock, "MODULE_TERMINATE") => (sock'
            \in [Sockets -> SocketRec] /\ reqQ' \in Seq(Reqs))
    BY <1>1, <2>2, MainCloseType DEF TerminateTypes
  <2>4. Append(reqQ, Entry("RECV_ACTIVATE", EvtSock, 0)) \in Seq(Reqs)
    BY <1>1, <2>2, PushReqType DEF ReqTypes
  <2>5. QED
    BY <1>1, <1>19, <2>1, <2>2, <2>3, <2>4 DEF TypeOK, EvtRecvActivate, PushReq
<1>20. ASSUME EvtAccept
       PROVE  TypeOK'
  <2>1. evtQ # <<>> /\ Tail(evtQ) \in Seq(Evts) /\ Head(evtQ) \in Evts
    BY <1>1, <1>20, PopType DEF HeadIs, EvtAccept
  <2>2. \A s \in Sockets : [sock EXCEPT ![s] = [ResetSocket EXCEPT !.fd = TRUE, !.accepted = TRUE]]
            \in [Sockets -> SocketRec]
    BY <1>1, SockUpdate, ResetType
  <2>3. \A s \in Sockets : ResetData(s) => (snd' \in [Sockets -> SendRec] /\ rcv'
            \in [Sockets -> RecvRec])
    BY <1>1, SndUpdate, RcvUpdate, ResetType DEF ResetData
  <2>4. \A s \in Sockets : [net EXCEPT ![s] = [NoNet EXCEPT !.peer = "open"]]
            \in [Sockets -> NetRec]
    BY <1>1, NetUpdate, ResetType
  <2>5. \A s \in Sockets \cup {NoSock}, type \in {"ACCEPT", "ACCEPT_FAIL"} : Append(reqQ, Entry(type, s, 0)) \in Seq(Reqs)
    BY <1>1, PushReqType DEF ReqTypes
  <2>6. allocated' \subseteq Sockets
    BY <1>1, <1>20 DEF EvtAccept
  <2>7. sock' \in [Sockets -> SocketRec]
    BY <1>1, <1>20, <2>2 DEF EvtAccept
  <2>8. snd' \in [Sockets -> SendRec] /\ rcv' \in [Sockets -> RecvRec]
    BY <1>1, <1>20, <2>3 DEF EvtAccept
  <2>9. net' \in [Sockets -> NetRec]
    BY SMTT(30), <1>1, <1>20, <2>4 DEF EvtAccept
  <2>10. reqQ' \in Seq(Reqs)
    BY <1>1, <1>20, <2>5 DEF EvtAccept, PushReq
  <2>11. QED
    BY <1>1, <1>20, <2>1, <2>2, <2>3, <2>4, <2>5, <2>6, <2>7, <2>8, <2>9, <2>10
    DEF TypeOK, EvtAccept, PushReq
<1>21. ASSUME EvtData
       PROVE  TypeOK'
  <2>1. evtQ # <<>> /\ Tail(evtQ) \in Seq(Evts) /\ Head(evtQ) \in Evts
    BY <1>1, <1>21, PopType DEF HeadIs, EvtData
  <2>2. Head(evtQ).len \in Nat
    BY <1>1, <2>1 DEF Evts
  <2>3. EvtSock \in Sockets => rcv[EvtSock].data_has_recv + Head(evtQ).len \in Nat
    BY <1>1, <2>2 DEF RecvRec
  <2>4. [rcv EXCEPT ![EvtSock].data_has_recv = rcv[EvtSock].data_has_recv + Head(evtQ).len]
           \in [Sockets -> RecvRec]
    BY <1>1, <2>3, RcvUpdate
  <2>5. main.sock \in Sockets \cup {NoSock} /\ main.ret \in {"idle", "parse"} /\ main.parsed \in Nat
    BY <1>1 DEF MainRec
  <2>6. [main EXCEPT !.pc = "parse", !.parsed = 0] \in MainRec
    BY <1>1, <2>5, MainUpdate
  <2>7. QED
    BY <1>1, <1>21, <2>1, <2>2, <2>3, <2>4, <2>5, <2>6 DEF TypeOK, EvtData
<1>22. ASSUME NEW n \in 1 .. RecvCap, ParsePacket(n)
       PROVE  TypeOK'
  <2>1. main.sock \in Sockets \cup {NoSock} /\ main.ret \in {"idle", "parse"} /\ main.parsed \in Nat
    BY <1>1 DEF MainRec
  <2>2. n \in Nat /\ (EvtSock \in Sockets => rcv[EvtSock].data_has_recv - n \in Nat)
    BY <1>1, <1>22, ConstType DEF ParsePacket, RecvRec
  <2>3. [rcv EXCEPT ![EvtSock].data_has_recv = rcv[EvtSock].data_has_recv - n]
            \in [Sockets -> RecvRec]
    BY <1>1, <2>2, RcvUpdate
  <2>4. main.parsed + n \in Nat
    BY <1>1, <2>1, <2>2
  <2>5. [main EXCEPT !.parsed = main.parsed + n] \in MainRec
    BY <1>1, <2>1, <2>4, MainUpdate
  <2>6. QED
    BY <1>1, <1>22, <2>1, <2>2, <2>3, <2>4, <2>5 DEF TypeOK, ParsePacket
<1>23. ASSUME NEW bad \in BOOLEAN, ParseEnd(bad)
       PROVE  TypeOK'
  <2>1. main.sock \in Sockets \cup {NoSock} /\ main.ret \in {"idle", "parse"} /\ main.parsed \in Nat
    BY <1>1 DEF MainRec
  <2>2. evtQ # <<>> /\ Tail(evtQ) \in Seq(Evts) /\ Head(evtQ) \in Evts
    BY <1>1, <1>23, PopType DEF Heads, InParse, ParseEnd
  <2>3. EvtSock \in Sockets \cup {NoSock}
    BY <1>1, <2>2 DEF EvtSock, Evts
  <2>4. MainClose(EvtSock, "MODULE_TERMINATE") => (sock'
            \in [Sockets -> SocketRec] /\ reqQ' \in Seq(Reqs))
    BY <1>1, <2>3, MainCloseType DEF TerminateTypes
  <2>5. EvtSock \in Sockets => rcv[EvtSock].cache - main.parsed \in Int
    BY <1>1, <2>1 DEF RecvRec
  <2>6. [rcv EXCEPT ![EvtSock].cache = rcv[EvtSock].cache - main.parsed]
            \in [Sockets -> RecvRec]
    BY <1>1, <2>5, RcvUpdate
  <2>7. [main EXCEPT !.pc = "idle", !.parsed = 0] \in MainRec
    BY <1>1, <2>1, MainUpdate
  <2>8. QED
    BY <1>1, <1>23, <2>1, <2>2, <2>3, <2>4, <2>5, <2>6, <2>7 DEF TypeOK, ParseEnd
<1>24. ASSUME ReqSend
       PROVE  TypeOK'
  <2>1. reqQ # <<>> /\ Tail(reqQ) \in Seq(Reqs) /\ Head(reqQ) \in Reqs
    BY <1>1, <1>24, PopType DEF ReqIs, ReqSend
  <2>2. ReqSock \in Sockets \cup {NoSock}
    BY <1>1, <2>1 DEF ReqSock, Reqs
  <2>3. ReqSock \in Sockets => snd[ReqSock].send_ack \in 0 .. AckMod - 1
    BY <1>1 DEF SendRec
  <2>4. [snd EXCEPT ![ReqSock].send_ack = Counted(snd[ReqSock].send_ack)]
            \in [Sockets -> SendRec]
    BY <1>1, <2>3, CountedType, SndUpdate
  <2>5. io.evts \in SUBSET {"out", "in", "err"} /\ io.len \in Nat
    BY <1>1 DEF IoRec
  <2>6. [io EXCEPT !.pc = "on_send", !.sock = ReqSock, !.req = TRUE] \in IoRec
    BY <1>1, <2>2, <2>5, IoUpdate DEF IoPcs
  <2>7. QED
    BY <1>1, <1>24, <2>1, <2>2, <2>3, <2>4, <2>5, <2>6
    DEF TypeOK, ReqSend, IoServe
<1>25. ASSUME NEW ok \in BOOLEAN, ReqAccept(ok)
       PROVE  TypeOK'
  <2>1. reqQ # <<>> /\ Tail(reqQ) \in Seq(Reqs) /\ Head(reqQ) \in Reqs
    BY <1>1, <1>25, PopType DEF ReqIs, ReqAccept
  <2>2. ReqSock \in Sockets \cup {NoSock}
    BY <1>1, <2>1 DEF ReqSock, Reqs
  <2>3. [sock EXCEPT ![ReqSock].state = "ESTABLISH"] \in [Sockets -> SocketRec]
    BY <1>1, SockUpdate DEF States
  <2>4. [sock EXCEPT ![ReqSock].state = "DELETE"] \in [Sockets -> SocketRec]
    BY <1>1, SockUpdate DEF States
  <2>5. [sock EXCEPT ![ReqSock].state = "DELETE", ![ReqSock].fd = FALSE]
            \in [Sockets -> SocketRec]
    BY <1>1, <2>4, SockUpdate
  <2>6. [net EXCEPT ![ReqSock].watched = TRUE] \in [Sockets -> NetRec]
    BY <1>1, NetUpdate
  <2>7. ReqSock \in Sockets => net[ReqSock].edges \cup {"out"} \in SUBSET {"out", "in", "err"}
    BY <1>1 DEF NetRec
  <2>8. [net EXCEPT ![ReqSock].watched = TRUE, ![ReqSock].edges = net[ReqSock].edges \cup {"out"}]
            \in [Sockets -> NetRec]
    BY <1>1, <2>6, <2>7, NetUpdate
  <2>9. [net EXCEPT ![ReqSock] = NoNet] \in [Sockets -> NetRec]
    BY <1>1, NetUpdate, ResetType
  <2>10. \A type \in {"ESTABLISH", "ACCEPT_FAIL"} : Append(evtQ, Entry(type, ReqSock, 0)) \in Seq(Evts)
    BY <1>1, <2>2, PushEvtType DEF EvtTypes
  <2>11. QED
    BY <1>1, <1>25, <2>1, <2>2, <2>3, <2>4, <2>5, <2>6, <2>7, <2>8, <2>9, <2>10
    DEF TypeOK, ReqAccept, PushEvt
<1>26. ASSUME NEW ok \in BOOLEAN, ReqConnect(ok)
       PROVE  TypeOK'
  <2>1. reqQ # <<>> /\ Tail(reqQ) \in Seq(Reqs) /\ Head(reqQ) \in Reqs
    BY <1>1, <1>26, PopType DEF ReqIs, ReqConnect
  <2>2. ReqSock \in Sockets \cup {NoSock}
    BY <1>1, <2>1 DEF ReqSock, Reqs
  <2>3. [sock EXCEPT ![ReqSock].fd = TRUE] \in [Sockets -> SocketRec]
    BY <1>1, SockUpdate
  <2>4. [sock EXCEPT ![ReqSock].state = "DELETE"] \in [Sockets -> SocketRec]
    BY <1>1, SockUpdate DEF States
  <2>5. [net EXCEPT ![ReqSock].watched = TRUE] \in [Sockets -> NetRec]
    BY <1>1, NetUpdate
  <2>6. [net EXCEPT ![ReqSock].watched = TRUE, ![ReqSock].peer = "pending"]
            \in [Sockets -> NetRec]
    BY <1>1, <2>5, NetUpdate
  <2>7. Append(evtQ, Entry("CONNECT_FAIL", ReqSock, 0)) \in Seq(Evts)
    BY <1>1, <2>2, PushEvtType DEF EvtTypes
  <2>8. QED
    BY <1>1, <1>26, <2>1, <2>2, <2>3, <2>4, <2>5, <2>6, <2>7
    DEF TypeOK, ReqConnect, PushEvt
<1>27. ASSUME NEW type \in TerminateTypes, ReqTerminate(type)
       PROVE  TypeOK'
  <2>1. reqQ # <<>> /\ Tail(reqQ) \in Seq(Reqs) /\ Head(reqQ) \in Reqs
    BY <1>1, <1>27, PopType DEF ReqIs, ReqTerminate
  <2>2. ReqSock \in Sockets \cup {NoSock}
    BY <1>1, <2>1 DEF ReqSock, Reqs
  <2>3. \A t \in {"TERMINATE", "MODULE_ERROR"} : Append(evtQ, Entry(t, ReqSock, 0)) \in Seq(Evts)
    BY <1>1, <2>2, PushEvtType DEF EvtTypes
  <2>4. QED
    BY <1>1, <1>27, <2>1, <2>2, <2>3 DEF TypeOK, ReqTerminate, PushEvt
<1>28. ASSUME ReqRecvActivate
       PROVE  TypeOK'
  <2>1. reqQ # <<>> /\ Tail(reqQ) \in Seq(Reqs) /\ Head(reqQ) \in Reqs
    BY <1>1, <1>28, PopType DEF ReqIs, ReqRecvActivate
  <2>2. ReqSock \in Sockets \cup {NoSock}
    BY <1>1, <2>1 DEF ReqSock, Reqs
  <2>3. [rcv EXCEPT ![ReqSock].need_recv_active = FALSE] \in [Sockets -> RecvRec]
    BY <1>1, RcvUpdate
  <2>4. io.evts \in SUBSET {"out", "in", "err"} /\ io.len \in Nat
    BY <1>1 DEF IoRec
  <2>5. [io EXCEPT !.pc = "on_recv", !.sock = ReqSock, !.req = TRUE] \in IoRec
    BY <1>1, <2>2, <2>4, IoUpdate DEF IoPcs
  <2>6. QED
    BY <1>1, <1>28, <2>1, <2>2, <2>3, <2>4, <2>5
    DEF TypeOK, ReqRecvActivate, IoServe
<1>29. ASSUME ReqCloseSocket
       PROVE  TypeOK'
  <2>1. reqQ # <<>> /\ Tail(reqQ) \in Seq(Reqs) /\ Head(reqQ) \in Reqs
    BY <1>1, <1>29, PopType DEF ReqIs, ReqCloseSocket
  <2>2. ReqSock \in Sockets => snd[ReqSock].send_ack \in 0 .. AckMod - 1
    BY <1>1 DEF SendRec
  <2>3. [snd EXCEPT ![ReqSock].send_ack = Counted(snd[ReqSock].send_ack)]
            \in [Sockets -> SendRec]
    BY <1>1, <2>2, CountedType, SndUpdate
  <2>4. [sock EXCEPT ![ReqSock].fd = FALSE] \in [Sockets -> SocketRec]
    BY <1>1, SockUpdate
  <2>5. [net EXCEPT ![ReqSock] = NoNet] \in [Sockets -> NetRec]
    BY <1>1, NetUpdate, ResetType
  <2>6. QED
    BY <1>1, <1>29, <2>1, <2>2, <2>3, <2>4, <2>5 DEF TypeOK, ReqCloseSocket
<1>30. ASSUME ReqAcceptFail
       PROVE  TypeOK'
  <2>1. reqQ # <<>> /\ Tail(reqQ) \in Seq(Reqs) /\ Head(reqQ) \in Reqs
    BY <1>1, <1>30, PopType DEF ReqIs, ReqAcceptFail
  <2>2. QED
    BY <1>1, <1>30, <2>1 DEF TypeOK, ReqAcceptFail
<1>31. ASSUME NEW s \in Sockets, EpollWait(s)
       PROVE  TypeOK'
  <2>1. io.sock \in Sockets \cup {NoSock} /\ io.len \in Nat /\ io.evts \in SUBSET {"out", "in", "err"}
    BY <1>1 DEF IoRec
  <2>2. net[s].edges \in SUBSET {"out", "in", "err"}
    BY <1>1 DEF NetRec
  <2>3. [io EXCEPT !.evts = net[s].edges, !.sock = s] \in IoRec
    BY <1>1, <2>2, IoUpdate DEF IoPcs
  <2>4. [net EXCEPT ![s].edges = {}] \in [Sockets -> NetRec]
    BY <1>1, NetUpdate
  <2>5. QED
    BY <1>1, <1>31, <2>1, <2>2, <2>3, <2>4 DEF TypeOK, EpollWait
<1>32. ASSUME EpollOutConnect
       PROVE  TypeOK'
  <2>1. io.sock \in Sockets \cup {NoSock} /\ io.len \in Nat /\ io.evts \in SUBSET {"out", "in", "err"}
    BY <1>1 DEF IoRec
  <2>2. Served("out") => io' \in IoRec
    BY <1>1, ServedType
  <2>3. [sock EXCEPT ![io.sock].state = "DELETE"] \in [Sockets -> SocketRec]
    BY <1>1, SockUpdate DEF States
  <2>4. [sock EXCEPT ![io.sock].state = "ESTABLISH"] \in [Sockets -> SocketRec]
    BY <1>1, SockUpdate DEF States
  <2>5. \A type \in {"ESTABLISH", "CONNECT_FAIL"} : Append(evtQ, Entry(type, io.sock, 0)) \in Seq(Evts)
    BY <1>1, <2>1, PushEvtType DEF EvtTypes
  <2>6. QED
    BY <1>1, <1>32, <2>1, <2>2, <2>3, <2>4, <2>5
    DEF TypeOK, EpollOutConnect, ConnectFailed, PushEvt
<1>33. ASSUME EpollOut
       PROVE  TypeOK'
  <2>1. io.sock \in Sockets \cup {NoSock} /\ io.len \in Nat /\ io.evts \in SUBSET {"out", "in", "err"}
    BY <1>1 DEF IoRec
  <2>2. io.evts \ {"out"} \in SUBSET {"out", "in", "err"}
    BY <1>1, <2>1
  <2>3. [io EXCEPT !.pc = "on_send", !.evts = io.evts \ {"out"}] \in IoRec
    BY <1>1, <2>1, <2>2, IoUpdate DEF IoPcs
  <2>4. QED
    BY <1>1, <1>33, <2>1, <2>2, <2>3 DEF TypeOK, EpollOut
<1>34. ASSUME EpollIn
       PROVE  TypeOK'
  <2>1. io.sock \in Sockets \cup {NoSock} /\ io.len \in Nat /\ io.evts \in SUBSET {"out", "in", "err"}
    BY <1>1 DEF IoRec
  <2>2. io.evts \ {"in"} \in SUBSET {"out", "in", "err"}
    BY <1>1, <2>1
  <2>3. [io EXCEPT !.pc = "on_recv", !.evts = io.evts \ {"in"}] \in IoRec
    BY <1>1, <2>1, <2>2, IoUpdate DEF IoPcs
  <2>4. QED
    BY <1>1, <1>34, <2>1, <2>2, <2>3 DEF TypeOK, EpollIn
<1>35. ASSUME EpollErr
       PROVE  TypeOK'
  <2>1. io.sock \in Sockets \cup {NoSock} /\ io.len \in Nat /\ io.evts \in SUBSET {"out", "in", "err"}
    BY <1>1 DEF IoRec
  <2>2. Served("err") => io' \in IoRec
    BY <1>1, ServedType
  <2>3. [sock EXCEPT ![io.sock].state = "DELETE"] \in [Sockets -> SocketRec]
    BY <1>1, SockUpdate DEF States
  <2>4. Append(evtQ, Entry("CONNECT_FAIL", io.sock, 0)) \in Seq(Evts)
    BY <1>1, <2>1, PushEvtType DEF EvtTypes
  <2>5. IoCloseError(io.sock) => (sock'
            \in [Sockets -> SocketRec] /\ evtQ' \in Seq(Evts))
    BY <1>1, IoCloseErrorType
  <2>6. QED
    BY <1>1, <1>35, <2>1, <2>2, <2>3, <2>4, <2>5
    DEF TypeOK, EpollErr, ConnectFailed, PushEvt
<1>36. ASSUME OnSend
       PROVE  TypeOK'
  <2>1. IoReturn => (io' \in IoRec /\ reqQ' \in Seq(Reqs))
    BY <1>1, IoReturnType DEF Heads
  <2>2. IoGoto("send") => io' \in IoRec
    BY <1>1, IoGotoType DEF IoPcs
  <2>3. QED
    BY <1>1, <1>36, <2>1, <2>2 DEF TypeOK, OnSend
<1>37. ASSUME NEW n \in 1 .. SendCap, SendSome(n)
       PROVE  TypeOK'
  <2>1. io.sock \in Sockets => snd[io.sock].data_has_send \in Nat /\ snd[io.sock].cache \in Nat
    BY <1>1 DEF SendRec
  <2>2. n \in Nat /\ n \in 1 .. snd[io.sock].cache
    BY <1>1, <1>37, ConstType DEF SendSome
  <2>3. io.sock \in Sockets => snd[io.sock].data_has_send + n \in Nat /\ snd[io.sock].cache - n \in Nat
    BY <1>1, <2>1, <2>2
  <2>4. [snd EXCEPT ![io.sock].data_has_send = snd[io.sock].data_has_send + n]
            \in [Sockets -> SendRec]
    BY <1>1, <2>3, SndUpdate
  <2>5. [snd EXCEPT ![io.sock].data_has_send = snd[io.sock].data_has_send + n,
                    ![io.sock].cache = snd[io.sock].cache - n]
            \in [Sockets -> SendRec]
    BY <1>1, <2>3, <2>4, SndUpdate
  <2>6. \A f \in BOOLEAN : [net EXCEPT ![io.sock].full = f] \in [Sockets -> NetRec]
    BY <1>1, NetUpdate
  <2>7. QED
    BY <1>1, <1>37, <2>1, <2>2, <2>3, <2>4, <2>5, <2>6 DEF TypeOK, SendSome
<1>38. ASSUME SendAgain
       PROVE  TypeOK'
  <2>1. IoGoto("send_block") => io' \in IoRec
    BY <1>1, IoGotoType DEF IoPcs
  <2>2. QED
    BY <1>1, <1>38, <2>1 DEF TypeOK, SendAgain
<1>39. ASSUME SendError
       PROVE  TypeOK'
  <2>1. IoReturn => (io' \in IoRec /\ reqQ' \in Seq(Reqs))
    BY <1>1, IoReturnType DEF Heads
  <2>2. IoCloseError(io.sock) => (sock'
            \in [Sockets -> SocketRec] /\ evtQ' \in Seq(Evts))
    BY <1>1, IoCloseErrorType
  <2>3. QED
    BY <1>1, <1>39, <2>1, <2>2 DEF TypeOK, SendError
<1>40. ASSUME SendDrained
       PROVE  TypeOK'
  <2>1. IoGoto("send_done") => io' \in IoRec
    BY <1>1, IoGotoType DEF IoPcs
  <2>2. QED
    BY <1>1, <1>40, <2>1 DEF TypeOK, SendDrained
<1>41. ASSUME SetSendActive
       PROVE  TypeOK'
  <2>1. IoReturn => (io' \in IoRec /\ reqQ' \in Seq(Reqs))
    BY <1>1, IoReturnType DEF Heads
  <2>2. \A b \in BOOLEAN : [snd EXCEPT ![io.sock].need_send_active = b]
            \in [Sockets -> SendRec]
    BY <1>1, SndUpdate
  <2>3. QED
    BY <1>1, <1>41, <2>1, <2>2 DEF TypeOK, SetSendActive
<1>42. ASSUME OnRecv
       PROVE  TypeOK'
  <2>1. IoReturn => (io' \in IoRec /\ reqQ' \in Seq(Reqs))
    BY <1>1, IoReturnType DEF Heads
  <2>2. IoGoto("recv") => io' \in IoRec
    BY <1>1, IoGotoType DEF IoPcs
  <2>3. QED
    BY <1>1, <1>42, <2>1, <2>2 DEF TypeOK, OnRecv
<1>43. ASSUME NEW n \in 1 .. RecvCap, RecvSome(n)
       PROVE  TypeOK'
  <2>1. io.sock \in Sockets => net[io.sock].inbound \in Nat /\ rcv[io.sock].cache \in Int
    BY <1>1 DEF NetRec, RecvRec
  <2>2. io.sock \in Sockets => n <= net[io.sock].inbound
    <3>1. n \in 1 .. Min2(net[io.sock].inbound, RecvCap - rcv[io.sock].cache)
      BY <1>43 DEF RecvSome
    <3>2. ASSUME io.sock \in Sockets
          PROVE  Min2(net[io.sock].inbound, RecvCap - rcv[io.sock].cache)
                   \in Int
                 /\ Min2(net[io.sock].inbound, RecvCap - rcv[io.sock].cache)
                      <= net[io.sock].inbound
      <4>1. net[io.sock].inbound \in Int /\ RecvCap - rcv[io.sock].cache \in Int
        BY <2>1, <3>2, ConstType
      <4>2. QED
        BY <4>1, MinBounds
    <3>3. QED
      BY <2>1, <3>1, <3>2
  <2>3. io.sock \in Sockets => net[io.sock].inbound - n \in Nat /\ rcv[io.sock].cache + n \in Int
    BY <1>1, <2>1, <2>2, ConstType
  <2>4. [rcv EXCEPT ![io.sock].cache = rcv[io.sock].cache + n]
            \in [Sockets -> RecvRec]
    BY <1>1, <2>3, RcvUpdate
  <2>5. [net EXCEPT ![io.sock].inbound = net[io.sock].inbound - n]
            \in [Sockets -> NetRec]
    BY <1>1, <2>3, NetUpdate
  <2>6. io.sock \in Sockets \cup {NoSock} /\ io.len \in Nat /\ io.evts \in SUBSET {"out", "in", "err"}
    BY <1>1 DEF IoRec
  <2>7. io.len + n \in Nat
    BY <1>1, <2>6, ConstType
  <2>8. [io EXCEPT !.len = io.len + n] \in IoRec
    BY <1>1, <2>6, <2>7, IoUpdate DEF IoPcs
  <2>9. QED
    BY <1>1, <1>43, <2>1, <2>2, <2>3, <2>4, <2>5, <2>6, <2>7, <2>8
    DEF TypeOK, RecvSome
<1>44. ASSUME RecvPushData
       PROVE  TypeOK'
  <2>1. IoReturn => (io' \in IoRec /\ reqQ' \in Seq(Reqs))
    BY <1>1, IoReturnType DEF Heads
  <2>2. io.sock \in Sockets \cup {NoSock} /\ io.len \in Nat /\ io.evts \in SUBSET {"out", "in", "err"}
    BY <1>1 DEF IoRec
  <2>3. Append(evtQ, Entry("DATA", io.sock, io.len)) \in Seq(Evts)
    BY <1>1, <2>2, PushEvtType DEF EvtTypes
  <2>4. RecvOutcome \in IoPcs \/ RecvOutcome = "recv_again"
    BY <1>1 DEF RecvOutcome, IoPcs
  <2>5. RecvOutcome \in IoPcs /\ IoGoto(RecvOutcome) => io' \in IoRec
    BY <1>1, IoGotoType
  <2>6. QED
    BY <1>1, <1>44, <2>1, <2>2, <2>3, <2>4, <2>5 DEF TypeOK, RecvPushData
<1>45. ASSUME RecvEof
       PROVE  TypeOK'
  <2>1. IoReturn => (io' \in IoRec /\ reqQ' \in Seq(Reqs))
    BY <1>1, IoReturnType DEF Heads
  <2>2. io.sock \in Sockets \cup {NoSock} /\ io.len \in Nat /\ io.evts \in SUBSET {"out", "in", "err"}
    BY <1>1 DEF IoRec
  <2>3. [sock EXCEPT ![io.sock].try_close_send_count = MaxTry]
            \in [Sockets -> SocketRec]
    BY <1>1, SockUpdate, ConstType
  <2>4. [sock EXCEPT ![io.sock].try_close_send_count = MaxTry, ![io.sock].state = "TERMINATE"]
            \in [Sockets -> SocketRec]
    BY <1>1, <2>3, SockUpdate DEF States
  <2>5. Append(evtQ, Entry("TERMINATE", io.sock, 0)) \in Seq(Evts)
    BY <1>1, <2>2, PushEvtType DEF EvtTypes
  <2>6. QED
    BY <1>1, <1>45, <2>1, <2>2, <2>3, <2>4, <2>5 DEF TypeOK, RecvEof, PushEvt
<1>46. ASSUME RecvError
       PROVE  TypeOK'
  <2>1. IoReturn => (io' \in IoRec /\ reqQ' \in Seq(Reqs))
    BY <1>1, IoReturnType DEF Heads
  <2>2. IoCloseError(io.sock) => (sock'
            \in [Sockets -> SocketRec] /\ evtQ' \in Seq(Evts))
    BY <1>1, IoCloseErrorType
  <2>3. QED
    BY <1>1, <1>46, <2>1, <2>2 DEF TypeOK, RecvError
<1>47. ASSUME RecvFull
       PROVE  TypeOK'
  <2>1. IoReturn => (io' \in IoRec /\ reqQ' \in Seq(Reqs))
    BY <1>1, IoReturnType DEF Heads
  <2>2. io.sock \in Sockets \cup {NoSock} /\ io.len \in Nat /\ io.evts \in SUBSET {"out", "in", "err"}
    BY <1>1 DEF IoRec
  <2>3. [rcv EXCEPT ![io.sock].need_recv_active = TRUE] \in [Sockets -> RecvRec]
    BY <1>1, RcvUpdate
  <2>4. Append(evtQ, Entry("RECV_ACTIVATE", io.sock, 0)) \in Seq(Evts)
    BY <1>1, <2>2, PushEvtType DEF EvtTypes
  <2>5. QED
    BY <1>1, <1>47, <2>1, <2>2, <2>3, <2>4 DEF TypeOK, RecvFull, PushEvt
<1>48. ASSUME ListenerOnAccept
       PROVE  TypeOK'
  <2>1. Append(evtQ, Entry("ACCEPT", NoSock, 0)) \in Seq(Evts)
    BY <1>1, PushEvtType DEF EvtTypes
  <2>2. opened + 1 \in 0 .. MaxOpen
    BY <1>1, <1>48, ConstType DEF ListenerOnAccept
  <2>3. QED
    BY <1>1, <1>48, <2>1, <2>2 DEF TypeOK, ListenerOnAccept, PushEvt
<1>49. CASE AllDone
  BY <1>49 DEF AllDone, TypeOK, vars
<1>50. CASE UNCHANGED vars
  BY <1>50 DEF TypeOK, vars
<1>51. QED
  BY <1>1, <1>2, <1>3, <1>4, <1>5, <1>6, <1>7, <1>8, <1>9, <1>10, <1>11,
     <1>12, <1>13, <1>14, <1>15, <1>16, <1>17, <1>18, <1>19, <1>20, <1>21,
     <1>22, <1>23, <1>24, <1>25, <1>26, <1>27, <1>28, <1>29, <1>30, <1>31,
     <1>32, <1>33, <1>34, <1>35, <1>36, <1>37, <1>38, <1>39, <1>40, <1>41,
     <1>42, <1>43, <1>44, <1>45, <1>46, <1>47, <1>48, <1>49, <1>50
  DEF Next, User, OnTimer, Peer, DoNetEvt, SendChecks, DoNetReq, DoEpollEvt, IoSend, IoRecv

(* What the steps of the two threads leave in their locals.                *)
LEMMA MainCheckFields ==
  ASSUME main \in MainRec, NEW pc, NEW s, NEW ret, MainCheck(pc, s, ret)
  PROVE  main'.pc = pc /\ main'.sock = s /\ main'.ret = ret /\ main'.parsed = main.parsed
BY DEF MainCheck, MainRec

LEMMA MainFields ==
  ASSUME main \in MainRec, NEW pc, NEW n
  PROVE  /\ [main EXCEPT !.pc = pc, !.parsed = n].pc = pc
         /\ [main EXCEPT !.pc = pc, !.parsed = n].ret = main.ret
         /\ [main EXCEPT !.parsed = n].pc = main.pc
         /\ [main EXCEPT !.parsed = n].ret = main.ret
BY DEF MainRec

LEMMA IoReturnFields ==
  ASSUME io \in IoRec, IoReturn
  PROVE  /\ io'.pc = "idle" /\ ~ io'.req /\ io'.evts = io.evts
         /\ io'.sock = IF io.evts = {} THEN NoSock ELSE io.sock
         /\ reqQ' = IF io.req THEN Tail(reqQ) ELSE reqQ
BY DEF IoReturn, IoRec

LEMMA IoGotoFields ==
  ASSUME io \in IoRec, NEW pc, IoGoto(pc)
  PROVE  io'.pc = pc /\ io'.req = io.req /\ io'.evts = io.evts /\ io'.sock = io.sock
BY DEF IoGoto, IoRec

LEMMA IoFields ==
  ASSUME io \in IoRec, NEW pc, NEW s, NEW e, NEW n
  PROVE  /\ [io EXCEPT !.pc = pc, !.sock = s, !.req = TRUE].pc = pc
         /\ [io EXCEPT !.evts = e, !.sock = s].pc = io.pc
         /\ [io EXCEPT !.evts = e, !.sock = s].req = io.req
         /\ [io EXCEPT !.pc = pc, !.evts = e].req = io.req
         /\ [io EXCEPT !.pc = pc, !.evts = e].pc = pc
         /\ [io EXCEPT !.len = n].pc = io.pc
         /\ [io EXCEPT !.len = n].req = io.req
BY DEF IoRec

(* The queue of a handler in progress is only ever appended to, and only   *)
(* the end of the handler pops it.                                         *)
LEMMA HeadsNext == TypeOK /\ Heads /\ [Next]_vars => Heads'
<1> SUFFICES ASSUME TypeOK, Heads, [Next]_vars PROVE Heads'
  OBVIOUS
<1>1. Heads /\ main \in MainRec /\ io \in IoRec
  BY DEF TypeOK
<1>2. \A e : Append(evtQ, e) # <<>> /\ Append(reqQ, e) # <<>>
  BY DEF TypeOK
<1>3. ASSUME NEW s \in Sockets, NetTcpConnect(s)
      PROVE  Heads'
  BY <1>1, <1>2, <1>3 DEF Heads, InParse, NetTcpConnect, PushReq
<1>4. ASSUME NEW s \in Sockets, NetTcpSend(s)
      PROVE  Heads'
  BY <1>1, <1>2, <1>4, MainCheckFields
  DEF Heads, InParse, NetTcpSend, MainClose, PushReq, InUser
<1>5. ASSUME NEW s \in Sockets, NetTcpCloseSession(s)
      PROVE  Heads'
  BY <1>1, <1>2, <1>5 DEF Heads, InParse, NetTcpCloseSession, MainClose, PushReq
<1>6. ASSUME NEW s \in Sockets, OnTimerSend(s)
      PROVE  Heads'
  BY <1>1, <1>2, <1>6, MainCheckFields DEF Heads, InParse, OnTimerSend, Fires
<1>7. ASSUME NEW s \in Sockets, OnTimerCloseRetry(s)
      PROVE  Heads'
  BY <1>1, <1>2, <1>7, MainCheckFields
  DEF Heads, InParse, OnTimerCloseRetry, Fires
<1>8. ASSUME NEW s \in Sockets, OnTimerCloseGiveUp(s)
      PROVE  Heads'
  BY <1>1, <1>2, <1>8 DEF Heads, InParse, OnTimerCloseGiveUp
<1>9. ASSUME NEW s \in Sockets, OnTimerCloseRequest(s)
      PROVE  Heads'
  BY <1>1, <1>2, <1>9 DEF Heads, InParse, OnTimerCloseRequest, PushReq
<1>10. ASSUME NEW s \in Sockets, OnTimerCloseFree(s)
       PROVE  Heads'
  BY <1>1, <1>2, <1>10 DEF Heads, InParse, OnTimerCloseFree
<1>11. ASSUME NEW s \in Sockets, PeerAnswer(s)
       PROVE  Heads'
  BY <1>1, <1>2, <1>11 DEF Heads, InParse, PeerAnswer, KernelStep
<1>12. ASSUME NEW s \in Sockets, PeerSend(s)
       PROVE  Heads'
  BY <1>1, <1>2, <1>12 DEF Heads, InParse, PeerSend, KernelStep
<1>13. ASSUME NEW s \in Sockets, PeerClose(s)
       PROVE  Heads'
  BY <1>1, <1>2, <1>13 DEF Heads, InParse, PeerClose, KernelStep
<1>14. ASSUME NEW s \in Sockets, PeerReset(s)
       PROVE  Heads'
  BY <1>1, <1>2, <1>14 DEF Heads, InParse, PeerReset, KernelStep
<1>15. ASSUME NEW s \in Sockets, KernelDrain(s)
       PROVE  Heads'
  BY <1>1, <1>2, <1>15 DEF Heads, InParse, KernelDrain, KernelStep
<1>16. ASSUME SendDelayCheck
       PROVE  Heads'
  BY <1>1, <1>2, <1>16, MainCheckFields
  DEF Heads, InParse, SendDelayCheck, MainReturn
<1>17. ASSUME SendRequest
       PROVE  Heads'
  BY <1>1, <1>2, <1>17, MainCheckFields
  DEF Heads, InParse, SendRequest, MainReturn, PushReq
<1>18. ASSUME EvtEstablish
       PROVE  Heads'
  BY <1>1, <1>2, <1>18 DEF Heads, InParse, EvtEstablish, HeadIs
<1>19. ASSUME NEW type \in FinalTypes, EvtFinal(type)
       PROVE  Heads'
  BY <1>1, <1>2, <1>19 DEF Heads, InParse, EvtFinal, HeadIs
<1>20. ASSUME EvtRecvActivate
       PROVE  Heads'
  BY <1>1, <1>2, <1>20
  DEF Heads, InParse, EvtRecvActivate, HeadIs, PushReq, MainClose
<1>21. ASSUME EvtAccept
       PROVE  Heads'
  BY <1>1, <1>2, <1>21 DEF Heads, InParse, EvtAccept, HeadIs, PushReq
<1>22. ASSUME EvtData
       PROVE  Heads'
  BY <1>1, <1>2, <1>22, MainFields DEF Heads, InParse, EvtData, HeadIs
<1>23. ASSUME NEW n \in 1 .. RecvCap, ParsePacket(n)
       PROVE  Heads'
  BY <1>1, <1>2, <1>23, MainFields DEF Heads, InParse, ParsePacket
<1>24. ASSUME NEW bad \in BOOLEAN, ParseEnd(bad)
       PROVE  Heads'
  BY <1>1, <1>2, <1>24, MainFields
  DEF Heads, InParse, ParseEnd, MainClose, PushReq
<1>25. ASSUME ReqSend
       PROVE  Heads'
  BY <1>1, <1>2, <1>25, IoFields
  DEF Heads, InParse, ReqSend, ReqIs, IoIdle, IoServe
<1>26. ASSUME NEW ok \in BOOLEAN, ReqAccept(ok)
       PROVE  Heads'
  BY <1>1, <1>2, <1>26 DEF Heads, InParse, ReqAccept, ReqIs, IoIdle, PushEvt
<1>27. ASSUME NEW ok \in BOOLEAN, ReqConnect(ok)
       PROVE  Heads'
  BY <1>1, <1>2, <1>27 DEF Heads, InParse, ReqConnect, ReqIs, IoIdle, PushEvt
<1>28. ASSUME NEW type \in TerminateTypes, ReqTerminate(type)
       PROVE  Heads'
  BY <1>1, <1>2, <1>28 DEF Heads, InParse, ReqTerminate, ReqIs, IoIdle, PushEvt
<1>29. ASSUME ReqRecvActivate
       PROVE  Heads'
  BY <1>1, <1>2, <1>29, IoFields
  DEF Heads, InParse, ReqRecvActivate, ReqIs, IoIdle, IoServe
<1>30. ASSUME ReqCloseSocket
       PROVE  Heads'
  BY <1>1, <1>2, <1>30 DEF Heads, InParse, ReqCloseSocket, ReqIs, IoIdle
<1>31. ASSUME ReqAcceptFail
       PROVE  Heads'
  BY <1>1, <1>2, <1>31 DEF Heads, InParse, ReqAcceptFail, ReqIs, IoIdle
<1>32. ASSUME NEW s \in Sockets, EpollWait(s)
       PROVE  Heads'
  BY <1>1, <1>2, <1>32, IoFields DEF Heads, InParse, EpollWait, IoIdle
<1>33. ASSUME EpollOutConnect
       PROVE  Heads'
  BY <1>1, <1>2, <1>33, IoFields
  DEF Heads, InParse, EpollOutConnect, Serves, Served, ConnectFailed, PushEvt
<1>34. ASSUME EpollOut
       PROVE  Heads'
  BY <1>1, <1>2, <1>34, IoFields DEF Heads, InParse, EpollOut, Serves
<1>35. ASSUME EpollIn
       PROVE  Heads'
  BY <1>1, <1>2, <1>35, IoFields DEF Heads, InParse, EpollIn, Serves
<1>36. ASSUME EpollErr
       PROVE  Heads'
  BY <1>1, <1>2, <1>36, IoFields
  DEF Heads, InParse, EpollErr, Serves, Served, ConnectFailed, PushEvt,
      IoCloseError
<1>37. ASSUME OnSend
       PROVE  Heads'
  <2>1. IoReturn \/ (IoGoto("send") /\ UNCHANGED reqQ)
    BY <1>37 DEF OnSend
  <2>2. UNCHANGED main /\ (UNCHANGED evtQ \/ \E e : evtQ' = Append(evtQ, e))
    BY <1>37 DEF OnSend
  <2>3. IoReturn => ~ io'.req
    BY <1>1, IoReturnFields
  <2>4. IoGoto("send") => io'.req = io.req /\ io'.pc # "idle"
    BY <1>1, IoGotoFields
  <2>5. io'.req => reqQ' # <<>> /\ io'.pc # "idle"
    BY <1>1, <2>1, <2>3, <2>4 DEF Heads
  <2>6. QED
    BY <1>1, <1>2, <2>2, <2>5 DEF Heads, InParse
<1>38. ASSUME NEW n \in 1 .. SendCap, SendSome(n)
       PROVE  Heads'
  BY <1>1, <1>2, <1>38 DEF Heads, InParse, SendSome
<1>39. ASSUME SendAgain
       PROVE  Heads'
  BY <1>1, <1>2, <1>39, IoReturnFields, IoGotoFields DEF Heads, InParse, SendAgain
<1>40. ASSUME SendError
       PROVE  Heads'
  <2>1. IoReturn
    BY <1>40 DEF SendError
  <2>2. UNCHANGED main /\ (UNCHANGED evtQ \/ \E e : evtQ' = Append(evtQ, e))
    BY <1>40 DEF SendError, IoCloseError, PushEvt
  <2>3. IoReturn => ~ io'.req
    BY <1>1, IoReturnFields
  <2>5. io'.req => reqQ' # <<>> /\ io'.pc # "idle"
    BY <1>1, <2>1, <2>3 DEF Heads
  <2>6. QED
    BY <1>1, <1>2, <2>2, <2>5 DEF Heads, InParse
<1>41. ASSUME SendDrained
       PROVE  Heads'
  BY <1>1, <1>2, <1>41, IoReturnFields, IoGotoFields
  DEF Heads, InParse, SendDrained
<1>42. ASSUME SetSendActive
       PROVE  Heads'
  BY <1>1, <1>2, <1>42, IoReturnFields, IoGotoFields
  DEF Heads, InParse, SetSendActive
<1>43. ASSUME OnRecv
       PROVE  Heads'
  <2>1. IoReturn \/ (IoGoto("recv") /\ UNCHANGED reqQ)
    BY <1>43 DEF OnRecv
  <2>2. UNCHANGED main /\ (UNCHANGED evtQ \/ \E e : evtQ' = Append(evtQ, e))
    BY <1>43 DEF OnRecv
  <2>3. IoReturn => ~ io'.req
    BY <1>1, IoReturnFields
  <2>4. IoGoto("recv") => io'.req = io.req /\ io'.pc # "idle"
    BY <1>1, IoGotoFields
  <2>5. io'.req => reqQ' # <<>> /\ io'.pc # "idle"
    BY <1>1, <2>1, <2>3, <2>4 DEF Heads
  <2>6. QED
    BY <1>1, <1>2, <2>2, <2>5 DEF Heads, InParse
<1>44. ASSUME NEW n \in 1 .. RecvCap, RecvSome(n)
       PROVE  Heads'
  BY <1>1, <1>2, <1>44, IoFields DEF Heads, InParse, RecvSome
<1>45. ASSUME RecvPushData
       PROVE  Heads'
  <2>1. IoReturn \/ (IoGoto(RecvOutcome) /\ UNCHANGED reqQ)
    BY <1>45 DEF RecvPushData
  <2>2. UNCHANGED main /\ (UNCHANGED evtQ \/ \E e : evtQ' = Append(evtQ, e))
    BY <1>45 DEF RecvPushData
  <2>3. IoReturn => ~ io'.req
    BY <1>1, IoReturnFields
  <2>4. IoGoto(RecvOutcome) => io'.req = io.req /\ io'.pc # "idle"
    BY <1>1, IoGotoFields DEF RecvOutcome
  <2>5. io'.req => reqQ' # <<>> /\ io'.pc # "idle"
    BY <1>1, <2>1, <2>3, <2>4 DEF Heads
  <2>6. QED
    BY <1>1, <1>2, <2>2, <2>5 DEF Heads, InParse
<1>46. ASSUME RecvEof
       PROVE  Heads'
  BY <1>1, <1>2, <1>46, IoReturnFields, IoGotoFields
  DEF Heads, InParse, RecvEof, PushEvt
<1>47. ASSUME RecvError
       PROVE  Heads'
  BY <1>1, <1>2, <1>47, IoReturnFields, IoGotoFields
  DEF Heads, InParse, RecvError, IoCloseError, PushEvt
<1>48. ASSUME RecvFull
       PROVE  Heads'
  BY <1>1, <1>2, <1>48, IoReturnFields, IoGotoFields
  DEF Heads, InParse, RecvFull, PushEvt
<1>49. ASSUME ListenerOnAccept
       PROVE  Heads'
  BY <1>1, <1>2, <1>49 DEF Heads, InParse, ListenerOnAccept, IoIdle, PushEvt
<1>50. CASE AllDone
  BY <1>50 DEF AllDone, Heads, InParse, vars
<1>51. CASE UNCHANGED vars
  BY <1>51 DEF Heads, InParse, vars
<1>52. QED
  BY <1>1, <1>2, <1>3, <1>4, <1>5, <1>6, <1>7, <1>8, <1>9, <1>10, <1>11,
     <1>12, <1>13, <1>14, <1>15, <1>16, <1>17, <1>18, <1>19, <1>20, <1>21,
     <1>22, <1>23, <1>24, <1>25, <1>26, <1>27, <1>28, <1>29, <1>30, <1>31,
     <1>32, <1>33, <1>34, <1>35, <1>36, <1>37, <1>38, <1>39, <1>40, <1>41,
     <1>42, <1>43, <1>44, <1>45, <1>46, <1>47, <1>48, <1>49, <1>50, <1>51
  DEF Next, User, OnTimer, Peer, DoNetEvt, SendChecks, DoNetReq, DoEpollEvt, IoSend, IoRecv

-----------------------------------------------------------------------------
(* In every reachable state every variable has its type: in particular no  *)
(* handler works on the entry of an empty queue, send_req and send_ack are *)
(* counters modulo AckMod, and no close is attempted more than MaxTry times. *)
THEOREM TypeCorrect == Spec => []TypeOK
<1>1. Init => TypeOK /\ Heads
  BY TypeInit
<1>2. (TypeOK /\ Heads) /\ [Next]_vars => (TypeOK /\ Heads)'
  BY TypeNext, HeadsNext
<1>3. QED
  BY <1>1, <1>2, PTL DEF Spec

-----------------------------------------------------------------------------
(***************************************************************************)
(* Queues of entries: which name a socket, and in which order.             *)
(***************************************************************************)
Names(q, s) == \E i \in DOMAIN q : q[i].sock = s
Has(q, s, T) == \E i \in DOMAIN q : q[i].sock = s /\ q[i].type \in T

(* Nothing of s follows an entry of one of the types T; nothing precedes   *)
(* one; there is at most one.                                              *)
LastOf(q, s, T) ==
  \A i, j \in DOMAIN q : i < j /\ q[i].sock = s /\ q[i].type \in T => q[j].sock # s
FirstOf(q, s, T) ==
  \A i, j \in DOMAIN q : i < j /\ q[j].sock = s /\ q[j].type \in T => q[i].sock # s
Once(q, s, T) ==
  \A i, j \in DOMAIN q :
    q[i].sock = s /\ q[i].type \in T /\ q[j].sock = s /\ q[j].type \in T => i = j

(* r says no more of s than q.                                             *)
Fewer(q, r, s) ==
  /\ Names(r, s) => Names(q, s)
  /\ \A T : /\ Has(r, s, T) => Has(q, s, T)
            /\ LastOf(q, s, T) => LastOf(r, s, T)
            /\ FirstOf(q, s, T) => FirstOf(r, s, T)
            /\ Once(q, s, T) => Once(r, s, T)

LEMMA Entries ==
  ASSUME NEW R, NEW q \in Seq(R), NEW e \in R
  PROVE  /\ Len(Append(q, e)) = Len(q) + 1 /\ Len(q) \in Nat
         /\ DOMAIN Append(q, e) = 1 .. Len(q) + 1 /\ DOMAIN q = 1 .. Len(q)
         /\ \A i \in 1 .. Len(q) : Append(q, e)[i] = q[i]
         /\ Append(q, e)[Len(q) + 1] = e
OBVIOUS

LEMMA Tails ==
  ASSUME NEW R, NEW q \in Seq(R), q # <<>>
  PROVE  /\ Len(Tail(q)) = Len(q) - 1 /\ Len(q) \in Nat \ {0}
         /\ DOMAIN Tail(q) = 1 .. Len(q) - 1 /\ DOMAIN q = 1 .. Len(q)
         /\ \A i \in 1 .. Len(q) - 1 : Tail(q)[i] = q[i + 1]
         /\ Head(q) = q[1]
OBVIOUS

LEMMA Pushed ==
  ASSUME NEW R, NEW q \in Seq(R), NEW e \in R, NEW s
  PROVE  /\ Names(Append(q, e), s) <=> Names(q, s) \/ e.sock = s
         /\ \A T : /\ Has(Append(q, e), s, T) <=> Has(q, s, T) \/ (e.sock = s /\ e.type \in T)
                   /\ LastOf(q, s, T) /\ (e.sock = s => ~ Has(q, s, T))
                      => LastOf(Append(q, e), s, T)
                   /\ FirstOf(q, s, T) /\ (e.sock = s /\ e.type \in T => ~ Names(q, s))
                      => FirstOf(Append(q, e), s, T)
                   /\ Once(q, s, T) /\ (e.sock = s /\ e.type \in T => ~ Has(q, s, T))
                      => Once(Append(q, e), s, T)
<1> DEFINE r == Append(q, e)
           n == Len(q)
<1>1. /\ n \in Nat /\ DOMAIN r = 1 .. n + 1 /\ DOMAIN q = 1 .. n
      /\ \A i \in 1 .. n : r[i] = q[i]
      /\ r[n + 1] = e
  BY Entries
<1> HIDE DEF r, n
<1>2. Names(r, s) <=> Names(q, s) \/ e.sock = s
  BY <1>1 DEF Names
<1>3. ASSUME NEW T
      PROVE  Has(r, s, T) <=> Has(q, s, T) \/ (e.sock = s /\ e.type \in T)
  BY <1>1 DEF Has
<1>4. ASSUME NEW T, LastOf(q, s, T), e.sock = s => ~ Has(q, s, T)
      PROVE  LastOf(r, s, T)
  <2> SUFFICES ASSUME NEW i \in 1 .. n + 1, NEW j \in 1 .. n + 1, i < j, r[i].sock = s, r[i].type \in T
               PROVE  r[j].sock # s
    BY <1>1 DEF LastOf
  <2>1. i \in 1 .. n
    BY <1>1
  <2>2. CASE j = n + 1
    BY <1>1, <1>4, <2>1, <2>2 DEF Has
  <2>3. CASE j \in 1 .. n
    BY <1>1, <1>4, <2>1, <2>3 DEF LastOf
  <2> QED BY <1>1, <2>2, <2>3
<1>5. ASSUME NEW T, FirstOf(q, s, T), e.sock = s /\ e.type \in T => ~ Names(q, s)
      PROVE  FirstOf(r, s, T)
  <2> SUFFICES ASSUME NEW i \in 1 .. n + 1, NEW j \in 1 .. n + 1, i < j, r[j].sock = s, r[j].type \in T
               PROVE  r[i].sock # s
    BY <1>1 DEF FirstOf
  <2>1. i \in 1 .. n
    BY <1>1
  <2>2. CASE j = n + 1
    BY <1>1, <1>5, <2>1, <2>2 DEF Names
  <2>3. CASE j \in 1 .. n
    BY <1>1, <1>5, <2>1, <2>3 DEF FirstOf
  <2> QED BY <1>1, <2>2, <2>3
<1>6. ASSUME NEW T, Once(q, s, T), e.sock = s /\ e.type \in T => ~ Has(q, s, T)
      PROVE  Once(r, s, T)
  <2> SUFFICES ASSUME NEW i \in DOMAIN r, NEW j \in DOMAIN r,
                      r[i].sock = s, r[i].type \in T, r[j].sock = s, r[j].type \in T
               PROVE  i = j
    BY DEF Once
  <2>1. CASE i \in 1 .. n /\ j \in 1 .. n
    BY <1>1, <1>6, <2>1 DEF Once
  <2>2. CASE i \in 1 .. n /\ j = n + 1
    BY <1>1, <1>6, <2>2 DEF Has
  <2>3. CASE j \in 1 .. n /\ i = n + 1
    BY <1>1, <1>6, <2>3 DEF Has
  <2> QED BY <1>1, <2>1, <2>2, <2>3
<1> QED BY <1>2, <1>3, <1>4, <1>5, <1>6 DEF r

LEMMA Popped ==
  ASSUME NEW R, NEW q \in Seq(R), q # <<>>, NEW s
  PROVE  /\ Fewer(q, Tail(q), s)
         /\ Names(q, s) <=> Names(Tail(q), s) \/ Head(q).sock = s
         /\ \A T : Has(q, s, T) <=> Has(Tail(q), s, T) \/ (Head(q).sock = s /\ Head(q).type \in T)
         /\ \A T : Head(q).sock = s /\ Head(q).type \in T =>
                   /\ LastOf(q, s, T) => ~ Names(Tail(q), s)
                   /\ Once(q, s, T) => ~ Has(Tail(q), s, T)
         /\ \A T : Head(q).sock = s /\ FirstOf(q, s, T) => ~ Has(Tail(q), s, T)
<1> DEFINE r == Tail(q)
           n == Len(q)
<1>1. /\ n \in Nat \ {0} /\ DOMAIN r = 1 .. n - 1 /\ DOMAIN q = 1 .. n
      /\ \A i \in 1 .. n - 1 : i + 1 \in 1 .. n /\ 1 < i + 1 /\ r[i] = q[i + 1]
      /\ Head(q) = q[1] /\ 1 \in 1 .. n
      /\ \A i \in 1 .. n : i = 1 \/ (i - 1 \in 1 .. n - 1 /\ q[i] = r[i - 1])
  BY Tails
<1> HIDE DEF r, n
<1>2. Names(q, s) <=> Names(r, s) \/ Head(q).sock = s
  BY <1>1 DEF Names
<1>3. ASSUME NEW T
      PROVE  Has(q, s, T) <=> Has(r, s, T) \/ (Head(q).sock = s /\ Head(q).type \in T)
  BY <1>1 DEF Has
<1>4. ASSUME NEW T
      PROVE  /\ LastOf(q, s, T) => LastOf(r, s, T)
             /\ FirstOf(q, s, T) => FirstOf(r, s, T)
             /\ Once(q, s, T) => Once(r, s, T)
  <2>1. ASSUME LastOf(q, s, T) PROVE LastOf(r, s, T)
    <3> SUFFICES ASSUME NEW i \in 1 .. n - 1, NEW j \in 1 .. n - 1, i < j, r[i].sock = s, r[i].type \in T
                 PROVE  r[j].sock # s
      BY <1>1 DEF LastOf
    <3> DEFINE k == i + 1
               m == j + 1
    <3>1. k \in 1 .. n /\ m \in 1 .. n /\ r[i] = q[k] /\ r[j] = q[m] /\ (i < j <=> k < m)
          /\ (i = j <=> k = m)
      BY <1>1
    <3> HIDE DEF k, m
    <3> QED BY <1>1, <2>1, <3>1 DEF LastOf
  <2>2. ASSUME FirstOf(q, s, T) PROVE FirstOf(r, s, T)
    <3> SUFFICES ASSUME NEW i \in 1 .. n - 1, NEW j \in 1 .. n - 1, i < j, r[j].sock = s, r[j].type \in T
                 PROVE  r[i].sock # s
      BY <1>1 DEF FirstOf
    <3> DEFINE k == i + 1
               m == j + 1
    <3>1. k \in 1 .. n /\ m \in 1 .. n /\ r[i] = q[k] /\ r[j] = q[m] /\ (i < j <=> k < m)
          /\ (i = j <=> k = m)
      BY <1>1
    <3> HIDE DEF k, m
    <3> QED BY <1>1, <2>2, <3>1 DEF FirstOf
  <2>3. ASSUME Once(q, s, T) PROVE Once(r, s, T)
    <3> SUFFICES ASSUME NEW i \in DOMAIN r, NEW j \in DOMAIN r, r[i].sock = s, r[i].type \in T,
                        r[j].sock = s, r[j].type \in T
                 PROVE  i = j
      BY DEF Once
    <3> DEFINE k == i + 1
               m == j + 1
    <3>1. k \in 1 .. n /\ m \in 1 .. n /\ r[i] = q[k] /\ r[j] = q[m] /\ (i < j <=> k < m)
          /\ (i = j <=> k = m)
      BY <1>1
    <3> HIDE DEF k, m
    <3> QED BY <1>1, <2>3, <3>1 DEF Once
  <2> QED BY <2>1, <2>2, <2>3
<1>5. Fewer(q, r, s)
  BY <1>2, <1>3, <1>4 DEF Fewer
<1>6. ASSUME NEW T, Head(q).sock = s, Head(q).type \in T
      PROVE  /\ LastOf(q, s, T) => ~ Names(r, s)
             /\ Once(q, s, T) => ~ Has(r, s, T)
  <2>1. ASSUME LastOf(q, s, T), NEW i \in 1 .. n - 1
        PROVE  r[i].sock # s
    <3> DEFINE k == i + 1
    <3>1. k \in 1 .. n /\ 1 < k /\ r[i] = q[k]
      BY <1>1
    <3> HIDE DEF k
    <3> QED BY <1>1, <1>6, <2>1, <3>1 DEF LastOf
  <2>2. ASSUME Once(q, s, T), NEW i \in 1 .. n - 1
        PROVE  ~ (r[i].sock = s /\ r[i].type \in T)
    <3> DEFINE k == i + 1
    <3>1. k \in 1 .. n /\ 1 # k /\ r[i] = q[k]
      BY <1>1
    <3> HIDE DEF k
    <3> QED BY <1>1, <1>6, <2>2, <3>1 DEF Once
  <2> QED BY <1>1, <2>1, <2>2 DEF Names, Has
<1>7. ASSUME NEW T, Head(q).sock = s, FirstOf(q, s, T)
      PROVE  ~ Has(r, s, T)
  BY <1>1, <1>7 DEF FirstOf, Has
<1> QED BY <1>2, <1>3, <1>5, <1>6, <1>7 DEF r

LEMMA Alike == ASSUME NEW q, NEW s PROVE Fewer(q, q, s)
BY DEF Fewer

LEMMA PushedForOther ==
  ASSUME NEW R, NEW q \in Seq(R), NEW e \in R, NEW s, e.sock # s
  PROVE  /\ Fewer(q, Append(q, e), s)
         /\ \A T : Has(Append(q, e), s, T) <=> Has(q, s, T)
BY Pushed DEF Fewer

(* An entry of a type is an entry; one of several types is of them all.    *)
LEMMA HasNames ==
  ASSUME NEW q, NEW s, NEW T
  PROVE  /\ Has(q, s, T) => Names(q, s)
         /\ \A U : T \subseteq U /\ Has(q, s, T) => Has(q, s, U)
BY DEF Has, Names

-----------------------------------------------------------------------------
(***************************************************************************)
(* The inductive invariant: what each place of the two threads knows of a  *)
(* socket.                                                                 *)
(***************************************************************************)
Opens == {"CONNECT", "ACCEPT"}
Sends == {"SEND"}
Closes == {"CLOSE_SOCKET"}
Establishes == {"ESTABLISH"}
LaterReqs == ReqTypes \ Opens
Early == {"NONE", "CONNECT"}
Ended == {"TERMINATE", "DELETE"}
Reads == {"recv", "recv_eof", "recv_error", "recv_full"}

(* The requests that are not yet acknowledged, with others.                *)
Rest == IF io.req THEN Tail(reqQ) ELSE reqQ
Num(b) == IF b THEN 1 ELSE 0

(* Nothing refers to a free slot.                                          *)
FreeUnknown(s) ==
  s \notin allocated => /\ ~ Names(reqQ, s) /\ ~ Names(evtQ, s)
                        /\ io.sock # s /\ main.sock # s /\ ~ net[s].watched

(* Before it is established a socket has no events and no requests but the *)
(* one that makes it known, and that one comes before IO has met it.       *)
Young(s) ==
  s \in allocated /\ sock[s].state \in Early =>
    /\ sock[s].timer = "none" /\ sock[s].need_req_close
    /\ ~ Names(evtQ, s) /\ ~ Has(reqQ, s, LaterReqs) /\ main.sock # s

Unmet(s) ==
  /\ Has(reqQ, s, Opens) =>
       sock[s].state \in Early /\ ~ net[s].watched /\ io.sock # s
  /\ LastOf(reqQ, s, Opens)

(* The end of a session is told once: by a request of main on its way, by  *)
(* a final event, or it has been told and timer_close runs.                *)
EndsOnce(s) ==
  /\ Has(reqQ, s, TerminateTypes) =>
       sock[s].state \in Ended /\ ~ Has(evtQ, s, FinalTypes) /\ sock[s].timer # "close"
  /\ Once(reqQ, s, TerminateTypes)
  /\ Has(evtQ, s, FinalTypes) => sock[s].state \in Ended
  /\ LastOf(evtQ, s, FinalTypes)
  /\ s \in allocated /\ sock[s].timer = "close" =>
       sock[s].state \in Ended /\ ~ Names(evtQ, s)

(* While IO reads, only main can have begun to end the session, and IO has *)
(* not taken its request.                                                  *)
ReadsAlive(s) ==
  io.sock = s /\ io.pc \in Reads =>
    /\ sock[s].state \in {"ESTABLISH", "TERMINATE"} /\ sock[s].timer # "close"
    /\ ~ Has(evtQ, s, FinalTypes)

(* CLOSE_SOCKET is the last request, and IO forgets the socket when it has *)
(* served it.                                                              *)
LetsGo(s) ==
  /\ Has(reqQ, s, Closes) => ~ sock[s].need_req_close
  /\ LastOf(reqQ, s, Closes)
  /\ s \in allocated /\ ~ sock[s].need_req_close =>
       /\ sock[s].state = "DELETE" /\ sock[s].timer = "close" /\ main.sock # s
       /\ ~ Has(reqQ, s, Closes) => ~ Names(reqQ, s) /\ io.sock # s /\ ~ net[s].watched

(* What send_req and send_ack count.                                       *)
Acks(s) ==
  /\ s \in allocated =>
       (snd[s].send_ack + Num(Has(Rest, s, Sends)) + Num(Has(reqQ, s, Closes))) % AckMod
         = snd[s].send_req
  /\ Once(Rest, s, Sends)

(* ESTABLISH is the first event.                                           *)
EstablishFirst(s) ==
  /\ Has(evtQ, s, Establishes) => sock[s].timer = "none"
  /\ FirstOf(evtQ, s, Establishes)

SockInv(s) ==
  /\ FreeUnknown(s) /\ Young(s) /\ Unmet(s) /\ EndsOnce(s)
  /\ ReadsAlive(s) /\ LetsGo(s) /\ Acks(s) /\ EstablishFirst(s)

(* Where the two threads are, and which entries name no socket.            *)
MainShape ==
  /\ main.pc \in {"idle", "parse"} <=> main.sock = NoSock
  /\ main.pc \in {"idle", "parse"} => main.ret = "idle"
  /\ InParse => evtQ # <<>> /\ Head(evtQ).type = "DATA"

IoShape ==
  /\ io.pc = "idle" /\ io.evts = {} <=> io.sock = NoSock
  /\ io.req => /\ io.pc # "idle" /\ io.evts = {} /\ reqQ # <<>>
               /\ Head(reqQ).type \in {"SEND", "RECV_ACTIVATE"} /\ Head(reqQ).sock = io.sock

ReqSocks == \A i \in DOMAIN reqQ : reqQ[i].sock = NoSock <=> reqQ[i].type = "ACCEPT_FAIL"
EvtSocks == \A i \in DOMAIN evtQ : evtQ[i].sock = NoSock <=> evtQ[i].type = "ACCEPT"

Shape == MainShape /\ IoShape /\ ReqSocks /\ EvtSocks

IInv == TypeOK /\ Shape /\ \A s \in Sockets : SockInv(s)

-----------------------------------------------------------------------------
(* A step that is calm for a socket changes nothing that matters to it.    *)
Frame(s) ==
  /\ s \in allocated' <=> s \in allocated
  /\ sock'[s].state = sock[s].state /\ sock'[s].timer = sock[s].timer
  /\ sock'[s].need_req_close = sock[s].need_req_close
  /\ snd'[s].send_req = snd[s].send_req /\ snd'[s].send_ack = snd[s].send_ack
  /\ net'[s].watched => net[s].watched
  /\ main'.sock = s => main.sock = s
  /\ io'.sock = s => io.sock = s
  /\ io'.sock = s /\ io'.pc \in Reads => io.pc \in Reads

CalmReqs(s) ==
  /\ Fewer(reqQ, reqQ', s)
  /\ Has(reqQ', s, Closes) <=> Has(reqQ, s, Closes)
  /\ Has(Rest', s, Sends) <=> Has(Rest, s, Sends)
  /\ Once(Rest, s, Sends) => Once(Rest', s, Sends)

LEMMA CalmKeeps ==
  ASSUME NEW s, SockInv(s), Frame(s), CalmReqs(s), Fewer(evtQ, evtQ', s)
  PROVE  SockInv(s)'
<1> USE DEF SockInv, Frame, CalmReqs, Fewer
<1>1. FreeUnknown(s)'
  BY DEF FreeUnknown
<1>2. Young(s)'
  BY DEF Young
<1>3. Unmet(s)'
  BY DEF Unmet
<1>4. EndsOnce(s)'
  BY DEF EndsOnce
<1>5. ReadsAlive(s)'
  BY DEF ReadsAlive
<1>6. LetsGo(s)'
  BY DEF LetsGo
<1>7. Acks(s)'
  BY DEF Acks, Num
<1>8. EstablishFirst(s)'
  BY DEF EstablishFirst
<1> QED BY <1>1, <1>2, <1>3, <1>4, <1>5, <1>6, <1>7, <1>8

-----------------------------------------------------------------------------
(***************************************************************************)
(* Requests and events pushed and popped.                                  *)
(***************************************************************************)
LEMMA ReqPushed ==
  ASSUME TypeOK, NEW type \in ReqTypes, NEW x \in Sockets \cup {NoSock}, PushReq(type, x), NEW s
  PROVE  /\ reqQ' # <<>>
         /\ x # s => Fewer(reqQ, reqQ', s)
         /\ Names(reqQ', s) <=> Names(reqQ, s) \/ x = s
         /\ \A T : /\ Has(reqQ', s, T) <=> Has(reqQ, s, T) \/ (x = s /\ type \in T)
                   /\ LastOf(reqQ, s, T) /\ (x = s => ~ Has(reqQ, s, T)) => LastOf(reqQ', s, T)
                   /\ Once(reqQ, s, T) /\ (x = s /\ type \in T => ~ Has(reqQ, s, T))
                      => Once(reqQ', s, T)
<1> DEFINE e == Entry(type, x, 0)
<1>1. reqQ \in Seq(Reqs) /\ e \in Reqs /\ e.sock = x /\ e.type = type /\ reqQ' = Append(reqQ, e)
  BY DEF TypeOK, PushReq, Entry, Reqs
<1> HIDE DEF e
<1>2. reqQ' # <<>>
  BY <1>1
<1> QED BY <1>1, <1>2, Pushed, PushedForOther

LEMMA EvtPushed ==
  ASSUME TypeOK, NEW type \in EvtTypes, NEW x \in Sockets \cup {NoSock}, NEW n \in Nat,
         evtQ' = Append(evtQ, Entry(type, x, n)), NEW s
  PROVE  /\ evtQ' # <<>>
         /\ x # s => Fewer(evtQ, evtQ', s)
         /\ Names(evtQ', s) <=> Names(evtQ, s) \/ x = s
         /\ \A T : /\ Has(evtQ', s, T) <=> Has(evtQ, s, T) \/ (x = s /\ type \in T)
                   /\ LastOf(evtQ, s, T) /\ (x = s => ~ Has(evtQ, s, T)) => LastOf(evtQ', s, T)
                   /\ FirstOf(evtQ, s, T) /\ (x = s /\ type \in T => ~ Names(evtQ, s))
                      => FirstOf(evtQ', s, T)
<1> DEFINE e == Entry(type, x, n)
<1>1. evtQ \in Seq(Evts) /\ e \in Evts /\ e.sock = x /\ e.type = type /\ evtQ' = Append(evtQ, e)
  BY DEF TypeOK, Entry, Evts
<1> HIDE DEF e
<1>2. evtQ' # <<>>
  BY <1>1
<1> QED BY <1>1, <1>2, Pushed, PushedForOther

LEMMA ReqPopped ==
  ASSUME TypeOK, reqQ # <<>>, reqQ' = Tail(reqQ), NEW s
  PROVE  /\ Fewer(reqQ, reqQ', s)
         /\ Names(reqQ, s) <=> Names(reqQ', s) \/ ReqSock = s
         /\ \A T : Has(reqQ, s, T) <=> Has(reqQ', s, T) \/ (ReqSock = s /\ Head(reqQ).type \in T)
         /\ \A T : ReqSock = s /\ Head(reqQ).type \in T =>
                   /\ LastOf(reqQ, s, T) => ~ Names(reqQ', s)
                   /\ Once(reqQ, s, T) => ~ Has(reqQ', s, T)
BY Popped DEF TypeOK, ReqSock

LEMMA EvtPopped ==
  ASSUME TypeOK, evtQ # <<>>, evtQ' = Tail(evtQ), NEW s
  PROVE  /\ Fewer(evtQ, evtQ', s)
         /\ Names(evtQ, s) <=> Names(evtQ', s) \/ EvtSock = s
         /\ \A T : Has(evtQ, s, T) <=> Has(evtQ', s, T) \/ (EvtSock = s /\ Head(evtQ).type \in T)
         /\ \A T : EvtSock = s /\ Head(evtQ).type \in T /\ LastOf(evtQ, s, T) =>
                   ~ Names(evtQ', s)
         /\ \A T : EvtSock = s /\ FirstOf(evtQ, s, T) => ~ Has(evtQ', s, T)
BY Popped DEF TypeOK, EvtSock

(* The requests that are not acknowledged.                                 *)
LEMMA RestPushed ==
  ASSUME IInv, NEW type \in ReqTypes, NEW x \in Sockets \cup {NoSock}, PushReq(type, x),
         io'.req = io.req, NEW s
  PROVE  /\ Has(Rest', s, Sends) <=> Has(Rest, s, Sends) \/ (x = s /\ type = "SEND")
         /\ Once(Rest, s, Sends) /\ (x = s /\ type = "SEND" => ~ Has(Rest, s, Sends))
            => Once(Rest', s, Sends)
<1> DEFINE e == Entry(type, x, 0)
<1>1. reqQ \in Seq(Reqs) /\ e \in Reqs /\ e.sock = x /\ e.type = type /\ reqQ' = Append(reqQ, e)
  BY DEF IInv, TypeOK, PushReq, Entry, Reqs
<1> HIDE DEF e
<1>2. Rest \in Seq(Reqs) /\ Rest' = Append(Rest, e)
  BY <1>1 DEF Rest, IInv, Shape, IoShape
<1> HIDE DEF Rest
<1>3. type \in Sends <=> type = "SEND"
  BY DEF Sends
<1> QED BY <1>1, <1>2, <1>3, Pushed

LEMMA RestPopped ==
  ASSUME IInv, IoIdle, reqQ # <<>>, NEW s,
         \/ reqQ' = Tail(reqQ) /\ io'.req = io.req
         \/ reqQ' = reqQ /\ io'.req
  PROVE  /\ Has(Rest, s, Sends) <=> Has(Rest', s, Sends) \/ (ReqSock = s /\ Head(reqQ).type = "SEND")
         /\ Once(Rest, s, Sends) =>
            /\ Once(Rest', s, Sends)
            /\ ReqSock = s /\ Head(reqQ).type = "SEND" => ~ Has(Rest', s, Sends)
<1>1. ~ io.req /\ reqQ \in Seq(Reqs)
  BY DEF IInv, Shape, IoShape, IoIdle, TypeOK
<1>2. Rest = reqQ /\ Rest' = Tail(reqQ)
  BY <1>1 DEF Rest
<1> HIDE DEF Rest
<1>3. \A t : t \in Sends <=> t = "SEND"
  BY DEF Sends
<1> QED BY <1>1, <1>2, <1>3, Popped DEF ReqSock, Fewer

LEMMA RestSame == reqQ' = reqQ /\ io'.req = io.req => Rest' = Rest
BY DEF Rest

(* Entries that name no socket.                                            *)
LEMMA UpTo == \A n \in Nat : \A i \in 1 .. n + 1 : i \in 1 .. n \/ i = n + 1
OBVIOUS

LEMMA ReqSocksNext ==
  ASSUME IInv,
         \/ UNCHANGED reqQ
         \/ reqQ # <<>> /\ reqQ' = Tail(reqQ)
         \/ \E type \in ReqTypes, x \in Sockets \cup {NoSock} :
              PushReq(type, x) /\ (x = NoSock <=> type = "ACCEPT_FAIL")
  PROVE  ReqSocks'
<1>1. reqQ \in Seq(Reqs)
  BY DEF IInv, TypeOK
<1>2. CASE UNCHANGED reqQ
  BY <1>2 DEF IInv, Shape, ReqSocks
<1>3. CASE reqQ # <<>> /\ reqQ' = Tail(reqQ)
  BY <1>1, <1>3, Tails DEF IInv, Shape, ReqSocks
<1>4. ASSUME NEW type \in ReqTypes, NEW x \in Sockets \cup {NoSock},
             PushReq(type, x), x = NoSock <=> type = "ACCEPT_FAIL"
      PROVE  ReqSocks'
  <2> DEFINE e == Entry(type, x, 0)
  <2>1. e \in Reqs /\ e.sock = x /\ e.type = type /\ reqQ' = Append(reqQ, e)
    BY <1>4 DEF PushReq, Entry, Reqs
  <2> HIDE DEF e
  <2>2. /\ DOMAIN reqQ' = 1 .. Len(reqQ) + 1 /\ DOMAIN reqQ = 1 .. Len(reqQ) /\ Len(reqQ) \in Nat
        /\ \A i \in 1 .. Len(reqQ) : reqQ'[i] = reqQ[i]
        /\ reqQ'[Len(reqQ) + 1] = e
    BY <1>1, <2>1, Entries
  <2>3. \A i \in 1 .. Len(reqQ) + 1 : i \in 1 .. Len(reqQ) \/ i = Len(reqQ) + 1
    BY <2>2, UpTo
  <2>4. \A i \in 1 .. Len(reqQ) : reqQ'[i].sock = NoSock <=> reqQ'[i].type = "ACCEPT_FAIL"
    BY <2>2 DEF IInv, Shape, ReqSocks
  <2> QED BY <1>4, <2>1, <2>2, <2>3, <2>4 DEF ReqSocks
<1> QED BY <1>2, <1>3, <1>4

LEMMA EvtSocksNext ==
  ASSUME IInv,
         \/ UNCHANGED evtQ
         \/ evtQ # <<>> /\ evtQ' = Tail(evtQ)
         \/ \E type \in EvtTypes, x \in Sockets \cup {NoSock}, n \in Nat :
              evtQ' = Append(evtQ, Entry(type, x, n)) /\ (x = NoSock <=> type = "ACCEPT")
  PROVE  EvtSocks'
<1>1. evtQ \in Seq(Evts)
  BY DEF IInv, TypeOK
<1>2. CASE UNCHANGED evtQ
  BY <1>2 DEF IInv, Shape, EvtSocks
<1>3. CASE evtQ # <<>> /\ evtQ' = Tail(evtQ)
  BY <1>1, <1>3, Tails DEF IInv, Shape, EvtSocks
<1>4. ASSUME NEW type \in EvtTypes, NEW x \in Sockets \cup {NoSock}, NEW n \in Nat,
             evtQ' = Append(evtQ, Entry(type, x, n)), x = NoSock <=> type = "ACCEPT"
      PROVE  EvtSocks'
  <2> DEFINE e == Entry(type, x, n)
  <2>1. e \in Evts /\ e.sock = x /\ e.type = type /\ evtQ' = Append(evtQ, e)
    BY <1>4 DEF Entry, Evts
  <2> HIDE DEF e
  <2>2. /\ DOMAIN evtQ' = 1 .. Len(evtQ) + 1 /\ DOMAIN evtQ = 1 .. Len(evtQ) /\ Len(evtQ) \in Nat
        /\ \A i \in 1 .. Len(evtQ) : evtQ'[i] = evtQ[i]
        /\ evtQ'[Len(evtQ) + 1] = e
    BY <1>1, <2>1, Entries
  <2>3. \A i \in 1 .. Len(evtQ) + 1 : i \in 1 .. Len(evtQ) \/ i = Len(evtQ) + 1
    BY <2>2, UpTo
  <2>4. \A i \in 1 .. Len(evtQ) : evtQ'[i].sock = NoSock <=> evtQ'[i].type = "ACCEPT"
    BY <2>2 DEF IInv, Shape, EvtSocks
  <2> QED BY <1>4, <2>1, <2>2, <2>3, <2>4 DEF EvtSocks
<1> QED BY <1>2, <1>3, <1>4

-----------------------------------------------------------------------------
(***************************************************************************)
(* The main thread.                                                        *)
(***************************************************************************)
Socks == \A s \in Sockets : SockInv(s)

LEMMA Unnull == \A s \in Sockets : s # NoSock
BY EpollAssumption

(* How a step changes the requests: not at all; main pushes one; IO serves *)
(* one at once, begins to serve one, or ends the handler of one or of an   *)
(* epoll_event.                                                            *)
ReqEnd == ~ io'.req /\ reqQ' = IF io.req THEN Tail(reqQ) ELSE reqQ

ReqStep(x) ==
  \/ UNCHANGED reqQ /\ io'.req = io.req
  \/ (\E type \in ReqTypes : PushReq(type, x)) /\ io'.req = io.req
  \/ IoIdle /\ reqQ # <<>> /\ ReqSock = x /\ reqQ' = Tail(reqQ) /\ io'.req = io.req
  \/ IoIdle /\ reqQ # <<>> /\ ReqSock = x /\ reqQ' = reqQ /\ io'.req

EvtPush(x) == \E type \in EvtTypes, n \in Nat : evtQ' = Append(evtQ, Entry(type, x, n))
EvtTaken == UNCHANGED evtQ \/ (evtQ # <<>> /\ evtQ' = Tail(evtQ))

LEMMA EvtTakenFewer ==
  ASSUME TypeOK, EvtTaken, NEW s
  PROVE  Fewer(evtQ, evtQ', s)
BY Alike, EvtPopped DEF EvtTaken

LEMMA ReqEndCalm ==
  ASSUME IInv, ReqEnd, NEW s
  PROVE  CalmReqs(s)
<1>1. Rest' = Rest
  BY DEF Rest, ReqEnd
<1>2. CASE ~ io.req
  <2>1. reqQ' = reqQ
    BY <1>2 DEF ReqEnd
  <2> QED BY <1>1, <2>1, Alike DEF CalmReqs
<1>3. CASE io.req
  <2>1. reqQ' = Tail(reqQ) /\ reqQ # <<>> /\ Head(reqQ).type \notin Closes
    BY <1>3 DEF ReqEnd, IInv, Shape, IoShape, Closes
  <2> QED BY <1>1, <2>1, ReqPopped DEF CalmReqs, IInv
<1> QED BY <1>2, <1>3

LEMMA ReqStepCalm ==
  ASSUME IInv, NEW x \in Sockets \cup {NoSock}, ReqStep(x), NEW s, s # x
  PROVE  CalmReqs(s)
<1> USE DEF IInv, CalmReqs
<1>1. CASE UNCHANGED reqQ /\ io'.req = io.req
  BY <1>1, RestSame, Alike
<1>2. ASSUME NEW type \in ReqTypes, PushReq(type, x), io'.req = io.req
      PROVE  CalmReqs(s)
  BY <1>2, ReqPushed, RestPushed
<1>3. CASE IoIdle /\ reqQ # <<>> /\ ReqSock = x /\ reqQ' = Tail(reqQ) /\ io'.req = io.req
  BY <1>3, ReqPopped, RestPopped
<1>4. CASE IoIdle /\ reqQ # <<>> /\ ReqSock = x /\ reqQ' = reqQ /\ io'.req
  <2>1. Fewer(reqQ, reqQ', s)
    BY <1>4, Alike
  <2>2. /\ Has(Rest', s, Sends) <=> Has(Rest, s, Sends)
        /\ Once(Rest, s, Sends) => Once(Rest', s, Sends)
    BY <1>4, RestPopped
  <2> QED BY <1>4, <2>1, <2>2
<1> QED BY <1>1, <1>2, <1>3, <1>4 DEF ReqStep

(* Steps that change the requests and events of x at most keep what is     *)
(* known of the other sockets.                                             *)
LEMMA OthersKeep ==
  ASSUME IInv, NEW x \in Sockets \cup {NoSock}, ReqStep(x) \/ ReqEnd, EvtPush(x) \/ EvtTaken,
         NEW s \in Sockets, s # x, Frame(s)
  PROVE  SockInv(s)'
<1>1. CalmReqs(s)
  BY ReqStepCalm, ReqEndCalm
<1>2. Fewer(evtQ, evtQ', s)
  BY EvtTakenFewer, EvtPushed DEF EvtPush, IInv
<1> QED BY <1>1, <1>2, CalmKeeps DEF IInv

(* Steps that no socket notices.                                           *)
LEMMA AllCalm ==
  ASSUME IInv, \A s \in Sockets : Frame(s), (UNCHANGED reqQ /\ io'.req = io.req) \/ ReqEnd, EvtTaken
  PROVE  ReqSocks' /\ EvtSocks' /\ Socks'
<1>1. EvtSocks'
  BY EvtSocksNext DEF EvtTaken
<1>2. ReqSocks'
  BY ReqSocksNext DEF ReqEnd, IInv, Shape, IoShape
<1>3. ASSUME NEW s \in Sockets PROVE SockInv(s)'
  <2>1. CalmReqs(s)
    BY ReqEndCalm, RestSame, Alike DEF CalmReqs
  <2> QED BY <1>3, <2>1, EvtTakenFewer, CalmKeeps DEF IInv
<1> QED BY <1>1, <1>2, <1>3 DEF Socks

LEMMA MainCloses ==
  ASSUME IInv, NEW x \in Sockets, NEW reason \in TerminateTypes, MainClose(x, reason),
         x \in allocated, UNCHANGED <<allocated, snd, io, net>>,
         main'.sock \in {main.sock, NoSock}, EvtTaken
  PROVE  ReqSocks' /\ EvtSocks' /\ Socks'
<1>1. TypeOK /\ reason \in ReqTypes /\ reason \in LaterReqs /\ reason \notin Opens
      /\ reason \notin Closes /\ reason # "SEND" /\ reason # "ACCEPT_FAIL"
  BY DEF IInv, ReqTypes, TerminateTypes, LaterReqs, Opens, Closes
<1>2. \A s \in Sockets : Fewer(evtQ, evtQ', s)
  BY <1>1, EvtTakenFewer
<1>3. \A s \in Sockets : main'.sock = s => main.sock = s
  BY Unnull
<1>4. EvtSocks'
  BY EvtSocksNext DEF EvtTaken
<1>5. CASE sock[x].state # "ESTABLISH"
  <2>1. sock' = sock /\ reqQ' = reqQ
    BY <1>5 DEF MainClose
  <2> QED BY <1>3, <2>1, AllCalm DEF Frame
<1>6. CASE sock[x].state = "ESTABLISH"
  <2>1. PushReq(reason, x) /\ sock' = [sock EXCEPT ![x].state = "TERMINATE"]
    BY <1>6 DEF MainClose
  <2>2. ReqSocks'
    BY <1>1, <2>1, ReqSocksNext, Unnull
  <2>3. /\ \A s \in Sockets \ {x} : sock'[s] = sock[s]
        /\ sock'[x].state = "TERMINATE" /\ sock'[x].timer = sock[x].timer
        /\ sock'[x].need_req_close = sock[x].need_req_close
    BY <1>1, <2>1 DEF TypeOK, SocketRec
  <2>4. ASSUME NEW s \in Sockets \ {x} PROVE SockInv(s)'
    <3>1. Frame(s)
      BY <1>3, <2>3 DEF Frame
    <3> QED BY <1>1, <2>1, <3>1, OthersKeep DEF ReqStep
  <2>5. SockInv(x)'
    <3> USE <1>1, <1>6, <2>3
    <3>1. SockInv(x) /\ Fewer(evtQ, evtQ', x)
      BY <1>2 DEF IInv
    <3>2. /\ Names(reqQ', x)
          /\ \A T : /\ Has(reqQ', x, T) <=> Has(reqQ, x, T) \/ reason \in T
                    /\ LastOf(reqQ, x, T) /\ ~ Has(reqQ, x, T) => LastOf(reqQ', x, T)
                    /\ Once(reqQ, x, T) /\ (reason \in T => ~ Has(reqQ, x, T))
                       => Once(reqQ', x, T)
      BY <2>1, ReqPushed
    <3>3. /\ Has(Rest', x, Sends) <=> Has(Rest, x, Sends)
          /\ Once(Rest, x, Sends) => Once(Rest', x, Sends)
      BY <2>1, RestPushed
    <3>4. ~ Has(reqQ, x, Opens) /\ ~ Has(reqQ, x, TerminateTypes) /\ ~ Has(reqQ, x, Closes)
          /\ ~ Has(evtQ, x, FinalTypes) /\ sock[x].timer # "close" /\ sock[x].need_req_close
      BY <3>1 DEF SockInv, Unmet, EndsOnce, LetsGo, Early, Ended
    <3>5. FreeUnknown(x)' /\ Young(x)' /\ Unmet(x)'
      BY <3>1, <3>2, <3>4 DEF SockInv, FreeUnknown, Young, Unmet, Early
    <3>6. EndsOnce(x)'
      BY <3>1, <3>2, <3>4 DEF SockInv, EndsOnce, Ended, Fewer
    <3>7. ReadsAlive(x)'
      BY <3>1 DEF SockInv, ReadsAlive, Fewer
    <3>8. LetsGo(x)'
      BY <3>1, <3>2, <3>4 DEF SockInv, LetsGo
    <3>9. Acks(x)'
      BY <3>1, <3>2, <3>3 DEF SockInv, Acks, Num
    <3>10. EstablishFirst(x)'
      BY <3>1 DEF SockInv, EstablishFirst, Fewer
    <3> QED BY <3>5, <3>6, <3>7, <3>8, <3>9, <3>10 DEF SockInv
  <2> QED BY <1>4, <2>2, <2>4, <2>5 DEF Socks
<1> QED BY <1>5, <1>6

(* Main leaves the shape of IO alone, and IO that of main.                 *)
ReqAdded ==
  \/ UNCHANGED reqQ
  \/ \E type \in ReqTypes, x \in Sockets \cup {NoSock} : PushReq(type, x)
EvtAdded ==
  \/ UNCHANGED evtQ
  \/ \E type \in EvtTypes, x \in Sockets \cup {NoSock}, n \in Nat :
       evtQ' = Append(evtQ, Entry(type, x, n))

LEMMA HeadStays ==
  ASSUME NEW R, NEW q \in Seq(R), q # <<>>, NEW e \in R
  PROVE  Append(q, e) # <<>> /\ Head(Append(q, e)) = Head(q)
OBVIOUS

LEMMA IoLeft ==
  ASSUME IInv, UNCHANGED io, ReqAdded
  PROVE  IoShape'
<1>1. CASE UNCHANGED reqQ
  BY <1>1 DEF IInv, Shape, IoShape
<1>2. ASSUME NEW type \in ReqTypes, NEW x \in Sockets \cup {NoSock}, PushReq(type, x)
      PROVE  IoShape'
  <2> DEFINE e == Entry(type, x, 0)
  <2>1. reqQ \in Seq(Reqs) /\ e \in Reqs /\ reqQ' = Append(reqQ, e)
    BY <1>2 DEF IInv, TypeOK, PushReq, Entry, Reqs
  <2> HIDE DEF e
  <2>2. reqQ # <<>> => reqQ' # <<>> /\ Head(reqQ') = Head(reqQ)
    BY <2>1, HeadStays
  <2> QED BY <2>2 DEF IInv, Shape, IoShape
<1> QED BY <1>1, <1>2 DEF ReqAdded

LEMMA MainLeft ==
  ASSUME IInv, UNCHANGED main, EvtAdded
  PROVE  MainShape'
<1>1. CASE UNCHANGED evtQ
  BY <1>1 DEF IInv, Shape, MainShape, InParse
<1>2. ASSUME NEW type \in EvtTypes, NEW x \in Sockets \cup {NoSock}, NEW n \in Nat,
             evtQ' = Append(evtQ, Entry(type, x, n))
      PROVE  MainShape'
  <2> DEFINE e == Entry(type, x, n)
  <2>1. evtQ \in Seq(Evts) /\ e \in Evts /\ evtQ' = Append(evtQ, e)
    BY <1>2 DEF IInv, TypeOK, Entry, Evts
  <2> HIDE DEF e
  <2>2. evtQ # <<>> => evtQ' # <<>> /\ Head(evtQ') = Head(evtQ)
    BY <2>1, HeadStays
  <2> QED BY <2>2 DEF IInv, Shape, MainShape, InParse
<1> QED BY <1>1, <1>2 DEF EvtAdded

(* A socket is taken from the pool: nothing knew it, and the request that  *)
(* makes it known is the first to name it.                                 *)
LEMMA RestWithin ==
  ASSUME IInv, NEW s, NEW T
  PROVE  Has(Rest, s, T) => Has(reqQ, s, T)
<1>1. CASE io.req
  BY <1>1, Popped DEF Rest, IInv, TypeOK, Shape, IoShape, Fewer
<1>2. CASE ~ io.req
  BY <1>2 DEF Rest
<1> QED BY <1>1, <1>2

LEMMA Allocates ==
  ASSUME IInv, NEW x \in Sockets, x \notin allocated, allocated' = allocated \cup {x},
         NEW type \in Opens, PushReq(type, x), EvtTaken, UNCHANGED io,
         main'.sock = main.sock,
         \A s \in Sockets \ {x} : sock'[s] = sock[s] /\ snd'[s] = snd[s] /\ net'[s] = net[s],
         sock'[x].state \in Early, sock'[x].timer = "none", sock'[x].need_req_close,
         snd'[x].send_req = 0, snd'[x].send_ack = 0, ~ net'[x].watched
  PROVE  ReqSocks' /\ EvtSocks' /\ Socks'
<1>1. TypeOK /\ type \in ReqTypes /\ type \notin LaterReqs /\ type # "SEND"
      /\ type # "ACCEPT_FAIL" /\ type \notin Closes /\ type \notin TerminateTypes
  BY DEF IInv, ReqTypes, LaterReqs, Opens, Closes, TerminateTypes
<1>2. EvtSocks'
  BY EvtSocksNext DEF EvtTaken
<1>3. ReqSocks'
  BY <1>1, ReqSocksNext, Unnull
<1>4. ASSUME NEW s \in Sockets \ {x} PROVE SockInv(s)'
  <2>1. Frame(s)
    BY DEF Frame
  <2> QED BY <1>1, <2>1, OthersKeep DEF ReqStep
<1>5. SockInv(x)'
  <2> USE <1>1
  <2>1. SockInv(x) /\ Fewer(evtQ, evtQ', x)
    BY EvtTakenFewer DEF IInv
  <2>2. ~ Names(reqQ, x) /\ ~ Names(evtQ, x) /\ io.sock # x /\ main.sock # x
    BY <2>1 DEF SockInv, FreeUnknown
  <2>3. \A T : ~ Has(reqQ, x, T) /\ ~ Has(evtQ', x, T) /\ ~ Has(Rest, x, T) /\ ~ Names(evtQ', x)
    BY <2>1, <2>2, HasNames, RestWithin DEF Fewer
  <2>4. \A T : /\ Has(reqQ', x, T) <=> type \in T
               /\ LastOf(reqQ, x, T) => LastOf(reqQ', x, T)
               /\ Once(reqQ, x, T) => Once(reqQ', x, T)
    BY <2>3, ReqPushed
  <2>5. ~ Has(Rest', x, Sends) /\ (Once(Rest, x, Sends) => Once(Rest', x, Sends))
    BY <2>3, RestPushed
  <2>6. FreeUnknown(x)' /\ Young(x)' /\ Unmet(x)'
    BY <2>1, <2>2, <2>3, <2>4 DEF SockInv, FreeUnknown, Young, Unmet
  <2>7. EndsOnce(x)' /\ ReadsAlive(x)' /\ LetsGo(x)'
    BY <2>1, <2>2, <2>3, <2>4 DEF SockInv, EndsOnce, ReadsAlive, LetsGo, Fewer
  <2>8. Acks(x)'
    BY <2>1, <2>4, <2>5 DEF SockInv, Acks, Num, AckMod
  <2>9. EstablishFirst(x)'
    BY <2>1, <2>3 DEF SockInv, EstablishFirst, Fewer
  <2> QED BY <2>6, <2>7, <2>8, <2>9 DEF SockInv
<1> QED BY <1>2, <1>3, <1>4, <1>5 DEF Socks

LEMMA NetTcpConnectKeeps ==
  ASSUME IInv, NEW x \in Sockets, NetTcpConnect(x)
  PROVE  Shape' /\ Socks'
<1>1. /\ x \notin allocated /\ allocated' = allocated \cup {x} /\ PushReq("CONNECT", x)
      /\ UNCHANGED <<evtQ, main, io>>
      /\ sock' = [sock EXCEPT ![x] = [ResetSocket EXCEPT !.state = "CONNECT"]]
      /\ snd' = [snd EXCEPT ![x] = ResetSend] /\ net' = [net EXCEPT ![x] = NoNet]
  BY DEF NetTcpConnect, ResetData
<1>2. /\ \A s \in Sockets \ {x} : sock'[s] = sock[s] /\ snd'[s] = snd[s] /\ net'[s] = net[s]
      /\ sock'[x].state \in Early /\ sock'[x].timer = "none" /\ sock'[x].need_req_close
      /\ snd'[x].send_req = 0 /\ snd'[x].send_ack = 0 /\ ~ net'[x].watched
  BY <1>1 DEF IInv, TypeOK, Early, ResetSocket, ResetSend, NoNet
<1>3. "CONNECT" \in Opens /\ "CONNECT" \in ReqTypes
  BY DEF Opens, ReqTypes
<1>4. ReqSocks' /\ EvtSocks' /\ Socks'
  BY <1>1, <1>2, <1>3, Allocates DEF EvtTaken
<1>5. IoShape'
  BY <1>1, <1>3, IoLeft DEF ReqAdded
<1>6. MainShape'
  BY <1>1, MainLeft DEF EvtAdded
<1> QED BY <1>4, <1>5, <1>6 DEF Shape

(* Main's locals come to name a socket that stands, or is being drained.   *)
LEMMA MainTakes ==
  ASSUME IInv, NEW x \in Sockets, x \in allocated, sock[x].state \notin Early \cup {"DELETE"},
         UNCHANGED <<allocated, net, io, reqQ, evtQ>>, main'.sock = x,
         \A s \in Sockets : /\ sock'[s].state = sock[s].state /\ sock'[s].timer = sock[s].timer
                            /\ sock'[s].need_req_close = sock[s].need_req_close
                            /\ snd'[s].send_req = snd[s].send_req
                            /\ snd'[s].send_ack = snd[s].send_ack
  PROVE  ReqSocks' /\ EvtSocks' /\ Socks'
<1>1. ReqSocks' /\ EvtSocks'
  BY ReqSocksNext, EvtSocksNext
<1>2. ASSUME NEW s \in Sockets \ {x} PROVE SockInv(s)'
  <2>1. Frame(s)
    BY DEF Frame
  <2> QED BY <2>1, OthersKeep DEF ReqStep, EvtTaken
<1>3. SockInv(x)'
  <2>1. SockInv(x) /\ Rest' = Rest
    BY RestSame DEF IInv
  <2>2. FreeUnknown(x)' /\ Young(x)' /\ Unmet(x)'
    BY <2>1 DEF SockInv, FreeUnknown, Young, Unmet
  <2>3. EndsOnce(x)' /\ ReadsAlive(x)' /\ LetsGo(x)'
    BY <2>1 DEF SockInv, EndsOnce, ReadsAlive, LetsGo
  <2>4. Acks(x)' /\ EstablishFirst(x)'
    BY <2>1 DEF SockInv, Acks, EstablishFirst
  <2> QED BY <2>2, <2>3, <2>4 DEF SockInv
<1> QED BY <1>1, <1>2, <1>3 DEF Socks

LEMMA NetTcpSendKeeps ==
  ASSUME IInv, NEW x \in Sockets, NetTcpSend(x)
  PROVE  Shape' /\ Socks'
<1>1. /\ InUser /\ x \in allocated /\ sock[x].state = "ESTABLISH"
      /\ UNCHANGED <<allocated, evtQ, io, net>>
  BY DEF NetTcpSend, UserHolds
<1>2. CASE MainClose(x, "MODULE_TERMINATE") /\ UNCHANGED <<snd, main>>
  <2>1. "MODULE_TERMINATE" \in TerminateTypes /\ "MODULE_TERMINATE" \in ReqTypes
    BY DEF TerminateTypes, ReqTypes
  <2>2. ReqSocks' /\ EvtSocks' /\ Socks'
    BY <1>1, <1>2, <2>1, MainCloses DEF EvtTaken
  <2>3. IoShape'
    BY <1>1, <1>2, <2>1, IoLeft DEF ReqAdded, MainClose
  <2>4. MainShape'
    BY <1>1, <1>2, MainLeft DEF EvtAdded
  <2> QED BY <2>2, <2>3, <2>4 DEF Shape
<1>3. CASE /\ snd' = [snd EXCEPT ![x].cache = @ + 1, ![x].data_need_send = @ + 1]
           /\ MainCheck("delay", x, main.pc) /\ UNCHANGED <<sock, reqQ>>
  <2>1. main'.pc = "delay" /\ main'.sock = x /\ main'.ret = main.pc
    BY <1>3, MainCheckFields DEF IInv, TypeOK
  <2>2. \A s \in Sockets : /\ snd'[s].send_req = snd[s].send_req
                           /\ snd'[s].send_ack = snd[s].send_ack
    BY <1>3 DEF IInv, TypeOK, SendRec
  <2>3. ReqSocks' /\ EvtSocks' /\ Socks'
    BY <1>1, <1>3, <2>1, <2>2, MainTakes DEF Early
  <2>4. IoShape'
    BY <1>1, <1>3, IoLeft DEF ReqAdded
  <2>5. MainShape'
    BY <1>1, <2>1, Unnull DEF IInv, Shape, MainShape, InParse, InUser
  <2> QED BY <2>3, <2>4, <2>5 DEF Shape
<1> QED BY <1>2, <1>3 DEF NetTcpSend

(* The check of the main thread is over: back to the user or the parser.   *)
LEMMA MainReturns ==
  ASSUME IInv, main.pc \notin {"idle", "parse"}, MainReturn, UNCHANGED evtQ
  PROVE  main'.sock = NoSock /\ MainShape'
<1>1. main'.pc = main.ret /\ main'.sock = NoSock /\ main'.ret = "idle"
  BY MainCheckFields DEF IInv, TypeOK, MainReturn
<1>2. main.ret \in {"idle", "parse"}
  BY DEF IInv, TypeOK, MainRec
<1> QED BY <1>1, <1>2 DEF IInv, Shape, MainShape, InParse

LEMMA SendDelayCheckKeeps ==
  ASSUME IInv, SendDelayCheck
  PROVE  Shape' /\ Socks'
<1>1. main.pc = "delay" /\ UNCHANGED <<allocated, sock, snd, reqQ, evtQ, io, net>>
      /\ (MainReturn \/ MainCheck("request", main.sock, main.ret))
  BY DEF SendDelayCheck
<1>2. MainShape' /\ main'.sock \in {main.sock, NoSock}
  <2>1. CASE MainReturn
    BY <1>1, <2>1, MainReturns
  <2>2. CASE MainCheck("request", main.sock, main.ret)
    <3>1. main'.pc = "request" /\ main'.sock = main.sock /\ main'.ret = main.ret
      BY <2>2, MainCheckFields DEF IInv, TypeOK
    <3> QED BY <1>1, <3>1 DEF IInv, Shape, MainShape, InParse
  <2> QED BY <1>1, <2>1, <2>2
<1>3. IoShape'
  BY <1>1, IoLeft DEF ReqAdded
<1>4. \A s \in Sockets : Frame(s)
  BY <1>1, <1>2, Unnull DEF Frame
<1>5. ReqSocks' /\ EvtSocks' /\ Socks'
  BY <1>1, <1>4, AllCalm DEF EvtTaken
<1> QED BY <1>2, <1>3, <1>5 DEF Shape

(* The counters modulo AckMod, with at most one request of each kind.      *)
LEMMA Modulo ==
  \A a, b \in 0 .. 3 : \A m, n \in 0 .. 1 :
    (a + m + n) % 4 = b =>
      /\ a = b => m = 0 /\ n = 0
      /\ m = 0 => (a + 1 + n) % 4 = (b + 1) % 4
      /\ n = 0 => (a + m + 1) % 4 = (b + 1) % 4
      /\ m = 1 => (((a + 1) % 4) + 0 + n) % 4 = b
      /\ n = 1 => (((a + 1) % 4) + m + 0) % 4 = b
OBVIOUS

LEMMA Counts ==
  ASSUME IInv, NEW s \in Sockets
  PROVE  /\ snd[s].send_req \in 0 .. 3 /\ snd[s].send_ack \in 0 .. 3
         /\ Num(Has(Rest, s, Sends)) \in 0 .. 1
         /\ Num(Has(reqQ, s, Closes)) \in 0 .. 1
         /\ Num(Has(Rest, s, Sends)) = IF Has(Rest, s, Sends) THEN 1 ELSE 0
         /\ Num(Has(reqQ, s, Closes)) = IF Has(reqQ, s, Closes) THEN 1 ELSE 0
         /\ s \in allocated =>
              (snd[s].send_ack + Num(Has(Rest, s, Sends)) + Num(Has(reqQ, s, Closes))) % 4
                = snd[s].send_req
<1>1. snd[s].send_req \in 0 .. 3 /\ snd[s].send_ack \in 0 .. 3
  BY DEF IInv, TypeOK, SendRec, AckMod
<1>2. s \in allocated =>
        (snd[s].send_ack + Num(Has(Rest, s, Sends)) + Num(Has(reqQ, s, Closes))) % 4
          = snd[s].send_req
  BY DEF IInv, SockInv, Acks, AckMod
<1> QED BY <1>1, <1>2 DEF Num

LEMMA SendRequestKeeps ==
  ASSUME IInv, SendRequest
  PROVE  Shape' /\ Socks'
<1>1. /\ main.pc = "request" /\ MainReturn /\ UNCHANGED <<allocated, sock, evtQ, io, net>>
      /\ TypeOK
  BY DEF SendRequest, IInv
<1> PICK x \in Sockets : x = main.sock
  BY <1>1 DEF IInv, Shape, MainShape, TypeOK, MainRec
<1>2. x \in Sockets /\ x # NoSock
  BY Unnull
<1>3. main'.sock = NoSock /\ MainShape'
  BY <1>1, MainReturns
<1>4. CASE UNCHANGED <<snd, reqQ>>
  <2>1. \A s \in Sockets : Frame(s)
    BY <1>1, <1>3, <1>4, Unnull DEF Frame
  <2>2. ReqSocks' /\ EvtSocks' /\ Socks'
    BY <1>1, <1>4, <2>1, AllCalm DEF EvtTaken
  <2>3. IoShape'
    BY <1>1, <1>4, IoLeft DEF ReqAdded
  <2> QED BY <1>3, <2>2, <2>3 DEF Shape
<1>5. CASE /\ Acked(x) /\ snd' = [snd EXCEPT ![x].send_req = Counted(@)]
           /\ PushReq("SEND", x)
  <2>1. /\ "SEND" \in ReqTypes /\ "SEND" \notin TerminateTypes /\ "SEND" \notin Closes
        /\ "SEND" \notin Opens /\ "SEND" \in LaterReqs
    BY DEF ReqTypes, TerminateTypes, Closes, Opens, LaterReqs
  <2>2. EvtSocks' /\ ReqSocks'
    BY <1>1, <1>2, <1>5, <2>1, ReqSocksNext, EvtSocksNext
  <2>3. IoShape'
    BY <1>1, <1>2, <1>5, <2>1, IoLeft DEF ReqAdded
  <2>4. /\ \A s \in Sockets \ {x} : snd'[s] = snd[s]
        /\ snd'[x].send_ack = snd[x].send_ack
        /\ snd'[x].send_req = (snd[x].send_req + 1) % AckMod
        /\ snd[x].send_req \in 0 .. 3 /\ snd[x].send_ack \in 0 .. 3
    BY <1>1, <1>2, <1>5 DEF TypeOK, SendRec, Counted, AckMod
  <2>5. ASSUME NEW s \in Sockets \ {x} PROVE SockInv(s)'
    <3>1. Frame(s)
      BY <1>1, <1>3, <2>4, Unnull DEF Frame
    <3> QED BY <1>1, <1>2, <1>5, <2>1, <3>1, OthersKeep DEF ReqStep, EvtTaken
  <2>6. SockInv(x)'
    <3>1. SockInv(x) /\ x \in allocated
      BY <1>2 DEF IInv, SockInv, FreeUnknown
    <3>2. sock[x].state \notin Early /\ sock[x].need_req_close
      BY <3>1 DEF SockInv, Young, LetsGo
    <3>3. ~ Has(reqQ, x, Opens) /\ ~ Has(reqQ, x, Closes)
      BY <3>1, <3>2 DEF SockInv, Unmet, LetsGo
    <3>4. ~ Has(Rest, x, Sends) /\ snd[x].send_req = snd[x].send_ack
      BY <1>5, <3>1, Counts, Modulo DEF Acked
    <3>5. /\ \A T : /\ Has(reqQ', x, T) <=> Has(reqQ, x, T) \/ "SEND" \in T
                    /\ LastOf(reqQ, x, T) /\ ~ Has(reqQ, x, T) => LastOf(reqQ', x, T)
                    /\ Once(reqQ, x, T) /\ ("SEND" \in T => ~ Has(reqQ, x, T))
                       => Once(reqQ', x, T)
      BY <1>1, <1>2, <1>5, <2>1, ReqPushed
    <3>6. Has(Rest', x, Sends) /\ (Once(Rest, x, Sends) => Once(Rest', x, Sends))
      BY <1>1, <1>2, <1>5, <2>1, <3>4, RestPushed
    <3>7. FreeUnknown(x)' /\ Young(x)' /\ Unmet(x)'
      BY <1>1, <2>1, <3>1, <3>2, <3>3, <3>5 DEF SockInv, FreeUnknown, Young, Unmet
    <3>8. EndsOnce(x)' /\ ReadsAlive(x)' /\ LetsGo(x)'
      BY <1>1, <2>1, <3>1, <3>2, <3>3, <3>5 DEF SockInv, EndsOnce, ReadsAlive, LetsGo
    <3>9. (snd[x].send_ack + 1 + Num(Has(reqQ, x, Closes))) % AckMod
            = (snd[x].send_req + 1) % AckMod
      BY <3>1, <3>4, Counts, Modulo DEF AckMod
    <3>10. Acks(x)'
      BY <2>1, <2>4, <3>1, <3>3, <3>5, <3>6, <3>9 DEF SockInv, Acks, Num
    <3>11. EstablishFirst(x)'
      BY <1>1, <3>1 DEF SockInv, EstablishFirst
    <3> QED BY <3>7, <3>8, <3>10, <3>11 DEF SockInv
  <2> QED BY <1>3, <2>2, <2>3, <2>5, <2>6 DEF Shape, Socks
<1> QED BY <1>4, <1>5 DEF SendRequest

LEMMA NetTcpCloseSessionKeeps ==
  ASSUME IInv, NEW x \in Sockets, NetTcpCloseSession(x)
  PROVE  Shape' /\ Socks'
<1>1. x \in allocated /\ MainClose(x, "TERMINATE") /\ UNCHANGED <<allocated, snd, evtQ, main, io, net>>
  BY DEF NetTcpCloseSession, UserHolds
<1>2. "TERMINATE" \in TerminateTypes /\ "TERMINATE" \in ReqTypes
  BY DEF TerminateTypes, ReqTypes
<1>3. ReqSocks' /\ EvtSocks' /\ Socks'
  BY <1>1, <1>2, MainCloses DEF EvtTaken
<1>4. IoShape'
  BY <1>1, <1>2, IoLeft DEF ReqAdded, MainClose
<1>5. MainShape'
  BY <1>1, MainLeft DEF EvtAdded
<1> QED BY <1>3, <1>4, <1>5 DEF Shape

-----------------------------------------------------------------------------
(***************************************************************************)
(* The timers.                                                             *)
(***************************************************************************)
LEMMA OnTimerRequests ==
  ASSUME IInv, NEW x \in Sockets, OnTimerSend(x) \/ OnTimerCloseRetry(x)
  PROVE  Shape' /\ Socks'
<1>1. /\ main.pc = "idle" /\ x \in allocated /\ sock[x].state \in {"ESTABLISH", "TERMINATE"}
      /\ MainCheck("request", x, "idle") /\ UNCHANGED <<allocated, snd, reqQ, evtQ, io, net>>
  BY DEF OnTimerSend, OnTimerCloseRetry, Fires
<1>2. main'.pc = "request" /\ main'.sock = x /\ main'.ret = "idle"
  BY <1>1, MainCheckFields DEF IInv, TypeOK
<1>3. \A s \in Sockets : /\ sock'[s].state = sock[s].state /\ sock'[s].timer = sock[s].timer
                         /\ sock'[s].need_req_close = sock[s].need_req_close
  <2>1. CASE OnTimerSend(x)
    BY <2>1 DEF OnTimerSend
  <2>2. CASE OnTimerCloseRetry(x)
    BY <2>2 DEF OnTimerCloseRetry, IInv, TypeOK, SocketRec
  <2> QED BY <2>1, <2>2
<1>4. ReqSocks' /\ EvtSocks' /\ Socks'
  BY <1>1, <1>2, <1>3, MainTakes DEF Early
<1>5. IoShape'
  BY <1>1, IoLeft DEF ReqAdded
<1>6. MainShape'
  BY <1>1, <1>2, Unnull DEF IInv, Shape, MainShape, InParse
<1> QED BY <1>4, <1>5, <1>6 DEF Shape

LEMMA OnTimerCloseGiveUpKeeps ==
  ASSUME IInv, NEW x \in Sockets, OnTimerCloseGiveUp(x)
  PROVE  Shape' /\ Socks'
<1>1. /\ x \in allocated /\ sock[x].state = "TERMINATE" /\ sock[x].timer = "close"
      /\ UNCHANGED <<allocated, snd, reqQ, evtQ, main, io, net>>
  BY DEF OnTimerCloseGiveUp, Fires
<1>2. /\ \A s \in Sockets \ {x} : sock'[s] = sock[s]
      /\ sock'[x].state = "DELETE" /\ sock'[x].timer = sock[x].timer
      /\ sock'[x].need_req_close = sock[x].need_req_close
  BY DEF OnTimerCloseGiveUp, IInv, TypeOK, SocketRec
<1>3. Rest' = Rest
  BY <1>1, RestSame
<1>4. ASSUME NEW s \in Sockets \ {x} PROVE SockInv(s)'
  <2>1. Frame(s)
    BY <1>1, <1>2 DEF Frame
  <2> QED BY <1>1, <2>1, OthersKeep DEF ReqStep, EvtTaken
<1>5. SockInv(x)'
  <2>1. SockInv(x)
    BY DEF IInv
  <2>2. FreeUnknown(x)' /\ Young(x)' /\ Unmet(x)'
    BY <1>1, <1>2, <2>1 DEF SockInv, FreeUnknown, Young, Unmet, Early
  <2>3. EndsOnce(x)' /\ ReadsAlive(x)' /\ LetsGo(x)'
    BY <1>1, <1>2, <2>1 DEF SockInv, EndsOnce, ReadsAlive, LetsGo, Ended
  <2>4. Acks(x)' /\ EstablishFirst(x)'
    BY <1>1, <1>2, <1>3, <2>1 DEF SockInv, Acks, EstablishFirst
  <2> QED BY <2>2, <2>3, <2>4 DEF SockInv
<1>6. ReqSocks' /\ EvtSocks'
  BY <1>1, ReqSocksNext, EvtSocksNext
<1>7. IoShape' /\ MainShape'
  BY <1>1, IoLeft, MainLeft DEF ReqAdded, EvtAdded
<1> QED BY <1>4, <1>5, <1>6, <1>7 DEF Shape, Socks

LEMMA OnTimerCloseRequestKeeps ==
  ASSUME IInv, NEW x \in Sockets, OnTimerCloseRequest(x)
  PROVE  Shape' /\ Socks'
<1>1. /\ main.pc = "idle" /\ x \in allocated /\ sock[x].state = "DELETE"
      /\ sock[x].timer = "close" /\ sock[x].need_req_close /\ PushReq("CLOSE_SOCKET", x)
      /\ UNCHANGED <<allocated, evtQ, main, io, net>> /\ TypeOK
  BY DEF OnTimerCloseRequest, Fires, IInv
<1>2. /\ \A s \in Sockets \ {x} : sock'[s] = sock[s] /\ snd'[s] = snd[s]
      /\ sock'[x].state = sock[x].state /\ sock'[x].timer = sock[x].timer
      /\ ~ sock'[x].need_req_close
  BY <1>1 DEF OnTimerCloseRequest, TypeOK, SocketRec
<1>3. /\ snd'[x].send_ack = snd[x].send_ack
      /\ snd'[x].send_req = (snd[x].send_req + 1) % AckMod
      /\ snd[x].send_req \in 0 .. 3 /\ snd[x].send_ack \in 0 .. 3
  BY <1>1 DEF OnTimerCloseRequest, TypeOK, SendRec, Counted, AckMod
<1>4. /\ "CLOSE_SOCKET" \in ReqTypes /\ "CLOSE_SOCKET" \notin TerminateTypes
      /\ "CLOSE_SOCKET" \in Closes
      /\ "CLOSE_SOCKET" \notin Opens /\ "CLOSE_SOCKET" \in LaterReqs
  BY DEF ReqTypes, TerminateTypes, Closes, Opens, LaterReqs
<1>5. ASSUME NEW s \in Sockets \ {x} PROVE SockInv(s)'
  <2>1. Frame(s)
    BY <1>1, <1>2 DEF Frame
  <2> QED BY <1>1, <1>4, <2>1, OthersKeep DEF ReqStep, EvtTaken
<1>6. SockInv(x)'
  <2>1. SockInv(x) /\ main.sock # x
    BY <1>1, Unnull DEF IInv, Shape, MainShape
  <2>2. ~ Has(reqQ, x, Opens) /\ ~ Has(reqQ, x, Closes)
    BY <1>1, <2>1 DEF SockInv, Unmet, LetsGo, Early
  <2>3. /\ \A T : /\ Has(reqQ', x, T) <=> Has(reqQ, x, T) \/ "CLOSE_SOCKET" \in T
                  /\ LastOf(reqQ, x, T) /\ ~ Has(reqQ, x, T) => LastOf(reqQ', x, T)
                  /\ Once(reqQ, x, T) /\ ("CLOSE_SOCKET" \in T => ~ Has(reqQ, x, T))
                     => Once(reqQ', x, T)
    BY <1>1, <1>4, ReqPushed
  <2>4. (Has(Rest', x, Sends) <=> Has(Rest, x, Sends))
        /\ (Once(Rest, x, Sends) => Once(Rest', x, Sends))
    BY <1>1, <1>4, RestPushed
  <2>5. FreeUnknown(x)' /\ Young(x)' /\ Unmet(x)'
    BY <1>1, <1>2, <1>4, <2>1, <2>2, <2>3 DEF SockInv, FreeUnknown, Young, Unmet, Early
  <2>6. EndsOnce(x)' /\ ReadsAlive(x)' /\ LetsGo(x)'
    BY <1>1, <1>2, <1>4, <2>1, <2>2, <2>3 DEF SockInv, EndsOnce, ReadsAlive, LetsGo
  <2>7. (snd[x].send_ack + Num(Has(Rest, x, Sends)) + 1) % AckMod
          = (snd[x].send_req + 1) % AckMod
    BY <1>1, <2>2, Counts, Modulo DEF AckMod
  <2>8. Acks(x)'
    BY <1>3, <1>4, <2>1, <2>3, <2>4, <2>7 DEF SockInv, Acks, Num
  <2>9. EstablishFirst(x)'
    BY <1>1, <1>2, <2>1 DEF SockInv, EstablishFirst
  <2> QED BY <2>5, <2>6, <2>8, <2>9 DEF SockInv
<1>7. ReqSocks' /\ EvtSocks'
  BY <1>1, <1>4, ReqSocksNext, EvtSocksNext, Unnull
<1>8. IoShape' /\ MainShape'
  BY <1>1, <1>4, IoLeft, MainLeft DEF ReqAdded, EvtAdded
<1> QED BY <1>5, <1>6, <1>7, <1>8 DEF Shape, Socks

LEMMA OnTimerCloseFreeKeeps ==
  ASSUME IInv, NEW x \in Sockets, OnTimerCloseFree(x)
  PROVE  Shape' /\ Socks'
<1>1. /\ x \in allocated /\ sock[x].timer = "close" /\ ~ sock[x].need_req_close /\ Acked(x)
      /\ allocated' = allocated \ {x} /\ UNCHANGED <<reqQ, evtQ, main, io>> /\ TypeOK
  BY DEF OnTimerCloseFree, Fires, IInv
<1>2. /\ \A s \in Sockets \ {x} : sock'[s] = sock[s] /\ snd'[s] = snd[s] /\ net'[s] = net[s]
      /\ sock'[x].timer = "none" /\ ~ net'[x].watched
  BY <1>1 DEF OnTimerCloseFree, ResetData, TypeOK, ResetSocket, NoNet
<1>3. Rest' = Rest
  BY <1>1, RestSame
<1>4. ASSUME NEW s \in Sockets \ {x} PROVE SockInv(s)'
  <2>1. Frame(s)
    BY <1>1, <1>2 DEF Frame
  <2> QED BY <1>1, <2>1, OthersKeep DEF ReqStep, EvtTaken
<1>5. SockInv(x)'
  <2>1. SockInv(x)
    BY DEF IInv
  <2>2. ~ Has(reqQ, x, Closes)
    BY <1>1, Counts, Modulo DEF Acked
  <2>3. ~ Names(reqQ, x) /\ io.sock # x /\ main.sock # x /\ ~ Names(evtQ, x)
    BY <1>1, <2>1, <2>2 DEF SockInv, LetsGo, EndsOnce
  <2>4. \A T : ~ Has(reqQ, x, T) /\ ~ Has(evtQ, x, T)
    BY <2>3, HasNames
  <2>5. FreeUnknown(x)' /\ Young(x)' /\ Unmet(x)'
    BY <1>1, <1>2, <2>1, <2>3, <2>4 DEF SockInv, FreeUnknown, Young, Unmet
  <2>6. EndsOnce(x)' /\ ReadsAlive(x)' /\ LetsGo(x)'
    BY <1>1, <1>2, <2>1, <2>3, <2>4 DEF SockInv, EndsOnce, ReadsAlive, LetsGo
  <2>7. Acks(x)' /\ EstablishFirst(x)'
    BY <1>1, <1>2, <1>3, <2>1, <2>4 DEF SockInv, Acks, EstablishFirst
  <2> QED BY <2>5, <2>6, <2>7 DEF SockInv
<1>6. ReqSocks' /\ EvtSocks'
  BY <1>1, ReqSocksNext, EvtSocksNext
<1>7. IoShape' /\ MainShape'
  BY <1>1, IoLeft, MainLeft DEF ReqAdded, EvtAdded
<1> QED BY <1>4, <1>5, <1>6, <1>7 DEF Shape, Socks

-----------------------------------------------------------------------------
(***************************************************************************)
(* The events.                                                             *)
(***************************************************************************)
LEMMA HeadKnown ==
  ASSUME IInv, evtQ # <<>>, Head(evtQ).type # "ACCEPT"
  PROVE  EvtSock \in Sockets /\ EvtSock \in allocated /\ Names(evtQ, EvtSock)
<1>1. /\ evtQ \in Seq(Evts) /\ 1 \in DOMAIN evtQ /\ evtQ[1] = Head(evtQ)
      /\ Head(evtQ) \in Evts
  BY Tails DEF IInv, TypeOK
<1>2. EvtSock \in Sockets
  BY <1>1 DEF EvtSock, Evts, IInv, Shape, EvtSocks
<1>3. Names(evtQ, EvtSock)
  BY <1>1 DEF EvtSock, Names
<1> QED BY <1>2, <1>3 DEF IInv, SockInv, FreeUnknown

LEMMA MainIdle ==
  ASSUME IInv, main.pc = "idle", main'.pc = "idle", main'.sock = main.sock, main'.ret = main.ret
  PROVE  MainShape' /\ main.sock = NoSock
BY DEF IInv, Shape, MainShape, InParse

LEMMA EvtEstablishKeeps ==
  ASSUME IInv, EvtEstablish
  PROVE  Shape' /\ Socks'
<1>1. /\ main.pc = "idle" /\ evtQ # <<>> /\ Head(evtQ).type = "ESTABLISH" /\ TypeOK
      /\ evtQ' = Tail(evtQ) /\ UNCHANGED <<allocated, snd, reqQ, main, io, net>>
      /\ sock' = [sock EXCEPT ![EvtSock].timer = "send"]
  BY DEF EvtEstablish, HeadIs, IInv
<1> PICK x \in Sockets : x = EvtSock
  BY <1>1, HeadKnown
<1>2. x \in allocated /\ Names(evtQ, x)
  BY <1>1, HeadKnown
<1>3. /\ \A s \in Sockets \ {x} : sock'[s] = sock[s]
      /\ sock'[x].state = sock[x].state /\ sock'[x].timer = "send"
      /\ sock'[x].need_req_close = sock[x].need_req_close
  BY <1>1 DEF TypeOK, SocketRec
<1>4. ASSUME NEW s \in Sockets \ {x} PROVE SockInv(s)'
  <2>1. Frame(s)
    BY <1>1, <1>3 DEF Frame
  <2> QED BY <1>1, <2>1, OthersKeep DEF ReqStep, EvtTaken
<1>5. SockInv(x)'
  <2>1. SockInv(x) /\ Rest' = Rest /\ Fewer(evtQ, evtQ', x)
    BY <1>1, RestSame, EvtPopped DEF IInv
  <2>2. sock[x].state \notin Early /\ sock[x].timer # "close" /\ sock[x].need_req_close
    BY <1>2, <2>1 DEF SockInv, Young, EndsOnce, LetsGo
  <2>3. ~ Has(evtQ', x, Establishes)
    BY <1>1, <2>1, EvtPopped DEF SockInv, EstablishFirst
  <2>4. FreeUnknown(x)' /\ Young(x)' /\ Unmet(x)'
    BY <1>1, <1>2, <1>3, <2>1, <2>2 DEF SockInv, FreeUnknown, Young, Unmet
  <2>5. EndsOnce(x)' /\ ReadsAlive(x)' /\ LetsGo(x)'
    BY <1>1, <1>3, <2>1, <2>2 DEF SockInv, EndsOnce, ReadsAlive, LetsGo, Fewer
  <2>6. Acks(x)' /\ EstablishFirst(x)'
    BY <1>1, <2>1, <2>3 DEF SockInv, Acks, EstablishFirst, Fewer
  <2> QED BY <2>4, <2>5, <2>6 DEF SockInv
<1>6. ReqSocks' /\ EvtSocks'
  BY <1>1, ReqSocksNext, EvtSocksNext
<1>7. IoShape' /\ MainShape'
  BY <1>1, IoLeft, MainIdle DEF ReqAdded
<1> QED BY <1>4, <1>5, <1>6, <1>7 DEF Shape, Socks

LEMMA EvtFinalKeeps ==
  ASSUME IInv, NEW type \in FinalTypes, EvtFinal(type)
  PROVE  Shape' /\ Socks'
<1>1. /\ main.pc = "idle" /\ evtQ # <<>> /\ Head(evtQ).type = type /\ TypeOK
      /\ evtQ' = Tail(evtQ) /\ UNCHANGED <<allocated, snd, reqQ, main, io, net>>
      /\ sock' = [sock EXCEPT ![EvtSock].timer = "close"] /\ type # "ACCEPT"
  BY DEF EvtFinal, HeadIs, IInv, FinalTypes, EndTypes
<1> PICK x \in Sockets : x = EvtSock
  BY <1>1, HeadKnown
<1>2. x \in allocated /\ Names(evtQ, x)
  BY <1>1, HeadKnown
<1>3. /\ \A s \in Sockets \ {x} : sock'[s] = sock[s]
      /\ sock'[x].state = sock[x].state /\ sock'[x].timer = "close"
      /\ sock'[x].need_req_close = sock[x].need_req_close
  BY <1>1 DEF TypeOK, SocketRec
<1>4. ASSUME NEW s \in Sockets \ {x} PROVE SockInv(s)'
  <2>1. Frame(s)
    BY <1>1, <1>3 DEF Frame
  <2> QED BY <1>1, <2>1, OthersKeep DEF ReqStep, EvtTaken
<1>5. SockInv(x)'
  <2>1. SockInv(x) /\ Rest' = Rest /\ Fewer(evtQ, evtQ', x)
    BY <1>1, RestSame, EvtPopped DEF IInv
  <2>2. Has(evtQ, x, FinalTypes)
    BY <1>1, EvtPopped
  <2>3. sock[x].state \in Ended /\ sock[x].timer # "close" /\ sock[x].need_req_close
        /\ ~ Has(reqQ, x, TerminateTypes)
    BY <1>2, <2>1, <2>2 DEF SockInv, EndsOnce, LetsGo
  <2>4. ~ Names(evtQ', x)
    BY <1>1, <2>1, EvtPopped DEF SockInv, EndsOnce
  <2>5. \A T : ~ Has(evtQ', x, T)
    BY <2>4, HasNames
  <2>6. FreeUnknown(x)' /\ Young(x)' /\ Unmet(x)'
    BY <1>1, <1>2, <1>3, <2>1, <2>3 DEF SockInv, FreeUnknown, Young, Unmet, Early, Ended
  <2>7. EndsOnce(x)' /\ ReadsAlive(x)' /\ LetsGo(x)'
    BY <1>1, <1>3, <2>1, <2>2, <2>3, <2>4, <2>5
    DEF SockInv, EndsOnce, ReadsAlive, LetsGo, Fewer
  <2>8. Acks(x)' /\ EstablishFirst(x)'
    BY <1>1, <2>1, <2>5 DEF SockInv, Acks, EstablishFirst, Fewer
  <2> QED BY <2>6, <2>7, <2>8 DEF SockInv
<1>6. ReqSocks' /\ EvtSocks'
  BY <1>1, ReqSocksNext, EvtSocksNext
<1>7. IoShape' /\ MainShape'
  BY <1>1, IoLeft, MainIdle DEF ReqAdded
<1> QED BY <1>4, <1>5, <1>6, <1>7 DEF Shape, Socks

LEMMA EvtRecvActivateKeeps ==
  ASSUME IInv, EvtRecvActivate
  PROVE  Shape' /\ Socks'
<1>1. /\ main.pc = "idle" /\ evtQ # <<>> /\ Head(evtQ).type = "RECV_ACTIVATE" /\ TypeOK
      /\ evtQ' = Tail(evtQ) /\ UNCHANGED <<allocated, snd, main, io, net>>
      /\ \/ PushReq("RECV_ACTIVATE", EvtSock) /\ UNCHANGED sock /\ sock[EvtSock].state = "ESTABLISH"
         \/ MainClose(EvtSock, "MODULE_TERMINATE")
  BY DEF EvtRecvActivate, HeadIs, IInv
<1> PICK x \in Sockets : x = EvtSock
  BY <1>1, HeadKnown
<1>2. x \in allocated
  BY <1>1, HeadKnown
<1>3. MainShape'
  BY <1>1, MainIdle
<1>4. CASE MainClose(x, "MODULE_TERMINATE")
  <2>1. "MODULE_TERMINATE" \in TerminateTypes /\ "MODULE_TERMINATE" \in ReqTypes
    BY DEF TerminateTypes, ReqTypes
  <2>2. ReqSocks' /\ EvtSocks' /\ Socks'
    BY <1>1, <1>2, <1>4, <2>1, MainCloses DEF EvtTaken
  <2>3. IoShape'
    BY <1>1, <1>4, <2>1, IoLeft DEF ReqAdded, MainClose
  <2> QED BY <1>3, <2>2, <2>3 DEF Shape
<1>5. CASE PushReq("RECV_ACTIVATE", x) /\ UNCHANGED sock /\ sock[x].state = "ESTABLISH"
  <2>1. /\ "RECV_ACTIVATE" \in ReqTypes /\ "RECV_ACTIVATE" \notin TerminateTypes
        /\ "RECV_ACTIVATE" \notin Closes /\ "RECV_ACTIVATE" \notin Opens
    BY DEF ReqTypes, TerminateTypes, Closes, Opens
  <2>2. EvtSocks' /\ ReqSocks'
    BY <1>1, <1>5, <2>1, ReqSocksNext, EvtSocksNext, Unnull
  <2>3. IoShape'
    BY <1>1, <1>5, <2>1, IoLeft DEF ReqAdded
  <2>4. ASSUME NEW s \in Sockets \ {x} PROVE SockInv(s)'
    <3>1. Frame(s)
      BY <1>1, <1>5 DEF Frame
    <3> QED BY <1>1, <1>5, <2>1, <3>1, OthersKeep DEF ReqStep, EvtTaken
  <2>5. SockInv(x)'
    <3>1. SockInv(x) /\ Fewer(evtQ, evtQ', x)
      BY <1>1, EvtPopped DEF IInv
    <3>2. /\ sock[x].need_req_close /\ sock[x].state \notin Early /\ sock[x].state \notin Ended
          /\ ~ Has(reqQ, x, Opens) /\ ~ Has(reqQ, x, Closes)
      BY <1>2, <1>5, <3>1 DEF SockInv, LetsGo, Unmet, Early, Ended
    <3>3. /\ \A T : /\ Has(reqQ', x, T) <=> Has(reqQ, x, T) \/ "RECV_ACTIVATE" \in T
                    /\ LastOf(reqQ, x, T) /\ ~ Has(reqQ, x, T) => LastOf(reqQ', x, T)
                    /\ Once(reqQ, x, T) /\ ("RECV_ACTIVATE" \in T => ~ Has(reqQ, x, T))
                       => Once(reqQ', x, T)
      BY <1>1, <1>5, <2>1, ReqPushed
    <3>4. (Has(Rest', x, Sends) <=> Has(Rest, x, Sends))
          /\ (Once(Rest, x, Sends) => Once(Rest', x, Sends))
      BY <1>1, <1>5, <2>1, RestPushed
    <3>5. FreeUnknown(x)' /\ Young(x)' /\ Unmet(x)'
      BY <1>1, <1>2, <1>5, <2>1, <3>1, <3>2, <3>3 DEF SockInv, FreeUnknown, Young, Unmet
    <3>6. EndsOnce(x)' /\ ReadsAlive(x)' /\ LetsGo(x)'
      BY <1>1, <1>5, <2>1, <3>1, <3>2, <3>3 DEF SockInv, EndsOnce, ReadsAlive, LetsGo, Fewer
    <3>7. Acks(x)' /\ EstablishFirst(x)'
      BY <1>1, <1>5, <2>1, <3>1, <3>3, <3>4 DEF SockInv, Acks, Num, EstablishFirst, Fewer
    <3> QED BY <3>5, <3>6, <3>7 DEF SockInv
  <2> QED BY <1>3, <2>2, <2>3, <2>4, <2>5 DEF Shape, Socks
<1> QED BY <1>1, <1>4, <1>5

LEMMA EvtAcceptKeeps ==
  ASSUME IInv, EvtAccept
  PROVE  Shape' /\ Socks'
<1>1. /\ main.pc = "idle" /\ evtQ # <<>> /\ evtQ' = Tail(evtQ) /\ UNCHANGED <<main, io>>
  BY DEF EvtAccept, HeadIs
<1>2. MainShape' /\ EvtSocks'
  BY <1>1, MainIdle, EvtSocksNext
<1>3. ASSUME NEW x \in Sockets \ allocated, allocated' = allocated \cup {x},
             sock' = [sock EXCEPT ![x] = [ResetSocket EXCEPT !.fd = TRUE, !.accepted = TRUE]],
             ResetData(x), net' = [net EXCEPT ![x] = [NoNet EXCEPT !.peer = "open"]],
             PushReq("ACCEPT", x)
      PROVE  Shape' /\ Socks'
  <2>1. snd' = [snd EXCEPT ![x] = ResetSend]
    BY <1>3 DEF ResetData
  <2>2. /\ \A s \in Sockets \ {x} : sock'[s] = sock[s] /\ snd'[s] = snd[s] /\ net'[s] = net[s]
        /\ sock'[x].state \in Early /\ sock'[x].timer = "none" /\ sock'[x].need_req_close
        /\ snd'[x].send_req = 0 /\ snd'[x].send_ack = 0 /\ ~ net'[x].watched
    BY <1>3, <2>1 DEF IInv, TypeOK, Early, ResetSocket, ResetSend, NoNet
  <2>3. "ACCEPT" \in Opens /\ "ACCEPT" \in ReqTypes
    BY DEF Opens, ReqTypes
  <2>4. ReqSocks' /\ EvtSocks' /\ Socks'
    BY <1>1, <1>3, <2>2, <2>3, Allocates DEF EvtTaken
  <2>5. IoShape'
    BY <1>1, <1>3, <2>3, IoLeft DEF ReqAdded
  <2> QED BY <1>2, <2>4, <2>5 DEF Shape
<1>4. CASE PushReq("ACCEPT_FAIL", NoSock) /\ UNCHANGED <<allocated, sock, snd, rcv, net>>
  <2>1. "ACCEPT_FAIL" \in ReqTypes
    BY DEF ReqTypes
  <2>2. IoShape' /\ ReqSocks'
    BY <1>1, <1>4, <2>1, IoLeft, ReqSocksNext DEF ReqAdded
  <2>3. ASSUME NEW s \in Sockets PROVE SockInv(s)'
    <3>1. Frame(s)
      BY <1>1, <1>4 DEF Frame
    <3> QED BY <1>1, <1>4, <2>1, <3>1, OthersKeep, Unnull DEF ReqStep, EvtTaken
  <2> QED BY <1>2, <2>2, <2>3 DEF Shape, Socks
<1> QED BY <1>3, <1>4 DEF EvtAccept

LEMMA EvtDataKeeps ==
  ASSUME IInv, EvtData \/ \E n \in 1 .. RecvCap : ParsePacket(n)
  PROVE  Shape' /\ Socks'
<1>1. /\ UNCHANGED <<allocated, sock, snd, reqQ, evtQ, io, net>>
      /\ \/ main.pc = "idle" /\ evtQ # <<>> /\ Head(evtQ).type = "DATA"
         \/ main.pc = "parse"
  BY DEF EvtData, ParsePacket, HeadIs
<1>2. main'.pc = "parse" /\ main'.sock = main.sock /\ main'.ret = main.ret
  BY DEF EvtData, ParsePacket, IInv, TypeOK, MainRec
<1>3. MainShape'
  BY <1>1, <1>2 DEF IInv, Shape, MainShape, InParse
<1>4. \A s \in Sockets : Frame(s)
  BY <1>1, <1>2 DEF Frame
<1>5. ReqSocks' /\ EvtSocks' /\ Socks'
  BY <1>1, <1>4, AllCalm DEF EvtTaken
<1>6. IoShape'
  BY <1>1, IoLeft DEF ReqAdded
<1> QED BY <1>3, <1>5, <1>6 DEF Shape

LEMMA ParseEndKeeps ==
  ASSUME IInv, NEW bad \in BOOLEAN, ParseEnd(bad)
  PROVE  Shape' /\ Socks'
<1>1. /\ main.pc = "parse" /\ evtQ' = Tail(evtQ) /\ UNCHANGED <<allocated, snd, io, net>>
      /\ MainClose(EvtSock, "MODULE_TERMINATE") \/ UNCHANGED <<sock, reqQ>>
  BY DEF ParseEnd
<1>2. main'.pc = "idle" /\ main'.sock = main.sock /\ main'.ret = main.ret
  BY DEF ParseEnd, IInv, TypeOK, MainRec
<1>3. evtQ # <<>> /\ Head(evtQ).type = "DATA"
  BY <1>1 DEF IInv, Shape, MainShape, InParse
<1>4. MainShape'
  BY <1>1, <1>2 DEF IInv, Shape, MainShape, InParse
<1>5. CASE UNCHANGED <<sock, reqQ>>
  <2>1. \A s \in Sockets : Frame(s)
    BY <1>1, <1>2, <1>5 DEF Frame
  <2>2. ReqSocks' /\ EvtSocks' /\ Socks'
    BY <1>1, <1>3, <1>5, <2>1, AllCalm DEF EvtTaken
  <2>3. IoShape'
    BY <1>1, <1>5, IoLeft DEF ReqAdded
  <2> QED BY <1>4, <2>2, <2>3 DEF Shape
<1>6. CASE MainClose(EvtSock, "MODULE_TERMINATE")
  <2> PICK x \in Sockets : x = EvtSock
    BY <1>3, HeadKnown
  <2>1. "MODULE_TERMINATE" \in TerminateTypes /\ "MODULE_TERMINATE" \in ReqTypes
    BY DEF TerminateTypes, ReqTypes
  <2>2. x \in allocated
    BY <1>3, HeadKnown
  <2>3. ReqSocks' /\ EvtSocks' /\ Socks'
    BY <1>1, <1>2, <1>3, <1>6, <2>1, <2>2, MainCloses DEF EvtTaken
  <2>4. IoShape'
    BY <1>1, <1>6, <2>1, IoLeft DEF ReqAdded, MainClose
  <2> QED BY <1>4, <2>3, <2>4 DEF Shape
<1> QED BY <1>1, <1>5, <1>6

-----------------------------------------------------------------------------
(***************************************************************************)
(* The IO thread: requests.                                                *)
(***************************************************************************)
LEMMA ReqKnown ==
  ASSUME IInv, NEW type, ReqIs(type)
  PROVE  /\ io.pc = "idle" /\ io.evts = {} /\ io.sock = NoSock /\ ~ io.req /\ reqQ # <<>>
         /\ IoIdle /\ Head(reqQ).type = type
         /\ type # "ACCEPT_FAIL" =>
              /\ ReqSock \in Sockets /\ ReqSock \in allocated
              /\ \A T : type \in T => Has(reqQ, ReqSock, T)
<1>1. /\ io.pc = "idle" /\ io.evts = {} /\ io.sock = NoSock /\ ~ io.req /\ reqQ # <<>>
      /\ IoIdle /\ Head(reqQ).type = type
  BY DEF ReqIs, IoIdle, IInv, Shape, IoShape
<1>2. ASSUME type # "ACCEPT_FAIL"
      PROVE  /\ ReqSock \in Sockets /\ ReqSock \in allocated
             /\ \A T : type \in T => Has(reqQ, ReqSock, T)
  <2>1. /\ reqQ \in Seq(Reqs) /\ 1 \in DOMAIN reqQ /\ reqQ[1] = Head(reqQ)
        /\ Head(reqQ) \in Reqs
    BY <1>1, Tails DEF IInv, TypeOK
  <2>2. ReqSock \in Sockets
    BY <1>1, <1>2, <2>1 DEF ReqSock, Reqs, IInv, Shape, ReqSocks
  <2>3. Names(reqQ, ReqSock)
    BY <2>1 DEF ReqSock, Names
  <2>4. \A T : type \in T => Has(reqQ, ReqSock, T)
    BY <1>1, <2>1 DEF ReqSock, Has
  <2> QED BY <2>2, <2>3, <2>4 DEF IInv, SockInv, FreeUnknown
<1> QED BY <1>1, <1>2

(* A request is served at once.                                            *)
LEMMA ReqGone ==
  ASSUME IInv, IoIdle, reqQ # <<>>, reqQ' = Tail(reqQ), UNCHANGED io
  PROVE  IoShape' /\ ReqSocks'
<1>1. ReqSocks'
  BY ReqSocksNext
<1> QED BY <1>1 DEF IoIdle, IInv, Shape, IoShape

(* IO makes something of a socket it has just met, or of a connect that    *)
(* has an answer: the first event of the socket.                           *)
LEMMA Settles ==
  ASSUME IInv, NEW x \in Sockets, x \in allocated, sock[x].state \in Early,
         NEW type \in EvtTypes, PushEvt(type, x), ~ Names(reqQ', x), ~ Has(Rest', x, Sends),
         \/ type = "ESTABLISH" /\ sock'[x].state = "ESTABLISH"
         \/ type \in FinalTypes /\ sock'[x].state = "DELETE",
         UNCHANGED <<allocated, snd, main>>,
         sock'[x].timer = sock[x].timer, sock'[x].need_req_close = sock[x].need_req_close,
         io'.sock = x => io'.pc \notin Reads,
         ReqStep(x), \A s \in Sockets \ {x} : sock'[s] = sock[s] /\ net'[s] = net[s],
         io'.sock \in {io.sock, NoSock}, io'.pc = "idle"
  PROVE  EvtSocks' /\ Socks'
<1>1. type # "ACCEPT" /\ TypeOK
  BY DEF FinalTypes, EndTypes, IInv
<1>2. EvtSocks'
  BY <1>1, EvtSocksNext, Unnull DEF PushEvt
<1>3. ASSUME NEW s \in Sockets \ {x} PROVE SockInv(s)'
  <2>1. Frame(s)
    BY Unnull DEF Frame, Reads
  <2> QED BY <1>1, <2>1, OthersKeep DEF EvtPush, PushEvt
<1>4. SockInv(x)'
  <2>1. SockInv(x)
    BY DEF IInv
  <2>2. /\ sock[x].timer = "none" /\ sock[x].need_req_close /\ ~ Names(evtQ, x)
        /\ ~ Has(reqQ, x, LaterReqs)
    BY <2>1 DEF SockInv, Young
  <2>3. /\ \A T : ~ Has(evtQ, x, T) /\ ~ Has(reqQ', x, T)
        /\ ~ Has(reqQ, x, Sends) /\ ~ Has(reqQ, x, Closes)
    <3>1. Sends \subseteq LaterReqs /\ Closes \subseteq LaterReqs
      BY DEF Sends, Closes, LaterReqs, ReqTypes, Opens
    <3> QED BY <2>2, <3>1, HasNames
  <2>4. ~ Has(Rest, x, Sends)
    BY <2>3, RestWithin
  <2>5. /\ \A T : /\ Has(evtQ', x, T) <=> type \in T
                  /\ LastOf(evtQ, x, T) => LastOf(evtQ', x, T)
                  /\ FirstOf(evtQ, x, T) => FirstOf(evtQ', x, T)
    BY <1>1, <2>2, <2>3, EvtPushed DEF PushEvt
  <2>6. \A T : LastOf(reqQ', x, T) /\ Once(reqQ', x, T)
    BY DEF Names, LastOf, Once
  <2>7. Once(Rest', x, Sends)
    BY DEF Has, Once
  <2>8. FreeUnknown(x)' /\ Young(x)' /\ Unmet(x)'
    BY <2>1, <2>2, <2>3, <2>6 DEF FreeUnknown, Young, Unmet, Early
  <2>9. EndsOnce(x)' /\ ReadsAlive(x)' /\ LetsGo(x)'
    <3>1. type = "ESTABLISH" => type \notin FinalTypes
      BY DEF FinalTypes, EndTypes
    <3> QED
      BY <2>1, <2>2, <2>3, <2>5, <2>6, <3>1 DEF SockInv, EndsOnce, ReadsAlive, LetsGo, Ended
  <2>10. Acks(x)'
    BY <2>1, <2>3, <2>4, <2>7 DEF SockInv, Acks, Num
  <2>11. EstablishFirst(x)'
    BY <2>1, <2>2, <2>5 DEF SockInv, EstablishFirst
  <2> QED BY <2>8, <2>9, <2>10, <2>11 DEF SockInv
<1> QED BY <1>2, <1>3, <1>4 DEF Socks

(* The request that makes a socket known is the last that names it.        *)
LEMMA OpenTaken ==
  ASSUME IInv, NEW type \in Opens, ReqIs(type), reqQ' = Tail(reqQ), UNCHANGED io
  PROVE  /\ ReqSock \in Sockets /\ ReqSock \in allocated /\ sock[ReqSock].state \in Early
         /\ ~ Names(reqQ', ReqSock) /\ ~ Has(Rest', ReqSock, Sends)
         /\ \A s \in Sockets \ {ReqSock} : CalmReqs(s)
<1> PICK x \in Sockets : x = ReqSock
  BY ReqKnown DEF Opens
<1>1. /\ x \in allocated /\ Has(reqQ, x, Opens) /\ ~ io.req /\ reqQ # <<>> /\ IoIdle
      /\ Head(reqQ).type \in Opens
  BY ReqKnown DEF Opens
<1>2. SockInv(x)
  BY DEF IInv
<1>3. sock[x].state \in Early
  BY <1>1, <1>2 DEF SockInv, Unmet
<1>4. ~ Names(reqQ', x)
  BY <1>1, <1>2, ReqPopped DEF SockInv, Unmet, IInv
<1>5. Rest' = reqQ'
  BY <1>1 DEF Rest
<1>6. ~ Has(Rest', x, Sends)
  BY <1>4, <1>5, HasNames
<1>7. \A s \in Sockets \ {x} : CalmReqs(s)
  BY <1>1, ReqStepCalm DEF ReqStep
<1> QED BY <1>1, <1>3, <1>4, <1>6, <1>7

LEMMA ReqAcceptKeeps ==
  ASSUME IInv, NEW ok \in BOOLEAN, ReqAccept(ok)
  PROVE  Shape' /\ Socks'
<1>1. /\ ReqIs("ACCEPT") /\ reqQ' = Tail(reqQ) /\ UNCHANGED <<allocated, snd, main, io>>
  BY DEF ReqAccept
<1>2. /\ ReqSock \in Sockets /\ ReqSock \in allocated /\ sock[ReqSock].state \in Early
      /\ ~ Names(reqQ', ReqSock) /\ ~ Has(Rest', ReqSock, Sends)
  BY <1>1, OpenTaken DEF Opens
<1> PICK x \in Sockets : x = ReqSock
  BY <1>2
<1>3. io.pc = "idle" /\ io.sock = NoSock /\ IoIdle /\ reqQ # <<>> /\ TypeOK
  BY <1>1, ReqKnown DEF IInv
<1>4. IoShape' /\ ReqSocks'
  BY <1>1, <1>3, ReqGone
<1>5. /\ \A s \in Sockets \ {x} : sock'[s] = sock[s] /\ net'[s] = net[s]
      /\ sock'[x].timer = sock[x].timer /\ sock'[x].need_req_close = sock[x].need_req_close
  BY <1>3 DEF ReqAccept, TypeOK, SocketRec
<1>6. \/ PushEvt("ESTABLISH", x) /\ sock'[x].state = "ESTABLISH"
      \/ PushEvt("ACCEPT_FAIL", x) /\ sock'[x].state = "DELETE"
  BY <1>3 DEF ReqAccept, TypeOK, SocketRec
<1>7. {"ESTABLISH", "ACCEPT_FAIL"} \subseteq EvtTypes /\ "ACCEPT_FAIL" \in FinalTypes
  BY DEF EvtTypes, FinalTypes
<1>8. MainShape'
  BY <1>1, <1>6, <1>7, MainLeft DEF EvtAdded, PushEvt
<1>9. ReqStep(x)
  BY <1>1, <1>3 DEF ReqStep
<1>10. EvtSocks' /\ Socks'
  BY <1>1, <1>2, <1>3, <1>5, <1>6, <1>7, <1>9, Settles, Unnull
<1> QED BY <1>4, <1>8, <1>10 DEF Shape

LEMMA ReqConnectKeeps ==
  ASSUME IInv, NEW ok \in BOOLEAN, ReqConnect(ok)
  PROVE  Shape' /\ Socks'
<1>1. /\ ReqIs("CONNECT") /\ reqQ' = Tail(reqQ) /\ UNCHANGED <<allocated, snd, main, io>>
  BY DEF ReqConnect
<1>2. /\ ReqSock \in Sockets /\ ReqSock \in allocated /\ sock[ReqSock].state \in Early
      /\ ~ Names(reqQ', ReqSock) /\ ~ Has(Rest', ReqSock, Sends)
  BY <1>1, OpenTaken DEF Opens
<1> PICK x \in Sockets : x = ReqSock
  BY <1>2
<1>3. io.pc = "idle" /\ io.sock = NoSock /\ IoIdle /\ reqQ # <<>> /\ TypeOK
  BY <1>1, ReqKnown DEF IInv
<1>4. IoShape' /\ ReqSocks'
  BY <1>1, <1>3, ReqGone
<1>5. /\ \A s \in Sockets \ {x} : sock'[s] = sock[s] /\ net'[s] = net[s]
      /\ sock'[x].timer = sock[x].timer /\ sock'[x].need_req_close = sock[x].need_req_close
  BY <1>3 DEF ReqConnect, TypeOK, SocketRec
<1>6. "CONNECT_FAIL" \in EvtTypes /\ "CONNECT_FAIL" \in FinalTypes
  BY DEF EvtTypes, FinalTypes
<1>7. ReqStep(x)
  BY <1>1, <1>3 DEF ReqStep
<1>8. CASE ok
  <2>1. sock'[x].state = sock[x].state /\ UNCHANGED evtQ
    BY <1>3, <1>8 DEF ReqConnect, TypeOK, SocketRec
  <2>2. MainShape' /\ EvtSocks'
    BY <1>1, <2>1, MainLeft, EvtSocksNext DEF EvtAdded
  <2>3. ASSUME NEW s \in Sockets \ {x} PROVE SockInv(s)'
    <3>1. Frame(s)
      BY <1>1, <1>5 DEF Frame
    <3> QED BY <1>7, <2>1, <3>1, OthersKeep DEF EvtTaken
  <2>4. SockInv(x)'
    <3>1. SockInv(x)
      BY DEF IInv
    <3>2. /\ \A T : ~ Has(reqQ', x, T) /\ LastOf(reqQ', x, T) /\ Once(reqQ', x, T)
          /\ Once(Rest', x, Sends)
      BY <1>2, HasNames DEF Names, LastOf, Once, Has
    <3>3. ~ Has(Rest, x, Sends) /\ ~ Has(reqQ, x, Closes) /\ sock[x].need_req_close
          /\ sock[x].timer = "none" /\ main.sock # x
      <4>1. Sends \subseteq LaterReqs /\ Closes \subseteq LaterReqs
        BY DEF Sends, Closes, LaterReqs, ReqTypes, Opens
      <4>2. ~ Has(reqQ, x, LaterReqs)
        BY <1>2, <3>1 DEF SockInv, Young
      <4> QED BY <1>2, <3>1, <4>1, <4>2, HasNames, RestWithin DEF SockInv, Young
    <3>4. FreeUnknown(x)' /\ Young(x)' /\ Unmet(x)'
      BY <1>1, <1>2, <1>5, <2>1, <3>1, <3>2, <3>3 DEF SockInv, FreeUnknown, Young, Unmet
    <3>5. EndsOnce(x)' /\ ReadsAlive(x)' /\ LetsGo(x)'
      BY <1>1, <1>3, <1>5, <2>1, <3>1, <3>2, <3>3, Unnull
      DEF SockInv, EndsOnce, ReadsAlive, LetsGo
    <3>6. Acks(x)'
      BY <1>1, <1>2, <3>1, <3>2, <3>3 DEF SockInv, Acks, Num
    <3>7. EstablishFirst(x)'
      BY <1>5, <2>1, <3>1 DEF SockInv, EstablishFirst
    <3> QED BY <3>4, <3>5, <3>6, <3>7 DEF SockInv
  <2> QED BY <1>4, <2>2, <2>3, <2>4 DEF Shape, Socks
<1>9. CASE ~ ok
  <2>1. PushEvt("CONNECT_FAIL", x) /\ sock'[x].state = "DELETE"
    BY <1>3, <1>9 DEF ReqConnect, TypeOK, SocketRec
  <2>2. MainShape'
    BY <1>1, <1>6, <2>1, MainLeft DEF EvtAdded, PushEvt
  <2>3. EvtSocks' /\ Socks'
    BY <1>1, <1>2, <1>3, <1>5, <1>6, <1>7, <2>1, Settles, Unnull
  <2> QED BY <1>4, <2>2, <2>3 DEF Shape
<1> QED BY <1>8, <1>9

(* IO begins the handler of a request, which stays at the head.            *)
LEMMA ServesKeeps ==
  ASSUME IInv, NEW type \in {"SEND", "RECV_ACTIVATE"}, ReqIs(type),
         NEW pc \in IoPcs \ (Reads \cup {"idle"}), IoServe(pc),
         UNCHANGED <<allocated, sock, reqQ, evtQ, main, net>>,
         NEW x \in Sockets, x = ReqSock, Acks(x)',
         \A s \in Sockets : s # x => snd'[s] = snd[s]
  PROVE  Shape' /\ Socks'
<1>1. /\ io.pc = "idle" /\ io.evts = {} /\ io.sock = NoSock /\ ~ io.req /\ reqQ # <<>>
      /\ IoIdle /\ Head(reqQ).type = type /\ x \in allocated /\ Has(reqQ, x, LaterReqs)
  BY ReqKnown DEF LaterReqs, Opens, ReqTypes
<1>2. io'.pc = pc /\ io'.sock = x /\ io'.req /\ io'.evts = {} /\ pc # "idle" /\ pc \notin Reads
  BY <1>1 DEF IoServe, IInv, TypeOK, IoRec
<1>3. ReqSocks' /\ EvtSocks'
  BY ReqSocksNext, EvtSocksNext
<1>4. MainShape'
  BY MainLeft DEF EvtAdded
<1>5. IoShape'
  BY <1>1, <1>2, Unnull DEF IoShape, ReqSock
<1>6. ASSUME NEW s \in Sockets \ {x} PROVE SockInv(s)'
  <2>1. Frame(s)
    BY <1>2 DEF Frame
  <2> QED BY <1>1, <1>2, <2>1, OthersKeep DEF ReqStep, EvtTaken
<1>7. SockInv(x)'
  <2>1. SockInv(x)
    BY DEF IInv
  <2>2. sock[x].state \notin Early
    BY <1>1, <2>1 DEF SockInv, Young
  <2>3. FreeUnknown(x)' /\ Young(x)' /\ Unmet(x)'
    BY <1>1, <2>1, <2>2 DEF SockInv, FreeUnknown, Young, Unmet
  <2>4. Names(reqQ, x)
    BY <1>1, HasNames
  <2>5. EndsOnce(x)' /\ ReadsAlive(x)' /\ LetsGo(x)'
    BY <1>2, <2>1, <2>4 DEF SockInv, EndsOnce, ReadsAlive, LetsGo
  <2>6. EstablishFirst(x)'
    BY <2>1 DEF SockInv, EstablishFirst
  <2> QED BY <2>3, <2>5, <2>6 DEF SockInv
<1> QED BY <1>3, <1>4, <1>5, <1>6, <1>7 DEF Shape, Socks

LEMMA ReqSendKeeps ==
  ASSUME IInv, ReqSend
  PROVE  Shape' /\ Socks'
<1>1. /\ ReqIs("SEND") /\ IoServe("on_send") /\ TypeOK
      /\ UNCHANGED <<allocated, sock, reqQ, evtQ, main, net>>
      /\ snd' = [snd EXCEPT ![ReqSock].send_ack = Counted(@)]
  BY DEF ReqSend, IInv
<1> PICK x \in Sockets : x = ReqSock
  BY <1>1, ReqKnown
<1>2. /\ IoIdle /\ reqQ # <<>> /\ Head(reqQ).type = "SEND" /\ x \in allocated /\ SockInv(x)
      /\ io'.req
  BY <1>1, ReqKnown DEF IInv, IoServe, TypeOK, IoRec
<1>3. /\ snd'[x].send_ack = (snd[x].send_ack + 1) % AckMod /\ snd'[x].send_req = snd[x].send_req
      /\ \A s \in Sockets : s # x => snd'[s] = snd[s]
  BY <1>1 DEF TypeOK, SendRec, Counted
<1>4. Has(Rest, x, Sends) /\ ~ Has(Rest', x, Sends) /\ Once(Rest', x, Sends)
  BY <1>1, <1>2, RestPopped DEF SockInv, Acks
<1>5. (((snd[x].send_ack + 1) % AckMod) + 0 + Num(Has(reqQ, x, Closes))) % AckMod
        = snd[x].send_req
  BY <1>2, <1>4, Counts, Modulo DEF AckMod
<1>6. Acks(x)'
  BY <1>1, <1>3, <1>4, <1>5 DEF Acks, Num
<1>7. "on_send" \in IoPcs \ (Reads \cup {"idle"})
  BY DEF IoPcs, Reads
<1> QED BY <1>1, <1>3, <1>6, <1>7, ServesKeeps

LEMMA ReqRecvActivateKeeps ==
  ASSUME IInv, ReqRecvActivate
  PROVE  Shape' /\ Socks'
<1>1. /\ ReqIs("RECV_ACTIVATE") /\ IoServe("on_recv") /\ TypeOK
      /\ UNCHANGED <<allocated, sock, snd, reqQ, evtQ, main, net>>
  BY DEF ReqRecvActivate, IInv
<1> PICK x \in Sockets : x = ReqSock
  BY <1>1, ReqKnown
<1>2. /\ IoIdle /\ reqQ # <<>> /\ Head(reqQ).type = "RECV_ACTIVATE" /\ SockInv(x) /\ io'.req
  BY <1>1, ReqKnown DEF IInv, IoServe, TypeOK, IoRec
<1>3. (Has(Rest', x, Sends) <=> Has(Rest, x, Sends)) /\ Once(Rest', x, Sends)
  BY <1>1, <1>2, RestPopped DEF SockInv, Acks
<1>4. Acks(x)'
  BY <1>1, <1>2, <1>3 DEF SockInv, Acks, Num
<1>5. "on_recv" \in IoPcs \ (Reads \cup {"idle"})
  BY DEF IoPcs, Reads
<1> QED BY <1>1, <1>4, <1>5, ServesKeeps

LEMMA ReqTerminateKeeps ==
  ASSUME IInv, NEW type \in TerminateTypes, ReqTerminate(type)
  PROVE  Shape' /\ Socks'
<1> PICK end \in EndTypes : PushEvt(end, ReqSock)
  BY DEF ReqTerminate, EndTypes
<1>1. /\ ReqIs(type) /\ reqQ' = Tail(reqQ) /\ TypeOK /\ type # "SEND" /\ type # "ACCEPT_FAIL"
      /\ UNCHANGED <<allocated, sock, snd, main, io, net>>
      /\ end \in EvtTypes /\ end \in FinalTypes /\ end \notin Establishes /\ end # "ACCEPT"
      /\ type \in LaterReqs /\ type \notin Closes
  BY DEF ReqTerminate, IInv, EvtTypes, FinalTypes, EndTypes, Establishes, TerminateTypes,
         LaterReqs, ReqTypes, Opens, Closes
<1> PICK x \in Sockets : x = ReqSock
  BY <1>1, ReqKnown
<1>2. /\ IoIdle /\ reqQ # <<>> /\ Head(reqQ).type = type /\ x \in allocated /\ SockInv(x)
      /\ Has(reqQ, x, TerminateTypes) /\ Has(reqQ, x, LaterReqs) /\ io.pc = "idle"
  BY <1>1, ReqKnown DEF IInv
<1>3. IoShape' /\ ReqSocks'
  BY <1>1, <1>2, ReqGone
<1>4. MainShape' /\ EvtSocks'
  BY <1>1, MainLeft, EvtSocksNext, Unnull DEF EvtAdded, PushEvt
<1>5. ReqStep(x)
  BY <1>1, <1>2 DEF ReqStep
<1>6. ASSUME NEW s \in Sockets \ {x} PROVE SockInv(s)'
  <2>1. Frame(s)
    BY <1>1 DEF Frame
  <2> QED BY <1>1, <1>5, <2>1, OthersKeep DEF EvtPush, PushEvt
<1>7. SockInv(x)'
  <2>1. /\ sock[x].state \in Ended /\ ~ Has(evtQ, x, FinalTypes) /\ sock[x].timer # "close"
        /\ sock[x].state \notin Early
    BY <1>2 DEF SockInv, EndsOnce, Young
  <2>2. sock[x].need_req_close
    BY <1>2, <2>1 DEF SockInv, LetsGo
  <2>3. Fewer(reqQ, reqQ', x) /\ ~ Has(reqQ', x, TerminateTypes)
        /\ (Has(reqQ', x, Closes) <=> Has(reqQ, x, Closes))
    BY <1>1, <1>2, ReqPopped DEF SockInv, EndsOnce
  <2>4. (Has(Rest', x, Sends) <=> Has(Rest, x, Sends)) /\ Once(Rest', x, Sends)
    BY <1>1, <1>2, RestPopped DEF SockInv, Acks
  <2>5. /\ \A T : /\ Has(evtQ', x, T) <=> Has(evtQ, x, T) \/ end \in T
                  /\ LastOf(evtQ, x, T) /\ ~ Has(evtQ, x, T) => LastOf(evtQ', x, T)
                  /\ FirstOf(evtQ, x, T) /\ end \notin T => FirstOf(evtQ', x, T)
    BY <1>1, EvtPushed DEF PushEvt
  <2>6. FreeUnknown(x)' /\ Young(x)' /\ Unmet(x)'
    BY <1>1, <1>2, <2>1, <2>3 DEF SockInv, FreeUnknown, Young, Unmet, Fewer
  <2>7. EndsOnce(x)' /\ ReadsAlive(x)' /\ LetsGo(x)'
    BY <1>1, <1>2, <2>1, <2>2, <2>3, <2>5
    DEF SockInv, EndsOnce, ReadsAlive, LetsGo, Fewer, Reads
  <2>8. Acks(x)'
    BY <1>1, <1>2, <2>3, <2>4 DEF SockInv, Acks, Num
  <2>9. EstablishFirst(x)'
    BY <1>1, <1>2, <2>5 DEF SockInv, EstablishFirst
  <2> QED BY <2>6, <2>7, <2>8, <2>9 DEF SockInv
<1> QED BY <1>3, <1>4, <1>6, <1>7 DEF Shape, Socks

LEMMA ReqCloseSocketKeeps ==
  ASSUME IInv, ReqCloseSocket
  PROVE  Shape' /\ Socks'
<1>1. /\ ReqIs("CLOSE_SOCKET") /\ reqQ' = Tail(reqQ) /\ TypeOK
      /\ UNCHANGED <<allocated, evtQ, main, io>>
      /\ "CLOSE_SOCKET" \in Closes /\ "CLOSE_SOCKET" \in LaterReqs
  BY DEF ReqCloseSocket, IInv, Closes, LaterReqs, ReqTypes, Opens
<1> PICK x \in Sockets : x = ReqSock
  BY <1>1, ReqKnown
<1>2. /\ IoIdle /\ reqQ # <<>> /\ Head(reqQ).type = "CLOSE_SOCKET" /\ x \in allocated
      /\ SockInv(x) /\ Has(reqQ, x, Closes) /\ Has(reqQ, x, LaterReqs)
      /\ io.sock = NoSock /\ io.sock # x
  BY <1>1, ReqKnown, Unnull DEF IInv
<1>3. /\ \A s \in Sockets \ {x} : sock'[s] = sock[s] /\ snd'[s] = snd[s] /\ net'[s] = net[s]
      /\ sock'[x].state = sock[x].state /\ sock'[x].timer = sock[x].timer
      /\ sock'[x].need_req_close = sock[x].need_req_close /\ ~ net'[x].watched
      /\ snd'[x].send_ack = (snd[x].send_ack + 1) % AckMod /\ snd'[x].send_req = snd[x].send_req
  BY <1>1 DEF ReqCloseSocket, TypeOK, SocketRec, SendRec, NoNet, Counted
<1>4. IoShape' /\ ReqSocks'
  BY <1>1, <1>2, ReqGone
<1>5. MainShape' /\ EvtSocks'
  BY <1>1, MainLeft, EvtSocksNext DEF EvtAdded
<1>6. ASSUME NEW s \in Sockets \ {x} PROVE SockInv(s)'
  <2>1. Frame(s)
    BY <1>1, <1>3 DEF Frame
  <2> QED BY <1>1, <1>2, <2>1, OthersKeep DEF ReqStep, EvtTaken
<1>7. SockInv(x)'
  <2>1. ~ Names(reqQ', x) /\ Fewer(reqQ, reqQ', x)
    BY <1>1, <1>2, ReqPopped DEF SockInv, LetsGo
  <2>2. \A T : ~ Has(reqQ', x, T)
    BY <2>1, HasNames
  <2>3. (Has(Rest', x, Sends) <=> Has(Rest, x, Sends)) /\ Once(Rest', x, Sends)
    BY <1>1, <1>2, RestPopped DEF SockInv, Acks
  <2>4. FreeUnknown(x)' /\ Young(x)' /\ Unmet(x)'
    BY <1>1, <1>2, <1>3, <2>1, <2>2 DEF SockInv, FreeUnknown, Young, Unmet, Fewer
  <2>5. EndsOnce(x)' /\ ReadsAlive(x)' /\ LetsGo(x)'
    BY <1>1, <1>2, <1>3, <2>1, <2>2 DEF SockInv, EndsOnce, ReadsAlive, LetsGo, Fewer
  <2>6. (((snd[x].send_ack + 1) % AckMod) + Num(Has(Rest, x, Sends)) + 0) % AckMod
          = snd[x].send_req
    BY <1>2, Counts, Modulo DEF AckMod
  <2>7. Acks(x)'
    BY <1>3, <2>2, <2>3, <2>6 DEF Acks, Num
  <2>8. EstablishFirst(x)'
    BY <1>1, <1>2, <1>3 DEF SockInv, EstablishFirst
  <2> QED BY <2>4, <2>5, <2>7, <2>8 DEF SockInv
<1> QED BY <1>4, <1>5, <1>6, <1>7 DEF Shape, Socks

LEMMA ReqAcceptFailKeeps ==
  ASSUME IInv, ReqAcceptFail
  PROVE  Shape' /\ Socks'
<1>1. /\ ReqIs("ACCEPT_FAIL") /\ reqQ' = Tail(reqQ)
      /\ UNCHANGED <<allocated, sock, snd, evtQ, main, io, net>>
  BY DEF ReqAcceptFail
<1>2. IoIdle /\ reqQ # <<>> /\ Head(reqQ).type = "ACCEPT_FAIL"
  BY <1>1, ReqKnown
<1>3. IoShape' /\ ReqSocks' /\ MainShape' /\ EvtSocks'
  BY <1>1, <1>2, ReqGone, MainLeft, EvtSocksNext DEF EvtAdded
<1>4. ReqSock = NoSock
  <2>1. reqQ \in Seq(Reqs) /\ 1 \in DOMAIN reqQ /\ reqQ[1] = Head(reqQ)
    BY <1>2, Tails DEF IInv, TypeOK
  <2> QED BY <1>2, <2>1 DEF ReqSock, IInv, Shape, ReqSocks
<1>5. ASSUME NEW s \in Sockets PROVE SockInv(s)'
  <2>1. Frame(s)
    BY <1>1 DEF Frame
  <2> QED BY <1>1, <1>2, <1>4, <2>1, OthersKeep, Unnull DEF ReqStep, EvtTaken
<1> QED BY <1>3, <1>5 DEF Shape, Socks

-----------------------------------------------------------------------------
(***************************************************************************)
(* The IO thread: epoll_events, sending and receiving.                     *)
(***************************************************************************)
LEMMA IoKnown ==
  ASSUME IInv, io.pc # "idle" \/ io.evts # {}
  PROVE  io.sock \in Sockets /\ io.sock \in allocated
<1>1. io.sock \in Sockets
  BY DEF IInv, Shape, IoShape, TypeOK, IoRec
<1> QED BY <1>1 DEF IInv, SockInv, FreeUnknown

LEMMA Returns ==
  ASSUME IInv, IoReturn
  PROVE  /\ IoShape' /\ ReqSocks' /\ ReqEnd
         /\ io'.pc = "idle" /\ io'.sock \in {io.sock, NoSock}
<1>1. /\ io'.pc = "idle" /\ ~ io'.req /\ io'.evts = io.evts
      /\ io'.sock = IF io.evts = {} THEN NoSock ELSE io.sock
      /\ reqQ' = IF io.req THEN Tail(reqQ) ELSE reqQ
  BY IoReturnFields DEF IInv, TypeOK
<1>2. IoShape'
  BY <1>1 DEF IInv, Shape, IoShape
<1>3. ReqSocks'
  BY <1>1, ReqSocksNext DEF IInv, Shape, IoShape
<1> QED BY <1>1, <1>2, <1>3 DEF ReqEnd

LEMMA Goes ==
  ASSUME IInv, io.pc # "idle", NEW pc \in IoPcs \ {"idle"}, IoGoto(pc), UNCHANGED reqQ
  PROVE  /\ IoShape' /\ ReqSocks'
         /\ io'.pc = pc /\ io'.sock = io.sock /\ io'.req = io.req
<1>1. io'.pc = pc /\ io'.sock = io.sock /\ io'.req = io.req /\ io'.evts = io.evts
  BY IoGotoFields DEF IInv, TypeOK
<1>2. IoShape'
  BY <1>1 DEF IInv, Shape, IoShape
<1> QED BY <1>1, <1>2, ReqSocksNext

(* IO returns or goes on, and no socket notices.                           *)
LEMMA IoCalm ==
  ASSUME IInv, UNCHANGED <<allocated, sock, evtQ, main, net>>,
         \A s \in Sockets : /\ snd'[s].send_req = snd[s].send_req
                            /\ snd'[s].send_ack = snd[s].send_ack,
         \/ IoReturn
         \/ /\ io.pc # "idle" /\ UNCHANGED reqQ
            /\ \E pc \in IoPcs \ {"idle"} : IoGoto(pc) /\ (pc \in Reads => io.pc \in Reads)
  PROVE  Shape' /\ Socks'
<1>1. /\ IoShape' /\ (io'.pc \in Reads => io.pc \in Reads) /\ io'.sock \in {io.sock, NoSock}
      /\ (UNCHANGED reqQ /\ io'.req = io.req) \/ ReqEnd
  BY Returns, Goes DEF Reads
<1>2. \A s \in Sockets : Frame(s)
  BY <1>1, Unnull DEF Frame
<1>3. ReqSocks' /\ EvtSocks' /\ Socks'
  BY <1>1, <1>2, AllCalm DEF EvtTaken
<1>4. MainShape'
  BY MainLeft DEF EvtAdded
<1> QED BY <1>1, <1>3, <1>4 DEF Shape

LEMMA IoSendsCalmly ==
  ASSUME IInv, OnSend \/ SendAgain \/ SendDrained \/ SetSendActive
  PROVE  Shape' /\ Socks'
<1>1. {"send", "send_block", "send_done"} \subseteq IoPcs \ ({"idle"} \cup Reads)
  BY DEF IoPcs, Reads
<1>2. /\ io.pc # "idle" /\ UNCHANGED <<allocated, sock, evtQ, main, net>>
      /\ \/ IoReturn
         \/ UNCHANGED reqQ /\ \E pc \in {"send", "send_block", "send_done"} : IoGoto(pc)
  BY DEF OnSend, SendAgain, SendDrained, SetSendActive
<1>3. \A s \in Sockets : /\ snd'[s].send_req = snd[s].send_req
                         /\ snd'[s].send_ack = snd[s].send_ack
  <2>1. CASE SetSendActive
    BY <2>1 DEF SetSendActive, IInv, TypeOK, SendRec
  <2>2. CASE UNCHANGED snd
    BY <2>2
  <2> QED BY <2>1, <2>2 DEF OnSend, SendAgain, SendDrained
<1> QED BY <1>1, <1>2, <1>3, IoCalm

LEMMA SomeMoved ==
  ASSUME IInv, (\E n \in 1 .. SendCap : SendSome(n)) \/ (\E n \in 1 .. RecvCap : RecvSome(n))
  PROVE  Shape' /\ Socks'
<1>1. /\ UNCHANGED <<allocated, sock, reqQ, evtQ, main>>
      /\ io'.pc = io.pc /\ io'.sock = io.sock /\ io'.req = io.req /\ io'.evts = io.evts
  BY DEF SendSome, RecvSome, IInv, TypeOK, IoRec
<1>2. \A s \in Sockets : /\ snd'[s].send_req = snd[s].send_req
                         /\ snd'[s].send_ack = snd[s].send_ack
                         /\ net'[s].watched = net[s].watched
  <2>1. ASSUME NEW n \in 1 .. SendCap, SendSome(n), NEW s \in Sockets
        PROVE  snd'[s].send_req = snd[s].send_req /\ snd'[s].send_ack = snd[s].send_ack
               /\ net'[s].watched = net[s].watched
    <3>1. /\ snd'[s].send_req = snd[s].send_req
          /\ snd'[s].send_ack = snd[s].send_ack
      BY SMTT(30), <2>1 DEF SendSome, IInv, TypeOK, SendRec
    <3>2. net'[s].watched = net[s].watched
      BY <2>1 DEF SendSome, IInv, TypeOK, NetRec
    <3> QED BY <3>1, <3>2
  <2>2. ASSUME NEW n \in 1 .. RecvCap, RecvSome(n), NEW s \in Sockets
        PROVE  snd'[s] = snd[s] /\ net'[s].watched = net[s].watched
    BY <2>2 DEF RecvSome, IInv, TypeOK, NetRec
  <2> QED BY <2>1, <2>2
<1>3. \A s \in Sockets : Frame(s)
  BY <1>1, <1>2 DEF Frame
<1>4. ReqSocks' /\ EvtSocks' /\ Socks'
  BY <1>1, <1>3, AllCalm DEF EvtTaken
<1>5. MainShape'
  BY <1>1, MainLeft DEF EvtAdded
<1>6. IoShape'
  BY <1>1 DEF IInv, Shape, IoShape
<1> QED BY <1>4, <1>5, <1>6 DEF Shape

(* IO begins to read: the socket stands, so its end has not been told.     *)
LEMMA OnRecvKeeps ==
  ASSUME IInv, OnRecv
  PROVE  Shape' /\ Socks'
<1>1. io.pc = "on_recv" /\ UNCHANGED <<allocated, sock, snd, evtQ, main, net>>
  BY DEF OnRecv
<1>2. CASE IoReturn
  BY <1>1, <1>2, IoCalm
<1>3. CASE sock[io.sock].state = "ESTABLISH" /\ IoGoto("recv") /\ UNCHANGED reqQ
  <2> PICK x \in Sockets : x = io.sock
    BY <1>1, IoKnown
  <2>1. /\ IoShape' /\ ReqSocks' /\ io'.pc = "recv" /\ io'.sock = x /\ io'.req = io.req
    BY <1>1, <1>3, Goes DEF IoPcs
  <2>2. MainShape' /\ EvtSocks'
    BY <1>1, MainLeft, EvtSocksNext DEF EvtAdded
  <2>3. ASSUME NEW s \in Sockets \ {x} PROVE SockInv(s)'
    <3>1. Frame(s)
      BY <1>1, <2>1 DEF Frame
    <3> QED BY <1>1, <1>3, <2>1, <3>1, OthersKeep DEF ReqStep, EvtTaken
  <2>4. SockInv(x)'
    <3>1. SockInv(x) /\ x \in allocated /\ Rest' = Rest
      BY <1>1, <1>3, <2>1, IoKnown, RestSame DEF IInv
    <3>2. FreeUnknown(x)' /\ Young(x)' /\ Unmet(x)'
      BY <1>1, <1>3, <2>1, <3>1 DEF SockInv, FreeUnknown, Young, Unmet
    <3>3. EndsOnce(x)' /\ ReadsAlive(x)' /\ LetsGo(x)'
      BY <1>1, <1>3, <2>1, <3>1 DEF SockInv, EndsOnce, ReadsAlive, LetsGo, Ended
    <3>4. Acks(x)' /\ EstablishFirst(x)'
      BY <1>1, <1>3, <3>1 DEF SockInv, Acks, EstablishFirst
    <3> QED BY <3>2, <3>3, <3>4 DEF SockInv
  <2> QED BY <2>1, <2>2, <2>3, <2>4 DEF Shape, Socks
<1> QED BY <1>2, <1>3 DEF OnRecv

(* IO tells main of what it has read, or that the ring is full.            *)
LEMMA IoTells ==
  ASSUME IInv, NEW x \in Sockets, x = io.sock, io.pc \in Reads,
         NEW type \in EvtTypes \ (FinalTypes \cup Establishes \cup {"ACCEPT"}), NEW n \in Nat,
         evtQ' = Append(evtQ, Entry(type, x, n)),
         UNCHANGED <<allocated, sock, snd, main, net>>, io'.sock \in {io.sock, NoSock},
         (UNCHANGED reqQ /\ io'.req = io.req) \/ ReqEnd
  PROVE  EvtSocks' /\ Socks'
<1>1. EvtSocks'
  BY EvtSocksNext, Unnull
<1>2. \A s \in Sockets : Frame(s)
  BY Unnull DEF Frame
<1>3. ASSUME NEW s \in Sockets \ {x} PROVE SockInv(s)'
  BY <1>2, OthersKeep DEF EvtPush, ReqStep
<1>4. SockInv(x)'
  <2>1. SockInv(x) /\ x \in allocated /\ TypeOK
    BY IoKnown DEF IInv, Reads
  <2>2. /\ sock[x].state \notin Early /\ sock[x].timer # "close" /\ ~ Has(evtQ, x, FinalTypes)
    BY <2>1 DEF SockInv, ReadsAlive, Early
  <2>3. CalmReqs(x)
    BY <2>1, ReqEndCalm, RestSame, Alike DEF CalmReqs
  <2>4. /\ \A T : /\ Has(evtQ', x, T) <=> Has(evtQ, x, T) \/ type \in T
                  /\ LastOf(evtQ, x, T) /\ ~ Has(evtQ, x, T) => LastOf(evtQ', x, T)
                  /\ FirstOf(evtQ, x, T) /\ type \notin T => FirstOf(evtQ', x, T)
    BY <2>1, EvtPushed
  <2>5. Frame(x)
    BY <1>2
  <2>6. FreeUnknown(x)' /\ Young(x)' /\ Unmet(x)'
    BY <2>1, <2>2, <2>3, <2>5 DEF SockInv, FreeUnknown, Young, Unmet, Frame, CalmReqs, Fewer
  <2>7. EndsOnce(x)'
    BY <2>1, <2>2, <2>3, <2>4 DEF SockInv, EndsOnce, CalmReqs, Fewer
  <2>8. ReadsAlive(x)' /\ LetsGo(x)'
    BY <2>1, <2>2, <2>3, <2>4, <2>5
    DEF SockInv, ReadsAlive, LetsGo, Frame, CalmReqs, Fewer
  <2>9. Acks(x)'
    BY <2>1, <2>3 DEF SockInv, Acks, Num, CalmReqs
  <2>10. EstablishFirst(x)'
    BY <2>1, <2>4 DEF SockInv, EstablishFirst
  <2> QED BY <2>6, <2>7, <2>8, <2>9, <2>10 DEF SockInv
<1> QED BY <1>1, <1>3, <1>4 DEF Socks

(* IO ends a session that stands, and tells so at once.                    *)
LEMMA IoCloses ==
  ASSUME IInv, NEW x \in Sockets, x = io.sock, x \in allocated, sock[x].state = "ESTABLISH",
         NEW type \in EndTypes, PushEvt(type, x), sock'[x].state \in Ended,
         UNCHANGED <<allocated, snd, main, net>>,
         sock'[x].timer = sock[x].timer, sock'[x].need_req_close = sock[x].need_req_close,
         \A s \in Sockets \ {x} : sock'[s] = sock[s],
         io'.sock \in {io.sock, NoSock}, io'.pc = "idle",
         (UNCHANGED reqQ /\ io'.req = io.req) \/ ReqEnd
  PROVE  EvtSocks' /\ Socks'
<1>1. /\ type \in EvtTypes /\ type \in FinalTypes /\ type # "ACCEPT" /\ type \notin Establishes
      /\ TypeOK /\ io'.pc \notin Reads
  BY DEF EvtTypes, FinalTypes, EndTypes, Establishes, Reads, IInv
<1>2. EvtSocks'
  BY <1>1, EvtSocksNext, Unnull DEF PushEvt
<1>3. ASSUME NEW s \in Sockets \ {x} PROVE SockInv(s)'
  <2>1. Frame(s)
    BY <1>1, Unnull DEF Frame
  <2> QED BY <1>1, <2>1, OthersKeep DEF EvtPush, PushEvt, ReqStep
<1>4. SockInv(x)'
  <2>1. SockInv(x)
    BY DEF IInv
  <2>2. /\ ~ Has(evtQ, x, FinalTypes) /\ ~ Has(reqQ, x, TerminateTypes)
        /\ sock[x].timer # "close" /\ sock[x].need_req_close /\ sock[x].state \notin Early
        /\ ~ Has(reqQ, x, Opens)
    BY <2>1 DEF SockInv, EndsOnce, LetsGo, Unmet, Ended, Early
  <2>3. CalmReqs(x)
    BY <1>1, ReqEndCalm, RestSame, Alike DEF CalmReqs
  <2>4. /\ \A T : /\ Has(evtQ', x, T) <=> Has(evtQ, x, T) \/ type \in T
                  /\ LastOf(evtQ, x, T) /\ ~ Has(evtQ, x, T) => LastOf(evtQ', x, T)
                  /\ FirstOf(evtQ, x, T) /\ type \notin T => FirstOf(evtQ', x, T)
    BY <1>1, EvtPushed DEF PushEvt
  <2>5. FreeUnknown(x)' /\ Young(x)' /\ Unmet(x)'
    BY <2>1, <2>2, <2>3 DEF SockInv, FreeUnknown, Young, Unmet, Early, Ended, CalmReqs, Fewer
  <2>6. EndsOnce(x)'
    BY <2>1, <2>2, <2>3, <2>4 DEF SockInv, EndsOnce, CalmReqs, Fewer
  <2>7. ReadsAlive(x)' /\ LetsGo(x)'
    BY <1>1, <2>1, <2>2, <2>3 DEF SockInv, ReadsAlive, LetsGo, CalmReqs, Fewer
  <2>8. Acks(x)'
    BY <2>1, <2>3 DEF SockInv, Acks, Num, CalmReqs
  <2>9. EstablishFirst(x)'
    BY <1>1, <2>1, <2>4 DEF SockInv, EstablishFirst
  <2> QED BY <2>5, <2>6, <2>7, <2>8, <2>9 DEF SockInv
<1> QED BY <1>2, <1>3, <1>4 DEF Socks

LEMMA ErrorEnds ==
  ASSUME IInv, SendError \/ RecvError
  PROVE  Shape' /\ Socks'
<1>1. /\ io.pc # "idle" /\ IoCloseError(io.sock) /\ IoReturn /\ TypeOK
      /\ UNCHANGED <<allocated, snd, main, net>>
  BY DEF SendError, RecvError, IInv
<1> PICK x \in Sockets : x = io.sock
  BY <1>1, IoKnown
<1>2. x \in allocated
  BY <1>1, IoKnown
<1>3. /\ IoShape' /\ ReqSocks' /\ ReqEnd
      /\ io'.pc = "idle" /\ io'.sock \in {io.sock, NoSock}
  BY <1>1, Returns
<1>4. CASE UNCHANGED <<sock, evtQ>>
  BY <1>1, <1>4, IoCalm
<1>5. CASE /\ sock[x].state = "ESTABLISH" /\ sock' = [sock EXCEPT ![x].state = "DELETE"]
           /\ PushEvt("SYSTEM_ERROR", x)
  <2>1. /\ \A s \in Sockets \ {x} : sock'[s] = sock[s]
        /\ sock'[x].state \in Ended /\ sock'[x].timer = sock[x].timer
        /\ sock'[x].need_req_close = sock[x].need_req_close
    BY <1>1, <1>5 DEF TypeOK, SocketRec, Ended
  <2>2. "SYSTEM_ERROR" \in EndTypes /\ "SYSTEM_ERROR" \in EvtTypes
    BY DEF EndTypes, EvtTypes
  <2>3. EvtSocks' /\ Socks'
    BY <1>1, <1>2, <1>3, <1>5, <2>1, <2>2, IoCloses
  <2>4. MainShape'
    BY <1>1, <1>5, <2>2, MainLeft DEF EvtAdded, PushEvt
  <2> QED BY <1>3, <2>3, <2>4 DEF Shape
<1> QED BY <1>1, <1>4, <1>5 DEF IoCloseError

LEMMA RecvEofKeeps ==
  ASSUME IInv, RecvEof
  PROVE  Shape' /\ Socks'
<1>1. /\ io.pc # "idle" /\ IoReturn /\ TypeOK /\ UNCHANGED <<allocated, snd, main, net>>
  BY DEF RecvEof, IInv
<1> PICK x \in Sockets : x = io.sock
  BY <1>1, IoKnown
<1>2. x \in allocated
  BY <1>1, IoKnown
<1>3. /\ IoShape' /\ ReqSocks' /\ ReqEnd
      /\ io'.pc = "idle" /\ io'.sock \in {io.sock, NoSock} /\ io'.pc \notin Reads
  BY <1>1, Returns DEF Reads
<1>4. /\ \A s \in Sockets \ {x} : sock'[s] = sock[s]
      /\ sock'[x].timer = sock[x].timer /\ sock'[x].need_req_close = sock[x].need_req_close
      /\ \/ UNCHANGED evtQ /\ sock'[x].state = sock[x].state
         \/ sock[x].state = "ESTABLISH" /\ PushEvt("TERMINATE", x) /\ sock'[x].state = "TERMINATE"
  <2>1. CASE sock[x].state = "ESTABLISH"
    <3>1. /\ sock' = [sock EXCEPT ![x].try_close_send_count = MaxTry, ![x].state = "TERMINATE"]
          /\ PushEvt("TERMINATE", x)
      BY <2>1 DEF RecvEof
    <3> QED BY <1>1, <2>1, <3>1 DEF TypeOK, SocketRec
  <2>2. CASE sock[x].state # "ESTABLISH"
    <3>1. sock' = [sock EXCEPT ![x].try_close_send_count = MaxTry] /\ UNCHANGED evtQ
      BY <2>2 DEF RecvEof
    <3> QED BY <1>1, <3>1 DEF TypeOK, SocketRec
  <2> QED BY <2>1, <2>2
<1>5. CASE UNCHANGED evtQ /\ sock'[x].state = sock[x].state
  <2>1. \A s \in Sockets : Frame(s)
    BY <1>1, <1>3, <1>4, <1>5, Unnull DEF Frame
  <2>2. ReqSocks' /\ EvtSocks' /\ Socks'
    BY <1>3, <1>5, <2>1, AllCalm DEF EvtTaken
  <2>3. MainShape'
    BY <1>1, <1>5, MainLeft DEF EvtAdded
  <2> QED BY <1>3, <2>2, <2>3 DEF Shape
<1>6. CASE sock[x].state = "ESTABLISH" /\ PushEvt("TERMINATE", x) /\ sock'[x].state = "TERMINATE"
  <2>1. "TERMINATE" \in EndTypes /\ "TERMINATE" \in EvtTypes /\ "TERMINATE" \in Ended
    BY DEF EndTypes, EvtTypes, Ended
  <2>2. EvtSocks' /\ Socks'
    BY <1>1, <1>2, <1>3, <1>4, <1>6, <2>1, IoCloses
  <2>3. MainShape'
    BY <1>1, <1>6, <2>1, MainLeft DEF EvtAdded, PushEvt
  <2> QED BY <1>3, <2>2, <2>3 DEF Shape
<1> QED BY <1>4, <1>5, <1>6

LEMMA RecvPushDataKeeps ==
  ASSUME IInv, RecvPushData
  PROVE  Shape' /\ Socks'
<1>1. /\ io.pc = "recv" /\ UNCHANGED <<allocated, sock, snd, main, net>> /\ TypeOK
      /\ evtQ' = Append(evtQ, Entry("DATA", io.sock, io.len)) \/ UNCHANGED evtQ
      /\ IoReturn \/ (IoGoto(RecvOutcome) /\ UNCHANGED reqQ)
      /\ RecvOutcome \in {"recv_full", "recv_error", "recv_eof", "recv_again"}
      /\ RecvOutcome # "recv_again" \/ IoReturn
  BY DEF RecvPushData, RecvOutcome, IInv
<1>2. PICK pc \in {"recv_full", "recv_error", "recv_eof"} :
        IoReturn \/ (IoGoto(pc) /\ UNCHANGED reqQ)
  BY <1>1
<1>3. pc \in IoPcs \ {"idle"} /\ io.pc # "idle" /\ io.pc \in Reads
  BY <1>1 DEF IoPcs, Reads
<1>4. CASE UNCHANGED evtQ
  BY <1>1, <1>2, <1>3, <1>4, IoCalm
<1>5. CASE evtQ' = Append(evtQ, Entry("DATA", io.sock, io.len))
  <2> PICK x \in Sockets : x = io.sock
    BY <1>3, IoKnown
  <2>1. /\ IoShape' /\ ReqSocks' /\ io'.sock \in {io.sock, NoSock}
        /\ (UNCHANGED reqQ /\ io'.req = io.req) \/ ReqEnd
    BY <1>2, <1>3, Returns, Goes
  <2>2. /\ "DATA" \in EvtTypes \ (FinalTypes \cup Establishes \cup {"ACCEPT"})
        /\ "DATA" \in EvtTypes /\ io.len \in Nat
    BY <1>1 DEF EvtTypes, FinalTypes, EndTypes, Establishes, TypeOK, IoRec
  <2>3. EvtSocks' /\ Socks'
    BY <1>1, <1>3, <1>5, <2>1, <2>2, IoTells
  <2>4. MainShape'
    BY <1>1, <1>5, <2>2, MainLeft DEF EvtAdded
  <2> QED BY <2>1, <2>3, <2>4 DEF Shape
<1> QED BY <1>1, <1>4, <1>5

LEMMA RecvFullKeeps ==
  ASSUME IInv, RecvFull
  PROVE  Shape' /\ Socks'
<1>1. /\ io.pc = "recv_full" /\ UNCHANGED <<allocated, sock, snd, main, net>> /\ IoReturn
      /\ PushEvt("RECV_ACTIVATE", io.sock)
  BY DEF RecvFull
<1> PICK x \in Sockets : x = io.sock
  BY <1>1, IoKnown
<1>2. /\ IoShape' /\ ReqSocks' /\ io'.sock \in {io.sock, NoSock} /\ ReqEnd
  BY <1>1, Returns
<1>3. /\ "RECV_ACTIVATE" \in EvtTypes \ (FinalTypes \cup Establishes \cup {"ACCEPT"})
      /\ "RECV_ACTIVATE" \in EvtTypes /\ io.pc \in Reads /\ 0 \in Nat
  BY <1>1 DEF EvtTypes, FinalTypes, EndTypes, Establishes, Reads
<1>4. EvtSocks' /\ Socks'
  BY <1>1, <1>2, <1>3, IoTells DEF PushEvt
<1>5. MainShape'
  BY <1>1, <1>3, MainLeft DEF EvtAdded, PushEvt
<1> QED BY <1>2, <1>4, <1>5 DEF Shape

LEMMA ListenerOnAcceptKeeps ==
  ASSUME IInv, ListenerOnAccept
  PROVE  Shape' /\ Socks'
<1>1. PushEvt("ACCEPT", NoSock) /\ UNCHANGED <<allocated, sock, snd, reqQ, main, io, net>>
  BY DEF ListenerOnAccept
<1>2. "ACCEPT" \in EvtTypes
  BY DEF EvtTypes
<1>3. ReqSocks' /\ EvtSocks'
  BY <1>1, <1>2, ReqSocksNext, EvtSocksNext DEF PushEvt
<1>4. IoShape' /\ MainShape'
  BY <1>1, <1>2, IoLeft, MainLeft DEF ReqAdded, EvtAdded, PushEvt
<1>5. ASSUME NEW s \in Sockets PROVE SockInv(s)'
  <2>1. Frame(s)
    BY <1>1 DEF Frame
  <2> QED BY <1>1, <1>2, <2>1, OthersKeep, Unnull DEF ReqStep, EvtPush, PushEvt
<1> QED BY <1>3, <1>4, <1>5 DEF Shape, Socks

LEMMA EpollWaitKeeps ==
  ASSUME IInv, NEW x \in Sockets, EpollWait(x)
  PROVE  Shape' /\ Socks'
<1>1. /\ io.pc = "idle" /\ IoIdle /\ net[x].watched /\ net[x].edges # {}
      /\ UNCHANGED <<allocated, sock, snd, reqQ, evtQ, main>> /\ TypeOK
  BY DEF EpollWait, IoIdle, IInv
<1>2. /\ io'.pc = "idle" /\ io'.sock = x /\ io'.req = io.req /\ io'.evts # {}
      /\ ~ io.req /\ \A s \in Sockets : net'[s].watched = net[s].watched
  BY <1>1 DEF EpollWait, TypeOK, IoRec, NetRec, IInv, Shape, IoShape
<1>3. IoShape'
  BY <1>1, <1>2, Unnull DEF IoShape
<1>4. ReqSocks' /\ EvtSocks' /\ MainShape'
  BY <1>1, ReqSocksNext, EvtSocksNext, MainLeft DEF EvtAdded
<1>5. ASSUME NEW s \in Sockets \ {x} PROVE SockInv(s)'
  <2>1. Frame(s)
    BY <1>1, <1>2 DEF Frame
  <2> QED BY <1>1, <1>2, <2>1, OthersKeep DEF ReqStep, EvtTaken
<1>6. SockInv(x)'
  <2>1. SockInv(x) /\ Rest' = Rest
    BY <1>1, <1>2, RestSame DEF IInv
  <2>2. FreeUnknown(x)' /\ Young(x)' /\ Unmet(x)'
    BY <1>1, <1>2, <2>1 DEF SockInv, FreeUnknown, Young, Unmet
  <2>3. EndsOnce(x)' /\ ReadsAlive(x)' /\ LetsGo(x)'
    BY <1>1, <1>2, <2>1 DEF SockInv, EndsOnce, ReadsAlive, LetsGo, Reads
  <2>4. Acks(x)' /\ EstablishFirst(x)'
    BY <1>1, <2>1 DEF SockInv, Acks, EstablishFirst
  <2> QED BY <2>2, <2>3, <2>4 DEF SockInv
<1> QED BY <1>3, <1>4, <1>5, <1>6 DEF Shape, Socks

(* A bit of an epoll_event is served at once.                              *)
LEMMA ServedShape ==
  ASSUME IInv, NEW e, Serves(e), Served(e), UNCHANGED reqQ
  PROVE  /\ IoShape' /\ ReqSocks' /\ io.evts # {}
         /\ io'.pc = "idle" /\ io'.sock \in {io.sock, NoSock} /\ io'.req = io.req
<1>1. io.pc = "idle" /\ e \in io.evts /\ ~ io.req
  BY DEF Serves, IInv, Shape, IoShape
<1>2. /\ io'.pc = "idle" /\ io'.req = io.req /\ io'.evts = io.evts \ {e}
      /\ io'.sock = IF io.evts = {e} THEN NoSock ELSE io.sock
  BY <1>1 DEF Served, IInv, TypeOK, IoRec
<1>3. io.evts = {e} <=> io'.evts = {}
  BY <1>1, <1>2
<1>4. io.sock # NoSock
  BY <1>1 DEF IInv, Shape, IoShape
<1>5. IoShape'
  BY <1>1, <1>2, <1>3, <1>4 DEF IoShape
<1> QED BY <1>1, <1>2, <1>5, ReqSocksNext

LEMMA Elements ==
  ASSUME NEW R, NEW q \in Seq(R)
  PROVE  \A i \in DOMAIN q : q[i] \in R
OBVIOUS

(* A connect has an answer: no request but the first has named the socket, *)
(* and that one has been served.                                           *)
LEMMA ConnectAnswered ==
  ASSUME IInv, NEW x \in Sockets, x = io.sock, io.evts # {}, sock[x].state = "CONNECT",
         \/ PushEvt("ESTABLISH", x) /\ sock' = [sock EXCEPT ![x].state = "ESTABLISH"]
         \/ PushEvt("CONNECT_FAIL", x) /\ sock' = [sock EXCEPT ![x].state = "DELETE"],
         UNCHANGED <<allocated, snd, reqQ, main, net>>, io'.req = io.req,
         io'.pc = "idle", io'.sock \in {io.sock, NoSock}
  PROVE  EvtSocks' /\ Socks' /\ MainShape'
<1>1. SockInv(x) /\ x \in allocated /\ sock[x].state \in Early /\ TypeOK /\ Rest' = Rest
  BY IoKnown, RestSame DEF IInv, Early
<1>2. ~ Has(reqQ, x, LaterReqs) /\ ~ Has(reqQ, x, Opens)
  BY <1>1 DEF SockInv, Young, Unmet
<1>3. ~ Names(reqQ, x)
  <2>1. \A i \in DOMAIN reqQ : reqQ[i].type \in ReqTypes
    <3>1. \A i \in DOMAIN reqQ : reqQ[i] \in Reqs
      BY <1>1, Elements DEF TypeOK
    <3> QED BY <3>1 DEF Reqs
  <2>2. \A t \in ReqTypes : t \in Opens \/ t \in LaterReqs
    BY DEF LaterReqs
  <2> QED BY <1>2, <2>1, <2>2 DEF Has, Names
<1>4. ~ Has(Rest, x, Sends)
  BY <1>3, HasNames, RestWithin
<1>5. /\ \A s \in Sockets \ {x} : sock'[s] = sock[s]
      /\ sock'[x].timer = sock[x].timer /\ sock'[x].need_req_close = sock[x].need_req_close
      /\ \/ PushEvt("ESTABLISH", x) /\ sock'[x].state = "ESTABLISH"
         \/ PushEvt("CONNECT_FAIL", x) /\ sock'[x].state = "DELETE"
  <2>1. \A v : sock' = [sock EXCEPT ![x].state = v] =>
          /\ \A s \in Sockets \ {x} : sock'[s] = sock[s]
          /\ sock'[x].timer = sock[x].timer /\ sock'[x].need_req_close = sock[x].need_req_close
          /\ sock'[x].state = v
    BY <1>1 DEF TypeOK, SocketRec
  <2> QED BY <2>1
<1>6. {"ESTABLISH", "CONNECT_FAIL"} \subseteq EvtTypes /\ "CONNECT_FAIL" \in FinalTypes
      /\ io'.pc \notin Reads
  BY DEF EvtTypes, FinalTypes, Reads
<1>7. ReqStep(x)
  BY DEF ReqStep
<1>8. EvtSocks' /\ Socks'
  BY <1>1, <1>3, <1>4, <1>5, <1>6, <1>7, Settles
<1>9. MainShape'
  BY <1>5, <1>6, MainLeft DEF EvtAdded, PushEvt
<1> QED BY <1>8, <1>9

LEMMA EpollOutConnectKeeps ==
  ASSUME IInv, EpollOutConnect
  PROVE  Shape' /\ Socks'
<1>1. /\ Serves("out") /\ Served("out") /\ UNCHANGED <<allocated, snd, reqQ, main, net>>
      /\ sock[io.sock].state = "CONNECT"
  BY DEF EpollOutConnect
<1>2. /\ IoShape' /\ ReqSocks' /\ io.evts # {}
      /\ io'.pc = "idle" /\ io'.sock \in {io.sock, NoSock} /\ io'.req = io.req
  BY <1>1, ServedShape
<1> PICK x \in Sockets : x = io.sock
  BY <1>2, IoKnown
<1>3. \/ PushEvt("ESTABLISH", x) /\ sock' = [sock EXCEPT ![x].state = "ESTABLISH"]
      \/ PushEvt("CONNECT_FAIL", x) /\ sock' = [sock EXCEPT ![x].state = "DELETE"]
  BY DEF EpollOutConnect, ConnectFailed
<1>4. EvtSocks' /\ Socks' /\ MainShape'
  BY <1>1, <1>2, <1>3, ConnectAnswered
<1> QED BY <1>2, <1>4 DEF Shape

LEMMA EpollErrKeeps ==
  ASSUME IInv, EpollErr
  PROVE  Shape' /\ Socks'
<1>1. /\ Serves("err") /\ Served("err") /\ UNCHANGED <<allocated, snd, reqQ, main, net>> /\ TypeOK
      /\ IF sock[io.sock].state = "CONNECT" THEN ConnectFailed ELSE IoCloseError(io.sock)
  BY DEF EpollErr, IInv
<1>2. /\ IoShape' /\ ReqSocks' /\ io.evts # {}
      /\ io'.pc = "idle" /\ io'.sock \in {io.sock, NoSock} /\ io'.req = io.req
      /\ io'.pc \notin Reads
  BY <1>1, ServedShape DEF Reads
<1> PICK x \in Sockets : x = io.sock
  BY <1>2, IoKnown
<1>3. x \in allocated
  BY <1>2, IoKnown
<1>4. CASE sock[x].state = "CONNECT" /\ ConnectFailed
  <2>1. PushEvt("CONNECT_FAIL", x) /\ sock' = [sock EXCEPT ![x].state = "DELETE"]
    BY <1>4 DEF ConnectFailed
  <2>2. EvtSocks' /\ Socks' /\ MainShape'
    BY <1>1, <1>2, <1>4, <2>1, ConnectAnswered
  <2> QED BY <1>2, <2>2 DEF Shape
<1>5. CASE UNCHANGED <<sock, evtQ>>
  <2>1. \A s \in Sockets : Frame(s)
    BY <1>1, <1>2, <1>5, Unnull DEF Frame
  <2>2. ReqSocks' /\ EvtSocks' /\ Socks'
    BY <1>1, <1>2, <1>5, <2>1, AllCalm DEF EvtTaken
  <2>3. MainShape'
    BY <1>1, <1>5, MainLeft DEF EvtAdded
  <2> QED BY <1>2, <2>2, <2>3 DEF Shape
<1>6. CASE /\ sock[x].state = "ESTABLISH" /\ sock' = [sock EXCEPT ![x].state = "DELETE"]
           /\ PushEvt("SYSTEM_ERROR", x)
  <2>1. /\ \A s \in Sockets \ {x} : sock'[s] = sock[s]
        /\ sock'[x].state \in Ended /\ sock'[x].timer = sock[x].timer
        /\ sock'[x].need_req_close = sock[x].need_req_close
    BY <1>1, <1>6 DEF TypeOK, SocketRec, Ended
  <2>2. "SYSTEM_ERROR" \in EndTypes /\ "SYSTEM_ERROR" \in EvtTypes
    BY DEF EndTypes, EvtTypes
  <2>3. EvtSocks' /\ Socks'
    BY <1>1, <1>2, <1>3, <1>6, <2>1, <2>2, IoCloses
  <2>4. MainShape'
    BY <1>1, <1>6, <2>2, MainLeft DEF EvtAdded, PushEvt
  <2> QED BY <1>2, <2>3, <2>4 DEF Shape
<1> QED BY <1>1, <1>4, <1>5, <1>6 DEF IoCloseError

LEMMA EpollBegins ==
  ASSUME IInv, EpollOut \/ EpollIn
  PROVE  Shape' /\ Socks'
<1>1. /\ io.pc = "idle" /\ io.evts # {} /\ UNCHANGED <<allocated, sock, snd, reqQ, evtQ, main, net>>
  BY DEF EpollOut, EpollIn, Serves
<1>2. /\ io'.pc \in {"on_send", "on_recv"} /\ io'.sock = io.sock /\ io'.req = io.req
  BY DEF EpollOut, EpollIn, IInv, TypeOK, IoRec
<1>3. IoShape'
  BY <1>1, <1>2 DEF IInv, Shape, IoShape
<1>4. \A s \in Sockets : Frame(s)
  BY <1>1, <1>2 DEF Frame, Reads
<1>5. ReqSocks' /\ EvtSocks' /\ Socks'
  BY <1>1, <1>2, <1>4, AllCalm DEF EvtTaken
<1>6. MainShape'
  BY <1>1, MainLeft DEF EvtAdded
<1> QED BY <1>3, <1>5, <1>6 DEF Shape

LEMMA PeerKeeps ==
  ASSUME IInv, NEW x \in Sockets, Peer(x)
  PROVE  Shape' /\ Socks'
<1>1. UNCHANGED <<allocated, sock, snd, reqQ, evtQ, main, io>>
  BY DEF Peer, PeerAnswer, PeerSend, PeerClose, PeerReset, KernelDrain, KernelStep
<1>2. /\ UNCHANGED <<allocated, sock, snd, reqQ, evtQ, main, io>>
      /\ \A s \in Sockets : net'[s].watched = net[s].watched
  <2> net \in [Sockets -> NetRec]
    BY DEF IInv, TypeOK
  <2> SUFFICES ASSUME NEW s \in Sockets PROVE net'[s].watched = net[s].watched
    BY <1>1
  <2>1. CASE PeerAnswer(x)
    <3>1. CASE net' = [net EXCEPT ![x] = [net[x] EXCEPT !.peer = "open", !.edges = @ \cup {"out"}]]
      BY <3>1 DEF NetRec
    <3>2. CASE net' = [net EXCEPT ![x] = [net[x] EXCEPT !.peer = "refused",
                                                        !.edges = {"out", "in", "err"}]]
      BY <3>2 DEF NetRec
    <3> QED BY <2>1, <3>1, <3>2 DEF PeerAnswer, KernelStep
  <2>2. CASE PeerSend(x)
    BY <2>2 DEF PeerSend, KernelStep, NetRec
  <2>3. CASE PeerClose(x)
    BY <2>3 DEF PeerClose, KernelStep, NetRec
  <2>4. CASE PeerReset(x)
    BY <2>4 DEF PeerReset, KernelStep, NetRec
  <2>5. CASE KernelDrain(x)
    BY <2>5 DEF KernelDrain, KernelStep, NetRec
  <2> QED BY <2>1, <2>2, <2>3, <2>4, <2>5 DEF Peer
<1>3. \A s \in Sockets : Frame(s)
  BY <1>2 DEF Frame
<1>4. ReqSocks' /\ EvtSocks' /\ Socks'
  BY <1>2, <1>3, AllCalm DEF EvtTaken
<1>5. IoShape' /\ MainShape'
  BY <1>2, IoLeft, MainLeft DEF ReqAdded, EvtAdded
<1> QED BY <1>4, <1>5 DEF Shape

LEMMA StutterKeeps ==
  ASSUME IInv, UNCHANGED vars
  PROVE  Shape' /\ Socks'
<1>1. \A s \in Sockets : Frame(s)
  BY DEF Frame, vars
<1>2. ReqSocks' /\ EvtSocks' /\ Socks'
  BY <1>1, AllCalm DEF EvtTaken, vars
<1>3. IoShape' /\ MainShape'
  BY IoLeft, MainLeft DEF ReqAdded, EvtAdded, vars
<1> QED BY <1>2, <1>3 DEF Shape

-----------------------------------------------------------------------------
(***************************************************************************)
(* The invariant, and what it says.                                        *)
(***************************************************************************)
LEMMA InvInit == Init => IInv
<1> SUFFICES ASSUME Init PROVE IInv
  OBVIOUS
<1>1. TypeOK
  BY TypeInit
<1>2. /\ allocated = {} /\ reqQ = <<>> /\ evtQ = <<>> /\ DOMAIN reqQ = {} /\ DOMAIN evtQ = {}
      /\ main.pc = "idle" /\ main.ret = "idle" /\ main.sock = NoSock
      /\ io.pc = "idle" /\ io.sock = NoSock /\ ~ io.req /\ io.evts = {}
      /\ \A s \in Sockets : ~ net[s].watched /\ sock[s].timer = "none" /\ sock[s].need_req_close
  BY DEF Init, NoNet, ResetSocket
<1>3. Shape
  BY <1>2 DEF Shape, MainShape, InParse, IoShape, ReqSocks, EvtSocks
<1>4. ASSUME NEW s \in Sockets PROVE SockInv(s)
  <2>1. /\ ~ Names(reqQ, s) /\ ~ Names(evtQ, s) /\ s # NoSock /\ Rest = reqQ
        /\ \A T : /\ ~ Has(reqQ, s, T) /\ ~ Has(evtQ, s, T)
                  /\ LastOf(reqQ, s, T) /\ LastOf(evtQ, s, T) /\ FirstOf(evtQ, s, T)
                  /\ Once(reqQ, s, T)
    BY <1>2, Unnull DEF Names, Has, LastOf, FirstOf, Once, Rest
  <2>2. FreeUnknown(s) /\ Young(s) /\ Unmet(s)
    BY <1>2, <2>1 DEF FreeUnknown, Young, Unmet
  <2>3. EndsOnce(s) /\ ReadsAlive(s) /\ LetsGo(s)
    BY <1>2, <2>1 DEF EndsOnce, ReadsAlive, LetsGo
  <2>4. Acks(s) /\ EstablishFirst(s)
    BY <1>2, <2>1 DEF Acks, EstablishFirst
  <2> QED BY <2>2, <2>3, <2>4 DEF SockInv
<1> QED BY <1>1, <1>3, <1>4 DEF IInv

LEMMA InvNext == IInv /\ [Next]_vars => IInv'
<1> SUFFICES ASSUME IInv, [Next]_vars PROVE IInv'
  OBVIOUS
<1>1. TypeOK'
  BY TypeNext DEF IInv, Heads, Shape, MainShape, IoShape
<1>2. Shape' /\ Socks'
  <2>1. ASSUME NEW s \in Sockets, User(s) \/ OnTimer(s) \/ Peer(s) PROVE Shape' /\ Socks'
    BY <2>1, NetTcpConnectKeeps, NetTcpSendKeeps, NetTcpCloseSessionKeeps, OnTimerRequests,
       OnTimerCloseGiveUpKeeps, OnTimerCloseRequestKeeps, OnTimerCloseFreeKeeps, PeerKeeps
    DEF User, OnTimer
  <2>2. CASE DoNetEvt
    BY <2>2, EvtEstablishKeeps, EvtFinalKeeps, EvtRecvActivateKeeps, EvtAcceptKeeps,
       EvtDataKeeps, ParseEndKeeps
    DEF DoNetEvt
  <2>3. CASE SendChecks
    BY <2>3, SendDelayCheckKeeps, SendRequestKeeps DEF SendChecks
  <2>4. CASE DoNetReq
    BY <2>4, ReqSendKeeps, ReqAcceptKeeps, ReqConnectKeeps, ReqTerminateKeeps,
       ReqRecvActivateKeeps, ReqCloseSocketKeeps, ReqAcceptFailKeeps
    DEF DoNetReq
  <2>5. CASE DoEpollEvt
    BY <2>5, EpollWaitKeeps, EpollOutConnectKeeps, EpollErrKeeps, EpollBegins DEF DoEpollEvt
  <2>6. CASE IoSend
    BY <2>6, IoSendsCalmly, SomeMoved, ErrorEnds DEF IoSend
  <2>7. CASE IoRecv
    BY <2>7, OnRecvKeeps, SomeMoved, RecvPushDataKeeps, RecvEofKeeps, ErrorEnds, RecvFullKeeps
    DEF IoRecv
  <2>8. CASE ListenerOnAccept
    BY <2>8, ListenerOnAcceptKeeps
  <2>9. CASE AllDone \/ UNCHANGED vars
    BY <2>9, StutterKeeps DEF AllDone
  <2> QED BY <2>1, <2>2, <2>3, <2>4, <2>5, <2>6, <2>7, <2>8, <2>9 DEF Next
<1> QED BY <1>1, <1>2 DEF IInv, Socks

(* No use after free: in every reachable state the sockets that the two    *)
(* queues, the two threads and the epoll set refer to are allocated        *)
(* (_epoll_tcp_socket_on_timer_close frees a socket only when IO has       *)
(* acknowledged the CLOSE_SOCKET, which is its last request).              *)
THEOREM NoUseAfterFree == Spec => []NoDanglingSocket
<1>1. IInv => NoDanglingSocket
  <2> SUFFICES ASSUME IInv PROVE NoDanglingSocket
    OBVIOUS
  <2>1. \A i \in DOMAIN reqQ : reqQ[i].sock \in allocated \cup {NoSock}
    <3>1. \A i \in DOMAIN reqQ : reqQ[i].sock \in Sockets \cup {NoSock}
      <4>1. \A i \in DOMAIN reqQ : reqQ[i] \in Reqs
        BY Elements DEF IInv, TypeOK
      <4> QED BY <4>1 DEF Reqs
    <3> QED BY <3>1 DEF IInv, SockInv, FreeUnknown, Names
  <2>2. \A i \in DOMAIN evtQ : evtQ[i].sock \in allocated \cup {NoSock}
    <3>1. \A i \in DOMAIN evtQ : evtQ[i].sock \in Sockets \cup {NoSock}
      <4>1. \A i \in DOMAIN evtQ : evtQ[i] \in Evts
        BY Elements DEF IInv, TypeOK
      <4> QED BY <4>1 DEF Evts
    <3> QED BY <3>1 DEF IInv, SockInv, FreeUnknown, Names
  <2>3. {main.sock, io.sock} \subseteq allocated \cup {NoSock}
    BY DEF IInv, TypeOK, MainRec, IoRec, SockInv, FreeUnknown
  <2>4. \A s \in Sockets : net[s].watched => s \in allocated
    BY DEF IInv, SockInv, FreeUnknown
  <2> QED BY <2>1, <2>2, <2>3, <2>4 DEF NoDanglingSocket
<1>2. QED
  BY <1>1, InvInit, InvNext, PTL DEF Spec

(* The end of a session is told once and is the last that is told, no      *)
(* request follows CLOSE_SOCKET, and timer_close runs only in TERMINATE or *)
(* DELETE: the CRUSH_CODE of _epoll_tcp_socket_on_timer_close is not       *)
(* reached and no callback comes after on_terminate.                       *)
THEOREM EndIsLast == Spec => []NothingAfterTheEnd
<1>1. IInv => NothingAfterTheEnd
  <2> SUFFICES ASSUME IInv PROVE NothingAfterTheEnd
    OBVIOUS
  <2>1. ASSUME NEW i \in DOMAIN evtQ, NEW j \in DOMAIN evtQ, i < j, evtQ[i].type \in FinalTypes
        PROVE  evtQ[j].sock # evtQ[i].sock
    <3>1. evtQ[i].sock \in Sockets
      <4>1. evtQ[i] \in Evts
        BY Elements DEF IInv, TypeOK
      <4>2. evtQ[i].type # "ACCEPT"
        BY <2>1 DEF FinalTypes, EndTypes
      <4> QED BY <4>1, <4>2 DEF Evts, IInv, Shape, EvtSocks
    <3>2. LastOf(evtQ, evtQ[i].sock, FinalTypes)
      BY <3>1 DEF IInv, SockInv, EndsOnce
    <3> QED BY <2>1, <3>2 DEF LastOf
  <2>2. ASSUME NEW i \in DOMAIN reqQ, NEW j \in DOMAIN reqQ, i < j,
               reqQ[i].type = "CLOSE_SOCKET"
        PROVE  reqQ[j].sock # reqQ[i].sock
    <3>1. reqQ[i].sock \in Sockets
      <4>1. reqQ[i] \in Reqs
        BY Elements DEF IInv, TypeOK
      <4> QED BY <2>2, <4>1 DEF Reqs, IInv, Shape, ReqSocks
    <3>2. LastOf(reqQ, reqQ[i].sock, Closes)
      BY <3>1 DEF IInv, SockInv, LetsGo
    <3> QED BY <2>2, <3>2 DEF LastOf, Closes
  <2>3. ASSUME NEW s \in allocated, sock[s].timer = "close"
        PROVE  /\ sock[s].state \in {"TERMINATE", "DELETE"}
               /\ \A i \in DOMAIN evtQ : evtQ[i].sock # s
    <3>1. s \in Sockets
      BY DEF IInv, TypeOK
    <3> QED BY <2>3, <3>1 DEF IInv, SockInv, EndsOnce, Ended, Names
  <2> QED BY <2>1, <2>2, <2>3 DEF NothingAfterTheEnd
<1>2. QED
  BY <1>1, InvInit, InvNext, PTL DEF Spec

(* The members of a set that has at most one.                              *)
LEMMA AtMostOne ==
  ASSUME NEW U, \A i, j \in U : i = j
  PROVE  Cardinality(U) = IF U = {} THEN 0 ELSE 1
<1>1. CASE U = {}
  BY <1>1, FS_EmptySet
<1>2. CASE U # {}
  <2>1. PICK i \in U : TRUE
    BY <1>2
  <2>2. U = {i}
    BY <2>1
  <2>3. Cardinality({i}) = 1
    BY FS_Singleton
  <2> QED BY <1>2, <2>2, <2>3
<1> QED BY <1>1, <1>2

LEMMA SendsUnacked ==
  ASSUME IInv, NEW s \in Sockets
  PROVE  Cardinality(Unacked(s, "SEND")) = Num(Has(Rest, s, Sends))
<1> DEFINE U == Unacked(s, "SEND")
<1>1. Once(Rest, s, Sends)
  BY DEF IInv, SockInv, Acks
<1>2. CASE ~ io.req
  <2>1. Rest = reqQ /\ \A i \in DOMAIN reqQ : i \in U <=> reqQ[i].sock = s /\ reqQ[i].type \in Sends
    BY <1>2 DEF Rest, Unacked, Sends
  <2>2. \A i, j \in U : i = j
    BY <1>1, <2>1 DEF Once, Unacked
  <2>3. U # {} <=> Has(Rest, s, Sends)
    BY <2>1 DEF Has, Unacked
  <2> HIDE DEF U
  <2>4. Cardinality(U) = Num(Has(Rest, s, Sends))
    BY <2>2, <2>3, AtMostOne DEF Num
  <2> QED BY <2>4 DEF U
<1>3. CASE io.req
  <2>1. reqQ \in Seq(Reqs) /\ reqQ # <<>> /\ Rest = Tail(reqQ)
    BY <1>3 DEF IInv, TypeOK, Shape, IoShape, Rest
  <2> PICK n \in Nat \ {0} : n = Len(reqQ)
    BY <2>1, Tails
  <2>2. /\ DOMAIN reqQ = 1 .. n /\ DOMAIN Rest = 1 .. n - 1
        /\ \A i \in 1 .. n - 1 : i + 1 \in 1 .. n /\ i + 1 # 1 /\ Rest[i] = reqQ[i + 1]
        /\ \A i \in 1 .. n : i = 1 \/ (i - 1 \in 1 .. n - 1 /\ reqQ[i] = Rest[i - 1])
    <3>1. /\ DOMAIN reqQ = 1 .. n /\ DOMAIN Rest = 1 .. n - 1
          /\ \A i \in 1 .. n - 1 : Rest[i] = reqQ[i + 1]
      BY <2>1, Tails
    <3> QED BY <3>1
  <2>3. \A i \in DOMAIN reqQ : i \in U <=> i # 1 /\ reqQ[i].sock = s /\ reqQ[i].type \in Sends
    BY <1>3 DEF Unacked, Sends
  <2>4. U \subseteq DOMAIN reqQ
    BY DEF Unacked
  <2> HIDE DEF U
  <2>5. ASSUME NEW i \in U, NEW j \in U PROVE i = j
    <3> DEFINE k == i - 1
               m == j - 1
    <3>1. /\ k \in DOMAIN Rest /\ m \in DOMAIN Rest /\ Rest[k] = reqQ[i] /\ Rest[m] = reqQ[j]
          /\ (k = m <=> i = j)
      BY <2>2, <2>3, <2>4
    <3> HIDE DEF k, m
    <3> QED BY <1>1, <2>3, <2>4, <3>1 DEF Once
  <2>6. ASSUME Has(Rest, s, Sends) PROVE U # {}
    <3>1. PICK i \in DOMAIN Rest : Rest[i].sock = s /\ Rest[i].type \in Sends
      BY <2>6 DEF Has
    <3> DEFINE k == i + 1
    <3>2. k \in DOMAIN reqQ /\ k # 1 /\ reqQ[k] = Rest[i]
      BY <2>2
    <3> HIDE DEF k
    <3> QED BY <2>3, <3>1, <3>2
  <2>7. ASSUME NEW i \in U PROVE Has(Rest, s, Sends)
    <3> DEFINE k == i - 1
    <3>1. k \in DOMAIN Rest /\ Rest[k] = reqQ[i]
      BY <2>2, <2>3, <2>4
    <3> HIDE DEF k
    <3> QED BY <2>3, <2>4, <3>1 DEF Has
  <2>8. Cardinality(U) = Num(Has(Rest, s, Sends))
    BY <2>5, <2>6, <2>7, AtMostOne DEF Num
  <2> QED BY <2>8 DEF U
<1> QED BY <1>2, <1>3

LEMMA ClosesUnacked ==
  ASSUME IInv, NEW s \in Sockets
  PROVE  Cardinality(Unacked(s, "CLOSE_SOCKET")) = Num(Has(reqQ, s, Closes))
<1> DEFINE U == Unacked(s, "CLOSE_SOCKET")
<1>1. LastOf(reqQ, s, Closes) /\ reqQ \in Seq(Reqs)
  BY DEF IInv, TypeOK, SockInv, LetsGo
<1>2. io.req => reqQ # <<>> /\ Head(reqQ).type # "CLOSE_SOCKET"
  BY DEF IInv, Shape, IoShape
<1>3. io.req => reqQ[1].type # "CLOSE_SOCKET"
  BY <1>1, <1>2, Tails
<1>4. \A i \in DOMAIN reqQ : i \in U <=> reqQ[i].sock = s /\ reqQ[i].type \in Closes
  BY <1>3 DEF Unacked, Closes
<1>5. U \subseteq DOMAIN reqQ /\ DOMAIN reqQ \subseteq Nat
  BY <1>1 DEF Unacked
<1> HIDE DEF U
<1>6. \A i, j \in U : i = j
  <2> SUFFICES ASSUME NEW i \in U, NEW j \in U, i < j PROVE FALSE
    BY <1>5
  <2> QED BY <1>1, <1>4, <1>5 DEF LastOf
<1>7. U # {} <=> Has(reqQ, s, Closes)
  BY <1>4, <1>5 DEF Has
<1>8. Cardinality(U) = Num(Has(reqQ, s, Closes))
  BY <1>6, <1>7, AtMostOne DEF Num
<1> QED BY <1>8 DEF U

(* The equality of send_req and send_ack means what main takes it to mean: *)
(* no SEND and no CLOSE_SOCKET of the socket is unacknowledged; there is   *)
(* at most one of each, so the counters may wrap around.                   *)
THEOREM AckCounts == Spec => []SendAckCounts
<1>1. IInv => SendAckCounts
  <2> SUFFICES ASSUME IInv, NEW s \in allocated
               PROVE  LET sends  == Cardinality(Unacked(s, "SEND"))
                          closes == Cardinality(Unacked(s, "CLOSE_SOCKET"))
                      IN /\ sends <= 1 /\ closes <= 1
                         /\ (snd[s].send_ack + sends + closes) % AckMod = snd[s].send_req
    BY DEF SendAckCounts
  <2>1. s \in Sockets
    BY DEF IInv, TypeOK
  <2>2. /\ Cardinality(Unacked(s, "SEND")) = Num(Has(Rest, s, Sends))
        /\ Cardinality(Unacked(s, "CLOSE_SOCKET")) = Num(Has(reqQ, s, Closes))
    BY <2>1, SendsUnacked, ClosesUnacked
  <2>3. Num(Has(Rest, s, Sends)) <= 1 /\ Num(Has(reqQ, s, Closes)) <= 1
    BY DEF Num
  <2>4. (snd[s].send_ack + Num(Has(Rest, s, Sends)) + Num(Has(reqQ, s, Closes))) % AckMod
          = snd[s].send_req
    BY <2>1 DEF IInv, SockInv, Acks
  <2> QED BY <2>2, <2>3, <2>4
<1>2. QED
  BY <1>1, InvInit, InvNext, PTL DEF Spec

-----------------------------------------------------------------------------
(***************************************************************************)
(* The data between the threads: what the DATA events of a queue announce. *)
(***************************************************************************)
Datas(q, s) == {i \in DOMAIN q : q[i].type = "DATA" /\ q[i].sock = s}
Units(q, s) == UNION {{i} \X (1 .. q[i].len) : i \in Datas(q, s)}
Amount(q, s) == Cardinality(Units(q, s))

LEMMA AnnouncedIs ==
  ASSUME NEW s
  PROVE  Announced(s) = Amount(evtQ, s) /\ Announced(s)' = Amount(evtQ', s)
BY DEF Announced, Amount, Units, Datas

(* The units of one event.                                                 *)
LEMMA OneEvent ==
  ASSUME NEW i \in Nat, NEW n \in Nat
  PROVE  IsFiniteSet({i} \X (1 .. n)) /\ Cardinality({i} \X (1 .. n)) = n
<1> DEFINE S == {i}
           T == 1 .. n
<1>1. IsFiniteSet(S) /\ Cardinality(S) = 1
  BY FS_Singleton
<1>2. IsFiniteSet(T) /\ Cardinality(T) = n
  BY FS_Interval
<1> HIDE DEF S, T
<1>3. IsFiniteSet(S \X T) /\ Cardinality(S \X T) = Cardinality(S) * Cardinality(T)
  BY <1>1, <1>2, FS_Product
<1>4. IsFiniteSet(S \X T) /\ Cardinality(S \X T) = n
  BY <1>1, <1>2, <1>3
<1> QED BY <1>4 DEF S, T

LEMMA UnitsFinite ==
  ASSUME NEW q \in Seq(Evts), NEW s
  PROVE  IsFiniteSet(Units(q, s)) /\ Amount(q, s) \in Nat
<1> DEFINE D == Datas(q, s)
           f == [i \in D |-> {i} \X (1 .. q[i].len)]
           T == {{i} \X (1 .. q[i].len) : i \in D}
<1>0. \A i \in DOMAIN q : q[i] \in Evts
  OBVIOUS
<1>1. D \subseteq 1 .. Len(q) /\ Len(q) \in Nat /\ D \subseteq Nat /\ \A i \in D : q[i].len \in Nat
  BY <1>0 DEF Datas, Evts
<1>2. IsFiniteSet(D)
  <2> PICK n \in Nat : n = Len(q)
    BY <1>1
  <2>1. IsFiniteSet(1 .. n)
    BY FS_Interval
  <2>2. D \in SUBSET (1 .. n)
    BY <1>1
  <2> HIDE DEF D
  <2> QED BY <2>1, <2>2, FS_Subset
<1>3. f \in Surjection(D, T)
  BY DEF Surjection
<1>4. IsFiniteSet(T)
  BY <1>2, <1>3, FS_Surjection
<1>5. ASSUME NEW t \in T PROVE IsFiniteSet(t)
  <2>1. PICK i \in D : t = {i} \X (1 .. q[i].len)
    OBVIOUS
  <2>2. i \in Nat /\ q[i].len \in Nat
    BY <1>1
  <2> QED BY <2>1, <2>2, OneEvent
<1> HIDE DEF f
<1>6. IsFiniteSet(UNION T)
  BY <1>4, <1>5, FS_UNION
<1>7. Units(q, s) = UNION T
  BY DEF Units
<1>8. IsFiniteSet(Units(q, s))
  BY <1>6, <1>7
<1> QED BY <1>8, FS_CardinalityType DEF Amount

LEMMA NotNamed ==
  ASSUME NEW q, NEW s, ~ Names(q, s)
  PROVE  Amount(q, s) = 0
<1>1. Units(q, s) = {}
  BY DEF Units, Datas, Names
<1> QED BY <1>1, FS_EmptySet DEF Amount

LEMMA AmountPushed ==
  ASSUME NEW q \in Seq(Evts), NEW e \in Evts, NEW s
  PROVE  Amount(Append(q, e), s)
           = Amount(q, s) + (IF e.type = "DATA" /\ e.sock = s THEN e.len ELSE 0)
<1> DEFINE r == Append(q, e)
<1> PICK n \in Nat : n = Len(q)
  OBVIOUS
<1> DEFINE U == Units(q, s)
           V == {n + 1} \X (1 .. e.len)
<1>1. /\ DOMAIN r = 1 .. n + 1 /\ DOMAIN q = 1 .. n
      /\ \A i \in 1 .. n : r[i] = q[i]
      /\ r[n + 1] = e
  BY Entries
<1>2. \A i \in 1 .. n + 1 : i \in 1 .. n \/ i = n + 1
  OBVIOUS
<1> HIDE DEF r
<1>3. CASE e.type = "DATA" /\ e.sock = s
  <2>1. Datas(r, s) = Datas(q, s) \cup {n + 1} /\ n + 1 \notin Datas(q, s)
        /\ \A i \in Datas(q, s) : r[i] = q[i]
    BY <1>1, <1>2, <1>3 DEF Datas
  <2>2. Units(r, s) = U \cup V
    BY <1>1, <2>1 DEF Units
  <2>3. U \cap V = {}
    BY <2>1 DEF Units
  <2>4. e.len \in Nat
    BY DEF Evts
  <2> PICK m \in Nat : m = n + 1
    OBVIOUS
  <2>5. IsFiniteSet(V) /\ Cardinality(V) = e.len
    <3>1. IsFiniteSet({m} \X (1 .. e.len)) /\ Cardinality({m} \X (1 .. e.len)) = e.len
      BY <2>4, OneEvent
    <3> QED BY <3>1
  <2>6. IsFiniteSet(U) /\ Cardinality(U) \in Nat
    BY UnitsFinite DEF Amount
  <2> HIDE DEF U, V
  <2>7. Cardinality(U \cup V) = Cardinality(U) + Cardinality(V) - Cardinality(U \cap V)
    BY <2>5, <2>6, FS_Union
  <2>8. Cardinality(U \cap V) = 0
    BY <2>3, FS_EmptySet
  <2>9. Cardinality(Units(r, s)) = Cardinality(U) + e.len
    BY <2>2, <2>4, <2>5, <2>6, <2>7, <2>8
  <2> QED BY <1>3, <2>9 DEF Amount, r, U
<1>4. CASE ~ (e.type = "DATA" /\ e.sock = s)
  <2>1. Datas(r, s) = Datas(q, s) /\ \A i \in Datas(q, s) : r[i] = q[i]
    BY <1>1, <1>2, <1>4 DEF Datas
  <2>2. Units(r, s) = U
    BY <2>1 DEF Units
  <2>3. Amount(q, s) \in Nat
    BY UnitsFinite
  <2> QED BY <1>4, <2>2, <2>3 DEF Amount, r
<1> QED BY <1>3, <1>4

LEMMA AmountPopped ==
  ASSUME NEW q \in Seq(Evts), q # <<>>, NEW s
  PROVE  Amount(Tail(q), s)
           = Amount(q, s) - (IF Head(q).type = "DATA" /\ Head(q).sock = s THEN Head(q).len ELSE 0)
<1> DEFINE r == Tail(q)
           e == Head(q)
           l == IF e.type = "DATA" /\ e.sock = s THEN e.len ELSE 0
           U == Units(r, s)
           V == {x \in Units(q, s) : x[1] # 1}
           W == {1} \X (1 .. l)
           f == [x \in U |-> <<x[1] + 1, x[2]>>]
<1> PICK n \in Nat \ {0} : n = Len(q)
  BY Tails
<1>1. /\ DOMAIN r = 1 .. n - 1 /\ DOMAIN q = 1 .. n
      /\ \A i \in 1 .. n - 1 : r[i] = q[i + 1]
      /\ e = q[1] /\ e \in Evts
  BY Tails
<1>2. l \in Nat
  BY <1>1 DEF Evts
<1> HIDE DEF r, e
<1>3. /\ \A i \in 1 .. n - 1 : i + 1 \in 1 .. n /\ i + 1 # 1
      /\ \A i \in 1 .. n : i = 1 \/ i - 1 \in 1 .. n - 1
      /\ 1 \in 1 .. n
  OBVIOUS
<1>4. \A i \in 1 .. n - 1 : i \in Datas(r, s) <=> i + 1 \in Datas(q, s)
  BY <1>1, <1>3 DEF Datas
<1>5. \A x : x \in U <=> /\ x = <<x[1], x[2]>> /\ x[1] \in Datas(r, s)
                         /\ x[2] \in 1 .. r[x[1]].len
  BY DEF Units
<1>6. \A x : x \in Units(q, s) <=> /\ x = <<x[1], x[2]>> /\ x[1] \in Datas(q, s)
                                   /\ x[2] \in 1 .. q[x[1]].len
  BY DEF Units
<1>7. f \in [U -> V]
  <2> SUFFICES ASSUME NEW x \in U PROVE <<x[1] + 1, x[2]>> \in V
    OBVIOUS
  <2> DEFINE k == x[1]
  <2>1. k \in Datas(r, s) /\ x[2] \in 1 .. r[k].len
    BY <1>5
  <2>2. k \in 1 .. n - 1
    BY <1>1, <2>1 DEF Datas
  <2> HIDE DEF k
  <2>3. k + 1 \in Datas(q, s) /\ r[k] = q[k + 1] /\ k + 1 # 1
    BY <1>1, <1>3, <1>4, <2>1, <2>2
  <2> DEFINE y == <<k + 1, x[2]>>
  <2>4. y = <<y[1], y[2]>> /\ y[1] = k + 1 /\ y[2] = x[2]
    OBVIOUS
  <2> HIDE DEF y
  <2>5. y \in Units(q, s) /\ y[1] # 1
    BY <1>6, <2>1, <2>3, <2>4
  <2> QED BY <2>5 DEF y, k
<1>8. \A x, y \in U : f[x] = f[y] => x = y
  <2> SUFFICES ASSUME NEW x \in U, NEW y \in U, f[x] = f[y] PROVE x = y
    OBVIOUS
  <2>1. x = <<x[1], x[2]>> /\ y = <<y[1], y[2]>> /\ x[1] \in Datas(r, s) /\ y[1] \in Datas(r, s)
    BY <1>5
  <2>2. x[1] \in Nat /\ y[1] \in Nat
    BY <1>1, <2>1 DEF Datas
  <2>3. <<x[1] + 1, x[2]>> = <<y[1] + 1, y[2]>>
    OBVIOUS
  <2>4. x[1] + 1 = y[1] + 1 /\ x[2] = y[2]
    BY <2>3
  <2> QED BY <2>1, <2>2, <2>4
<1>9. ASSUME NEW y \in V PROVE \E x \in U : f[x] = y
  <2> DEFINE k == y[1] - 1
             x == <<k, y[2]>>
  <2>1. y = <<y[1], y[2]>> /\ y[1] \in Datas(q, s) /\ y[1] # 1 /\ y[2] \in 1 .. q[y[1]].len
    BY <1>6
  <2>2. k \in 1 .. n - 1 /\ k + 1 = y[1]
    BY <1>1, <1>3, <2>1 DEF Datas
  <2>3. x = <<x[1], x[2]>> /\ x[1] = k /\ x[2] = y[2]
    OBVIOUS
  <2> HIDE DEF k, x
  <2>4. k \in Datas(r, s) /\ r[k] = q[y[1]]
    BY <1>1, <1>4, <2>1, <2>2
  <2>5. x \in U
    BY <1>5, <2>1, <2>3, <2>4
  <2>6. f[x] = <<k + 1, y[2]>>
    BY <2>3, <2>5
  <2> QED BY <2>1, <2>2, <2>5, <2>6
<1>10. ExistsBijection(U, V)
  <2>1. f \in Bijection(U, V)
    <3> HIDE DEF U, V, f
    <3> QED BY <1>7, <1>8, <1>9 DEF Bijection, Injection, Surjection, IsInjective
  <2> QED BY <2>1 DEF ExistsBijection
<1>11. IsFiniteSet(U) /\ Cardinality(U) = Amount(r, s) /\ Cardinality(U) \in Nat
  <2>1. r \in Seq(Evts)
    BY DEF r
  <2> QED BY <2>1, UnitsFinite DEF Amount
<1>12. IsFiniteSet(V) /\ Cardinality(V) = Cardinality(U)
  <2> HIDE DEF U, V
  <2> QED BY <1>10, <1>11, FS_Bijection
<1>13. IsFiniteSet(W) /\ Cardinality(W) = l
  <2> HIDE DEF l
  <2> QED BY <1>2, OneEvent
<1>14. V \cup W = Units(q, s) /\ V \cap W = {}
  <2>1. \A x : x \in W <=> x = <<x[1], x[2]>> /\ x[1] = 1 /\ x[2] \in 1 .. l
    OBVIOUS
  <2>2. CASE e.type = "DATA" /\ e.sock = s
    <3>1. 1 \in Datas(q, s) /\ q[1].len = l
      BY <1>1, <1>3, <2>2 DEF Datas
    <3> HIDE DEF W, l
    <3>2. \A x : x \in Units(q, s) /\ x[1] = 1 <=> x \in W
      BY <1>6, <2>1, <3>1
    <3> HIDE DEF Units
    <3> QED BY <2>1, <3>2
  <2>3. CASE ~ (e.type = "DATA" /\ e.sock = s)
    <3>1. 1 \notin Datas(q, s) /\ l = 0
      BY <1>1, <2>3 DEF Datas
    <3> HIDE DEF W, l
    <3>2. \A x : x \in Units(q, s) => x[1] # 1
      BY <1>6, <3>1
    <3>3. W = {}
      BY <2>1, <3>1
    <3> HIDE DEF Units
    <3> QED BY <3>2, <3>3
  <2> QED BY <2>2, <2>3
<1>15. Cardinality(V \cup W) = Cardinality(V) + l
  <2>1. Cardinality({}) = 0
    BY FS_EmptySet
  <2> HIDE DEF V, W, l
  <2>2. Cardinality(V \cup W) = Cardinality(V) + Cardinality(W) - Cardinality(V \cap W)
    BY <1>12, <1>13, FS_Union
  <2>3. Cardinality(V \cap W) = 0
    BY <1>14, <2>1
  <2> HIDE DEF U
  <2> QED BY <1>2, <1>11, <1>12, <1>13, <2>2, <2>3
<1>16. Amount(q, s) = Amount(r, s) + l /\ Amount(r, s) \in Nat
  BY <1>11, <1>12, <1>14, <1>15 DEF Amount
<1> QED BY <1>2, <1>16 DEF r, e

-----------------------------------------------------------------------------
(***************************************************************************)
(* The second invariant: the data that the parser has been told of and has *)
(* not consumed (Parsing corrects for the event it is at work on), that    *)
(* events announce and that io is reading is in the ring, and while the    *)
(* socket stands it is all that is there.                                  *)
(***************************************************************************)
Parsing(s) == IF InParse /\ EvtSock = s THEN main.parsed - Head(evtQ).len ELSE 0
Level(s) == Unparsed(s) + Reading(s)

Balanced(s) ==
  /\ Level(s) <= rcv[s].cache
  /\ sock[s].state \notin Ended => Level(s) = rcv[s].cache
  /\ s \notin allocated \/ sock[s].state \in Early => rcv[s].data_has_recv = 0 /\ rcv[s].cache = 0

NothingRead == io.pc \notin Reads => io.len = 0

DataInv == NothingRead /\ \A s \in Sockets : Balanced(s)

LEMMA Levels ==
  ASSUME IInv, NEW s \in Sockets
  PROVE  /\ Level(s) = Announced(s) + Parsing(s) + Reading(s) + rcv[s].data_has_recv
         /\ Announced(s) \in Nat /\ Parsing(s) \in Int /\ Reading(s) \in Nat
         /\ rcv[s].data_has_recv \in Nat /\ rcv[s].cache \in Int
<1>1. evtQ \in Seq(Evts) /\ main.parsed \in Nat /\ io.len \in Nat
      /\ rcv[s].data_has_recv \in Nat /\ rcv[s].cache \in Int
  BY DEF IInv, TypeOK, MainRec, IoRec, RecvRec
<1>2. InParse => Head(evtQ).len \in Nat
  <2>1. InParse => evtQ # <<>>
    BY DEF IInv, Shape, MainShape
  <2>2. evtQ # <<>> => Head(evtQ) \in Evts
    BY <1>1
  <2> QED BY <2>1, <2>2 DEF Evts
<1>3. Announced(s) \in Nat
  BY <1>1, AnnouncedIs, UnitsFinite
<1>4. Parsing(s) \in Int /\ Reading(s) \in Nat
  BY <1>1, <1>2 DEF Parsing, Reading
<1>5. Unparsed(s) = Announced(s) + Parsing(s) + rcv[s].data_has_recv
  BY <1>1, <1>2, <1>3 DEF Unparsed, Parsing
<1> QED BY <1>1, <1>3, <1>4, <1>5 DEF Level

LEMMA LevelsNext ==
  ASSUME IInv', NEW s \in Sockets
  PROVE  /\ Level(s)' = Announced(s)' + Parsing(s)' + Reading(s)' + rcv'[s].data_has_recv
         /\ Announced(s)' \in Nat /\ Parsing(s)' \in Int /\ Reading(s)' \in Nat
         /\ rcv'[s].data_has_recv \in Nat /\ rcv'[s].cache \in Int
<1>1. evtQ' \in Seq(Evts) /\ main'.parsed \in Nat /\ io'.len \in Nat
      /\ rcv'[s].data_has_recv \in Nat /\ rcv'[s].cache \in Int
  BY DEF IInv, TypeOK, MainRec, IoRec, RecvRec
<1>2. InParse' => Head(evtQ').len \in Nat
  <2>1. InParse' => evtQ' # <<>>
    BY DEF IInv, Shape, MainShape
  <2>2. evtQ' # <<>> => Head(evtQ') \in Evts
    BY <1>1
  <2> QED BY <2>1, <2>2 DEF Evts
<1>3. Announced(s)' \in Nat
  BY <1>1, AnnouncedIs, UnitsFinite
<1>4. Parsing(s)' \in Int /\ Reading(s)' \in Nat
  BY <1>1, <1>2 DEF Parsing, Reading
<1>5. Unparsed(s)' = Announced(s)' + Parsing(s)' + rcv'[s].data_has_recv
  BY <1>1, <1>2, <1>3 DEF Unparsed, Parsing
<1> QED BY <1>1, <1>3, <1>4, <1>5 DEF Level

(* A free slot and a socket that is not established hold no data.          *)
LEMMA EmptyNext ==
  ASSUME IInv', NEW s \in Sockets, s \notin allocated' \/ sock'[s].state \in Early,
         rcv'[s].data_has_recv = 0, rcv'[s].cache = 0
  PROVE  Balanced(s)'
<1>1. ~ Names(evtQ', s) /\ ~ (io'.sock = s /\ io'.pc \in Reads)
  BY DEF IInv, SockInv, FreeUnknown, Young, ReadsAlive, Early
<1>2. Announced(s)' = 0 /\ Reading(s)' = 0
  BY <1>1, AnnouncedIs, NotNamed DEF Reading, Reads
<1>3. Parsing(s)' = 0
  <2>1. InParse' => evtQ' # <<>> /\ evtQ' \in Seq(Evts)
    BY DEF IInv, TypeOK, Shape, MainShape
  <2>2. InParse' => Head(evtQ').sock # s
    BY <1>1, <2>1, Tails DEF Names
  <2> QED BY <2>2 DEF Parsing, EvtSock
<1> QED BY <1>2, <1>3, LevelsNext DEF Balanced

-----------------------------------------------------------------------------
(***************************************************************************)
(* Steps that move no data.                                                *)
(***************************************************************************)
SameData(s) ==
  /\ rcv'[s].data_has_recv = rcv[s].data_has_recv
  /\ rcv'[s].cache = rcv[s].cache

Ages(s) ==
  \/ sock'[s].state = sock[s].state
  \/ sock'[s].state \in Ended
  \/ sock[s].state \in Early /\ sock'[s].state = "ESTABLISH"

MainStill == main'.parsed = main.parsed /\ (InParse' <=> InParse)

EvtQuiet ==
  \/ UNCHANGED evtQ
  \/ \E type \in EvtTypes \ {"DATA"}, x \in Sockets \cup {NoSock} : PushEvt(type, x)

LEMMA Stays ==
  ASSUME IInv, IInv', NEW s \in Sockets, Balanced(s), SameData(s), Ages(s),
         s \in allocated' <=> s \in allocated,
         Announced(s)' + Parsing(s)' = Announced(s) + Parsing(s), Reading(s)' = Reading(s)
  PROVE  Balanced(s)'
<1>1. Level(s)' = Level(s) /\ rcv'[s].cache = rcv[s].cache
  BY Levels, LevelsNext DEF SameData
<1>2. sock'[s].state \notin Ended => sock[s].state \notin Ended
  BY DEF Ages, Ended, Early
<1>3. sock'[s].state \in Early => sock[s].state \in Early
  BY DEF Ages, Ended, Early
<1> QED BY <1>1, <1>2, <1>3 DEF Balanced, SameData

LEMMA NothingTold ==
  ASSUME IInv, NEW s \in Sockets, MainStill, EvtQuiet
  PROVE  Announced(s)' + Parsing(s)' = Announced(s) + Parsing(s)
<1>1. CASE UNCHANGED evtQ
  <2>1. Announced(s)' = Announced(s)
    BY <1>1, AnnouncedIs
  <2>2. Parsing(s)' = Parsing(s)
    BY <1>1 DEF Parsing, EvtSock, MainStill
  <2> QED BY <2>1, <2>2
<1>2. ASSUME NEW type \in EvtTypes \ {"DATA"}, NEW x \in Sockets \cup {NoSock}, PushEvt(type, x)
      PROVE  Announced(s)' + Parsing(s)' = Announced(s) + Parsing(s)
  <2> DEFINE e == Entry(type, x, 0)
  <2>1. evtQ \in Seq(Evts) /\ e \in Evts /\ e.type # "DATA" /\ evtQ' = Append(evtQ, e)
    BY <1>2 DEF IInv, TypeOK, PushEvt, Entry, Evts
  <2> HIDE DEF e
  <2>2. Amount(evtQ', s) = Amount(evtQ, s) + 0 /\ Amount(evtQ, s) \in Nat
    BY <2>1, AmountPushed, UnitsFinite
  <2>3. Announced(s)' = Announced(s)
    BY <2>2, AnnouncedIs
  <2>4. InParse => Head(evtQ') = Head(evtQ)
    BY <2>1, HeadStays DEF IInv, Shape, MainShape
  <2>5. Parsing(s)' = Parsing(s)
    BY <2>4 DEF Parsing, EvtSock, MainStill
  <2> QED BY <2>3, <2>5
<1> QED BY <1>1, <1>2 DEF EvtQuiet

LEMMA MainQuiet ==
  ASSUME IInv, IInv', DataInv, UNCHANGED <<allocated, rcv, evtQ, io>>, MainStill,
         \A s \in Sockets : Ages(s)
  PROVE  DataInv'
<1>1. NothingRead'
  BY DEF DataInv, NothingRead
<1>2. ASSUME NEW s \in Sockets PROVE Balanced(s)'
  <2>1. SameData(s) /\ Reading(s)' = Reading(s) /\ EvtQuiet
    BY DEF SameData, Reading, EvtQuiet
  <2> QED BY <2>1, NothingTold, Stays DEF DataInv
<1> QED BY <1>1, <1>2 DEF DataInv

LEMMA IoQuiet ==
  ASSUME IInv, IInv', DataInv, UNCHANGED <<allocated, main>>, EvtQuiet, io.pc # "recv",
         io'.pc \notin Reads \/ io'.pc = "recv" => io'.len = 0,
         \A s \in Sockets : Ages(s) /\ SameData(s)
  PROVE  DataInv'
<1>1. NothingRead'
  BY DEF NothingRead
<1>2. ASSUME NEW s \in Sockets PROVE Balanced(s)'
  <2>1. Reading(s)' = Reading(s) /\ MainStill
    BY DEF Reading, MainStill, InParse
  <2> QED BY <2>1, NothingTold, Stays DEF DataInv
<1> QED BY <1>1, <1>2 DEF DataInv

(* An event that is not DATA is taken while the parser does not run.       *)
LEMMA EvtTakenQuiet ==
  ASSUME IInv, IInv', NEW s \in Sockets, Balanced(s), UNCHANGED <<main, io>>, main.pc = "idle",
         evtQ # <<>>, Head(evtQ).type # "DATA", evtQ' = Tail(evtQ),
         s \in allocated' <=> s \in allocated, SameData(s), Ages(s)
  PROVE  Balanced(s)'
<1>1. ~ InParse /\ ~ InParse'
  BY DEF IInv, Shape, MainShape, InParse
<1>2. Parsing(s) = 0 /\ Parsing(s)' = 0 /\ Reading(s)' = Reading(s)
  BY <1>1 DEF Parsing, Reading
<1>3. evtQ \in Seq(Evts) /\ Amount(evtQ, s) \in Nat
  BY UnitsFinite DEF IInv, TypeOK
<1>4. Announced(s)' = Announced(s)
  BY <1>3, AmountPopped, AnnouncedIs
<1> QED BY <1>2, <1>4, Stays

-----------------------------------------------------------------------------
(***************************************************************************)
(* The steps of the main thread and of the peer.                           *)
(***************************************************************************)
LEMMA ClosedAges ==
  ASSUME IInv, NEW x, NEW reason, MainClose(x, reason) \/ UNCHANGED sock
  PROVE  \A s \in Sockets : Ages(s)
BY DEF MainClose, Ages, Ended, IInv, TypeOK, SocketRec

LEMMA MainStays ==
  ASSUME IInv, NEW pc, NEW x, NEW ret, MainCheck(pc, x, ret),
         pc = "parse" \/ ret = "parse" <=> InParse
  PROVE  MainStill
BY MainCheckFields DEF MainStill, InParse, IInv, TypeOK

LEMMA UserData ==
  ASSUME IInv, IInv', DataInv, NEW x \in Sockets, NetTcpSend(x) \/ NetTcpCloseSession(x)
  PROVE  DataInv'
<1>1. UNCHANGED <<allocated, rcv, evtQ, io>>
  BY DEF NetTcpSend, NetTcpCloseSession
<1>2. \A s \in Sockets : Ages(s)
  <2>1. PICK reason : MainClose(x, reason) \/ UNCHANGED sock
    BY DEF NetTcpSend, NetTcpCloseSession
  <2> QED BY <2>1, ClosedAges
<1>3. MainStill
  <2>1. CASE UNCHANGED main
    BY <2>1 DEF MainStill, InParse
  <2>2. CASE InUser /\ MainCheck("delay", x, main.pc)
    <3>1. main.pc = "parse" <=> InParse
      BY <2>2 DEF IInv, Shape, MainShape, InParse, InUser
    <3> QED BY <2>2, <3>1, MainStays
  <2> QED BY <2>1, <2>2 DEF NetTcpSend, NetTcpCloseSession
<1> QED BY <1>1, <1>2, <1>3, MainQuiet

LEMMA ChecksData ==
  ASSUME IInv, IInv', DataInv, SendChecks
  PROVE  DataInv'
<1>1. UNCHANGED <<allocated, sock, rcv, evtQ, io>> /\ main.pc \in {"delay", "request"}
  BY DEF SendChecks, SendDelayCheck, SendRequest
<1>2. \A s \in Sockets : Ages(s)
  BY <1>1 DEF Ages
<1>3. main.ret = "parse" <=> InParse
  BY <1>1 DEF InParse
<1>4. MainReturn \/ MainCheck("request", main.sock, main.ret)
  BY DEF SendChecks, SendDelayCheck, SendRequest
<1>5. MainStill
  BY <1>3, <1>4, MainStays DEF MainReturn
<1> QED BY <1>1, <1>2, <1>5, MainQuiet

LEMMA TimerData ==
  ASSUME IInv, IInv', DataInv, NEW x \in Sockets,
         \/ OnTimerSend(x) \/ OnTimerCloseRetry(x)
         \/ OnTimerCloseGiveUp(x) \/ OnTimerCloseRequest(x)
  PROVE  DataInv'
<1>1. UNCHANGED <<allocated, rcv, evtQ, io>> /\ main.pc = "idle"
  BY DEF OnTimerSend, OnTimerCloseRetry, OnTimerCloseGiveUp, OnTimerCloseRequest, Fires
<1>2. \A s \in Sockets : Ages(s)
  <2>1. CASE OnTimerSend(x)
    BY <2>1 DEF OnTimerSend, Ages
  <2>2. CASE OnTimerCloseRetry(x)
    BY <2>2 DEF OnTimerCloseRetry, Ages, IInv, TypeOK, SocketRec
  <2>3. CASE OnTimerCloseGiveUp(x)
    BY <2>3 DEF OnTimerCloseGiveUp, Ages, Ended, IInv, TypeOK, SocketRec
  <2>4. CASE OnTimerCloseRequest(x)
    BY <2>4 DEF OnTimerCloseRequest, Ages, IInv, TypeOK, SocketRec
  <2> QED BY <2>1, <2>2, <2>3, <2>4
<1>3. MainStill
  <2>1. CASE UNCHANGED main
    BY <2>1 DEF MainStill, InParse
  <2>2. CASE MainCheck("request", x, "idle")
    <3>1. ~ InParse
      BY <1>1 DEF IInv, Shape, MainShape, InParse
    <3> QED BY <2>2, <3>1, MainStays
  <2> QED BY <2>1, <2>2
      DEF OnTimerSend, OnTimerCloseRetry, OnTimerCloseGiveUp, OnTimerCloseRequest
<1> QED BY <1>1, <1>2, <1>3, MainQuiet

LEMMA PeerData ==
  ASSUME IInv, IInv', DataInv, UNCHANGED <<allocated, sock, rcv, evtQ, main, io>>
  PROVE  DataInv'
BY MainQuiet DEF Ages, MainStill, InParse

(* A slot that is taken from the pool, or given back.                      *)
LEMMA ConnectData ==
  ASSUME IInv, IInv', DataInv, NEW x \in Sockets, NetTcpConnect(x) \/ OnTimerCloseFree(x)
  PROVE  DataInv'
<1>1. /\ UNCHANGED <<evtQ, main, io>> /\ ResetData(x)
      /\ \A s \in Sockets \ {x} : sock'[s] = sock[s] /\ (s \in allocated' <=> s \in allocated)
      /\ sock'[x].state \in Early
  BY DEF NetTcpConnect, OnTimerCloseFree, ResetSocket, Early, IInv, TypeOK
<1>2. NothingRead'
  BY <1>1 DEF DataInv, NothingRead
<1>3. ASSUME NEW s \in Sockets \ {x} PROVE Balanced(s)'
  <2>1. SameData(s) /\ Ages(s) /\ Reading(s)' = Reading(s) /\ EvtQuiet /\ MainStill
    BY <1>1 DEF SameData, Ages, Reading, EvtQuiet, MainStill, InParse, ResetData, IInv, TypeOK
  <2> QED BY <1>1, <2>1, NothingTold, Stays DEF DataInv
<1>4. Balanced(x)'
  <2>1. rcv'[x].data_has_recv = 0 /\ rcv'[x].cache = 0
    BY <1>1 DEF ResetData, ResetRecv, IInv, TypeOK
  <2> QED BY <1>1, <2>1, EmptyNext
<1> QED BY <1>2, <1>3, <1>4 DEF DataInv

LEMMA EvtAcceptData ==
  ASSUME IInv, IInv', DataInv, EvtAccept
  PROVE  DataInv'
<1>1. /\ UNCHANGED <<main, io>> /\ main.pc = "idle" /\ evtQ # <<>>
      /\ Head(evtQ).type # "DATA" /\ evtQ' = Tail(evtQ)
  BY DEF EvtAccept, HeadIs
<1>2. NothingRead'
  BY <1>1 DEF DataInv, NothingRead
<1>3. ASSUME NEW x \in Sockets \ allocated, allocated' = allocated \cup {x},
             sock' = [sock EXCEPT ![x] = [ResetSocket EXCEPT !.fd = TRUE, !.accepted = TRUE]],
             ResetData(x)
      PROVE  DataInv'
  <2>1. ASSUME NEW s \in Sockets \ {x} PROVE Balanced(s)'
    <3>1. SameData(s) /\ Ages(s) /\ (s \in allocated' <=> s \in allocated)
      BY <1>3 DEF SameData, Ages, ResetData, IInv, TypeOK
    <3> QED BY <1>1, <3>1, EvtTakenQuiet DEF DataInv
  <2>2. Balanced(x)'
    <3>1. rcv'[x].data_has_recv = 0 /\ rcv'[x].cache = 0 /\ sock'[x].state \in Early
      BY <1>3 DEF ResetData, ResetRecv, ResetSocket, Early, IInv, TypeOK
    <3> QED BY <3>1, EmptyNext
  <2> QED BY <1>2, <2>1, <2>2 DEF DataInv
<1>4. CASE UNCHANGED <<allocated, sock, snd, rcv, net>>
  <2>1. \A s \in Sockets : SameData(s) /\ Ages(s)
    BY <1>4 DEF SameData, Ages
  <2> QED BY <1>1, <1>2, <1>4, <2>1, EvtTakenQuiet DEF DataInv
<1> QED BY <1>3, <1>4 DEF EvtAccept

LEMMA EvtTakenData ==
  ASSUME IInv, IInv', DataInv,
         EvtEstablish \/ EvtRecvActivate \/ \E type \in FinalTypes : EvtFinal(type)
  PROVE  DataInv'
<1>1. /\ UNCHANGED <<allocated, rcv, main, io>> /\ main.pc = "idle" /\ evtQ # <<>>
      /\ Head(evtQ).type # "DATA" /\ evtQ' = Tail(evtQ)
  BY DEF EvtEstablish, EvtRecvActivate, EvtFinal, HeadIs, FinalTypes, EndTypes
<1>2. \A s \in Sockets : Ages(s)
  <2>1. CASE EvtRecvActivate
    BY <2>1, ClosedAges DEF EvtRecvActivate
  <2>2. CASE EvtEstablish \/ \E type \in FinalTypes : EvtFinal(type)
    <3>1. PICK x, timer : sock' = [sock EXCEPT ![x].timer = timer]
      BY <2>2 DEF EvtEstablish, EvtFinal
    <3> QED BY <3>1 DEF Ages, IInv, TypeOK, SocketRec
  <2> QED BY <2>1, <2>2
<1>3. \A s \in Sockets : SameData(s)
  BY <1>1 DEF SameData
<1>4. NothingRead'
  BY <1>1 DEF DataInv, NothingRead
<1> QED BY <1>1, <1>2, <1>3, <1>4, EvtTakenQuiet DEF DataInv

-----------------------------------------------------------------------------
(***************************************************************************)
(* The steps that move data.                                               *)
(***************************************************************************)
LEMMA Moves ==
  ASSUME IInv, IInv', NEW s \in Sockets, Balanced(s), UNCHANGED allocated,
         s \in allocated, sock[s].state \notin Early, Ages(s),
         \/ Level(s)' - Level(s) = rcv'[s].cache - rcv[s].cache
         \/ Level(s)' - Level(s) <= rcv'[s].cache - rcv[s].cache /\ sock'[s].state \in Ended
  PROVE  Balanced(s)'
<1>1. /\ Level(s) \in Int /\ Level(s)' \in Int
      /\ rcv[s].cache \in Int /\ rcv'[s].cache \in Int
  BY Levels, LevelsNext
<1>2. sock'[s].state \notin Ended => sock[s].state \notin Ended
  BY DEF Ages, Ended, Early
<1>3. sock'[s].state \notin Early
  BY DEF Ages, Ended, Early
<1> QED BY <1>1, <1>2, <1>3 DEF Balanced

(* The socket of a DATA event.                                             *)
LEMMA DataKnown ==
  ASSUME IInv, evtQ # <<>>, Head(evtQ).type = "DATA"
  PROVE  /\ EvtSock \in Sockets /\ EvtSock \in allocated /\ sock[EvtSock].state \notin Early
         /\ Head(evtQ).len \in Nat /\ evtQ \in Seq(Evts)
<1>1. evtQ \in Seq(Evts) /\ Head(evtQ) \in Evts
  BY DEF IInv, TypeOK
<1>2. EvtSock \in Sockets /\ EvtSock \in allocated /\ Names(evtQ, EvtSock)
  BY HeadKnown
<1>3. sock[EvtSock].state \notin Early
  BY <1>2 DEF IInv, SockInv, Young
<1> QED BY <1>1, <1>2, <1>3 DEF Evts

LEMMA EvtDataData ==
  ASSUME IInv, IInv', DataInv, EvtData
  PROVE  DataInv'
<1>1. /\ UNCHANGED <<allocated, sock, evtQ, io>> /\ main.pc = "idle" /\ evtQ # <<>>
      /\ Head(evtQ).type = "DATA"
      /\ rcv' = [rcv EXCEPT ![EvtSock].data_has_recv = @ + Head(evtQ).len]
      /\ main' = [main EXCEPT !.pc = "parse", !.parsed = 0]
  BY DEF EvtData, HeadIs
<1> PICK x \in Sockets : x = EvtSock
  BY <1>1, DataKnown
<1>2. InParse' /\ ~ InParse /\ main'.parsed = 0 /\ EvtSock' = EvtSock
  BY <1>1 DEF InParse, EvtSock, IInv, TypeOK, MainRec, Shape, MainShape
<1>3. NothingRead'
  BY <1>1 DEF DataInv, NothingRead
<1>4. ASSUME NEW s \in Sockets PROVE Balanced(s)'
  <2>1. Announced(s)' = Announced(s) /\ Reading(s)' = Reading(s) /\ Ages(s) /\ Parsing(s) = 0
    BY <1>1, <1>2, AnnouncedIs DEF Reading, Ages, Parsing
  <2>2. CASE s = x
    <3>1. /\ rcv'[s].data_has_recv = rcv[s].data_has_recv + Head(evtQ).len
          /\ rcv'[s].cache = rcv[s].cache
      BY <1>1, <2>2 DEF IInv, TypeOK, RecvRec
    <3>2. Parsing(s)' = 0 - Head(evtQ).len
      BY <1>1, <1>2, <2>2 DEF Parsing
    <3>3. Level(s)' = Level(s)
      <4>1. /\ Level(s) = Announced(s) + Parsing(s) + Reading(s) + rcv[s].data_has_recv
            /\ Announced(s) \in Nat /\ Parsing(s) \in Int /\ Reading(s) \in Nat
            /\ rcv[s].data_has_recv \in Nat
        BY Levels
      <4>2. Level(s)' = Announced(s)' + Parsing(s)' + Reading(s)' + rcv'[s].data_has_recv
        BY LevelsNext
      <4>3. Head(evtQ).len \in Nat
        BY <1>1, DataKnown
      <4> QED BY <2>1, <3>1, <3>2, <4>1, <4>2, <4>3
    <3>4. Level(s)' - Level(s) = rcv'[s].cache - rcv[s].cache
      BY <3>1, <3>3, Levels
    <3> QED BY <1>1, <2>1, <2>2, <3>4, Moves, DataKnown DEF DataInv
  <2>3. CASE s # x
    <3>1. SameData(s) /\ Parsing(s)' = 0
      BY <1>1, <1>2, <2>3 DEF SameData, Parsing, IInv, TypeOK
    <3> QED BY <1>1, <2>1, <3>1, Stays DEF DataInv
  <2> QED BY <2>2, <2>3
<1> QED BY <1>3, <1>4 DEF DataInv

LEMMA ParsePacketData ==
  ASSUME IInv, IInv', DataInv, NEW n \in 1 .. RecvCap, ParsePacket(n)
  PROVE  DataInv'
<1>1. /\ UNCHANGED <<allocated, sock, evtQ, io>> /\ main.pc = "parse"
      /\ rcv' = [rcv EXCEPT ![EvtSock].data_has_recv = @ - n]
      /\ main' = [main EXCEPT !.parsed = @ + n] /\ n \in Nat
  BY ConstType DEF ParsePacket
<1>2. /\ InParse /\ InParse' /\ main'.parsed = main.parsed + n /\ EvtSock' = EvtSock
      /\ main.parsed \in Nat /\ evtQ # <<>> /\ Head(evtQ).type = "DATA"
  BY <1>1 DEF InParse, EvtSock, IInv, TypeOK, MainRec, Shape, MainShape
<1> PICK x \in Sockets : x = EvtSock
  BY <1>2, DataKnown
<1>3. NothingRead'
  BY <1>1 DEF DataInv, NothingRead
<1>4. ASSUME NEW s \in Sockets PROVE Balanced(s)'
  <2>1. Announced(s)' = Announced(s) /\ Reading(s)' = Reading(s) /\ Ages(s)
    BY <1>1, AnnouncedIs DEF Reading, Ages
  <2>2. CASE s = x
    <3>1. /\ rcv'[s].data_has_recv = rcv[s].data_has_recv - n
          /\ rcv'[s].cache = rcv[s].cache
      BY <1>1, <2>2 DEF IInv, TypeOK, RecvRec
    <3>2. Parsing(s)' = Parsing(s) + n
      <4>1. Head(evtQ).len \in Nat
        BY <1>2, DataKnown
      <4> QED BY <1>1, <1>2, <2>2, <4>1 DEF Parsing
    <3>3. Level(s)' = Level(s)
      <4>1. /\ Level(s) = Announced(s) + Parsing(s) + Reading(s) + rcv[s].data_has_recv
            /\ Announced(s) \in Nat /\ Parsing(s) \in Int /\ Reading(s) \in Nat
            /\ rcv[s].data_has_recv \in Nat
        BY Levels
      <4>2. Level(s)' = Announced(s)' + Parsing(s)' + Reading(s)' + rcv'[s].data_has_recv
        BY LevelsNext
      <4> QED BY <1>1, <2>1, <3>1, <3>2, <4>1, <4>2
    <3>4. Level(s)' - Level(s) = rcv'[s].cache - rcv[s].cache
      BY <3>1, <3>3, Levels
    <3> QED BY <1>1, <1>2, <2>1, <2>2, <3>4, Moves, DataKnown DEF DataInv
  <2>3. CASE s # x
    <3>1. SameData(s) /\ Parsing(s)' = 0 /\ Parsing(s) = 0
      BY <1>1, <1>2, <2>3 DEF SameData, Parsing, IInv, TypeOK
    <3> QED BY <1>1, <2>1, <3>1, Stays DEF DataInv
  <2> QED BY <2>2, <2>3
<1> QED BY <1>3, <1>4 DEF DataInv

LEMMA ParseEndData ==
  ASSUME IInv, IInv', DataInv, NEW bad \in BOOLEAN, ParseEnd(bad)
  PROVE  DataInv'
<1>1. /\ UNCHANGED <<allocated, io>> /\ main.pc = "parse" /\ evtQ' = Tail(evtQ)
      /\ MainClose(EvtSock, "MODULE_TERMINATE") \/ UNCHANGED sock
      /\ rcv' = [rcv EXCEPT ![EvtSock].cache = @ - main.parsed]
      /\ main' = [main EXCEPT !.pc = "idle", !.parsed = 0]
  BY DEF ParseEnd
<1>2. /\ InParse /\ ~ InParse' /\ main.parsed \in Nat
      /\ evtQ # <<>> /\ Head(evtQ).type = "DATA"
  BY <1>1 DEF InParse, IInv, TypeOK, MainRec, Shape, MainShape
<1> PICK x \in Sockets : x = EvtSock
  BY <1>2, DataKnown
<1>3. NothingRead'
  BY <1>1 DEF DataInv, NothingRead
<1>4. ASSUME NEW s \in Sockets PROVE Balanced(s)'
  <2>1. Reading(s)' = Reading(s) /\ Ages(s) /\ Parsing(s)' = 0
    BY <1>1, <1>2, ClosedAges DEF Reading, Parsing
  <2>2. Announced(s)' = Announced(s) - (IF x = s THEN Head(evtQ).len ELSE 0)
    BY <1>1, <1>2, DataKnown, AnnouncedIs, AmountPopped DEF EvtSock
  <2>3. CASE s = x
    <3>1. /\ rcv'[s].data_has_recv = rcv[s].data_has_recv
          /\ rcv'[s].cache = rcv[s].cache - main.parsed
      BY <1>1, <2>3 DEF IInv, TypeOK, RecvRec
    <3>2. Parsing(s) = main.parsed - Head(evtQ).len
      BY <1>2, <2>3 DEF Parsing
    <3>3. Head(evtQ).len \in Nat
      BY <1>2, DataKnown
    <3>4. Level(s)' = Level(s) - main.parsed
      <4>1. /\ Level(s) = Announced(s) + Parsing(s) + Reading(s) + rcv[s].data_has_recv
            /\ Announced(s) \in Nat /\ Parsing(s) \in Int /\ Reading(s) \in Nat
            /\ rcv[s].data_has_recv \in Nat
        BY Levels
      <4>2. Level(s)' = Announced(s)' + Parsing(s)' + Reading(s)' + rcv'[s].data_has_recv
        BY LevelsNext
      <4>3. Announced(s)' = Announced(s) - Head(evtQ).len
        BY <2>2, <2>3
      <4>4. Reading(s)' = Reading(s) /\ Parsing(s)' = 0 /\ main.parsed \in Nat
        BY <1>2, <2>1
      <4> QED BY <3>1, <3>2, <3>3, <4>1, <4>2, <4>3, <4>4
    <3>5. Level(s)' - Level(s) = rcv'[s].cache - rcv[s].cache
      <4>1. rcv[s].cache \in Int
        BY Levels
      <4>2. Level(s) \in Int
        BY Levels
      <4> QED BY <1>2, <3>1, <3>4, <4>1, <4>2
    <3> QED BY <1>1, <1>2, <2>1, <2>3, <3>5, Moves, DataKnown DEF DataInv
  <2>4. CASE s # x
    <3>1. SameData(s) /\ Parsing(s) = 0
      BY <1>1, <1>2, <2>4 DEF SameData, Parsing, IInv, TypeOK
    <3>2. Announced(s)' = Announced(s)
      BY <2>2, <2>4, Levels
    <3> QED BY <1>1, <2>1, <3>1, <3>2, Stays DEF DataInv
  <2> QED BY <2>3, <2>4
<1> QED BY <1>3, <1>4 DEF DataInv

LEMMA RecvSomeData ==
  ASSUME IInv, IInv', DataInv, NEW n \in 1 .. RecvCap, RecvSome(n)
  PROVE  DataInv'
<1>1. /\ UNCHANGED <<allocated, sock, evtQ, main>> /\ io.pc = "recv" /\ n \in Nat
      /\ rcv' = [rcv EXCEPT ![io.sock].cache = @ + n]
      /\ io' = [io EXCEPT !.len = @ + n]
  BY ConstType DEF RecvSome
<1> PICK x \in Sockets : x = io.sock
  BY <1>1, IoKnown
<1>2. io'.pc = "recv" /\ io'.sock = io.sock /\ io'.len = io.len + n /\ io.len \in Nat
  BY <1>1 DEF IInv, TypeOK, IoRec
<1>3. NothingRead'
  BY <1>2 DEF NothingRead, Reads
<1>4. ASSUME NEW s \in Sockets PROVE Balanced(s)'
  <2>1. Announced(s)' = Announced(s) /\ Parsing(s)' = Parsing(s) /\ Ages(s)
    BY <1>1, AnnouncedIs DEF Parsing, InParse, EvtSock, Ages
  <2>2. CASE s = x
    <3>1. /\ rcv'[s].data_has_recv = rcv[s].data_has_recv
          /\ rcv'[s].cache = rcv[s].cache + n
      BY <1>1, <2>2 DEF IInv, TypeOK, RecvRec
    <3>2. Reading(s)' = Reading(s) + n
      BY <1>1, <1>2, <2>2 DEF Reading
    <3>3. Level(s)' = Level(s) + n
      <4>1. /\ Level(s) = Announced(s) + Parsing(s) + Reading(s) + rcv[s].data_has_recv
            /\ Announced(s) \in Nat /\ Parsing(s) \in Int /\ Reading(s) \in Nat
            /\ rcv[s].data_has_recv \in Nat
        BY Levels
      <4>2. Level(s)' = Announced(s)' + Parsing(s)' + Reading(s)' + rcv'[s].data_has_recv
        BY LevelsNext
      <4> QED BY <1>1, <2>1, <3>1, <3>2, <4>1, <4>2
    <3>4. Level(s)' - Level(s) = rcv'[s].cache - rcv[s].cache
      BY <1>1, <3>1, <3>3, Levels
    <3>5. s \in allocated /\ sock[s].state \notin Early
      BY <1>1, <2>2, IoKnown DEF IInv, SockInv, ReadsAlive, Reads, Early
    <3> QED BY <1>1, <2>1, <3>4, <3>5, Moves DEF DataInv
  <2>3. CASE s # x
    <3>1. SameData(s) /\ Reading(s)' = Reading(s)
      BY <1>1, <1>2, <2>3 DEF SameData, Reading, IInv, TypeOK
    <3> QED BY <1>1, <2>1, <3>1, Stays, Levels DEF DataInv
  <2> QED BY <2>2, <2>3
<1> QED BY <1>3, <1>4 DEF DataInv

LEMMA RecvPushDataData ==
  ASSUME IInv, IInv', DataInv, RecvPushData
  PROVE  DataInv'
<1>1. /\ UNCHANGED <<allocated, sock, rcv, main>> /\ io.pc = "recv"
      /\ IF io.len > 0 /\ sock[io.sock].state = "ESTABLISH"
         THEN evtQ' = Append(evtQ, Entry("DATA", io.sock, io.len))
         ELSE UNCHANGED evtQ
      /\ IoReturn \/ IoGoto(RecvOutcome)
      /\ RecvOutcome \in {"recv_full", "recv_error", "recv_eof", "recv_again"}
      /\ RecvOutcome = "recv_again" => IoReturn
  BY DEF RecvPushData, RecvOutcome
<1> PICK x \in Sockets : x = io.sock
  BY <1>1, IoKnown
<1>2. io'.pc # "recv" /\ (io'.pc \notin Reads => io'.len = 0) /\ io.len \in Nat
  BY <1>1 DEF IInv, TypeOK, IoRec, IoReturn, IoGoto, Reads
<1>3. NothingRead'
  BY <1>2 DEF NothingRead
<1>4. ASSUME NEW s \in Sockets PROVE Balanced(s)'
  <2> DEFINE e == Entry("DATA", io.sock, io.len)
             told == IF s = x /\ io.len > 0 /\ sock[x].state = "ESTABLISH" THEN io.len ELSE 0
  <2>1. evtQ \in Seq(Evts) /\ e \in Evts /\ e.type = "DATA" /\ e.sock = x /\ e.len = io.len
    BY <1>2 DEF IInv, TypeOK, Entry, Evts, EvtTypes
  <2>2. evtQ' = evtQ \/ evtQ' = Append(evtQ, e)
    BY <1>1
  <2>3. evtQ' = IF io.len > 0 /\ sock[x].state = "ESTABLISH" THEN Append(evtQ, e) ELSE evtQ
    BY <1>1
  <2> HIDE DEF e
  <2>4. Announced(s)' = Announced(s) + told
    <3>1. Amount(evtQ, s) \in Nat
      BY <2>1, UnitsFinite
    <3>2. Amount(Append(evtQ, e), s) = Amount(evtQ, s) + (IF x = s THEN io.len ELSE 0)
      BY <2>1, AmountPushed
    <3> QED BY <2>3, <3>1, <3>2, AnnouncedIs
  <2>5. Parsing(s)' = Parsing(s)
    <3>1. InParse => Head(evtQ') = Head(evtQ)
      BY <2>1, <2>2, HeadStays DEF IInv, Shape, MainShape
    <3> QED BY <1>1, <3>1 DEF Parsing, InParse, EvtSock
  <2>6. SameData(s) /\ Ages(s) /\ Reading(s)' = 0
    BY <1>1, <1>2 DEF SameData, Ages, Reading
  <2>7. CASE s = x
    <3>1. Reading(s) = io.len
      BY <1>1, <2>7 DEF Reading
    <3>2. sock[s].state \in {"ESTABLISH", "TERMINATE"} /\ s \in allocated
      BY <1>1, <2>7, IoKnown DEF IInv, SockInv, ReadsAlive, Reads
    <3>3. Level(s)' = Level(s) + told - io.len
      <4>1. /\ Level(s) = Announced(s) + Parsing(s) + Reading(s) + rcv[s].data_has_recv
            /\ Announced(s) \in Nat /\ Parsing(s) \in Int /\ Reading(s) \in Nat
            /\ rcv[s].data_has_recv \in Nat
        BY Levels
      <4>2. Level(s)' = Announced(s)' + Parsing(s)' + Reading(s)' + rcv'[s].data_has_recv
        BY LevelsNext
      <4> HIDE DEF told
      <4>3. told \in Nat
        BY <1>2 DEF told
      <4> QED BY <1>2, <2>4, <2>5, <2>6, <3>1, <4>1, <4>2, <4>3 DEF SameData
    <3>4. rcv'[s].cache - rcv[s].cache = 0 /\ Level(s) \in Int
      BY <2>6, Levels DEF SameData
    <3>5. \/ Level(s)' - Level(s) = rcv'[s].cache - rcv[s].cache
          \/ Level(s)' - Level(s) <= rcv'[s].cache - rcv[s].cache /\ sock'[s].state \in Ended
      <4> DEFINE d == rcv'[s].cache - rcv[s].cache
      <4>1. CASE sock[s].state = "ESTABLISH"
        <5>1. told = io.len
          BY <1>2, <2>7, <4>1
        <5> HIDE DEF told
        <5> QED BY <1>2, <3>3, <3>4, <5>1
      <4>2. CASE sock[s].state = "TERMINATE"
        <5>1. told = 0
          BY <2>7, <4>2
        <5>2. sock'[s].state \in Ended
          BY <1>1, <4>2 DEF Ended
        <5> HIDE DEF told
        <5>3. Level(s)' - Level(s) <= d
          BY <1>2, <3>3, <3>4, <5>1
        <5> QED BY <5>2, <5>3
      <4> QED BY <3>2, <4>1, <4>2
    <3> QED BY <1>1, <2>6, <3>2, <3>5, Moves DEF DataInv, Early
  <2>8. CASE s # x
    <3>1. Reading(s) = 0 /\ Announced(s)' = Announced(s)
      BY <2>4, <2>8, Levels DEF Reading
    <3> QED BY <1>1, <2>5, <2>6, <3>1, Stays DEF DataInv
  <2> QED BY <2>7, <2>8
<1> QED BY <1>3, <1>4 DEF DataInv

-----------------------------------------------------------------------------
(***************************************************************************)
(* The other steps of the IO thread.                                       *)
(***************************************************************************)
LEMMA IoReturnLen ==
  ASSUME IInv, IoReturn
  PROVE  io'.pc = "idle" /\ io'.len = 0
BY DEF IoReturn, IInv, TypeOK, IoRec

LEMMA EndedAges ==
  ASSUME IInv, NEW x, NEW v \in Ended, NEW w,
         \/ UNCHANGED sock
         \/ sock' = [sock EXCEPT ![x].state = v]
         \/ sock' = [sock EXCEPT ![x].state = v, ![x].fd = w]
         \/ sock' = [sock EXCEPT ![x].try_close_send_count = w]
         \/ sock' = [sock EXCEPT ![x].try_close_send_count = w, ![x].state = v]
         \/ sock' = [sock EXCEPT ![x].fd = w]
  PROVE  \A s \in Sockets : Ages(s)
<1>1. CASE UNCHANGED sock
  BY <1>1 DEF Ages
<1>2. CASE sock' = [sock EXCEPT ![x].state = v]
  BY <1>2 DEF Ages, IInv, TypeOK, SocketRec
<1>3. CASE sock' = [sock EXCEPT ![x].state = v, ![x].fd = w]
  BY <1>3 DEF Ages, IInv, TypeOK, SocketRec
<1>4. CASE sock' = [sock EXCEPT ![x].try_close_send_count = w]
  BY <1>4 DEF Ages, IInv, TypeOK, SocketRec
<1>5. CASE sock' = [sock EXCEPT ![x].try_close_send_count = w, ![x].state = v]
  BY <1>5 DEF Ages, IInv, TypeOK, SocketRec
<1>6. CASE sock' = [sock EXCEPT ![x].fd = w]
  BY <1>6 DEF Ages, IInv, TypeOK, SocketRec
<1> QED BY <1>1, <1>2, <1>3, <1>4, <1>5, <1>6

LEMMA EstablishedAges ==
  ASSUME IInv, NEW x \in Sockets, sock[x].state \in Early,
         sock' = [sock EXCEPT ![x].state = "ESTABLISH"]
  PROVE  \A s \in Sockets : Ages(s)
BY DEF Ages, IInv, TypeOK, SocketRec

LEMMA NoData ==
  /\ {"ESTABLISH", "TERMINATE", "SYSTEM_ERROR", "MODULE_ERROR", "RECV_ACTIVATE",
      "CONNECT_FAIL", "ACCEPT", "ACCEPT_FAIL"} \subseteq EvtTypes \ {"DATA"}
  /\ {"TERMINATE", "DELETE"} \subseteq Ended
BY DEF EvtTypes, Ended

LEMMA SendData ==
  ASSUME IInv, IInv', DataInv,
         \/ OnSend \/ SendAgain \/ SendDrained \/ SetSendActive
         \/ \E n \in 1 .. SendCap : SendSome(n)
  PROVE  DataInv'
<1>1. /\ UNCHANGED <<allocated, sock, rcv, evtQ, main>>
      /\ io.pc \in {"on_send", "send", "send_block", "send_done"}
  BY DEF OnSend, SendAgain, SendDrained, SetSendActive, SendSome
<1>2. io'.len = 0 /\ io'.pc # "recv"
  <2>1. CASE IoReturn
    BY <2>1, IoReturnLen
  <2>2. ASSUME NEW pc \in {"send", "send_block", "send_done"}, IoGoto(pc)
        PROVE  io'.len = 0 /\ io'.pc # "recv"
    BY <1>1, <2>2 DEF IoGoto, DataInv, NothingRead, Reads, IInv, TypeOK, IoRec
  <2>3. CASE UNCHANGED io
    BY <1>1, <2>3 DEF DataInv, NothingRead, Reads
  <2> QED BY <2>1, <2>2, <2>3 DEF OnSend, SendAgain, SendDrained, SetSendActive, SendSome
<1>3. \A s \in Sockets : Ages(s) /\ SameData(s)
  BY <1>1 DEF Ages, SameData
<1> QED BY <1>1, <1>2, <1>3, IoQuiet DEF EvtQuiet

LEMMA OnRecvData ==
  ASSUME IInv, IInv', DataInv, OnRecv
  PROVE  DataInv'
<1>1. UNCHANGED <<allocated, sock, rcv, evtQ, main>> /\ io.pc = "on_recv"
  BY DEF OnRecv
<1>2. io'.len = 0
  <2>1. CASE IoReturn
    BY <2>1, IoReturnLen
  <2>2. CASE IoGoto("recv")
    BY <1>1, <2>2 DEF IoGoto, DataInv, NothingRead, Reads, IInv, TypeOK, IoRec
  <2> QED BY <2>1, <2>2 DEF OnRecv
<1>3. \A s \in Sockets : Ages(s) /\ SameData(s)
  BY <1>1 DEF Ages, SameData
<1> QED BY <1>1, <1>2, <1>3, IoQuiet DEF EvtQuiet

LEMMA IoEndData ==
  ASSUME IInv, IInv', DataInv, SendError \/ RecvError \/ RecvEof \/ RecvFull
  PROVE  DataInv'
<1>1. /\ UNCHANGED <<allocated, main>> /\ IoReturn
      /\ io.pc \in {"send", "recv_error", "recv_eof", "recv_full"}
  BY DEF SendError, RecvError, RecvEof, RecvFull
<1> PICK x \in Sockets : x = io.sock
  BY <1>1, IoKnown
<1>2. io'.len = 0 /\ io'.pc = "idle"
  BY <1>1, IoReturnLen
<1>3. \A s \in Sockets : SameData(s)
  <2>1. CASE RecvFull
    BY <2>1 DEF RecvFull, SameData, IInv, TypeOK, RecvRec
  <2>2. CASE UNCHANGED rcv
    BY <2>2 DEF SameData
  <2> QED BY <2>1, <2>2 DEF SendError, RecvError, RecvEof
<1>4. EvtQuiet
  BY NoData DEF EvtQuiet, SendError, RecvError, RecvEof, RecvFull, IoCloseError
<1>5. \A s \in Sockets : Ages(s)
  BY NoData, EndedAges DEF SendError, RecvError, RecvEof, RecvFull, IoCloseError
<1> QED BY <1>1, <1>2, <1>3, <1>4, <1>5, IoQuiet

LEMMA EpollData ==
  ASSUME IInv, IInv', DataInv, DoEpollEvt \/ ListenerOnAccept
  PROVE  DataInv'
<1>1. /\ UNCHANGED <<rcv, main, allocated>> /\ io.pc = "idle"
  BY DEF DoEpollEvt, EpollWait, EpollOutConnect, EpollOut, EpollIn, EpollErr, ListenerOnAccept,
         Serves, IoIdle
<1>2. io.len = 0
  BY <1>1 DEF DataInv, NothingRead, Reads
<1>3. io'.len = 0 /\ \A s \in Sockets : SameData(s)
  BY <1>1, <1>2 DEF DoEpollEvt, EpollWait, EpollOutConnect, EpollOut, EpollIn, EpollErr,
                   ListenerOnAccept, Served, SameData, IInv, TypeOK, IoRec
<1>4. EvtQuiet
  BY NoData, <1>1, IoKnown DEF EvtQuiet, DoEpollEvt, EpollWait, EpollOutConnect, EpollOut, EpollIn,
                   EpollErr, ListenerOnAccept, ConnectFailed, IoCloseError, IInv, TypeOK, IoRec
<1>5. \A s \in Sockets : Ages(s)
  <2>1. CASE EpollOutConnect /\ sock' = [sock EXCEPT ![io.sock].state = "ESTABLISH"]
    <3> PICK x \in Sockets \cup {NoSock} : x = io.sock
      BY DEF IInv, TypeOK, IoRec
    <3>1. sock[x].state \in Early
      BY <2>1 DEF EpollOutConnect, Early
    <3> QED BY <2>1, <3>1 DEF Ages, IInv, TypeOK, SocketRec
  <2>2. CASE ~ (EpollOutConnect /\ sock' = [sock EXCEPT ![io.sock].state = "ESTABLISH"])
    BY <2>2, NoData, EndedAges
    DEF DoEpollEvt, EpollWait, EpollOutConnect, EpollOut, EpollIn, EpollErr, ListenerOnAccept,
        ConnectFailed, IoCloseError
  <2> QED BY <2>1, <2>2
<1> QED BY <1>1, <1>3, <1>4, <1>5, IoQuiet

LEMMA ReqData ==
  ASSUME IInv, IInv', DataInv, DoNetReq
  PROVE  DataInv'
<1>1. /\ UNCHANGED <<main, allocated>> /\ io.pc = "idle" /\ reqQ # <<>>
  BY DEF DoNetReq, ReqSend, ReqAccept, ReqConnect, ReqTerminate, ReqRecvActivate,
         ReqCloseSocket, ReqAcceptFail, ReqIs, IoIdle
<1>2. io.len = 0
  BY <1>1 DEF DataInv, NothingRead, Reads
<1>3. io'.len = 0
  BY <1>1, <1>2 DEF DoNetReq, ReqSend, ReqAccept, ReqConnect, ReqTerminate, ReqRecvActivate,
         ReqCloseSocket, ReqAcceptFail, IoServe, IInv, TypeOK, IoRec
<1>4. \A s \in Sockets : SameData(s)
  <2>1. CASE ReqRecvActivate
    BY <2>1 DEF ReqRecvActivate, SameData, IInv, TypeOK, RecvRec
  <2>2. CASE UNCHANGED rcv
    BY <2>2 DEF SameData
  <2> QED BY <2>1, <2>2 DEF DoNetReq, ReqSend, ReqAccept, ReqConnect, ReqTerminate,
                            ReqCloseSocket, ReqAcceptFail
<1>5. ReqSock \in Sockets \cup {NoSock}
  <2>1. Head(reqQ) \in Reqs
    BY <1>1 DEF IInv, TypeOK
  <2> QED BY <2>1 DEF ReqSock, Reqs
<1>6. EvtQuiet
  BY <1>5, NoData DEF EvtQuiet, DoNetReq, ReqSend, ReqAccept, ReqConnect, ReqTerminate,
         ReqRecvActivate, ReqCloseSocket, ReqAcceptFail
<1>7. \A s \in Sockets : Ages(s)
  <2>1. CASE ReqAccept(TRUE)
    <3>1. ReqIs("ACCEPT") /\ sock' = [sock EXCEPT ![ReqSock].state = "ESTABLISH"]
      BY <2>1 DEF ReqAccept
    <3> PICK x \in Sockets : x = ReqSock
      BY <3>1, ReqKnown
    <3>2. Has(reqQ, x, Opens)
      BY <3>1, ReqKnown DEF Opens
    <3>3. sock[x].state \in Early
      BY <3>2 DEF IInv, SockInv, Unmet
    <3> QED BY <3>1, <3>3, EstablishedAges
  <2>2. CASE ~ ReqAccept(TRUE)
    BY <2>2, NoData, EndedAges
    DEF DoNetReq, ReqSend, ReqAccept, ReqConnect, ReqTerminate, ReqRecvActivate,
        ReqCloseSocket, ReqAcceptFail
  <2> QED BY <2>1, <2>2
<1> QED BY <1>1, <1>3, <1>4, <1>6, <1>7, IoQuiet

-----------------------------------------------------------------------------
LEMMA DataInit == Init => DataInv
<1> SUFFICES ASSUME Init PROVE DataInv
  OBVIOUS
<1>1. NothingRead
  BY DEF Init, NothingRead, Reads
<1>2. ASSUME NEW s \in Sockets PROVE Balanced(s)
  <2>1. /\ rcv[s].data_has_recv = 0 /\ rcv[s].cache = 0 /\ IInv
        /\ ~ InParse /\ io.pc = "idle" /\ evtQ = <<>>
    BY InvInit DEF Init, ResetRecv, InParse
  <2>2. Announced(s) = 0
    BY <2>1, AnnouncedIs, NotNamed DEF Names
  <2>3. Parsing(s) = 0 /\ Reading(s) = 0
    BY <2>1 DEF Parsing, Reading
  <2>4. Level(s) = 0
    <3>1. Level(s) = Announced(s) + Parsing(s) + Reading(s) + rcv[s].data_has_recv
      BY <2>1, Levels
    <3> QED BY <2>1, <2>2, <2>3, <3>1
  <2> QED BY <2>1, <2>4 DEF Balanced
<1> QED BY <1>1, <1>2 DEF DataInv

LEMMA DataNext == IInv /\ IInv' /\ DataInv /\ [Next]_vars => DataInv'
<1> SUFFICES ASSUME IInv, IInv', DataInv, [Next]_vars PROVE DataInv'
  OBVIOUS
<1>1. ASSUME NEW s \in Sockets, User(s) PROVE DataInv'
  BY <1>1, ConnectData, UserData DEF User
<1>2. ASSUME NEW s \in Sockets, OnTimer(s) PROVE DataInv'
  BY <1>2, ConnectData, TimerData DEF OnTimer
<1>3. ASSUME NEW s \in Sockets, Peer(s) PROVE DataInv'
  BY <1>3, PeerData
  DEF Peer, PeerAnswer, PeerSend, PeerClose, PeerReset, KernelDrain, KernelStep
<1>4. CASE DoNetEvt
  BY <1>4, EvtTakenData, EvtAcceptData, EvtDataData, ParsePacketData, ParseEndData DEF DoNetEvt
<1>5. CASE SendChecks
  BY <1>5, ChecksData
<1>6. CASE DoNetReq
  BY <1>6, ReqData
<1>7. CASE DoEpollEvt \/ ListenerOnAccept
  BY <1>7, EpollData
<1>8. CASE IoSend
  BY <1>8, SendData, IoEndData DEF IoSend
<1>9. CASE IoRecv
  BY <1>9, OnRecvData, RecvSomeData, RecvPushDataData, IoEndData DEF IoRecv
<1>10. CASE AllDone \/ UNCHANGED vars
  BY <1>10, PeerData DEF AllDone, vars
<1> QED BY <1>1, <1>2, <1>3, <1>4, <1>5, <1>6, <1>7, <1>8, <1>9, <1>10 DEF Next

(* What the parser has been told of and has not consumed, with what io has *)
(* read and not announced, is never more than what is in the receive ring, *)
(* and while the socket stands exactly that: main never copies or pops     *)
(* data that is not there, and no data stays in the ring unannounced.      *)
THEOREM DataAccounted == Spec => []RecvDataAccounted
<1>1. IInv /\ DataInv => RecvDataAccounted
  BY DEF RecvDataAccounted, DataInv, Balanced, Level, Ended, IInv, TypeOK
<1>2. IInv /\ DataInv /\ [Next]_vars => (IInv /\ DataInv)'
  BY InvNext, DataNext
<1> QED BY <1>1, <1>2, InvInit, DataInit, PTL DEF Spec

-----------------------------------------------------------------------------
(***************************************************************************)
(* The refinement of SessionLife.                                          *)
(***************************************************************************)
AllPhases == [s \in Sockets |-> Phase(s)]

(* Steps that the user does not see.                                       *)
Unseen ==
  /\ UNCHANGED allocated
  /\ \A s \in Sockets : sock'[s].timer = sock[s].timer

LEMMA PhaseKept ==
  ASSUME TypeOK, NEW s \in Sockets, s \in allocated' <=> s \in allocated,
         sock'[s].timer = sock[s].timer
  PROVE  Phase(s)' = Phase(s)
<1>1. CASE s \notin allocated
  <2>1. Phase(s) = "free"
    BY <1>1 DEF Phase
  <2>2. Phase(s)' = "free"
    BY <1>1 DEF Phase
  <2> QED BY <2>1, <2>2
<1>2. CASE s \in allocated /\ sock[s].timer = "none"
  <2>1. Phase(s) = "opening"
    BY <1>2 DEF Phase
  <2>2. Phase(s)' = "opening"
    BY <1>2 DEF Phase
  <2> QED BY <2>1, <2>2
<1>3. CASE s \in allocated /\ sock[s].timer = "send"
  <2>1. Phase(s) = "open"
    BY <1>3 DEF Phase
  <2>2. Phase(s)' = "open"
    BY <1>3 DEF Phase
  <2> QED BY <2>1, <2>2
<1>4. CASE s \in allocated /\ sock[s].timer = "close"
  <2>1. Phase(s) = "closing"
    BY <1>4 DEF Phase
  <2>2. Phase(s)' = "closing"
    BY <1>4 DEF Phase
  <2> QED BY <2>1, <2>2
<1> QED BY <1>1, <1>2, <1>3, <1>4 DEF TypeOK, SocketRec

LEMMA UnseenStutters == TypeOK /\ Unseen => UNCHANGED AllPhases
<1> SUFFICES ASSUME TypeOK, Unseen PROVE AllPhases' = AllPhases
  OBVIOUS
<1>1. \A s \in Sockets : Phase(s)' = Phase(s)
  BY PhaseKept DEF Unseen
<1> QED BY <1>1 DEF AllPhases

(* A step that moves one socket from a phase to another.                   *)
LEMMA OneMoves ==
  ASSUME NEW x \in Sockets, NEW from, NEW to, Phase(x) = from, Phase(x)' = to,
         \A s \in Sockets \ {x} : Phase(s)' = Phase(s)
  PROVE  Life!Move(x, from, to)
BY DEF Life!Move

(* Which fields of one socket a step may write without being seen.         *)
StateOnly(x) ==
  \/ UNCHANGED sock
  \/ \E v : sock' = [sock EXCEPT ![x].state = v]
  \/ \E v : sock' = [sock EXCEPT ![x].try_close_send_count = v]
  \/ \E v, w : sock' = [sock EXCEPT ![x].state = v, ![x].try_close_send_count = w]
  \/ \E v, w : sock' = [sock EXCEPT ![x].try_close_send_count = w, ![x].state = v]
  \/ \E v : sock' = [sock EXCEPT ![x].fd = v]
  \/ \E v, w : sock' = [sock EXCEPT ![x].state = v, ![x].fd = w]
  \/ \E v : sock' = [sock EXCEPT ![x].need_req_close = v]

LEMMA StateUnseen ==
  ASSUME TypeOK, UNCHANGED allocated, NEW x, StateOnly(x)
  PROVE  Unseen
<1>1. CASE UNCHANGED sock
  BY <1>1 DEF Unseen
<1>2. ASSUME NEW v, sock' = [sock EXCEPT ![x].state = v] PROVE Unseen
  BY <1>2 DEF Unseen, TypeOK, SocketRec
<1>3. ASSUME NEW v, sock' = [sock EXCEPT ![x].try_close_send_count = v] PROVE Unseen
  BY <1>3 DEF Unseen, TypeOK, SocketRec
<1>4. ASSUME NEW v, NEW w,
             sock' = [sock EXCEPT ![x].state = v, ![x].try_close_send_count = w]
      PROVE  Unseen
  BY <1>4 DEF Unseen, TypeOK, SocketRec
<1>5. ASSUME NEW v, NEW w,
             sock' = [sock EXCEPT ![x].try_close_send_count = w, ![x].state = v]
      PROVE  Unseen
  BY <1>5 DEF Unseen, TypeOK, SocketRec
<1>6. ASSUME NEW v, sock' = [sock EXCEPT ![x].fd = v] PROVE Unseen
  BY <1>6 DEF Unseen, TypeOK, SocketRec
<1>7. ASSUME NEW v, NEW w, sock' = [sock EXCEPT ![x].state = v, ![x].fd = w] PROVE Unseen
  BY <1>7 DEF Unseen, TypeOK, SocketRec
<1>8. ASSUME NEW v, sock' = [sock EXCEPT ![x].need_req_close = v] PROVE Unseen
  BY <1>8 DEF Unseen, TypeOK, SocketRec
<1> QED BY <1>1, <1>2, <1>3, <1>4, <1>5, <1>6, <1>7, <1>8 DEF StateOnly

LEMMA MainUnseen ==
  ASSUME TypeOK, NEW s \in Sockets,
         \/ NetTcpSend(s) \/ NetTcpCloseSession(s) \/ SendChecks \/ Peer(s)
         \/ OnTimerSend(s) \/ OnTimerCloseRetry(s) \/ OnTimerCloseGiveUp(s)
         \/ OnTimerCloseRequest(s)
  PROVE  Unseen
<1>1. CASE NetTcpSend(s) \/ NetTcpCloseSession(s)
  BY <1>1, StateUnseen DEF StateOnly, NetTcpSend, NetTcpCloseSession, MainClose
<1>2. CASE SendChecks
  BY <1>2, StateUnseen DEF StateOnly, SendChecks, SendDelayCheck, SendRequest
<1>3. CASE Peer(s)
  BY <1>3, StateUnseen
  DEF StateOnly, Peer, PeerAnswer, PeerSend, PeerClose, PeerReset, KernelDrain, KernelStep
<1>4. CASE OnTimerSend(s)
  BY <1>4, StateUnseen DEF StateOnly, OnTimerSend
<1>5. CASE OnTimerCloseRetry(s)
  BY <1>5, StateUnseen DEF StateOnly, OnTimerCloseRetry
<1>6. CASE OnTimerCloseGiveUp(s)
  BY <1>6, StateUnseen DEF StateOnly, OnTimerCloseGiveUp
<1>7. CASE OnTimerCloseRequest(s)
  BY <1>7, StateUnseen DEF StateOnly, OnTimerCloseRequest
<1> QED BY <1>1, <1>2, <1>3, <1>4, <1>5, <1>6, <1>7

LEMMA EvtUnseen ==
  ASSUME TypeOK,
         \/ EvtRecvActivate \/ EvtData
         \/ \E n \in 1 .. RecvCap : ParsePacket(n)
         \/ \E bad \in BOOLEAN : ParseEnd(bad)
  PROVE  Unseen
BY StateUnseen DEF StateOnly, EvtRecvActivate, EvtData, ParsePacket, ParseEnd, MainClose

LEMMA ReqUnseen ==
  ASSUME TypeOK, DoNetReq
  PROVE  Unseen
<1>1. CASE ReqSend \/ ReqRecvActivate \/ ReqAcceptFail
           \/ \E type \in TerminateTypes : ReqTerminate(type)
  BY <1>1, StateUnseen DEF StateOnly, ReqSend, ReqRecvActivate, ReqAcceptFail, ReqTerminate
<1>2. ASSUME NEW ok \in BOOLEAN, ReqAccept(ok) PROVE Unseen
  BY <1>2, StateUnseen DEF StateOnly, ReqAccept
<1>3. ASSUME NEW ok \in BOOLEAN, ReqConnect(ok) PROVE Unseen
  BY <1>3, StateUnseen DEF StateOnly, ReqConnect
<1>4. CASE ReqCloseSocket
  BY <1>4, StateUnseen DEF StateOnly, ReqCloseSocket
<1> QED BY <1>1, <1>2, <1>3, <1>4 DEF DoNetReq

LEMMA IoUnseen ==
  ASSUME TypeOK, DoEpollEvt \/ IoSend \/ IoRecv \/ ListenerOnAccept
  PROVE  Unseen
<1>1. CASE DoEpollEvt
  <2>1. CASE EpollOut \/ EpollIn \/ \E s \in Sockets : EpollWait(s)
    BY <2>1, StateUnseen DEF StateOnly, EpollWait, EpollOut, EpollIn
  <2>2. CASE EpollOutConnect
    BY <2>2, StateUnseen DEF StateOnly, EpollOutConnect, ConnectFailed
  <2>3. CASE EpollErr
    BY <2>3, StateUnseen DEF StateOnly, EpollErr, ConnectFailed, IoCloseError
  <2> QED BY <1>1, <2>1, <2>2, <2>3 DEF DoEpollEvt
<1>2. CASE IoSend
  <2>1. CASE SendError
    BY <2>1, StateUnseen DEF StateOnly, SendError, IoCloseError
  <2>2. CASE ~ SendError
    BY <1>2, <2>2, StateUnseen
    DEF StateOnly, IoSend, OnSend, SendSome, SendAgain, SendDrained, SetSendActive
  <2> QED BY <2>1, <2>2
<1>3. CASE IoRecv
  <2>1. CASE RecvError
    BY <2>1, StateUnseen DEF StateOnly, RecvError, IoCloseError
  <2>2. CASE RecvEof
    BY <2>2, StateUnseen DEF StateOnly, RecvEof
  <2>3. CASE ~ RecvError /\ ~ RecvEof
    BY <1>3, <2>3, StateUnseen DEF StateOnly, IoRecv, OnRecv, RecvSome, RecvPushData, RecvFull
  <2> QED BY <2>1, <2>2, <2>3
<1>4. CASE ListenerOnAccept
  BY <1>4, StateUnseen DEF StateOnly, ListenerOnAccept
<1> QED BY <1>1, <1>2, <1>3, <1>4

(* Steps that the user sees.                                               *)
LEMMA Opened ==
  ASSUME IInv, NEW x \in Sockets, x \notin allocated, allocated' = allocated \cup {x},
         sock'[x].timer = "none", \A s \in Sockets \ {x} : sock'[s] = sock[s]
  PROVE  Life!Move(x, "free", "opening")
<1>1. Phase(x) = "free"
  BY DEF Phase
<1>2. Phase(x)' = "opening"
  BY DEF Phase
<1>3. \A s \in Sockets \ {x} : Phase(s)' = Phase(s)
  BY PhaseKept DEF IInv
<1> QED BY <1>1, <1>2, <1>3, OneMoves

LEMMA ConnectMoves ==
  ASSUME IInv, NEW x \in Sockets, NetTcpConnect(x)
  PROVE  Life!Move(x, "free", "opening")
BY Opened DEF NetTcpConnect, IInv, TypeOK, ResetSocket

LEMMA AcceptMoves ==
  ASSUME IInv, EvtAccept
  PROVE  (\E x \in Sockets : Life!Move(x, "free", "opening")) \/ Unseen
<1>1. ASSUME NEW x \in Sockets \ allocated, allocated' = allocated \cup {x},
             sock' = [sock EXCEPT ![x] = [ResetSocket EXCEPT !.fd = TRUE, !.accepted = TRUE]]
      PROVE  \E s \in Sockets : Life!Move(s, "free", "opening")
  <2>1. sock'[x].timer = "none" /\ \A s \in Sockets \ {x} : sock'[s] = sock[s]
    BY <1>1 DEF IInv, TypeOK, ResetSocket
  <2> QED BY <1>1, <2>1, Opened
<1>2. CASE UNCHANGED <<allocated, sock>>
  BY <1>2 DEF Unseen
<1> QED BY <1>1, <1>2 DEF EvtAccept

LEMMA EstablishMoves ==
  ASSUME IInv, EvtEstablish
  PROVE  \E x \in Sockets : Life!Move(x, "opening", "open")
<1>1. /\ evtQ # <<>> /\ Head(evtQ).type = "ESTABLISH" /\ UNCHANGED allocated
      /\ sock' = [sock EXCEPT ![EvtSock].timer = "send"] /\ TypeOK
  BY DEF EvtEstablish, HeadIs, IInv
<1> PICK x \in Sockets : x = EvtSock
  BY <1>1, HeadKnown
<1>2. x \in allocated
  BY <1>1, HeadKnown
<1>3. Has(evtQ, x, Establishes)
  <2>1. 1 \in DOMAIN evtQ /\ evtQ[1] = Head(evtQ)
    BY <1>1, Tails DEF TypeOK
  <2> QED BY <1>1, <2>1 DEF Has, EvtSock, Establishes
<1>4. sock[x].timer = "none"
  BY <1>3 DEF IInv, SockInv, EstablishFirst
<1>5. sock'[x].timer = "send" /\ \A s \in Sockets \ {x} : sock'[s] = sock[s]
  BY <1>1 DEF TypeOK, SocketRec
<1>6. Phase(x) = "opening"
  BY <1>2, <1>4 DEF Phase
<1>7. Phase(x)' = "open"
  BY <1>1, <1>2, <1>5 DEF Phase
<1>8. \A s \in Sockets \ {x} : Phase(s)' = Phase(s)
  BY <1>1, <1>5, PhaseKept
<1> QED BY <1>6, <1>7, <1>8, OneMoves

LEMMA FinalMoves ==
  ASSUME IInv, NEW type \in FinalTypes, EvtFinal(type)
  PROVE  \E x \in Sockets : Life!Move(x, "opening", "closing") \/ Life!Move(x, "open", "closing")
<1>1. /\ evtQ # <<>> /\ Head(evtQ).type # "ACCEPT" /\ UNCHANGED allocated
      /\ sock' = [sock EXCEPT ![EvtSock].timer = "close"] /\ TypeOK
  BY DEF EvtFinal, HeadIs, IInv, FinalTypes, EndTypes
<1> PICK x \in Sockets : x = EvtSock
  BY <1>1, HeadKnown
<1>2. x \in allocated /\ Names(evtQ, x)
  BY <1>1, HeadKnown
<1>3. sock[x].timer \in {"none", "send"}
  BY <1>1, <1>2 DEF IInv, SockInv, EndsOnce, TypeOK, SocketRec
<1>4. sock'[x].timer = "close" /\ \A s \in Sockets \ {x} : sock'[s] = sock[s]
  BY <1>1 DEF TypeOK, SocketRec
<1>5. Phase(x) \in {"opening", "open"}
  BY <1>2, <1>3 DEF Phase
<1>6. Phase(x)' = "closing"
  BY <1>1, <1>2, <1>4 DEF Phase
<1>7. \A s \in Sockets \ {x} : Phase(s)' = Phase(s)
  BY <1>1, <1>4, PhaseKept
<1> QED BY <1>5, <1>6, <1>7, OneMoves

LEMMA FreeMoves ==
  ASSUME IInv, NEW x \in Sockets, OnTimerCloseFree(x)
  PROVE  Life!Move(x, "closing", "free")
<1>1. /\ x \in allocated /\ sock[x].timer = "close" /\ allocated' = allocated \ {x}
      /\ \A s \in Sockets \ {x} : sock'[s] = sock[s]
  BY DEF OnTimerCloseFree, Fires, IInv, TypeOK
<1>2. Phase(x) = "closing"
  BY <1>1 DEF Phase
<1>3. Phase(x)' = "free"
  BY <1>1 DEF Phase
<1>4. \A s \in Sockets \ {x} : Phase(s)' = Phase(s)
  BY <1>1, PhaseKept DEF IInv
<1> QED BY <1>2, <1>3, <1>4, OneMoves

(* Seen by its user, a socket goes from free to opening, to open or to     *)
(* closing, and back to free, and in no other order: every step of the two *)
(* threads is a step of SessionLife or none (its safety part; that a       *)
(* socket leaves opening and closing is checked by TLC).                   *)
THEOREM LivesAsPromised == Spec => Life!Init /\ [][Life!Next]_AllPhases
<1>1. Init => Life!Init
  BY DEF Init, Life!Init, Phase
<1>2. IInv /\ [Next]_vars => [Life!Next]_AllPhases
  <2> SUFFICES ASSUME IInv, [Next]_vars PROVE Life!Next \/ UNCHANGED AllPhases
    OBVIOUS
  <2>1. \A x \in Sockets :
          \/ Life!Move(x, "free", "opening") \/ Life!Move(x, "opening", "open")
          \/ Life!Move(x, "opening", "closing") \/ Life!Move(x, "open", "closing")
          \/ Life!Move(x, "closing", "free")
          => Life!Next
    BY DEF Life!Next, Life!Open, Life!Establish, Life!Fail, Life!Terminate, Life!Free
  <2>2. ASSUME NEW s \in Sockets, User(s) \/ OnTimer(s) \/ Peer(s) PROVE Life!Next \/ Unseen
    BY <2>1, <2>2, ConnectMoves, MainUnseen, FreeMoves DEF User, OnTimer, IInv
  <2>3. CASE DoNetEvt
    <3>1. CASE EvtEstablish
      BY <2>1, <3>1, EstablishMoves
    <3>2. ASSUME NEW type \in FinalTypes, EvtFinal(type) PROVE Life!Next
      BY <2>1, <3>2, FinalMoves
    <3>3. CASE EvtAccept
      BY <2>1, <3>3, AcceptMoves, UnseenStutters DEF IInv
    <3>4. CASE \/ EvtRecvActivate \/ EvtData
               \/ \E n \in 1 .. RecvCap : ParsePacket(n)
               \/ \E bad \in BOOLEAN : ParseEnd(bad)
      BY <3>4, EvtUnseen, UnseenStutters DEF IInv
    <3> QED BY <2>3, <3>1, <3>2, <3>3, <3>4 DEF DoNetEvt
  <2>4. CASE SendChecks
    BY <2>4, UnseenStutters DEF SendChecks, SendDelayCheck, SendRequest, Unseen, IInv
  <2>5. CASE DoNetReq \/ DoEpollEvt \/ IoSend \/ IoRecv \/ ListenerOnAccept
    BY <2>5, ReqUnseen, IoUnseen, UnseenStutters DEF IInv
  <2>6. CASE AllDone \/ UNCHANGED vars
    BY <2>6, UnseenStutters DEF AllDone, vars, Unseen, IInv
  <2> QED BY <2>2, <2>3, <2>4, <2>5, <2>6, UnseenStutters DEF Next, IInv
<1>3. QED
  BY <1>1, <1>2, InvInit, InvNext, PTL DEF Spec
=============================================================================
