------------------------------ MODULE EpollTcp ------------------------------
(***************************************************************************)
(* The TCP layer of libsvr on Linux (libsvr/src/epoll_tcp.c): the life of  *)
(* the sockets of one epoll_tcp_proc, driven by two threads.               *)
(*                                                                         *)
(*   main  net_tcp_run: fires the timers of the proc, takes net_events out *)
(*         of list_net_evt and runs the user's callbacks; the user calls   *)
(*         net_tcp_connect, net_tcp_send and net_tcp_close_session there.  *)
(*   io    _epoll_tcp_net_proc_func: takes net_requests out of             *)
(*         list_net_req and serves the events of epoll_wait.               *)
(*                                                                         *)
(* The threads share the two queues and the fields of st_epoll_tcp_socket, *)
(* with no lock; the only atomic instruction is the compare-and-swap of    *)
(* _epoll_tcp_socket_close.  A handler that reads what the other thread    *)
(* writes is therefore cut into several actions (the pc of main and io).   *)
(* One unit of data stands for a chunk of bytes.  TLS sockets and the      *)
(* closing of a listener are not part of this module.                      *)
(***************************************************************************)
EXTENDS Integers, Sequences, FiniteSets

CONSTANTS
  Sockets,   \* the slots of socket_pool
  NoSock,    \* the null socket pointer
  SendCap,   \* usable size of send_loop_cache
  RecvCap,   \* usable size of recv_loop_cache
  Delay,     \* data_delay_send_size (net_tcp_set_send_control)
  MaxTry,    \* MAX_TRY_CLOSE_SEND
  MaxOpen,   \* bound: calls of net_tcp_connect plus accepted connections
  MaxSend,   \* bound: data given to net_tcp_send per connection
  MaxRecv    \* bound: data the peer sends per connection

ASSUME EpollAssumption ==
  /\ NoSock \notin Sockets
  /\ {SendCap, RecvCap} \subseteq Nat \ {0}
  /\ {Delay, MaxTry, MaxOpen, MaxSend, MaxRecv} \subseteq Nat

VARIABLES
  allocated, \* slots taken from socket_pool
  sock,      \* the life of each socket: state, descriptor, timer, closing
  snd,       \* its sending half: send_loop_cache and the counters
  rcv,       \* its receiving half: recv_loop_cache
  reqQ,      \* list_net_req, main to io
  evtQ,      \* list_net_evt, io to main
  main,      \* program counter and locals of the main thread
  io,        \* program counter and locals of the IO thread
  net,       \* the kernel's side of each connection
  opened     \* connections opened so far (for MaxOpen)

vars == <<allocated, sock, snd, rcv, reqQ, evtQ, main, io, net, opened>>

-----------------------------------------------------------------------------
States == {"NONE", "CONNECT", "ESTABLISH", "TERMINATE", "DELETE"}

ReqTypes == {"CONNECT", "ACCEPT", "SEND", "TERMINATE", "MODULE_TERMINATE",
             "RECV_ACTIVATE", "CLOSE_SOCKET", "ACCEPT_FAIL"}

EvtTypes == {"ESTABLISH", "TERMINATE", "DATA", "SYSTEM_ERROR", "MODULE_ERROR",
             "RECV_ACTIVATE", "CONNECT_FAIL", "ACCEPT", "ACCEPT_FAIL"}

(* send_req and send_ack are 32-bit counters that are only compared for    *)
(* equality; at most two requests are ever unacknowledged, so they are     *)
(* kept modulo 4.                                                          *)
AckMod == 4

(* The fields of st_epoll_tcp_socket.                                      *)
SocketRec ==
  [state : States, fd : BOOLEAN, accepted : BOOLEAN,
   timer : {"none", "send", "close"},
   try_close_send_count : 0 .. MaxTry, need_req_close : BOOLEAN]

SendRec ==
  [send_req : 0 .. AckMod - 1, send_ack : 0 .. AckMod - 1,
   data_need_send : Nat, data_has_send : Nat, cache : Nat,
   need_send_active : BOOLEAN]

RecvRec == [data_has_recv : Nat, cache : Int, need_recv_active : BOOLEAN]

(* _epoll_tcp_socket_reset and loop_cache_reinit, on every allocation      *)
ResetSocket ==
  [state |-> "NONE", fd |-> FALSE, accepted |-> FALSE, timer |-> "none",
   try_close_send_count |-> 0, need_req_close |-> TRUE]

ResetSend ==
  [send_req |-> 0, send_ack |-> 0, data_need_send |-> 0, data_has_send |-> 0,
   cache |-> 0, need_send_active |-> TRUE]

ResetRecv == [data_has_recv |-> 0, cache |-> 0, need_recv_active |-> FALSE]

ResetData(s) ==
  /\ snd' = [snd EXCEPT ![s] = ResetSend]
  /\ rcv' = [rcv EXCEPT ![s] = ResetRecv]

(* What the kernel knows of the connection: is the descriptor in the epoll *)
(* set, which edges are to be reported, how the peer stands, the data in   *)
(* flight to us, and the data the peer has sent in all (for MaxRecv).      *)
NetRec ==
  [watched : BOOLEAN, edges : SUBSET {"out", "in", "err"},
   peer : {"none", "pending", "open", "refused", "eof", "reset"},
   inbound : Nat, sent : 0 .. MaxRecv, full : BOOLEAN]

NoNet == [watched |-> FALSE, edges |-> {}, peer |-> "none",
          inbound |-> 0, sent |-> 0, full |-> FALSE]

Entry(type, s, len) == [type |-> type, sock |-> s, len |-> len]

Reqs == [type : ReqTypes, sock : Sockets \cup {NoSock}, len : {0}]
Evts == [type : EvtTypes, sock : Sockets \cup {NoSock}, len : Nat]

Min2(a, b) == IF a < b THEN a ELSE b

-----------------------------------------------------------------------------
(***************************************************************************)
(* Requests and events.  The queues are single-producer single-consumer    *)
(* rings, unbounded here (a full one ends the process by CRUSH_CODE).      *)
(* SEND and CLOSE_SOCKET requests are counted in send_req, and the IO      *)
(* thread counts the ones it has served in send_ack.                       *)
(***************************************************************************)
PushReq(type, s) == reqQ' = Append(reqQ, Entry(type, s, 0))
PushEvt(type, s) == evtQ' = Append(evtQ, Entry(type, s, 0))

Counted(n) == (n + 1) % AckMod

AckedAlways(s) == s \in Sockets \* mutant: the counters are not compared

Acked(s) == snd[s].send_req = snd[s].send_ack

(* _epoll_tcp_socket_close on the main thread: the compare-and-swap, then  *)
(* a TERMINATE request that carries the reason.  reason is "TERMINATE" for *)
(* error_ok, "MODULE_TERMINATE" for send/recv overflow and bad packet.     *)
MainClose(s, reason) ==
  IF sock[s].state = "ESTABLISH"
  THEN /\ sock' = [sock EXCEPT ![s].state = "TERMINATE"]
       /\ PushReq(reason, s)
  ELSE UNCHANGED <<sock, reqQ>>

(* _epoll_tcp_socket_close on the IO thread with error_system: the event   *)
(* is pushed at once, and the socket is left in DELETE.                    *)
IoCloseError(s) ==
  IF sock[s].state = "ESTABLISH"
  THEN /\ sock' = [sock EXCEPT ![s].state = "DELETE"]
       /\ PushEvt("SYSTEM_ERROR", s)
  ELSE UNCHANGED <<sock, evtQ>>

-----------------------------------------------------------------------------
(***************************************************************************)
(* The main thread: calls of the user.  They are made between two events   *)
(* or inside an on_recv callback.  The user holds a handle from            *)
(* net_tcp_connect or on_establish until on_terminate or a failed connect, *)
(* which is while timer_close is not set.                                  *)
(***************************************************************************)
InUser == main.pc \in {"idle", "parse"}

UserHolds(s) ==
  /\ s \in allocated
  /\ \/ sock[s].timer = "send"
     \/ sock[s].timer = "none" /\ ~ sock[s].accepted

NetTcpConnect(s) ==
  /\ InUser
  /\ s \notin allocated
  /\ opened < MaxOpen
  /\ opened' = opened + 1
  /\ allocated' = allocated \cup {s}
  /\ sock' = [sock EXCEPT ![s] = [ResetSocket EXCEPT !.state = "CONNECT"]]
  /\ ResetData(s)
  /\ net' = [net EXCEPT ![s] = NoNet]
  /\ PushReq("CONNECT", s)
  /\ UNCHANGED <<evtQ, main, io>>

(* The main thread will now decide whether the IO thread is to be told.    *)
MainCheck(pc, s, ret) == main' = [main EXCEPT !.pc = pc, !.sock = s, !.ret = ret]
MainReturn == MainCheck(main.ret, NoSock, "idle")

(* The data goes into the ring, or the socket is closed for overflow.      *)
NetTcpSend(s) ==
  /\ InUser
  /\ UserHolds(s)
  /\ sock[s].state = "ESTABLISH"
  /\ snd[s].data_need_send < MaxSend
  /\ IF snd[s].cache >= SendCap
     THEN /\ MainClose(s, "MODULE_TERMINATE")
          /\ UNCHANGED <<snd, main>>
     ELSE /\ snd' = [snd EXCEPT ![s].cache = @ + 1, ![s].data_need_send = @ + 1]
          /\ MainCheck("delay", s, main.pc)
          /\ UNCHANGED <<sock, reqQ>>
  /\ UNCHANGED <<allocated, rcv, evtQ, io, net, opened>>

(* data_need_send - data_has_send against data_delay_send_size             *)
SendDelayCheck ==
  /\ main.pc = "delay"
  /\ IF snd[main.sock].data_need_send - snd[main.sock].data_has_send < Delay
     THEN MainReturn
     ELSE MainCheck("request", main.sock, main.ret)
  /\ UNCHANGED <<allocated, sock, snd, rcv, reqQ, evtQ, io, net, opened>>

(* send_req = send_ack and need_send_active: only then a SEND is queued    *)
SendRequest ==
  /\ main.pc = "request"
  /\ LET s == main.sock IN
     IF Acked(s) /\ snd[s].need_send_active
     THEN /\ snd' = [snd EXCEPT ![s].send_req = Counted(@)]
          /\ PushReq("SEND", s)
     ELSE UNCHANGED <<snd, reqQ>>
  /\ MainReturn
  /\ UNCHANGED <<allocated, sock, rcv, evtQ, io, net, opened>>

(* closing does nothing unless the socket is in ESTABLISH: the user cannot *)
(* close a connection that is still being made                             *)
NetTcpCloseSession(s) ==
  /\ InUser
  /\ UserHolds(s)
  /\ sock[s].state = "ESTABLISH"
  /\ MainClose(s, "TERMINATE")
  /\ UNCHANGED <<allocated, snd, rcv, evtQ, main, io, net, opened>>

-----------------------------------------------------------------------------
(***************************************************************************)
(* The main thread: timers, fired by timer_update at the head of           *)
(* _do_net_evt.  timer_send is periodic while the session is open;         *)
(* timer_close while it is being taken down.                               *)
(***************************************************************************)
Fires(s, timer, state) ==
  /\ main.pc = "idle"
  /\ s \in allocated
  /\ sock[s].timer = timer
  /\ sock[s].state = state

UnsentBeyondDelay(s) == \* mutant: the threshold of net_tcp_send
  snd[s].data_need_send - snd[s].data_has_send >= Delay

Unsent(s) == snd[s].data_has_send # snd[s].data_need_send

OnTimerSend(s) ==
  /\ Fires(s, "send", "ESTABLISH")
  /\ Unsent(s)
  /\ MainCheck("request", s, "idle")
  /\ UNCHANGED <<allocated, sock, snd, rcv, reqQ, evtQ, io, net, opened>>

OnTimerCloseRetryOnceMore(s) == \* mutant: <= for <
  /\ Fires(s, "close", "TERMINATE")
  /\ sock[s].try_close_send_count <= MaxTry
  /\ Unsent(s)
  /\ sock' = [sock EXCEPT ![s].try_close_send_count = @ + 1]
  /\ MainCheck("request", s, "idle")
  /\ UNCHANGED <<allocated, snd, rcv, reqQ, evtQ, io, net, opened>>

(* SOCKET_STATE_TERMINATE: up to MaxTry more attempts to send what is left *)
OnTimerCloseRetry(s) ==
  /\ Fires(s, "close", "TERMINATE")
  /\ sock[s].try_close_send_count < MaxTry
  /\ Unsent(s)
  /\ sock' = [sock EXCEPT ![s].try_close_send_count = @ + 1]
  /\ MainCheck("request", s, "idle")
  /\ UNCHANGED <<allocated, snd, rcv, reqQ, evtQ, io, net, opened>>

OnTimerCloseNoGiveUp(s) == \* mutant: the number of attempts is not bounded
  /\ Fires(s, "close", "TERMINATE")
  /\ ~ Unsent(s)
  /\ sock' = [sock EXCEPT ![s].state = "DELETE"]
  /\ UNCHANGED <<allocated, snd, rcv, reqQ, evtQ, main, io, net, opened>>

OnTimerCloseGiveUp(s) ==
  /\ Fires(s, "close", "TERMINATE")
  /\ sock[s].try_close_send_count < MaxTry => ~ Unsent(s)
  /\ sock' = [sock EXCEPT ![s].state = "DELETE",
                          ![s].try_close_send_count = Min2(@ + 1, MaxTry)]
  /\ UNCHANGED <<allocated, snd, rcv, reqQ, evtQ, main, io, net, opened>>

OnTimerCloseRequestAgain(s) == \* mutant: need_req_close is not cleared
  /\ Fires(s, "close", "DELETE")
  /\ sock[s].need_req_close
  /\ snd' = [snd EXCEPT ![s].send_req = Counted(@)]
  /\ PushReq("CLOSE_SOCKET", s)
  /\ UNCHANGED <<allocated, sock, rcv, evtQ, main, io, net, opened>>

(* SOCKET_STATE_DELETE: ask the IO thread to let go of the socket, once;   *)
(* free it when every counted request has been served.  (Nobody reads a    *)
(* free slot and every allocation resets it; the model resets it here too, *)
(* so that free slots look alike.)                                         *)
OnTimerCloseRequest(s) ==
  /\ Fires(s, "close", "DELETE")
  /\ sock[s].need_req_close
  /\ sock' = [sock EXCEPT ![s].need_req_close = FALSE]
  /\ snd' = [snd EXCEPT ![s].send_req = Counted(@)]
  /\ PushReq("CLOSE_SOCKET", s)
  /\ UNCHANGED <<allocated, rcv, evtQ, main, io, net, opened>>

OnTimerCloseFree(s) ==
  /\ Fires(s, "close", "DELETE")
  /\ ~ sock[s].need_req_close
  /\ Acked(s)
  /\ allocated' = allocated \ {s}
  /\ sock' = [sock EXCEPT ![s] = ResetSocket]
  /\ ResetData(s)
  /\ net' = [net EXCEPT ![s] = NoNet]
  /\ UNCHANGED <<reqQ, evtQ, main, io, opened>>

-----------------------------------------------------------------------------
(***************************************************************************)
(* The main thread: _do_net_evt.  The event stays at the head of the queue *)
(* until its handler is done.                                              *)
(***************************************************************************)
HeadIs(type) == main.pc = "idle" /\ evtQ # <<>> /\ Head(evtQ).type = type
EvtSock == Head(evtQ).sock

(* mod_timer_send, then on_establish *)
EvtEstablish ==
  /\ HeadIs("ESTABLISH")
  /\ sock' = [sock EXCEPT ![EvtSock].timer = "send"]
  /\ evtQ' = Tail(evtQ)
  /\ UNCHANGED <<allocated, snd, rcv, reqQ, main, io, net, opened>>

(* TERMINATE, SYSTEM_ERROR, MODULE_ERROR run on_error and on_terminate;    *)
(* CONNECT_FAIL runs on_error; ACCEPT_FAIL runs nothing.  All of them      *)
(* delete timer_send and start timer_close.                                *)
EndTypes == {"TERMINATE", "SYSTEM_ERROR", "MODULE_ERROR"}
FinalTypes == EndTypes \cup {"CONNECT_FAIL", "ACCEPT_FAIL"}

EvtFinal(type) ==
  /\ type \in FinalTypes
  /\ HeadIs(type)
  /\ sock' = [sock EXCEPT ![EvtSock].timer = "close"]
  /\ evtQ' = Tail(evtQ)
  /\ UNCHANGED <<allocated, snd, rcv, reqQ, main, io, net, opened>>

(* on with the ring if the parsed data has made room, else overflow        *)
EvtRecvActivate ==
  /\ HeadIs("RECV_ACTIVATE")
  /\ IF sock[EvtSock].state = "ESTABLISH" /\ rcv[EvtSock].cache < RecvCap
     THEN PushReq("RECV_ACTIVATE", EvtSock) /\ UNCHANGED sock
     ELSE MainClose(EvtSock, "MODULE_TERMINATE")
  /\ evtQ' = Tail(evtQ)
  /\ UNCHANGED <<allocated, snd, rcv, main, io, net, opened>>

(* an accepted descriptor gets a socket, or is handed back to be closed    *)
EvtAccept ==
  /\ HeadIs("ACCEPT")
  /\ \/ \E s \in Sockets \ allocated :
          /\ allocated' = allocated \cup {s}
          /\ sock' = [sock EXCEPT ![s] = [ResetSocket EXCEPT !.fd = TRUE, !.accepted = TRUE]]
          /\ ResetData(s)
          /\ net' = [net EXCEPT ![s] = [NoNet EXCEPT !.peer = "open"]]
          /\ PushReq("ACCEPT", s)
     \/ /\ allocated = Sockets
        /\ PushReq("ACCEPT_FAIL", NoSock)
        /\ UNCHANGED <<allocated, sock, snd, rcv, net>>
  /\ evtQ' = Tail(evtQ)
  /\ UNCHANGED <<main, io, opened>>

EvtDataAssign == \* mutant: what earlier events left unparsed is forgotten
  /\ HeadIs("DATA")
  /\ rcv' = [rcv EXCEPT ![EvtSock].data_has_recv = Head(evtQ).len]
  /\ main' = [main EXCEPT !.pc = "parse", !.parsed = 0]
  /\ UNCHANGED <<allocated, sock, snd, reqQ, evtQ, io, net, opened>>

(* data_has_recv grows by the length of the event, then packets are cut    *)
(* off as long as the parser finds one; the user's on_recv runs for each.  *)
EvtData ==
  /\ HeadIs("DATA")
  /\ rcv' = [rcv EXCEPT ![EvtSock].data_has_recv = @ + Head(evtQ).len]
  /\ main' = [main EXCEPT !.pc = "parse", !.parsed = 0]
  /\ UNCHANGED <<allocated, sock, snd, reqQ, evtQ, io, net, opened>>

ParsePacket(pkg_len) ==
  /\ main.pc = "parse"
  /\ pkg_len \in 1 .. rcv[EvtSock].data_has_recv
  /\ rcv' = [rcv EXCEPT ![EvtSock].data_has_recv = @ - pkg_len]
  /\ main' = [main EXCEPT !.parsed = @ + pkg_len]
  /\ UNCHANGED <<allocated, sock, snd, reqQ, evtQ, io, net, opened>>

(* the loop ends: no data left, no whole packet (bad = FALSE), or the      *)
(* parser asks for more than there is (bad = TRUE, error_packet); then the *)
(* parsed bytes leave the ring and the event leaves the queue.             *)
ParseEnd(bad) ==
  /\ main.pc = "parse"
  /\ IF bad
     THEN rcv[EvtSock].data_has_recv > 0 /\ MainClose(EvtSock, "MODULE_TERMINATE")
     ELSE UNCHANGED <<sock, reqQ>>
  /\ rcv' = [rcv EXCEPT ![EvtSock].cache = @ - main.parsed]
  /\ evtQ' = Tail(evtQ)
  /\ main' = [main EXCEPT !.pc = "idle", !.parsed = 0]
  /\ UNCHANGED <<allocated, snd, io, net, opened>>

-----------------------------------------------------------------------------
(***************************************************************************)
(* The IO thread: _do_net_req.  As with events, a request stays at the     *)
(* head of the queue until its handler is done (io.req).  io.evts is what  *)
(* is left of the epoll_event being served.                                *)
(***************************************************************************)
IoIdle == io.pc = "idle" /\ io.evts = {}

ReqIs(type) == IoIdle /\ reqQ # <<>> /\ Head(reqQ).type = type
ReqSock == Head(reqQ).sock

(* the handler is over: a request is popped, an epoll_event goes on        *)
IoReturn ==
  /\ IF io.req THEN reqQ' = Tail(reqQ) ELSE UNCHANGED reqQ
  /\ io' = [io EXCEPT !.pc = "idle", !.req = FALSE, !.len = 0,
                      !.sock = IF io.evts = {} THEN NoSock ELSE io.sock]

IoGoto(pc) == io' = [io EXCEPT !.pc = pc]

IoServe(pc) == io' = [io EXCEPT !.pc = pc, !.sock = ReqSock, !.req = TRUE]

(* send_ack is counted before the data is sent *)
ReqSend ==
  /\ ReqIs("SEND")
  /\ snd' = [snd EXCEPT ![ReqSock].send_ack = Counted(@)]
  /\ IoServe("on_send")
  /\ UNCHANGED <<allocated, sock, rcv, reqQ, evtQ, main, net, opened>>

(* _epoll_tcp_socket_on_accept; ok is the result of epoll_ctl *)
ReqAccept(ok) ==
  /\ ReqIs("ACCEPT")
  /\ IF ok
     THEN /\ sock' = [sock EXCEPT ![ReqSock].state = "ESTABLISH"]
          /\ net' = [net EXCEPT ![ReqSock].watched = TRUE,
                                ![ReqSock].edges = @ \cup {"out"}]
          /\ PushEvt("ESTABLISH", ReqSock)
     ELSE /\ sock' = [sock EXCEPT ![ReqSock].state = "DELETE", ![ReqSock].fd = FALSE]
          /\ net' = [net EXCEPT ![ReqSock] = NoNet]
          /\ PushEvt("ACCEPT_FAIL", ReqSock)
  /\ reqQ' = Tail(reqQ)
  /\ UNCHANGED <<allocated, snd, rcv, main, io, opened>>

(* _epoll_tcp_socket_on_connect_req; ok: connect returned EINPROGRESS or 0 *)
ReqConnect(ok) ==
  /\ ReqIs("CONNECT")
  /\ IF ok
     THEN /\ sock' = [sock EXCEPT ![ReqSock].fd = TRUE]
          /\ net' = [net EXCEPT ![ReqSock].watched = TRUE, ![ReqSock].peer = "pending"]
          /\ UNCHANGED evtQ
     ELSE /\ sock' = [sock EXCEPT ![ReqSock].state = "DELETE"]
          /\ PushEvt("CONNECT_FAIL", ReqSock)
          /\ UNCHANGED net
  /\ reqQ' = Tail(reqQ)
  /\ UNCHANGED <<allocated, snd, rcv, main, io, opened>>

(* _epoll_tcp_socket_on_terminate for a request of the main thread *)
TerminateTypes == {"TERMINATE", "MODULE_TERMINATE"}

ReqTerminate(type) ==
  /\ type \in TerminateTypes
  /\ ReqIs(type)
  /\ PushEvt(IF type = "TERMINATE" THEN "TERMINATE" ELSE "MODULE_ERROR", ReqSock)
  /\ reqQ' = Tail(reqQ)
  /\ UNCHANGED <<allocated, sock, snd, rcv, main, io, net, opened>>

ReqRecvActivateWait == \* mutant: waits for the next edge instead of reading
  /\ ReqIs("RECV_ACTIVATE")
  /\ rcv' = [rcv EXCEPT ![ReqSock].need_recv_active = FALSE]
  /\ reqQ' = Tail(reqQ)
  /\ UNCHANGED <<allocated, sock, snd, evtQ, main, io, net, opened>>

ReqRecvActivate ==
  /\ ReqIs("RECV_ACTIVATE")
  /\ rcv' = [rcv EXCEPT ![ReqSock].need_recv_active = FALSE]
  /\ IoServe("on_recv")
  /\ UNCHANGED <<allocated, sock, snd, reqQ, evtQ, main, net, opened>>

ReqCloseSocketUncounted == \* mutant: the request is not acknowledged
  /\ ReqIs("CLOSE_SOCKET")
  /\ sock' = [sock EXCEPT ![ReqSock].fd = FALSE]
  /\ net' = [net EXCEPT ![ReqSock] = NoNet]
  /\ reqQ' = Tail(reqQ)
  /\ UNCHANGED <<allocated, snd, rcv, evtQ, main, io, opened>>

(* _epoll_tcp_socket_on_close: out of epoll, closed, and counted last *)
ReqCloseSocket ==
  /\ ReqIs("CLOSE_SOCKET")
  /\ sock' = [sock EXCEPT ![ReqSock].fd = FALSE]
  /\ snd' = [snd EXCEPT ![ReqSock].send_ack = Counted(@)]
  /\ net' = [net EXCEPT ![ReqSock] = NoNet]
  /\ reqQ' = Tail(reqQ)
  /\ UNCHANGED <<allocated, rcv, evtQ, main, io, opened>>

ReqAcceptFail ==
  /\ ReqIs("ACCEPT_FAIL")
  /\ reqQ' = Tail(reqQ)
  /\ UNCHANGED <<allocated, sock, snd, rcv, evtQ, main, io, net, opened>>

-----------------------------------------------------------------------------
(***************************************************************************)
(* The IO thread: _do_epoll_evt.  The requests pushed while a batch of     *)
(* epoll_events is served wait until the batch is done, so an epoll_event  *)
(* may be taken with requests in the queue.  Within one epoll_event the    *)
(* order is EPOLLOUT, EPOLLIN, EPOLLERR.                                   *)
(***************************************************************************)
EpollWait(s) ==
  /\ IoIdle
  /\ net[s].watched
  /\ net[s].edges # {}
  /\ io' = [io EXCEPT !.evts = net[s].edges, !.sock = s]
  /\ net' = [net EXCEPT ![s].edges = {}]
  /\ UNCHANGED <<allocated, sock, snd, rcv, reqQ, evtQ, main, opened>>

Serves(e) ==
  /\ io.pc = "idle"
  /\ e \in io.evts
  /\ e = "in" => "out" \notin io.evts
  /\ e = "err" => io.evts = {"err"}

Served(e) == io' = [io EXCEPT !.evts = @ \ {e},
                              !.sock = IF io.evts = {e} THEN NoSock ELSE @]

ConnectFailed ==
  /\ sock' = [sock EXCEPT ![io.sock].state = "DELETE"]
  /\ PushEvt("CONNECT_FAIL", io.sock)

EpollOutConnectSilently == \* mutant: ESTABLISH is not announced
  /\ Serves("out")
  /\ sock[io.sock].state = "CONNECT"
  /\ sock' = [sock EXCEPT ![io.sock].state = "ESTABLISH"]
  /\ Served("out")
  /\ UNCHANGED <<allocated, snd, rcv, reqQ, evtQ, main, net, opened>>

(* EPOLLOUT on a connecting socket: _epoll_tcp_socket_on_connect *)
EpollOutConnect ==
  /\ Serves("out")
  /\ sock[io.sock].state = "CONNECT"
  /\ IF net[io.sock].peer \in {"refused", "reset"}
     THEN ConnectFailed
     ELSE /\ sock' = [sock EXCEPT ![io.sock].state = "ESTABLISH"]
          /\ PushEvt("ESTABLISH", io.sock)
  /\ Served("out")
  /\ UNCHANGED <<allocated, snd, rcv, reqQ, main, net, opened>>

EpollOut ==
  /\ Serves("out")
  /\ sock[io.sock].state # "CONNECT"
  /\ io' = [io EXCEPT !.pc = "on_send", !.evts = @ \ {"out"}]
  /\ UNCHANGED <<allocated, sock, snd, rcv, reqQ, evtQ, main, net, opened>>

EpollIn ==
  /\ Serves("in")
  /\ io' = [io EXCEPT !.pc = "on_recv", !.evts = @ \ {"in"}]
  /\ UNCHANGED <<allocated, sock, snd, rcv, reqQ, evtQ, main, net, opened>>

EpollErr ==
  /\ Serves("err")
  /\ IF sock[io.sock].state = "CONNECT" THEN ConnectFailed ELSE IoCloseError(io.sock)
  /\ Served("err")
  /\ UNCHANGED <<allocated, snd, rcv, reqQ, main, net, opened>>

-----------------------------------------------------------------------------
(***************************************************************************)
(* The IO thread: _epoll_tcp_socket_on_send.                               *)
(***************************************************************************)
OnSend ==
  /\ io.pc = "on_send"
  /\ IF sock[io.sock].state \in {"ESTABLISH", "TERMINATE"}
     THEN IoGoto("send") /\ UNCHANGED reqQ
     ELSE IoReturn
  /\ UNCHANGED <<allocated, sock, snd, rcv, evtQ, main, net, opened>>

(* send() takes n of the data in the ring, which may fill the kernel's buffer *)
SendSome(n) ==
  /\ io.pc = "send"
  /\ net[io.sock].peer # "reset"
  /\ ~ net[io.sock].full
  /\ n \in 1 .. snd[io.sock].cache
  /\ snd' = [snd EXCEPT ![io.sock].data_has_send = @ + n, ![io.sock].cache = @ - n]
  /\ \E f \in BOOLEAN : net' = [net EXCEPT ![io.sock].full = f]
  /\ UNCHANGED <<allocated, sock, rcv, reqQ, evtQ, main, io, opened>>

(* EAGAIN: need_send_active is cleared one step later *)
SendAgain ==
  /\ io.pc = "send"
  /\ net[io.sock].peer # "reset"
  /\ snd[io.sock].cache > 0
  /\ net[io.sock].full
  /\ IoGoto("send_block")
  /\ UNCHANGED <<allocated, sock, snd, rcv, reqQ, evtQ, main, net, opened>>

SendError ==
  /\ io.pc = "send"
  /\ net[io.sock].peer = "reset"
  /\ snd[io.sock].cache > 0
  /\ IoCloseError(io.sock)
  /\ IoReturn
  /\ UNCHANGED <<allocated, snd, rcv, main, net, opened>>

(* the ring was found empty: need_send_active is set one step later *)
SendDrained ==
  /\ io.pc = "send"
  /\ snd[io.sock].cache = 0
  /\ IoGoto("send_done")
  /\ UNCHANGED <<allocated, sock, snd, rcv, reqQ, evtQ, main, net, opened>>

SetSendActive ==
  /\ io.pc \in {"send_block", "send_done"}
  /\ snd' = [snd EXCEPT ![io.sock].need_send_active = (io.pc = "send_done")]
  /\ IoReturn
  /\ UNCHANGED <<allocated, sock, rcv, evtQ, main, net, opened>>

-----------------------------------------------------------------------------
(***************************************************************************)
(* The IO thread: _epoll_tcp_socket_on_recv.                               *)
(***************************************************************************)
OnRecv ==
  /\ io.pc = "on_recv"
  /\ IF sock[io.sock].state = "ESTABLISH" /\ ~ rcv[io.sock].need_recv_active
     THEN IoGoto("recv") /\ UNCHANGED reqQ
     ELSE IoReturn
  /\ UNCHANGED <<allocated, sock, snd, rcv, evtQ, main, net, opened>>

RecvRoom == rcv[io.sock].cache < RecvCap

RecvSome(n) ==
  /\ io.pc = "recv"
  /\ n \in 1 .. Min2(net[io.sock].inbound, RecvCap - rcv[io.sock].cache)
  /\ rcv' = [rcv EXCEPT ![io.sock].cache = @ + n]
  /\ net' = [net EXCEPT ![io.sock].inbound = @ - n]
  /\ io' = [io EXCEPT !.len = @ + n]
  /\ UNCHANGED <<allocated, sock, snd, reqQ, evtQ, main, opened>>

(* the loop ends: nothing to read, end of stream, an error, or no room;    *)
(* what was read is announced if the socket is still in ESTABLISH          *)
RecvOutcome ==
  CASE ~ RecvRoom -> "recv_full"
    [] RecvRoom /\ net[io.sock].peer = "reset" -> "recv_error"
    [] RecvRoom /\ net[io.sock].peer = "eof" -> "recv_eof"
    [] OTHER -> "recv_again"

RecvPushData ==
  /\ io.pc = "recv"
  /\ ~ RecvRoom \/ net[io.sock].inbound = 0
  /\ IF io.len > 0 /\ sock[io.sock].state = "ESTABLISH"
     THEN evtQ' = Append(evtQ, Entry("DATA", io.sock, io.len))
     ELSE UNCHANGED evtQ
  /\ IF RecvOutcome = "recv_again"
     THEN IoReturn
     ELSE IoGoto(RecvOutcome) /\ UNCHANGED reqQ
  /\ UNCHANGED <<allocated, sock, snd, rcv, main, net, opened>>

(* the peer has closed: the unsent data gets no more attempts, and the     *)
(* compare-and-swap of _epoll_tcp_socket_close with error_ok               *)
RecvEof ==
  /\ io.pc = "recv_eof"
  /\ IF sock[io.sock].state = "ESTABLISH"
     THEN /\ sock' = [sock EXCEPT ![io.sock].try_close_send_count = MaxTry,
                                  ![io.sock].state = "TERMINATE"]
          /\ PushEvt("TERMINATE", io.sock)
     ELSE /\ sock' = [sock EXCEPT ![io.sock].try_close_send_count = MaxTry]
          /\ UNCHANGED evtQ
  /\ IoReturn
  /\ UNCHANGED <<allocated, snd, rcv, main, net, opened>>

RecvError ==
  /\ io.pc = "recv_error"
  /\ IoCloseError(io.sock)
  /\ IoReturn
  /\ UNCHANGED <<allocated, snd, rcv, main, net, opened>>

(* the ring is full: reading stops until the main thread has made room     *)
RecvFull ==
  /\ io.pc = "recv_full"
  /\ rcv' = [rcv EXCEPT ![io.sock].need_recv_active = TRUE]
  /\ PushEvt("RECV_ACTIVATE", io.sock)
  /\ IoReturn
  /\ UNCHANGED <<allocated, sock, snd, main, net, opened>>

(* _epoll_tcp_listener_on_accept: a connection arrives at the listener     *)
ListenerOnAccept ==
  /\ IoIdle
  /\ opened < MaxOpen
  /\ opened' = opened + 1
  /\ PushEvt("ACCEPT", NoSock)
  /\ UNCHANGED <<allocated, sock, snd, rcv, reqQ, main, io, net>>

-----------------------------------------------------------------------------
(***************************************************************************)
(* The kernel and the peer.  The epoll set is edge-triggered (EPOLLET): an *)
(* edge is reported once for each of these steps.                          *)
(***************************************************************************)
KernelStep(s, rec) ==
  /\ net' = [net EXCEPT ![s] = rec]
  /\ UNCHANGED <<allocated, sock, snd, rcv, reqQ, evtQ, main, io, opened>>

PeerAnswer(s) ==
  /\ net[s].peer = "pending"
  /\ \/ KernelStep(s, [net[s] EXCEPT !.peer = "open", !.edges = @ \cup {"out"}])
     \/ KernelStep(s, [net[s] EXCEPT !.peer = "refused",
                                     !.edges = {"out", "in", "err"}])

PeerSend(s) ==
  /\ net[s].peer = "open"
  /\ net[s].sent < MaxRecv
  /\ KernelStep(s, [net[s] EXCEPT !.inbound = @ + 1, !.sent = @ + 1,
                                  !.edges = @ \cup {"in"}])

PeerClose(s) ==
  /\ net[s].peer = "open"
  /\ KernelStep(s, [net[s] EXCEPT !.peer = "eof", !.edges = @ \cup {"in"}])

PeerReset(s) ==
  /\ net[s].peer \in {"open", "eof"}
  /\ KernelStep(s, [net[s] EXCEPT !.peer = "reset", !.inbound = 0,
                                  !.edges = {"out", "in", "err"}])

(* the peer reads, and the kernel's send buffer has room again *)
KernelDrain(s) ==
  /\ net[s].full
  /\ KernelStep(s, [net[s] EXCEPT !.full = FALSE, !.edges = @ \cup {"out"}])

-----------------------------------------------------------------------------
Init ==
  /\ allocated = {}
  /\ sock = [s \in Sockets |-> ResetSocket]
  /\ snd = [s \in Sockets |-> ResetSend]
  /\ rcv = [s \in Sockets |-> ResetRecv]
  /\ reqQ = <<>>
  /\ evtQ = <<>>
  /\ main = [pc |-> "idle", sock |-> NoSock, ret |-> "idle", parsed |-> 0]
  /\ io = [pc |-> "idle", sock |-> NoSock, req |-> FALSE, evts |-> {}, len |-> 0]
  /\ net = [s \in Sockets |-> NoNet]
  /\ opened = 0

User(s) == NetTcpConnect(s) \/ NetTcpSend(s) \/ NetTcpCloseSession(s)

OnTimer(s) ==
  \/ OnTimerSend(s)
  \/ OnTimerCloseRetry(s)
  \/ OnTimerCloseGiveUp(s)
  \/ OnTimerCloseRequest(s)
  \/ OnTimerCloseFree(s)

DoNetEvt ==
  \/ EvtEstablish
  \/ \E type \in FinalTypes : EvtFinal(type)
  \/ EvtRecvActivate
  \/ EvtAccept
  \/ EvtData
  \/ \E n \in 1 .. RecvCap : ParsePacket(n)
  \/ \E bad \in BOOLEAN : ParseEnd(bad)

SendChecks == SendDelayCheck \/ SendRequest

DoNetReq ==
  \/ ReqSend
  \/ \E ok \in BOOLEAN : ReqAccept(ok)
  \/ \E ok \in BOOLEAN : ReqConnect(ok)
  \/ \E type \in TerminateTypes : ReqTerminate(type)
  \/ ReqRecvActivate
  \/ ReqCloseSocket
  \/ ReqAcceptFail

DoEpollEvt ==
  \/ \E s \in Sockets : EpollWait(s)
  \/ EpollOutConnect \/ EpollOut \/ EpollIn \/ EpollErr

IoSend == OnSend \/ (\E n \in 1 .. SendCap : SendSome(n)) \/ SendAgain
          \/ SendError \/ SendDrained \/ SetSendActive

IoRecv == OnRecv \/ (\E n \in 1 .. RecvCap : RecvSome(n)) \/ RecvPushData \/ RecvEof \/ RecvError \/ RecvFull

Peer(s) ==
  \/ PeerAnswer(s) \/ PeerSend(s) \/ PeerClose(s) \/ PeerReset(s)
  \/ KernelDrain(s)

(* every connection the bound allows has come and gone *)
AllDone ==
  /\ allocated = {}
  /\ opened = MaxOpen
  /\ reqQ = <<>> /\ evtQ = <<>>
  /\ main.pc = "idle" /\ io.pc = "idle" /\ io.evts = {}
  /\ UNCHANGED vars

Next ==
  \/ \E s \in Sockets : User(s) \/ OnTimer(s) \/ Peer(s)
  \/ DoNetEvt
  \/ SendChecks
  \/ DoNetReq
  \/ DoEpollEvt
  \/ IoSend
  \/ IoRecv
  \/ ListenerOnAccept
  \/ AllDone

Spec == Init /\ [][Next]_vars

(***************************************************************************)
(* Fairness.  The main thread calls net_tcp_run in every turn of its loop  *)
(* and the IO thread never blocks for more than the 3 ms of epoll_wait, so *)
(* what stays enabled in a thread is done; timers are periodic; the kernel *)
(* answers a connect (if only by a timeout) and drains its send buffer as  *)
(* long as the connection stands, which assumes that a peer that does not  *)
(* end it goes on reading.  The parser is not fair to anything: it may     *)
(* find no packet.  Nothing is assumed of the user.                        *)
(***************************************************************************)
Fairness ==
  /\ WF_vars(DoNetEvt) /\ WF_vars(SendChecks)
  /\ WF_vars(DoNetReq) /\ WF_vars(DoEpollEvt) /\ WF_vars(IoSend) /\ WF_vars(IoRecv)
  /\ \A s \in Sockets :
       /\ WF_vars(OnTimer(s))
       /\ WF_vars(PeerAnswer(s))
       /\ WF_vars(KernelDrain(s))

FairSpec == Spec /\ Fairness

-----------------------------------------------------------------------------
MainRec ==
  [pc : {"idle", "delay", "request", "parse"}, sock : Sockets \cup {NoSock},
   ret : {"idle", "parse"}, parsed : Nat]

IoRec ==
  [pc : {"idle", "on_send", "send", "send_block", "send_done", "on_recv",
         "recv", "recv_eof", "recv_error", "recv_full"},
   sock : Sockets \cup {NoSock}, req : BOOLEAN,
   evts : SUBSET {"out", "in", "err"}, len : Nat]

(* Every field, queue entry and program counter is in its range.           *)
TypeOK ==
  /\ allocated \subseteq Sockets
  /\ sock \in [Sockets -> SocketRec]
  /\ snd \in [Sockets -> SendRec]
  /\ rcv \in [Sockets -> RecvRec]
  /\ reqQ \in Seq(Reqs)
  /\ evtQ \in Seq(Evts)
  /\ main \in MainRec
  /\ io \in IoRec
  /\ net \in [Sockets -> NetRec]
  /\ opened \in 0 .. MaxOpen

(* No use after free: whatever a thread, a queue or the epoll set refers   *)
(* to is an allocated socket (_epoll_tcp_socket_on_timer_close frees one   *)
(* while the other thread knows nothing of it).                            *)
NoDanglingSocket ==
  /\ \A i \in DOMAIN reqQ : reqQ[i].sock \in allocated \cup {NoSock}
  /\ \A i \in DOMAIN evtQ : evtQ[i].sock \in allocated \cup {NoSock}
  /\ {main.sock, io.sock} \subseteq allocated \cup {NoSock}
  /\ \A s \in Sockets : net[s].watched => s \in allocated

(* What the DATA events of s announce; unit n of the event at i is <<i, n>>. *)
Announced(s) ==
  LET datas == {i \in DOMAIN evtQ : evtQ[i].type = "DATA" /\ evtQ[i].sock = s}
  IN Cardinality(UNION {{i} \X (1 .. evtQ[i].len) : i \in datas})

InParse == main.pc = "parse" \/ main.ret = "parse"

(* What main has been told of and has not taken out of the ring.            *)
Unparsed(s) ==
  IF InParse /\ EvtSock = s
  THEN Announced(s) - Head(evtQ).len + rcv[s].data_has_recv + main.parsed
  ELSE Announced(s) + rcv[s].data_has_recv

(* What io has put into the ring and has not announced.                    *)
Reading(s) == IF io.sock = s /\ io.pc = "recv" THEN io.len ELSE 0

(* recv_loop_cache is filled by io and emptied by main with only the DATA  *)
(* events between them: what the parser has not consumed plus what events  *)
(* announce never exceeds what is in the ring (else the CRUSH_CODEs after  *)
(* loop_cache_copy_data and loop_cache_pop in _do_net_evt are reached), and *)
(* while the socket stands no received data is left unannounced.           *)
RecvDataAccounted ==
  \A s \in allocated :
    sock[s].state \in {"ESTABLISH", "TERMINATE", "DELETE"} =>
      /\ Unparsed(s) + Reading(s) <= rcv[s].cache
      /\ sock[s].state = "ESTABLISH" => Unparsed(s) + Reading(s) = rcv[s].cache

(* send_req - send_ack is the number of SEND and CLOSE_SOCKET requests the *)
(* IO thread has not yet acknowledged, and at most one of each exists: the *)
(* equality the main thread tests before it queues a SEND or frees the     *)
(* socket means what it is taken to mean, modulo wrap-around.              *)
Unacked(s, type) ==
  {i \in DOMAIN reqQ : reqQ[i].sock = s /\ reqQ[i].type = type /\ ~ (i = 1 /\ io.req)}

SendAckCounts ==
  \A s \in allocated :
    LET sends  == Cardinality(Unacked(s, "SEND"))
        closes == Cardinality(Unacked(s, "CLOSE_SOCKET"))
    IN /\ sends <= 1 /\ closes <= 1
       /\ (snd[s].send_ack + sends + closes) % AckMod = snd[s].send_req

(* The last event of a session is the last: behind a TERMINATE, an error   *)
(* or a failure event no other event of that socket is queued, and no      *)
(* request follows CLOSE_SOCKET.  Once timer_close runs there is no event  *)
(* at all, and the socket is in TERMINATE or DELETE (the CRUSH_CODE of     *)
(* _epoll_tcp_socket_on_timer_close).  The callbacks after on_terminate,   *)
(* and the free, rest on it.                                               *)
NothingAfterTheEnd ==
  /\ \A i, j \in DOMAIN evtQ :
       i < j /\ evtQ[i].type \in FinalTypes => evtQ[j].sock # evtQ[i].sock
  /\ \A i, j \in DOMAIN reqQ :
       i < j /\ reqQ[i].type = "CLOSE_SOCKET" => reqQ[j].sock # reqQ[i].sock
  /\ \A s \in allocated : sock[s].timer = "close" =>
       /\ sock[s].state \in {"TERMINATE", "DELETE"}
       /\ \A i \in DOMAIN evtQ : evtQ[i].sock # s

(* Data accepted by net_tcp_send does not wait for ever in the ring of a   *)
(* standing connection whose peer goes on reading, although                *)
(* need_send_active and send_ack are read by main while io changes them:   *)
(* timer_send picks up what the races leave.                               *)
SendDataFlows ==
  \A s \in Sockets :
    (sock[s].state = "ESTABLISH" /\ snd[s].cache > 0)
      ~> (sock[s].state # "ESTABLISH" \/ snd[s].cache = 0)

(* Data the peer has sent is read, although reading stops on a full ring   *)
(* and is taken up again by a RECV_ACTIVATE event and request, and the     *)
(* edge that announced the data is reported only once.                     *)
RecvDataFlows ==
  \A s \in Sockets :
    (sock[s].state = "ESTABLISH" /\ net[s].inbound > 0)
      ~> (sock[s].state # "ESTABLISH" \/ net[s].inbound = 0)

(* A socket that has begun to end is returned to the pool: neither unsent  *)
(* data nor a missing acknowledgement holds it back for ever.              *)
ClosedSocketsAreFreed ==
  \A s \in Sockets :
    (s \in allocated /\ sock[s].state \in {"TERMINATE", "DELETE"}) ~> (s \notin allocated)

(* The user's view of a socket, from the two timers of the socket: the     *)
(* handler of ESTABLISH starts timer_send, that of every final event       *)
(* replaces it by timer_close.                                             *)
Phase(s) ==
  IF s \notin allocated THEN "free"
  ELSE CASE sock[s].timer = "none"  -> "opening"
         [] sock[s].timer = "send"  -> "open"
         [] sock[s].timer = "close" -> "closing"

Life == INSTANCE SessionLife WITH phase <- [s \in Sockets |-> Phase(s)]

(* Every socket goes through free, opening, open, closing, free in this    *)
(* order (or from opening to closing), and never stays in opening or in    *)
(* closing: the two threads together keep the promise of SessionLife.      *)
ImplementsSessionLife == Life!Spec
=============================================================================
