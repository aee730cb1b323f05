----------------------------- MODULE DataServer -----------------------------
(***************************************************************************)
(* The data server (src/dataserver): the application shell SvrApp with its *)
(* states and its stop, WorldServer, the ISession that connects to the     *)
(* world server and is connected again whenever the connection ends, and   *)
(* the database system that answers the requests of the world.             *)
(* All of it runs on one thread; the console thread asks for the stop.     *)
(* The sockets are those of the TCP layer as SessionLife promises them,    *)
(* with the state word that the IO thread moves and net_tcp_send and       *)
(* net_tcp_close_session look at.  The ISession is one object, used for    *)
(* all connections one after the other, and every socket that it ever      *)
(* opened goes on calling it back until its end: that is what can go       *)
(* wrong here.  The database threads are seen as DbManager has them: what  *)
(* was posted before the stop is executed, what is posted later never, and *)
(* a thread that is stopped ends when its results are all in its ring.     *)
(* The world server may send anything at any moment.                       *)
(***************************************************************************)
EXTENDS Naturals, FiniteSets

CONSTANTS
  Sockets,     \* the slots of the socket pool, MaxSocketNum of them
  NoSock,      \* the null socket
  DbThreads,   \* the database threads
  RingCap,     \* what a ring of commands or results holds
  MaxFaults,   \* bound: failures of the world server and the network
  MaxRequests  \* bound: packets of the world server after the handshakes

ASSUME DataServerAssumption ==
  /\ NoSock \notin Sockets
  /\ RingCap \in Nat \ {0}
  /\ {MaxFaults, MaxRequests} \subseteq Nat

VARIABLES
  pc,       \* where the server thread is in Run, see TypeOK
  svr,      \* m_svr_state
  stop,     \* m_stop_type
  caller,   \* m_async_caller: the timer of OnState exists
  session,  \* ISession.m_session of the WorldServer
  state,    \* WorldServer.m_state
  sock,     \* the sockets
  db,       \* the database system
  faults,   \* for the bound MaxFaults
  asked,    \* for the bound MaxRequests
  hist      \* history, see HistRec

app == <<pc, svr, stop, caller>>
bounds == <<faults, asked>>
vars == <<app, session, state, sock, db, bounds, hist>>

-----------------------------------------------------------------------------
(* phase: the callbacks of the socket, as in SessionLife; word: its state  *)
SockRec == [phase : {"free", "opening", "open", "over"},
            word : {"CONNECT", "ESTABLISH", "TERMINATE"}]

(* run: nobody has stopped the db threads; for each thread, posted: its    *)
(* commands and results that are on their way, late: the commands that     *)
(* were posted after it had ended                                          *)
DbRec == [run : BOOLEAN, posted : [DbThreads -> Nat], late : [DbThreads -> Nat]]

(* refused: connections the server closed itself while in INIT; doubled:   *)
(* it connected while the end of a former socket was still to come;        *)
(* denied: in RUN it found no free slot to connect again                   *)
HistRec == [refused : Nat, doubled : BOOLEAN, denied : BOOLEAN]

Free == [phase |-> "free", word |-> "CONNECT"]
Opening == [Free EXCEPT !.phase = "opening"]

Pending(sk) == {s \in Sockets : sk[s].phase \in {"opening", "open"}}
IsStopping == stop # "NONE"
Running == pc = "loop"

(* the sockets are there, also while the server thread waits in TryStop    *)
Up == pc \in {"loop", "join"}

-----------------------------------------------------------------------------
(***************************************************************************)
(* ISession and WorldServer.  sk is the table of sockets so far.           *)
(***************************************************************************)
(* Connect, which ReConnect calls when m_session is null: a slot, or none  *)
ReConnect(sk) ==
  LET slots == {s \in Sockets : sk[s].phase = "free"}
  IN \/ \E s \in slots :
          /\ session' = s
          /\ sock' = [sk EXCEPT ![s] = Opening]
          /\ hist' = [hist EXCEPT !.doubled = @ \/ Pending(sk) # {}]
     \/ /\ slots = {}
        /\ session' = NoSock
        /\ sock' = sk
        /\ hist' = [hist EXCEPT !.denied = @ \/ svr = "RUN"]

(* net_tcp_close_session: only an established socket ends by it            *)
Closed(sk, s) ==
  [sk EXCEPT ![s].word = IF @ = "ESTABLISH" THEN "TERMINATE" ELSE @]

DisconnectOpen == \* mutant: m_session is forgotten, its connection stays
  IF session = NoSock
    THEN UNCHANGED <<session, sock, hist>>
    ELSE /\ session' = NoSock /\ sock' = sock
         /\ hist' = [hist EXCEPT !.refused = IF svr = "INIT" THEN @ + 1 ELSE @]

Disconnect ==
  IF session = NoSock
    THEN UNCHANGED <<session, sock, hist>>
    ELSE /\ session' = NoSock
         /\ sock' = Closed(sock, session)
         /\ hist' = [hist EXCEPT !.refused = IF svr = "INIT" THEN @ + 1 ELSE @]

(* the end of a socket, as ISession tells WorldServer: m_session becomes   *)
(* null, whichever socket it was                                           *)
Ended(s) ==
  LET sk == [sock EXCEPT ![s] = [Free EXCEPT !.phase = "over"]]
  IN /\ state' = "Init"
     /\ IF IsStopping
          THEN session' = NoSock /\ sock' = sk /\ UNCHANGED hist
          ELSE ReConnect(sk)

TerminateKept(s) == \* mutant: m_session stays, so ReConnect finds it connected
  /\ Running /\ sock[s].phase = "open" /\ sock[s].word = "TERMINATE"
  /\ state' = "Init"
  /\ sock' = [sock EXCEPT ![s] = [Free EXCEPT !.phase = "over"]]
  /\ UNCHANGED <<app, session, db, bounds, hist>>

Terminate(s) ==
  /\ Running /\ sock[s].phase = "open" /\ sock[s].word = "TERMINATE"
  /\ Ended(s)
  /\ UNCHANGED <<app, db, bounds>>

ConnectFailAlone(s) == \* mutant: no ReConnect
  /\ Running /\ sock[s].phase = "opening" /\ sock[s].word = "CONNECT"
  /\ faults < MaxFaults /\ faults' = faults + 1
  /\ state' = "Init" /\ session' = NoSock
  /\ sock' = [sock EXCEPT ![s] = [Free EXCEPT !.phase = "over"]]
  /\ UNCHANGED <<app, db, asked, hist>>

(* on_error(connect_fail)                                                  *)
ConnectFail(s) ==
  /\ Running /\ sock[s].phase = "opening" /\ sock[s].word = "CONNECT"
  /\ faults < MaxFaults /\ faults' = faults + 1
  /\ Ended(s)
  /\ UNCHANGED <<app, db, asked>>

(* on_establish: SendHandReq goes to m_session, whichever socket that is;  *)
(* it fails when m_session is null, and then Disconnect finds nothing      *)
Establish(s) ==
  /\ Running /\ sock[s].phase = "opening" /\ sock[s].word # "CONNECT"
  /\ sock' = [sock EXCEPT ![s].phase = "open"]
  /\ state' = IF session = NoSock THEN "Establish" ELSE "WaitHandAck"
  /\ UNCHANGED <<app, session, db, bounds, hist>>

(* DELAY_CLOSE_SOCKET after its end a socket goes back to the pool         *)
FreeSocket(s) ==
  /\ Running /\ sock[s].phase = "over"
  /\ sock' = [sock EXCEPT ![s] = Free]
  /\ UNCHANGED <<app, session, state, db, bounds, hist>>

(* The IO thread: the connection stands; the world or the network ends it. *)
Connected(s) ==
  /\ Up /\ sock[s].phase = "opening" /\ sock[s].word = "CONNECT"
  /\ sock' = [sock EXCEPT ![s].word = "ESTABLISH"]
  /\ UNCHANGED <<app, session, state, db, bounds, hist>>

Broken(s) ==
  /\ Up /\ sock[s].word = "ESTABLISH"
  /\ faults < MaxFaults /\ faults' = faults + 1
  /\ sock' = Closed(sock, s)
  /\ UNCHANGED <<app, session, state, db, asked, hist>>

-----------------------------------------------------------------------------
(***************************************************************************)
(* OnRecvRawData: packets on s, also when it is closed, until its end.     *)
(***************************************************************************)
Verifies(s) == Running /\ sock[s].phase = "open" /\ state = "WaitHandAck"

(* a packet that VerifyHandRet takes                                       *)
HandRet(s) ==
  /\ Verifies(s)
  /\ state' = "Work"
  /\ UNCHANGED <<app, session, sock, db, bounds, hist>>

(* a packet that VerifyHandRet refuses                                     *)
RefusedImpatient(s) == \* mutant: it connects again without waiting for the end
  /\ Verifies(s) /\ session # NoSock
  /\ faults < MaxFaults /\ faults' = faults + 1
  /\ ReConnect(Closed(sock, session))
  /\ UNCHANGED <<app, state, db, asked>>

Refused(s) ==
  /\ Verifies(s)
  /\ faults < MaxFaults /\ faults' = faults + 1
  /\ Disconnect
  /\ UNCHANGED <<app, state, db, asked>>

(* A command for thread t.  A full ring refuses it, and the world is told  *)
(* DatabaseBusy; how many of the posted ones are still in the ring of      *)
(* commands is not seen here.                                              *)
Post(t) ==
  \/ db.run /\ db' = [db EXCEPT !.posted[t] = @ + 1]
  \/ ~db.run /\ db.late[t] < RingCap /\ db' = [db EXCEPT !.late[t] = @ + 1]

PostRefused(t) ==
  /\ RingCap <= IF db.run THEN db.posted[t] ELSE db.late[t]
  /\ UNCHANGED db

(* HandleProtocol, a request that becomes a command of the database        *)
Request(s) ==
  /\ Running /\ sock[s].phase = "open" /\ state = "Work"
  /\ asked < MaxRequests /\ asked' = asked + 1
  /\ \E t \in DbThreads : Post(t) \/ PostRefused(t)
  /\ UNCHANGED <<app, session, state, sock, faults, hist>>

(* OnUpdate: a result is delivered; its callback sends the acknowledgement *)
(* to m_session, and nobody notices when there is none                     *)
Result(t) ==
  /\ Running /\ db.posted[t] > 0
  /\ db' = [db EXCEPT !.posted[t] = @ - 1]
  /\ UNCHANGED <<app, session, state, sock, bounds, hist>>

-----------------------------------------------------------------------------
(***************************************************************************)
(* SvrApp with CDataServerApp.                                             *)
(***************************************************************************)
(* the console: the first type stays                                       *)
Stop(type) == stop' = IF stop = "NONE" THEN type ELSE stop

ConsoleStop ==
  /\ pc \notin {"over", "down"} /\ stop = "NONE"
  /\ Stop("NORMAL")
  /\ UNCHANGED <<pc, svr, caller, session, state, sock, db, bounds, hist>>

(* Initialize: the timer system, then INIT with its timer, then the logger *)
(* and the other systems; each may fail.  Without a logger the process     *)
(* does not outlive OnUninitialized, which logs.                           *)
Initialize ==
  /\ pc = "init"
  /\ \/ /\ UNCHANGED <<svr, caller>>
        /\ pc' = "down" /\ Stop("INIT_FAIL")
     \/ /\ svr' = "INIT" /\ caller' = TRUE
        /\ \/ pc' = "loop" /\ UNCHANGED stop
           \/ pc' \in {"uninit", "down"} /\ Stop("INIT_FAIL")
  /\ UNCHANGED <<session, state, sock, db, bounds, hist>>

OnState(from) == Running /\ caller /\ svr = from

(* OnAsyncInit                                                             *)
InitConnect ==
  /\ OnState("INIT") /\ session = NoSock
  /\ ReConnect(sock)
  /\ UNCHANGED <<app, state, db, bounds>>

InitDone ==
  /\ OnState("INIT") /\ session # NoSock /\ state = "Work"
  /\ svr' = "RUN" /\ caller' = FALSE
  /\ UNCHANGED <<pc, stop, session, state, sock, db, bounds, hist>>

(* the end of a turn of the loop                                           *)
CheckStop ==
  /\ Running /\ IsStopping /\ svr \in {"INIT", "RUN"}
  /\ svr' = "UNINIT" /\ caller' = TRUE
  /\ UNCHANGED <<pc, stop, session, state, sock, db, bounds, hist>>

(* db_manager_complete_run, asked by OnAsyncUninit                         *)
CompleteRun ==
  svr' = IF \A t \in DbThreads : db.posted[t] = 0 THEN "STOP" ELSE svr

(* OnAsyncUninit: the first TryStop stops and joins the db threads; all    *)
(* ask whether the results have been taken                                 *)
TryStop ==
  /\ OnState("UNINIT")
  /\ IF db.run
       THEN db' = [db EXCEPT !.run = FALSE] /\ pc' = "join" /\ UNCHANGED svr
       ELSE CompleteRun /\ UNCHANGED <<pc, db>>
  /\ UNCHANGED <<stop, caller, session, state, sock, bounds, hist>>

JoinedEmpty == \* mutant: the threads wait until their results are taken
  /\ pc = "join" /\ \A t \in DbThreads : db.posted[t] = 0
  /\ pc' = "loop" /\ CompleteRun
  /\ UNCHANGED <<stop, caller, session, state, sock, db, bounds, hist>>

(* A thread ends when it has executed its commands and their results are   *)
(* in its ring, which this thread does not empty as long as it joins.      *)
Joined ==
  /\ pc = "join" /\ \A t \in DbThreads : db.posted[t] <= RingCap
  /\ pc' = "loop" /\ CompleteRun
  /\ UNCHANGED <<stop, caller, session, state, sock, db, bounds, hist>>

LeaveLoop ==
  /\ Running /\ svr = "STOP"
  /\ pc' = "uninit"
  /\ UNCHANGED <<svr, stop, caller, session, state, sock, db, bounds, hist>>

(* DisConnect of the database, which waits for every command that was ever *)
(* posted, then the network with its sockets                               *)
Uninitialized ==
  /\ pc = "uninit" /\ \A t \in DbThreads : db.late[t] = 0
  /\ pc' = "over" /\ caller' = FALSE
  /\ sock' = [s \in Sockets |-> Free]
  /\ db' = [db EXCEPT !.run = FALSE]
  /\ UNCHANGED <<svr, stop, session, state, bounds, hist>>

-----------------------------------------------------------------------------
(* Start has been called                                                   *)
Init ==
  /\ pc = "init" /\ svr = "START" /\ stop = "NONE" /\ caller = FALSE
  /\ session = NoSock /\ state = "Init"
  /\ sock = [s \in Sockets |-> Free]
  /\ db = [run |-> TRUE, posted |-> [t \in DbThreads |-> 0],
                         late |-> [t \in DbThreads |-> 0]]
  /\ faults = 0 /\ asked = 0
  /\ hist = [refused |-> 0, doubled |-> FALSE, denied |-> FALSE]

Callbacks(s) == Establish(s) \/ Terminate(s) \/ FreeSocket(s) \/ Connected(s) \/ HandRet(s)
Server == Initialize \/ InitConnect \/ InitDone \/ CheckStop \/ TryStop
          \/ Joined \/ LeaveLoop \/ Uninitialized

Next ==
  \/ \E s \in Sockets : Callbacks(s) \/ ConnectFail(s) \/ Broken(s) \/ Refused(s) \/ Request(s)
  \/ \E t \in DbThreads : Result(t)
  \/ Server
  \/ ConsoleStop

Spec == Init /\ [][Next]_vars

(* The loop goes on, its timers and its systems run; a connect succeeds or *)
(* fails, the end of a socket is told, its slot comes back, the world      *)
(* answers a handshake.  The db threads end if they can.                   *)
FairSpec ==
  /\ Spec
  /\ WF_vars(Initialize) /\ WF_vars(InitConnect) /\ WF_vars(InitDone)
  /\ WF_vars(CheckStop) /\ WF_vars(TryStop) /\ WF_vars(Joined)
  /\ WF_vars(LeaveLoop) /\ WF_vars(Uninitialized)
  /\ \A t \in DbThreads : WF_vars(Result(t))
  /\ \A s \in Sockets :
       /\ WF_vars(Establish(s)) /\ WF_vars(Terminate(s)) /\ WF_vars(FreeSocket(s))
       /\ WF_vars(Connected(s)) /\ WF_vars(HandRet(s))

-----------------------------------------------------------------------------
(* Every variable has a value of its kind, and as long as there is work in *)
(* the loop for OnState, there is the timer that calls it: m_async_caller  *)
(* exists in every state of the loop but RUN.                              *)
TypeOK ==
  /\ pc \in {"init", "loop", "join", "uninit", "over", "down"}
  /\ svr \in {"START", "INIT", "RUN", "UNINIT", "STOP"}
  /\ stop \in {"NONE", "NORMAL", "INIT_FAIL"}
  /\ caller \in BOOLEAN
  /\ Up => (caller <=> svr # "RUN")
  /\ session \in Sockets \union {NoSock}
  /\ state \in {"Init", "Establish", "WaitHandAck", "Work"}
  /\ sock \in [Sockets -> SockRec]
  /\ db \in DbRec
  /\ faults \in 0 .. MaxFaults /\ asked \in 0 .. MaxRequests
  /\ hist \in HistRec

(* m_session never points to a socket whose last callback has been made,   *)
(* which may be free or serve another connection by now: not even when     *)
(* several sockets call the one object and any of them ends first.         *)
NoDanglingSession ==
  Up /\ session # NoSock => sock[session].phase \in {"opening", "open"}

(* As long as the server has never connected while a former socket was     *)
(* still to end, the one object and the sockets agree: m_session is the    *)
(* only socket that can still call back, or the only one left is on its    *)
(* way to its end; and m_state speaks of a connection that is established. *)
InStep ==
  (Up /\ ~hist.doubled) =>
    /\ session # NoSock => Pending(sock) = {session}
    /\ session = NoSock => /\ Cardinality(Pending(sock)) <= 1
                           /\ \A s \in Pending(sock) : sock[s].word = "TERMINATE"
    /\ state # "Init" => \E s \in Pending(sock) : sock[s].phase = "open"

(* Connections that call the same object at the same time come only from   *)
(* the timer of INIT, which connects again after a refused handshake       *)
(* without waiting for the end: one for each refusal, however the ends of  *)
(* the former ones, their reconnections and the timer follow each other.   *)
OrphansCounted == Cardinality(Pending(sock)) <= 1 + hist.refused

(* The server thread joins a db thread whose results do not fit into the   *)
(* ring that only the server thread empties.                               *)
Crowded == pc = "join" /\ \E t \in DbThreads : db.posted[t] > RingCap

(* A command that no thread is left to execute is waited for.              *)
Late == \E t \in DbThreads : db.late[t] > 0

(* A stop that was asked for comes to its end, unless more results are     *)
(* outstanding than a ring holds when the db threads are joined, or the    *)
(* world has made a request after they had ended.  A start that fails      *)
(* without a logger ends the process.                                      *)
StopEnds == (stop # "NONE") ~> (pc \in {"over", "down"} \/ Crowded \/ Late)

Working == /\ svr = "RUN" /\ state = "Work" /\ session # NoSock
           /\ sock[session].phase = "open" /\ sock[session].word = "ESTABLISH"

(* When the network and the world behave from some time on, the server is  *)
(* connected and works from some time on; unless it is stopped, had two    *)
(* connections at once, or found the pool used up when it wanted to        *)
(* connect again: then nobody tries a second time.                         *)
WorksAgain ==
  <>[]Working \/ <>(stop # "NONE" \/ hist.doubled \/ hist.denied)
=============================================================================
