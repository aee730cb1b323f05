------------------------------- MODULE Agent -------------------------------
(***************************************************************************)
(* A session of the gateway (src/agentserver/agent): a CAgent joins the    *)
(* connection of a client (front) to a connection it opens to a game       *)
(* server (back), each of them an ISession (src/common/net/session.cpp)    *)
(* with a send cache in front of the ring of its socket.  All of it runs   *)
(* on the main thread: callbacks of the TCP layer and timers.  The TCP     *)
(* layer is seen as SessionLife promises it: a connection is opening, then *)
(* open, then over, and no callback comes after the end; the other side,   *)
(* or the IO thread, may take it down at any moment.                       *)
(* A packet is MsgLen units.  The units a session is asked to send carry a *)
(* number: the next one to leave the socket is 1, so that numbers stay     *)
(* small; what is given to a socket that is down has no number, 0.  One    *)
(* check of the sessions is 60 s.                                          *)
(***************************************************************************)
EXTENDS Integers, Sequences, SequencesExt, FiniteSets

CONSTANTS
  Cap,      \* units that fit in the send ring of a socket
  MsgLen,   \* units of a packet
  MaxCache  \* bound: units in the send caches when a packet arrives

ASSUME AgentAssumption ==
  /\ {Cap, MsgLen} \subseteq Nat \ {0}
  /\ MaxCache \in Nat

VARIABLES
  agent,    \* the CAgent: "none", "live", "deleted"
  state,    \* m_front_state, m_back_state
  sess,     \* the ISession of each end
  seen,     \* what CheckSession compares, for each end
  ending,   \* the timer m_call_check_terminate runs
  net,      \* the socket of each end, with the IO thread's part
  down      \* the process has read through a null socket pointer

vars == <<agent, state, sess, seen, ending, net, down>>

-----------------------------------------------------------------------------
Ends == {"front", "back"}

SessionState == {"NONE", "ESTABLISH", "CONNECT", "TERMINATE", "WAIT_CONNECT",
                 "WAIT_CHECK", "WORK"}

(* handle: m_session is not null; check: m_data_check_timer runs;          *)
(* fed: the number of the last unit given to the session                   *)
SessRec == [handle : BOOLEAN, cache : Seq(Nat), check : BOOLEAN, fed : Nat]

(* fresh: m_recv_bytes # m_last_recv_bytes; age: the checks since          *)
(* m_last_recv_time was set, 2 for many or never                           *)
SeenRec == [fresh : BOOLEAN, age : 0 .. 2]

(* up: the state of the socket is ESTABLISH; ring: its send_loop_cache     *)
NetRec == [phase : {"none", "opening", "open", "over"}, up : BOOLEAN, ring : Seq(Nat)]

NewSess == [handle |-> FALSE, cache |-> <<>>, check |-> FALSE, fed |-> 0]
NewNet == [phase |-> "none", up |-> FALSE, ring |-> <<>>]

Numbers(n, k) == [i \in 1 .. k |-> n + i]
Unheard(e) == net[e].phase = "open" /\ ~net[e].up
Packet(e) == IF Unheard(e) THEN [i \in 1 .. MsgLen |-> 0]
                           ELSE Numbers(sess[e].fed, MsgLen)
FreeOfEmpty(e) == Cap \* mutant: what the ring holds is not counted
Free(e) == Cap - Len(net[e].ring)
Prefix(s, n) == SubSeq(s, 1, n)
Rest(s, n) == SubSeq(s, n + 1, Len(s))
Least(a, b) == IF a <= b THEN a ELSE b

-----------------------------------------------------------------------------
(***************************************************************************)
(* ISession.  The operators give the new sess or net.                      *)
(***************************************************************************)
(* net_tcp_send of what the ring has room for                              *)
NetSend(e, units) ==
  IF net[e].up THEN [net EXCEPT ![e].ring = @ \o units] ELSE net

(* what is left goes to the cache, and ActiveDataCheck                     *)
Keep(e, left, fed) ==
  [sess EXCEPT ![e].cache = left, ![e].fed = fed, ![e].check = @ \/ left # <<>>]

SendRawDataPastCache(e) == \* mutant: the cache is not looked at
  LET n == Least(MsgLen, Free(e))
  IN IF sess[e].handle
       THEN /\ net' = NetSend(e, Prefix(Packet(e), n))
            /\ sess' = Keep(e, sess[e].cache \o Rest(Packet(e), n), Last(Packet(e)))
       ELSE UNCHANGED <<sess, net>>

(* a packet follows the cache; of the packet itself nothing is sent while  *)
(* some of the cache stays, and nothing when it does not fit whole         *)
SendRawData(e) ==
  LET cache == sess[e].cache
      all == cache \o Packet(e)
      n == IF Len(all) <= Free(e) THEN Len(all)
           ELSE IF cache = <<>> THEN Free(e) ELSE Least(Free(e), Len(cache))
  IN IF sess[e].handle
       THEN /\ net' = NetSend(e, Prefix(all, n))
            /\ sess' = Keep(e, Rest(all, n), Last(Packet(e)))
       ELSE UNCHANGED <<sess, net>>

CacheSendRawData(e) ==
  sess' = [sess EXCEPT ![e].cache = @ \o Packet(e), ![e].fed = Last(Packet(e))]

(* the units of OnDataCheck                                                *)
Sendable(e) ==
  IF sess[e].handle THEN Least(Free(e), Len(sess[e].cache)) ELSE 0

(* net_tcp_close_session, for the socket; and m_session                    *)
Closed(ends, n) == [e \in Ends |-> IF e \in ends /\ sess[e].handle
                                     THEN [n[e] EXCEPT !.up = FALSE] ELSE n[e]]
Dropped(ends, s) == [e \in Ends |-> IF e \in ends
                                     THEN [s[e] EXCEPT !.handle = FALSE] ELSE s[e]]

Disconnect(ends) == sess' = Dropped(ends, sess) /\ net' = Closed(ends, net)

(* OnDataCheck, called by the timer                                        *)
OnDataCheck(e) ==
  LET n == Sendable(e)
      left == Rest(sess[e].cache, n)
  IN /\ ~down /\ sess[e].check
     /\ net' = NetSend(e, Prefix(sess[e].cache, n))
     /\ sess' = [sess EXCEPT ![e].cache = left,
                             ![e].check = sess[e].handle /\ left # <<>>]
     /\ UNCHANGED <<agent, state, seen, ending, down>>

-----------------------------------------------------------------------------
(***************************************************************************)
(* CFrontSession.                                                          *)
(***************************************************************************)
(* a client is accepted: OnOpen creates the agent, then OnEstablish; the   *)
(* back session's first unit is the handshake of OnEstablish, below        *)
FrontEstablish ==
  /\ ~down /\ agent = "none"
  /\ agent' = "live"
  /\ state' = [state EXCEPT !["front"] = "ESTABLISH", !["back"] = "WAIT_CONNECT"]
  /\ sess' = [sess EXCEPT !["front"].handle = TRUE, !["back"].fed = 1]
  /\ \E up \in BOOLEAN : net' = [net EXCEPT !["front"].phase = "open", !["front"].up = up]
  /\ UNCHANGED <<seen, ending, down>>

Terminated(e) == /\ sess' = [sess EXCEPT ![e].handle = FALSE]
                 /\ net' = [net EXCEPT ![e].phase = "over", ![e].ring = <<>>]

FrontTerminateEarly == \* mutant: CONNECT taken for a state without a socket
  /\ ~down /\ net["front"].phase = "open" /\ ~net["front"].up
  /\ Terminated("front")
  /\ state' = [state EXCEPT !["front"] = "TERMINATE",
                             !["back"] = IF @ \in {"WAIT_CONNECT", "WAIT_CHECK", "CONNECT"}
                                           THEN "TERMINATE" ELSE @]
  /\ ending' = TRUE
  /\ UNCHANGED <<agent, seen, down>>

FrontTerminate ==
  /\ ~down /\ net["front"].phase = "open" /\ ~net["front"].up
  /\ Terminated("front")
  /\ state' = [state EXCEPT !["front"] = "TERMINATE",
                             !["back"] = IF @ \in {"WAIT_CONNECT", "WAIT_CHECK"}
                                           THEN "TERMINATE" ELSE @]
  /\ ending' = TRUE
  /\ UNCHANGED <<agent, seen, down>>

(* a packet arrives from the other side                                    *)
Heard(e) ==
  /\ ~down /\ net[e].phase = "open"
  /\ Len(sess["front"].cache) + Len(sess["back"].cache) <= MaxCache
  /\ seen' = [seen EXCEPT ![e].fresh = TRUE]

(* CONNECT: kept for the server                                            *)
FrontRecvConnecting ==
  /\ Heard("front") /\ state["back"] = "CONNECT"
  /\ CacheSendRawData("back")
  /\ UNCHANGED <<agent, state, ending, net, down>>

(* WAIT_CONNECT, WAIT_CHECK: net_tcp_connect                               *)
ConnectBack ==
  /\ sess' = [sess EXCEPT !["back"].handle = TRUE]
  /\ net' = [net EXCEPT !["back"].phase = "opening"]
  /\ state' = [state EXCEPT !["back"] = "CONNECT"]
  /\ UNCHANGED down

(* ERROR_DEAL: GetPeerIPPort comes after Disconnect                        *)
RefuseFront ==
  /\ Disconnect({"front"})
  /\ state' = [state EXCEPT !["back"] = "TERMINATE"]
  /\ down' = TRUE

(* WAIT_CONNECT: a handshake of the wrong length (GetPeerIPPort comes      *)
(* before Disconnect), one that names a server, one that asks for a key,   *)
(* one that is refused                                                     *)
FrontHandshake ==
  /\ Heard("front") /\ state["back"] = "WAIT_CONNECT"
  /\ \/ /\ Disconnect({"front"})
        /\ state' = [state EXCEPT !["back"] = "TERMINATE"]
        /\ down' = ~sess["front"].handle
     \/ ConnectBack
     \/ /\ sess["front"].handle
        /\ SendRawData("front")
        /\ state' = [state EXCEPT !["back"] = "WAIT_CHECK"]
        /\ UNCHANGED down
     \/ RefuseFront
  /\ UNCHANGED <<agent, ending>>

(* WAIT_CHECK: the length of a key makes it a key                          *)
FrontCheck ==
  /\ Heard("front") /\ state["back"] = "WAIT_CHECK"
  /\ \/ ConnectBack
     \/ RefuseFront
     \/ CacheSendRawData("back") /\ UNCHANGED <<state, net, down>>
  /\ UNCHANGED <<agent, ending>>

(* ESTABLISH, WORK: to the server, or a watched packet is answered or not; *)
(* TERMINATE: dropped                                                      *)
FrontRecv ==
  /\ Heard("front") /\ state["back"] \in {"ESTABLISH", "WORK", "TERMINATE"}
  /\ \/ state["back"] # "TERMINATE" /\ \E e \in Ends : SendRawData(e)
     \/ UNCHANGED <<sess, net>>
  /\ UNCHANGED <<agent, state, ending, down>>

-----------------------------------------------------------------------------
(***************************************************************************)
(* CBackSession.                                                           *)
(***************************************************************************)
(* the handshake goes to the ring past the cache, then the cache follows;  *)
(* the address of the client is read through front's m_session             *)
BackEstablishNoFlush == \* mutant: the cache is not flushed
  /\ ~down /\ net["back"].phase = "opening"
  /\ state' = [state EXCEPT !["back"] = "ESTABLISH"]
  /\ \E up \in BOOLEAN :
       net' = [net EXCEPT !["back"].phase = "open", !["back"].up = up,
                          !["back"].ring = IF up THEN <<1>> ELSE <<>>]
  /\ UNCHANGED <<agent, sess, seen, ending, down>>

BackEstablish ==
  /\ ~down /\ net["back"].phase = "opening"
  /\ state' = [state EXCEPT !["back"] = "ESTABLISH"]
  /\ \E up \in BOOLEAN :
       LET hands == state["front"] = "ESTABLISH"
           cache == sess["back"].cache
           room == IF up THEN Cap - 1 ELSE Cap
           n == IF hands THEN Least(room, Len(cache)) ELSE 0
           left == Rest(cache, n)
       IN /\ net' = [net EXCEPT
                       !["back"].phase = "open", !["back"].up = up,
                       !["back"].ring = IF up /\ hands THEN <<1>> \o Prefix(cache, n)
                                                       ELSE <<>>]
          /\ sess' = [sess EXCEPT !["back"].cache = left,
                                  !["back"].check = hands /\ left # <<>>]
          /\ down' = (hands /\ ~sess["front"].handle)
  /\ UNCHANGED <<agent, seen, ending>>

(* connect_fail                                                            *)
BackError ==
  /\ ~down /\ net["back"].phase = "opening"
  /\ Terminated("back")
  /\ state' = [state EXCEPT !["back"] = "TERMINATE"]
  /\ ending' = TRUE
  /\ UNCHANGED <<agent, seen, down>>

BackTerminate ==
  /\ ~down /\ net["back"].phase = "open" /\ ~net["back"].up
  /\ Terminated("back")
  /\ state' = [state EXCEPT !["back"] = "TERMINATE"]
  /\ ending' = TRUE
  /\ UNCHANGED <<agent, seen, down>>

(* ESTABLISH: the answer to the handshake, or not                          *)
BackHandshake ==
  /\ Heard("back") /\ state["back"] = "ESTABLISH"
  /\ \/ Disconnect({"back"}) /\ UNCHANGED state
     \/ SendRawData("front") /\ state' = [state EXCEPT !["back"] = "WORK"]
  /\ UNCHANGED <<agent, ending, down>>

(* WORK: to the client, a watched packet too, or it is dropped             *)
BackRecv ==
  /\ Heard("back") /\ state["back"] = "WORK"
  /\ SendRawData("front") \/ UNCHANGED <<sess, net>>
  /\ UNCHANGED <<agent, state, ending, down>>

-----------------------------------------------------------------------------
(***************************************************************************)
(* The timers of CAgent.                                                   *)
(***************************************************************************)
Connected(e) == state[e] \in {"ESTABLISH", "WORK"}
AllTerminated == \A e \in Ends : state[e] = "TERMINATE"

CheckTerminateBackOnly == \* mutant: the client is left connected
  /\ ~down /\ ending
  /\ IF AllTerminated
       THEN /\ agent' = "deleted" /\ ending' = FALSE
            /\ sess' = [e \in Ends |-> [sess[e] EXCEPT !.check = FALSE]]
            /\ UNCHANGED net
       ELSE /\ Disconnect({e \in {"back"} : Connected(e) /\ sess[e].cache = <<>>})
            /\ UNCHANGED <<agent, ending>>
  /\ UNCHANGED <<state, seen, down>>

(* every second once an end is over; the destructors delete every timer    *)
CheckTerminate ==
  /\ ~down /\ ending
  /\ IF AllTerminated
       THEN /\ agent' = "deleted" /\ ending' = FALSE
            /\ sess' = [e \in Ends |-> [sess[e] EXCEPT !.check = FALSE]]
            /\ UNCHANGED net
       ELSE /\ Disconnect({e \in Ends : Connected(e) /\ sess[e].cache = <<>>})
            /\ UNCHANGED <<agent, ending>>
  /\ UNCHANGED <<state, seen, down>>

Silent == {e \in Ends : Connected(e) /\ ~seen[e].fresh}

(* cur_time - m_last_recv_time is 60 or 61 one check later                 *)
CheckSession ==
  /\ ~down /\ agent = "live"
  /\ \E late \in SUBSET Ends :
       Disconnect({e \in Silent : e \in late \/ seen[e].age > 0})
  /\ seen' = [e \in Ends |->
                IF Connected(e) /\ seen[e].fresh THEN [fresh |-> FALSE, age |-> 0]
                ELSE [seen[e] EXCEPT !.age = Least(2, @ + 1)]]
  /\ UNCHANGED <<agent, state, ending, down>>

-----------------------------------------------------------------------------
(***************************************************************************)
(* The TCP layer.                                                          *)
(***************************************************************************)
(* the other side closes, or an error                                      *)
GoesDown(e) ==
  /\ ~down /\ net[e].phase = "open" /\ net[e].up
  /\ net' = [net EXCEPT ![e].up = FALSE]
  /\ UNCHANGED <<agent, state, sess, seen, ending, down>>

(* send(), one unit; the others are one unit nearer                        *)
Nearer(units) == [i \in DOMAIN units |-> units[i] - 1]

Drain(e) ==
  /\ ~down /\ net[e].up /\ net[e].ring # <<>>
  /\ net' = [net EXCEPT ![e].ring = Nearer(Tail(@))]
  /\ sess' = [sess EXCEPT ![e].cache = Nearer(@), ![e].fed = @ - 1]
  /\ UNCHANGED <<agent, state, seen, ending, down>>

(* ParsePacket of a part of a packet asks the socket for its receive size  *)
ParsePart(e) ==
  /\ ~down /\ net[e].phase = "open" /\ ~sess[e].handle
  /\ down' = TRUE
  /\ UNCHANGED <<agent, state, sess, seen, ending, net>>

-----------------------------------------------------------------------------
Init ==
  /\ agent = "none" /\ ending = FALSE /\ down = FALSE
  /\ state = [e \in Ends |-> "NONE"]
  /\ sess = [e \in Ends |-> NewSess]
  /\ seen = [e \in Ends |-> [fresh |-> FALSE, age |-> 2]]
  /\ net = [e \in Ends |-> NewNet]

FrontSteps == FrontRecvConnecting \/ FrontHandshake \/ FrontCheck \/ FrontRecv
BackSteps == BackHandshake \/ BackRecv

Next ==
  \/ FrontEstablish \/ FrontTerminate \/ FrontSteps
  \/ BackEstablish \/ BackError \/ BackTerminate \/ BackSteps
  \/ CheckTerminate \/ CheckSession
  \/ \E e \in Ends : OnDataCheck(e) \/ GoesDown(e) \/ Drain(e) \/ ParsePart(e)

Spec == Init /\ [][Next]_vars

(* the main thread goes on with its timers and the events of the TCP layer *)
(* (SessionLife: an opening is answered, a closed socket ends); nothing is *)
(* asked of the client, the server or the network                          *)
FairSpec ==
  /\ Spec
  /\ WF_vars(CheckTerminate) /\ WF_vars(CheckSession)
  /\ WF_vars(FrontTerminate) /\ WF_vars(BackTerminate)
  /\ WF_vars(BackEstablish \/ BackError)
  /\ \A e \in Ends : WF_vars(OnDataCheck(e))

-----------------------------------------------------------------------------
(* Types; a session never asks net_tcp_send for more than the send ring    *)
(* has room for, which would close the connection (error_send_overflow).   *)
TypeOK ==
  /\ agent \in {"none", "live", "deleted"}
  /\ state \in [Ends -> SessionState]
  /\ sess \in [Ends -> SessRec]
  /\ seen \in [Ends -> SeenRec]
  /\ net \in [Ends -> NetRec]
  /\ {ending, down} \subseteq BOOLEAN
  /\ \A e \in Ends : Len(net[e].ring) <= Cap

Alive(e) == net[e].phase \in {"opening", "open"}

(* The user data of a socket is the address of an ISession inside the      *)
(* CAgent, and m_session is the address of a socket: S_DELETE(this) comes  *)
(* only when neither socket has a callback left to make, and m_session is  *)
(* null once its socket is over and may be taken for another connection.   *)
NoDanglingPointer ==
  \A e \in Ends : /\ Alive(e) => agent = "live"
                  /\ sess[e].handle => Alive(e)

(* The units given to a session leave in their order, without a gap: what  *)
(* was cached while the server was being connected comes after the         *)
(* handshake and before anything newer, however the ring cuts packets.     *)
InOrder ==
  \A e \in Ends :
    LET ring == net[e].ring
        cache == sess[e].cache
    IN net[e].phase = "open" /\ net[e].up =>
         /\ ring = Numbers(0, Len(ring))
         /\ cache = Numbers(sess[e].fed - Len(cache), Len(cache))
         /\ Connected("front") => sess[e].fed = Len(ring) + Len(cache)

(* While both connections stand, what a send cache holds has a timer that  *)
(* will send it.                                                           *)
CacheHasTimer ==
  agent = "live" /\ (\A e \in Ends : Connected(e) /\ sess[e].handle) =>
    \A e \in Ends : sess[e].cache # <<>> => sess[e].check

Gone == agent = "deleted" \/ down

(* One end is over and the other one keeps the agent: it goes on speaking, *)
(* so CheckSession lets it be, and its send cache never empties, so        *)
(* CheckTerminate does too.                                                *)
BackStays == []<><<BackSteps>>_vars /\ <>[](sess["back"].cache # <<>>)
FrontStays == []<><<FrontSteps>>_vars /\ <>[](sess["front"].cache # <<>>)

(* When the connection of the client is over, the connection to the server *)
(* is closed; when that is over or was refused, the client is              *)
(* disconnected: in either case the agent and its timers are deleted.      *)
AgentFreed ==
  /\ (state["front"] = "TERMINATE" ~> Gone) \/ BackStays
  /\ (state["back"] = "TERMINATE" ~> Gone) \/ FrontStays
=============================================================================
