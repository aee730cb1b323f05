---------------------------- MODULE SessionLife ----------------------------
(***************************************************************************)
(* What libsvr/src/epoll_tcp.c promises its user about a socket, seen from *)
(* the callbacks alone: a connection that is being made or accepted either *)
(* is established once or fails; an established one ends once; no callback *)
(* comes after the end; and the socket then goes back to the pool.  This   *)
(* is the abstract specification that EpollTcp implements.                 *)
(***************************************************************************)
CONSTANT Sockets

VARIABLE phase  \* where the user stands with each socket

Phases == {"free", "opening", "open", "closing"}

Init == phase = [s \in Sockets |-> "free"]

Move(s, from, to) ==
  /\ phase[s] = from
  /\ phase' = [phase EXCEPT ![s] = to]

Open(s)      == Move(s, "free", "opening")     \* net_tcp_connect, an accept
Establish(s) == Move(s, "opening", "open")     \* on_establish
Fail(s)      == Move(s, "opening", "closing")  \* on_error(connect_fail), none for accept
Terminate(s) == Move(s, "open", "closing")     \* on_terminate, after on_error if any
Free(s)      == Move(s, "closing", "free")     \* back to socket_pool

Next == \E s \in Sockets : Open(s) \/ Establish(s) \/ Fail(s) \/ Terminate(s) \/ Free(s)

Spec ==
  /\ Init
  /\ [][Next]_phase
  /\ \A s \in Sockets :
       WF_phase(Establish(s) \/ Fail(s)) /\ WF_phase(Free(s))
=============================================================================
