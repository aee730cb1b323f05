-------------------------- MODULE DataServerProofs ---------------------------
(***************************************************************************)
(* The one WorldServer object and the sockets that call it: types, how the *)
(* two agree, and how many connections there can be at once, for any       *)
(* number of slots in the pool, of failures and of requests.               *)
(***************************************************************************)
EXTENDS DataServer, FiniteSetTheorems, TLAPS

-----------------------------------------------------------------------------
(***************************************************************************)
(* The inductive invariant.                                                *)
(***************************************************************************)

(* A socket is told that it is established after its connection stands.    *)
Stands == \A s \in Sockets : sock[s].phase = "open" => sock[s].word # "CONNECT"

(* Nothing is connected before the loop runs, and the db threads are       *)
(* joined in UNINIT only.                                                  *)
Stages ==
  /\ pc = "init" => session = NoSock /\ state = "Init" /\ Pending(sock) = {}
  /\ pc = "join" => svr = "UNINIT"

(* A session without a socket in INIT is a refused one: the next connect   *)
(* of the timer is paid for by the refusal.                                *)
Paid ==
  /\ IsFiniteSet(Pending(sock))
  /\ OrphansCounted
  /\ svr = "INIT" /\ session = NoSock => Cardinality(Pending(sock)) <= hist.refused

IInv == TypeOK /\ Stands /\ Stages /\ Paid /\ NoDanglingSession /\ InStep

-----------------------------------------------------------------------------
(***************************************************************************)
(* The sockets that are pending.                                           *)
(***************************************************************************)

LEMMA FiniteAdd ==
  ASSUME NEW S, NEW x, IsFiniteSet(S), x \notin S
  PROVE  /\ IsFiniteSet(S \cup {x}) /\ Cardinality(S \cup {x}) = Cardinality(S) + 1
         /\ Cardinality(S) \in Nat
<1>1. Cardinality(S) \in Nat
  BY FS_CardinalityType
<1>2. IsFiniteSet(S \cup {x})
  BY FS_AddElement
<1>3. Cardinality(S \cup {x}) = IF x \in S THEN Cardinality(S) ELSE Cardinality(S) + 1
  BY FS_AddElement
<1> QED BY <1>1, <1>2, <1>3

LEMMA FiniteRemove ==
  ASSUME NEW S, NEW x, IsFiniteSet(S), x \in S
  PROVE  /\ IsFiniteSet(S \ {x}) /\ Cardinality(S \ {x}) = Cardinality(S) - 1
         /\ Cardinality(S \ {x}) \in Nat /\ Cardinality(S) \in Nat
<1>1. IsFiniteSet(S \ {x})
  BY FS_RemoveElement
<1>2. Cardinality(S \ {x}) \in Nat /\ Cardinality(S) \in Nat
  BY <1>1, FS_CardinalityType
<1>3. Cardinality(S \ {x}) = IF x \in S THEN Cardinality(S) - 1 ELSE Cardinality(S)
  BY FS_RemoveElement
<1> QED BY <1>1, <1>2, <1>3

(* A change of a socket that is neither its beginning nor its end.         *)
LEMMA PendingSame ==
  ASSUME NEW sk, NEW tk, \A s \in Sockets : tk[s].phase = "open" \/ tk[s].phase = "opening"
                                       <=> sk[s].phase = "open" \/ sk[s].phase = "opening"
  PROVE  Pending(tk) = Pending(sk)
BY DEF Pending

(* The end of a socket, and its beginning.                                 *)
LEMMA PendingEnds ==
  ASSUME NEW sk \in [Sockets -> SockRec], NEW s \in Sockets
  PROVE  Pending([sk EXCEPT ![s] = [Free EXCEPT !.phase = "over"]]) = Pending(sk) \ {s}
BY DEF Pending, Free

LEMMA PendingBegins ==
  ASSUME NEW sk \in [Sockets -> SockRec], NEW s \in Sockets
  PROVE  Pending([sk EXCEPT ![s] = Opening]) = Pending(sk) \cup {s}
BY DEF Pending, Free, Opening

(* What the helpers assign.                                                *)
LEMMA SockType ==
  /\ Free \in SockRec /\ [Free EXCEPT !.phase = "over"] \in SockRec /\ Opening \in SockRec
BY DEF Free, Opening, SockRec

LEMMA ClosedIs ==
  ASSUME NEW sk \in [Sockets -> SockRec], NEW s \in Sockets
  PROVE  /\ Closed(sk, s) \in [Sockets -> SockRec]
         /\ Pending(Closed(sk, s)) = Pending(sk)
         /\ \A u \in Sockets : /\ Closed(sk, s)[u].phase = sk[u].phase
                               /\ Closed(sk, s)[u].word = "CONNECT" <=> sk[u].word = "CONNECT"
                               /\ u # s => Closed(sk, s)[u] = sk[u]
         /\ sk[s].word # "CONNECT" => Closed(sk, s)[s].word = "TERMINATE"
<1> DEFINE tk == Closed(sk, s)
           w == IF sk[s].word = "ESTABLISH" THEN "TERMINATE" ELSE sk[s].word
<1>1. tk = [sk EXCEPT ![s] = [sk[s] EXCEPT !.word = w]]
  BY DEF Closed
<1>2. w \in {"CONNECT", "ESTABLISH", "TERMINATE"} /\ (w = "CONNECT" <=> sk[s].word = "CONNECT")
      /\ (sk[s].word # "CONNECT" => w = "TERMINATE")
  BY DEF SockRec
<1> HIDE DEF w
<1>3. [sk[s] EXCEPT !.word = w] \in SockRec
  BY <1>2 DEF SockRec
<1>4. \A u \in Sockets : /\ tk[u].phase = sk[u].phase
                         /\ u # s => tk[u] = sk[u]
                         /\ u = s => tk[u].word = w
  BY <1>1 DEF SockRec
<1> HIDE DEF tk
<1>5. tk \in [Sockets -> SockRec]
  BY <1>1, <1>3
<1>6. Pending(tk) = Pending(sk)
  BY <1>4, PendingSame
<1> QED BY <1>2, <1>4, <1>5, <1>6 DEF tk

-----------------------------------------------------------------------------
LEMMA Initially == Init => IInv
<1> SUFFICES ASSUME Init PROVE IInv
  OBVIOUS
<1>1. TypeOK
  <2>1. faults \in 0 .. MaxFaults /\ asked \in 0 .. MaxRequests
    BY DataServerAssumption DEF Init
  <2>2. sock \in [Sockets -> SockRec] /\ db \in DbRec /\ hist \in HistRec
    BY SockType DEF Init, DbRec, HistRec
  <2> QED BY <2>1, <2>2 DEF Init, TypeOK, Up
<1>2. Pending(sock) = {}
  BY DEF Init, Pending, Free
<1>3. Paid
  BY <1>2, FS_EmptySet DEF Init, Paid, OrphansCounted
<1> QED BY <1>1, <1>2, <1>3 DEF Init, IInv, Stands, Stages, NoDanglingSession, InStep, Up, Free

(* Connecting, after the sockets have become sk: by the timer of INIT,     *)
(* where sk is sock, or when a socket has ended.                           *)
LEMMA Reconnects ==
  ASSUME IInv, NEW sk \in [Sockets -> SockRec], ReConnect(sk), UNCHANGED <<app, db>>, Running,
         \A s \in Sockets : sk[s].phase = "open" => sk[s].word # "CONNECT",
         IsFiniteSet(Pending(sk)), Cardinality(Pending(sk)) <= hist.refused,
         ~ hist.doubled => /\ Cardinality(Pending(sk)) <= 1
                           /\ \A s \in Pending(sk) : sk[s].word = "TERMINATE"
                           /\ state' # "Init" => \E s \in Pending(sk) : sk[s].phase = "open",
         state' \in {"Init", "Establish", "WaitHandAck", "Work"},
         faults' \in 0 .. MaxFaults, asked' \in 0 .. MaxRequests
  PROVE  IInv'
<1>1. CASE \E s \in Sockets : /\ sk[s].phase = "free"
                              /\ session' = s
                              /\ sock' = [sk EXCEPT ![s] = Opening]
                              /\ hist' = [hist EXCEPT !.doubled = @ \/ Pending(sk) # {}]
  <2> PICK s \in Sockets : /\ sk[s].phase = "free"
                           /\ session' = s
                           /\ sock' = [sk EXCEPT ![s] = Opening]
                           /\ hist' = [hist EXCEPT !.doubled = @ \/ Pending(sk) # {}]
    BY <1>1
  <2>1. Pending(sock') = Pending(sk) \cup {s} /\ s \notin Pending(sk)
    BY PendingBegins DEF Pending
  <2>2. IsFiniteSet(Pending(sock')) /\ Cardinality(Pending(sock')) = Cardinality(Pending(sk)) + 1
    <3>1. /\ IsFiniteSet(Pending(sk) \cup {s})
          /\ Cardinality(Pending(sk) \cup {s}) = Cardinality(Pending(sk)) + 1
      BY <2>1, FiniteAdd
    <3> QED BY <2>1, <3>1
  <2>3. hist'.refused = hist.refused /\ hist' \in HistRec
        /\ (~ hist'.doubled => ~ hist.doubled /\ Pending(sk) = {})
    BY DEF IInv, TypeOK, HistRec
  <2>4. TypeOK'
    BY <2>3, SockType DEF IInv, TypeOK, app, Up
  <2>5. Stands'
    BY SockType DEF Stands, Opening, Free
  <2>6. Paid'
    <3>1. Cardinality(Pending(sk)) \in Nat
      BY FS_CardinalityType
    <3>2. session' # NoSock
      BY DataServerAssumption
    <3> QED BY <2>2, <2>3, <3>1, <3>2 DEF Paid, OrphansCounted, IInv, TypeOK, HistRec
  <2>7. InStep'
    BY <2>1, <2>3, DataServerAssumption DEF InStep
  <2>8. Stages'
    BY DEF Stages, Running, app
  <2>9. NoDanglingSession'
    BY DEF NoDanglingSession, Opening, Free
  <2> QED BY <2>4, <2>5, <2>6, <2>7, <2>8, <2>9 DEF IInv
<1>2. CASE /\ session' = NoSock
           /\ sock' = sk
           /\ hist' = [hist EXCEPT !.denied = @ \/ svr = "RUN"]
  <2>1. hist'.refused = hist.refused /\ hist' \in HistRec /\ hist'.doubled = hist.doubled
    BY <1>2 DEF IInv, TypeOK, HistRec
  <2>2. TypeOK'
    BY <1>2, <2>1 DEF IInv, TypeOK, app, Up
  <2>3. Stands'
    BY <1>2 DEF Stands
  <2>4. Paid'
    <3>1. Cardinality(Pending(sk)) \in Nat
      BY FS_CardinalityType
    <3> QED BY <1>2, <2>1, <3>1 DEF Paid, OrphansCounted, IInv, TypeOK, HistRec
  <2>5. InStep'
    BY <1>2, <2>1 DEF InStep, Running, Up, app
  <2>6. Stages' /\ NoDanglingSession'
    BY <1>2 DEF Stages, NoDanglingSession, Running, app
  <2> QED BY <2>2, <2>3, <2>4, <2>5, <2>6 DEF IInv
<1> QED BY <1>1, <1>2 DEF ReConnect

(* The end of a pending socket, told as an end or as a failed connect.     *)
LEMMA EndKeeps ==
  ASSUME IInv, NEW s \in Sockets, Running, s \in Pending(sock),
         session = NoSock /\ ~ hist.doubled => sock[s].word = "TERMINATE",
         Ended(s), UNCHANGED <<app, db>>,
         faults' \in 0 .. MaxFaults, asked' \in 0 .. MaxRequests
  PROVE  IInv'
<1> DEFINE sk == [sock EXCEPT ![s] = [Free EXCEPT !.phase = "over"]]
<1>1. sk \in [Sockets -> SockRec] /\ Pending(sk) = Pending(sock) \ {s}
  BY SockType, PendingEnds DEF IInv, TypeOK
<1>2. \A u \in Sockets : sk[u].phase = "open" => sk[u].word # "CONNECT"
  BY DEF IInv, TypeOK, Stands, Free
<1>3. IsFiniteSet(Pending(sk)) /\ Cardinality(Pending(sk)) = Cardinality(Pending(sock)) - 1
      /\ Cardinality(Pending(sk)) \in Nat
  <2>1. /\ IsFiniteSet(Pending(sock) \ {s}) /\ Cardinality(Pending(sock) \ {s}) \in Nat
        /\ Cardinality(Pending(sock) \ {s}) = Cardinality(Pending(sock)) - 1
    BY FiniteRemove DEF IInv, Paid
  <2> QED BY <1>1, <2>1
<1>4. Cardinality(Pending(sk)) <= hist.refused
  <2>1. Cardinality(Pending(sock)) \in Nat
    BY FS_CardinalityType DEF IInv, Paid
  <2> QED BY <1>3, <2>1 DEF IInv, Paid, OrphansCounted, TypeOK, HistRec
<1>5. ~ hist.doubled => Cardinality(Pending(sk)) = 0 /\ Pending(sk) = {}
  <2> SUFFICES ASSUME ~ hist.doubled PROVE Cardinality(Pending(sk)) = 0
    BY <1>3, FS_EmptySet
  <2>1. Cardinality(Pending(sock)) \in Nat
    BY FS_CardinalityType DEF IInv, Paid
  <2>2. CASE session = NoSock
    BY <1>3, <2>1, <2>2 DEF IInv, InStep, Up, Running
  <2>3. CASE session # NoSock
    <3>1. Pending(sk) = {}
      BY <1>1, <2>3 DEF IInv, InStep, Up, Running
    <3> QED BY <3>1, FS_EmptySet
  <2> QED BY <2>2, <2>3
<1>6. state' = "Init"
  BY DEF Ended
<1> HIDE DEF sk
<1>7. CASE IsStopping
  <2>1. session' = NoSock /\ sock' = sk /\ UNCHANGED hist
    BY <1>7 DEF Ended, sk
  <2>2. TypeOK'
    BY <1>1, <1>6, <2>1 DEF IInv, TypeOK, app, Up
  <2>3. InStep'
    <3>1. Pending(sock') = {} \/ hist.doubled
      BY <1>3, <1>5, <2>1, FS_EmptySet
    <3> QED BY <1>3, <1>5, <1>6, <2>1, <3>1 DEF InStep
  <2>4. Stands' /\ Paid' /\ Stages' /\ NoDanglingSession'
    BY <1>2, <1>3, <1>4, <2>1, <2>2 DEF Stands, Paid, OrphansCounted, Stages, Running, app,
       NoDanglingSession, TypeOK, HistRec
  <2> QED BY <2>2, <2>3, <2>4 DEF IInv
<1>8. CASE ~ IsStopping
  <2>1. ReConnect(sk)
    BY <1>8 DEF Ended, sk
  <2>2. ~ hist.doubled => /\ Cardinality(Pending(sk)) <= 1
                          /\ \A u \in Pending(sk) : sk[u].word = "TERMINATE"
                          /\ state' # "Init" => \E u \in Pending(sk) : sk[u].phase = "open"
    BY <1>5, <1>6
  <2>3. IsFiniteSet(Pending(sk)) /\ state' \in {"Init", "Establish", "WaitHandAck", "Work"}
    BY <1>3, <1>6
  <2> HIDE DEF Running
  <2> QED BY <1>1, <1>2, <1>4, <2>1, <2>2, <2>3, Reconnects
<1> QED BY <1>7, <1>8

(* A step that neither begins nor ends a socket nor changes the session or *)
(* the history.                                                            *)
LEMMA QuietKeeps ==
  ASSUME IInv, TypeOK', UNCHANGED <<session, hist>>, pc' # "init", pc' = "join" => svr' = "UNINIT",
         Pending(sock') = Pending(sock),
         \A s \in Sockets : /\ sock[s].phase = "open" => sock'[s].phase = "open"
                            /\ sock'[s].phase = "open" => sock'[s].word # "CONNECT"
                            /\ sock[s].word = "TERMINATE" => sock'[s].word = "TERMINATE",
         svr' = "INIT" => svr = "INIT" \/ Pending(sock) = {},
         Up => state' = "Init" \/ state # "Init"
               \/ \E s \in Pending(sock) : sock'[s].phase = "open",
         ~ Up /\ Up' => Pending(sock) = {} /\ state' = "Init" /\ session = NoSock
  PROVE  IInv'
<1>1. Stands' /\ Stages'
  BY DEF Stands, Stages
<1>2. Paid'
  BY FS_EmptySet DEF IInv, Paid, OrphansCounted, TypeOK, HistRec
<1>3. InStep'
  <2> SUFFICES ASSUME Up', ~ hist.doubled
               PROVE  /\ session # NoSock => Pending(sock') = {session}
                      /\ session = NoSock =>
                           /\ Cardinality(Pending(sock')) <= 1
                           /\ \A s \in Pending(sock') : sock'[s].word = "TERMINATE"
                      /\ state' # "Init" => \E s \in Pending(sock') : sock'[s].phase = "open"
    BY DEF InStep
  <2>1. CASE Up
    <3>1. Pending(sock) \subseteq Sockets
      BY DEF Pending
    <3> QED BY <2>1, <3>1 DEF IInv, InStep
  <2>2. CASE ~ Up
    <3>1. Pending(sock') = {} /\ state' = "Init" /\ session = NoSock
      BY <2>2
    <3>2. Cardinality({}) <= 1
      BY FS_EmptySet
    <3> QED BY <3>1, <3>2
  <2> QED BY <2>1, <2>2
<1>4. NoDanglingSession'
  <2> SUFFICES ASSUME Up', session # NoSock PROVE session \in Pending(sock')
    BY DEF NoDanglingSession, Pending
  <2> QED BY DEF IInv, TypeOK, NoDanglingSession, Pending
<1> QED BY <1>1, <1>2, <1>3, <1>4 DEF IInv

(* One lemma for the type of a socket that changes.                        *)
LEMMA SockUpdate ==
  ASSUME NEW s \in Sockets, sock \in [Sockets -> SockRec]
  PROVE  /\ \A v \in {"free", "opening", "open", "over"} :
              [sock EXCEPT ![s].phase = v] \in [Sockets -> SockRec]
         /\ \A v \in {"CONNECT", "ESTABLISH", "TERMINATE"} :
              [sock EXCEPT ![s].word = v] \in [Sockets -> SockRec]
BY DEF SockRec

-----------------------------------------------------------------------------
(***************************************************************************)
(* The callbacks of the sockets.                                           *)
(***************************************************************************)
LEMMA TerminateKeeps == ASSUME IInv, NEW s \in Sockets, Terminate(s) PROVE IInv'
<1>1. s \in Pending(sock)
  BY DEF Terminate, Pending
<1> QED BY <1>1, EndKeeps DEF Terminate, IInv, TypeOK, app, bounds

LEMMA ConnectFailKeeps == ASSUME IInv, NEW s \in Sockets, ConnectFail(s) PROVE IInv'
<1>1. s \in Pending(sock)
  BY DEF ConnectFail, Pending
<1>2. ~ (session = NoSock /\ ~ hist.doubled)
  BY <1>1 DEF IInv, InStep, ConnectFail, Up, Running
<1>3. faults' \in 0 .. MaxFaults
  BY DataServerAssumption DEF ConnectFail, IInv, TypeOK
<1> QED BY <1>1, <1>2, <1>3, EndKeeps DEF ConnectFail, IInv, TypeOK

LEMMA EstablishKeeps == ASSUME IInv, NEW s \in Sockets, Establish(s) PROVE IInv'
<1> DEFINE sk == [sock EXCEPT ![s].phase = "open"]
<1>1. sk \in [Sockets -> SockRec]
  BY SockUpdate DEF IInv, TypeOK
<1>2. /\ Running /\ sock[s].phase = "opening" /\ sock[s].word # "CONNECT"
      /\ UNCHANGED <<app, session, db, bounds, hist>>
  BY DEF Establish
<1>3. \A u \in Sockets : /\ sk[u].word = sock[u].word
                         /\ u # s => sk[u].phase = sock[u].phase
                         /\ u = s => sk[u].phase = "open"
  BY DEF IInv, TypeOK, SockRec
<1>4. sock' = sk /\ state' \in {"Establish", "WaitHandAck"}
  BY DEF Establish
<1> HIDE DEF sk
<1>5. TypeOK'
  BY <1>1, <1>2, <1>4 DEF IInv, TypeOK, app, bounds, Up
<1>6. Pending(sock') = Pending(sock) /\ s \in Pending(sock)
  BY <1>2, <1>3, <1>4, PendingSame DEF Pending
<1> QED BY <1>2, <1>3, <1>4, <1>5, <1>6, QuietKeeps DEF IInv, Stands, Running, app, Up

LEMMA FreeSocketKeeps == ASSUME IInv, NEW s \in Sockets, FreeSocket(s) PROVE IInv'
<1>1. sock' = [sock EXCEPT ![s] = Free] /\ sock[s].phase = "over" /\ pc = "loop"
      /\ UNCHANGED <<app, session, state, db, bounds, hist>>
  BY DEF FreeSocket, Running
<1>2. TypeOK'
  BY <1>1, SockType DEF IInv, TypeOK, app, bounds, Up
<1>3. s \notin Pending(sock) /\ s \notin Pending(sock')
  BY <1>1 DEF Pending, Free, IInv, TypeOK
<1>4. \A u \in Sockets \ {s} : sock'[u] = sock[u]
  BY <1>1 DEF IInv, TypeOK
<1>5. Pending(sock') = Pending(sock)
  BY <1>3, <1>4 DEF Pending
<1>6. Stands' /\ Stages'
  BY <1>1, <1>4 DEF IInv, Stands, Free, Stages, app, TypeOK
<1>7. Paid' /\ InStep' /\ NoDanglingSession'
  <2>1. \A u \in Pending(sock) : sock'[u] = sock[u]
    BY <1>3, <1>4 DEF Pending
  <2>2. Paid' /\ InStep'
    BY <1>1, <1>5, <2>1 DEF IInv, Paid, InStep, OrphansCounted, app, Up
  <2>3. NoDanglingSession'
    BY <1>1, <1>4 DEF IInv, TypeOK, NoDanglingSession, app, Up
  <2> QED BY <2>2, <2>3
<1> QED BY <1>2, <1>6, <1>7 DEF IInv

LEMMA ConnectedKeeps == ASSUME IInv, NEW s \in Sockets, Connected(s) PROVE IInv'
<1>1. /\ sock' = [sock EXCEPT ![s].word = "ESTABLISH"]
      /\ sock[s].phase = "opening" /\ sock[s].word = "CONNECT" /\ Up
      /\ UNCHANGED <<app, session, state, db, bounds, hist>>
  BY DEF Connected, Up
<1>2. sock' \in [Sockets -> SockRec]
  BY <1>1, SockUpdate DEF IInv, TypeOK
<1>3. TypeOK'
  BY <1>1, <1>2 DEF IInv, TypeOK, app, bounds, Up
<1>4. \A u \in Sockets : /\ sock'[u].phase = sock[u].phase
                         /\ u # s => sock'[u] = sock[u]
  BY <1>1 DEF IInv, TypeOK, SockRec
<1>5. Pending(sock') = Pending(sock)
  BY <1>4, PendingSame
<1> QED BY <1>1, <1>3, <1>4, <1>5, QuietKeeps DEF IInv, Stands, app, Up, Stages

LEMMA BrokenKeeps == ASSUME IInv, NEW s \in Sockets, Broken(s) PROVE IInv'
<1>1. /\ sock' = Closed(sock, s) /\ Up /\ faults < MaxFaults /\ faults' = faults + 1
      /\ UNCHANGED <<app, session, state, db, asked, hist>>
  BY DEF Broken, Up
<1>2. TypeOK'
  BY <1>1, ClosedIs, DataServerAssumption DEF IInv, TypeOK, app, Up
<1>3. Pending(sock') = Pending(sock)
  BY <1>1, ClosedIs DEF IInv, TypeOK
<1>4. \A u \in Sockets : /\ sock'[u].phase = sock[u].phase
                         /\ sock'[u].word = "CONNECT" <=> sock[u].word = "CONNECT"
                         /\ sock[u].word = "TERMINATE" => sock'[u].word = "TERMINATE"
  BY SMTT(30), <1>1, ClosedIs DEF IInv, TypeOK
<1> QED BY <1>1, <1>2, <1>3, <1>4, QuietKeeps DEF IInv, Stands, app, Up, Stages

LEMMA HandRetKeeps == ASSUME IInv, NEW s \in Sockets, HandRet(s) PROVE IInv'
<1>1. /\ pc = "loop" /\ state = "WaitHandAck" /\ state' = "Work"
      /\ UNCHANGED <<app, session, sock, db, bounds, hist>>
  BY DEF HandRet, Verifies, Running
<1>2. TypeOK'
  BY <1>1 DEF IInv, TypeOK, Up, app, bounds
<1> QED BY <1>1, <1>2, QuietKeeps DEF IInv, Stands, Up, app

(* Only a socket that stands is told of a packet, so the one that a        *)
(* refusal disconnects is on its way to its end.                           *)
LEMMA RefusedKeeps == ASSUME IInv, NEW s \in Sockets, Refused(s) PROVE IInv'
<1>1. /\ sock[s].phase = "open" /\ state = "WaitHandAck" /\ pc = "loop" /\ Disconnect
      /\ faults' \in 0 .. MaxFaults
      /\ UNCHANGED <<app, state, db, asked>>
  BY DataServerAssumption DEF Refused, Verifies, Running, IInv, TypeOK
<1>2. CASE session = NoSock
  <2>1. UNCHANGED <<session, sock, hist>>
    BY <1>1, <1>2 DEF Disconnect
  <2>2. TypeOK'
    BY <1>1, <2>1 DEF IInv, TypeOK, app, Up
  <2> QED BY <1>1, <2>1, <2>2, QuietKeeps DEF IInv, Stands, app, Up
<1>3. CASE session # NoSock
  <2>1. /\ session \in Sockets /\ session' = NoSock /\ sock' = Closed(sock, session)
        /\ hist' = [hist EXCEPT !.refused = IF svr = "INIT" THEN hist.refused + 1 ELSE hist.refused]
    BY <1>1, <1>3 DEF Disconnect, IInv, TypeOK
  <2>2. /\ hist' \in HistRec /\ hist'.doubled = hist.doubled
        /\ hist'.refused = IF svr = "INIT" THEN hist.refused + 1 ELSE hist.refused
    BY <2>1 DEF IInv, TypeOK, HistRec
  <2>3. /\ sock' \in [Sockets -> SockRec] /\ Pending(sock') = Pending(sock)
        /\ \A u \in Sockets : /\ sock'[u].phase = sock[u].phase
                              /\ sock'[u].word = "CONNECT" <=> sock[u].word = "CONNECT"
        /\ sock[session].word # "CONNECT" => sock'[session].word = "TERMINATE"
    BY <2>1, ClosedIs DEF IInv, TypeOK
  <2>4. TypeOK'
    BY <1>1, <2>1, <2>2, <2>3 DEF IInv, TypeOK, app, Up
  <2>5. Stands' /\ Stages'
    BY <1>1, <2>3 DEF IInv, Stands, Stages, app
  <2>6. Paid'
    <3>1. Cardinality(Pending(sock)) \in Nat
      BY FS_CardinalityType DEF IInv, Paid
    <3> QED BY <1>1, <2>2, <2>3, <3>1 DEF IInv, Paid, OrphansCounted, app, TypeOK, HistRec
  <2>7. InStep'
    <3> SUFFICES ASSUME ~ hist.doubled
                 PROVE  /\ Cardinality(Pending(sock)) <= 1
                        /\ \A u \in Pending(sock) : sock'[u].word = "TERMINATE"
                        /\ \E u \in Pending(sock) : sock'[u].phase = "open"
      BY <2>1, <2>2, <2>3, <1>1 DEF InStep
    <3>1. Pending(sock) = {session} /\ sock[session].phase = "open"
      BY <1>1, <1>3 DEF IInv, InStep, Running, Up
    <3>2. Cardinality(Pending(sock)) = 1
      BY <3>1, FS_Singleton
    <3> QED BY <2>1, <2>3, <3>1, <3>2 DEF IInv, Stands
  <2>8. NoDanglingSession'
    BY <2>1 DEF NoDanglingSession
  <2> QED BY <2>4, <2>5, <2>6, <2>7, <2>8 DEF IInv
<1> QED BY <1>2, <1>3

LEMMA PostType ==
  ASSUME NEW t \in DbThreads, db \in DbRec
  PROVE  /\ Post(t) => db' \in DbRec
         /\ Result(t) => db' \in DbRec
<1>1. /\ db.posted[t] \in Nat /\ db.late[t] \in Nat
      /\ \A n \in Nat : /\ [db EXCEPT !.posted[t] = n] \in DbRec
                         /\ [db EXCEPT !.late[t] = n] \in DbRec
  BY DEF DbRec
<1>2. /\ db.posted[t] + 1 \in Nat /\ db.late[t] + 1 \in Nat
      /\ db.posted[t] > 0 => db.posted[t] - 1 \in Nat
  BY <1>1
<1> QED BY <1>1, <1>2 DEF Post, Result

LEMMA RequestKeeps == ASSUME IInv, NEW s \in Sockets, Request(s) PROVE IInv'
<1>1. db' \in DbRec /\ asked' \in 0 .. MaxRequests
  BY PostType, DataServerAssumption DEF Request, PostRefused, IInv, TypeOK
<1>2. pc = "loop" /\ UNCHANGED <<app, session, state, sock, faults, hist>>
  BY DEF Request, Running
<1>3. TypeOK'
  BY <1>1, <1>2 DEF IInv, TypeOK, Up, app
<1> QED BY <1>2, <1>3, QuietKeeps DEF IInv, Stands, Up, app

LEMMA ResultKeeps == ASSUME IInv, NEW t \in DbThreads, Result(t) PROVE IInv'
<1>1. db' \in DbRec
  BY PostType DEF IInv, TypeOK
<1>2. pc = "loop" /\ UNCHANGED <<app, session, state, sock, bounds, hist>>
  BY DEF Result, Running
<1>3. TypeOK'
  BY <1>1, <1>2 DEF IInv, TypeOK, Up, app, bounds
<1> QED BY <1>2, <1>3, QuietKeeps DEF IInv, Stands, Up, app

-----------------------------------------------------------------------------
(***************************************************************************)
(* The application shell and the database.                                 *)
(***************************************************************************)
LEMMA InitConnectKeeps == ASSUME IInv, InitConnect PROVE IInv'
<1>1. /\ Running /\ svr = "INIT" /\ session = NoSock /\ ReConnect(sock)
      /\ UNCHANGED <<app, state, db, bounds>>
  BY DEF InitConnect, OnState
<1>2. IsFiniteSet(Pending(sock)) /\ Cardinality(Pending(sock)) <= hist.refused
  BY <1>1 DEF IInv, Paid
<1>3. ~ hist.doubled => /\ Cardinality(Pending(sock)) <= 1
                        /\ \A s \in Pending(sock) : sock[s].word = "TERMINATE"
                        /\ state # "Init" => \E s \in Pending(sock) : sock[s].phase = "open"
  BY <1>1 DEF IInv, InStep, Up, Running
<1>4. sock \in [Sockets -> SockRec] /\ state' \in {"Init", "Establish", "WaitHandAck", "Work"}
      /\ faults' \in 0 .. MaxFaults /\ asked' \in 0 .. MaxRequests /\ UNCHANGED <<app, db>>
  BY <1>1 DEF IInv, TypeOK, bounds
<1> QED BY <1>1, <1>2, <1>3, <1>4, Reconnects DEF IInv, Stands

LEMMA ServerKeeps == ASSUME IInv, Server \/ ConsoleStop, ~ InitConnect PROVE IInv'
<1> USE DEF IInv
<1>1. CASE Initialize
  <2>1. TypeOK'
    BY <1>1 DEF Initialize, TypeOK, Stop, Up, bounds
  <2> QED BY <1>1, <2>1, QuietKeeps DEF Initialize, Stages, Stands, Up, bounds
<1>2. CASE InitDone
  <2>1. TypeOK'
    BY <1>2 DEF InitDone, TypeOK, OnState, Running, Up, bounds
  <2> QED BY <1>2, <2>1, QuietKeeps DEF InitDone, OnState, Running, Stands, Up, bounds
<1>3. CASE CheckStop
  <2>1. TypeOK'
    BY <1>3 DEF CheckStop, TypeOK, Up, bounds
  <2> QED BY <1>3, <2>1, QuietKeeps DEF CheckStop, Running, Stands, Up, bounds
<1>4. CASE TryStop
  <2>1. /\ db' \in DbRec /\ svr' \in {svr, "STOP"} /\ pc' \in {"loop", "join"}
        /\ pc' = "join" => svr' = svr
    BY <1>4 DEF TryStop, CompleteRun, OnState, Running, TypeOK, DbRec
  <2>2. /\ pc = "loop" /\ svr = "UNINIT"
        /\ UNCHANGED <<stop, caller, session, state, sock, bounds, hist>>
    BY <1>4 DEF TryStop, OnState, Running
  <2>3. TypeOK'
    BY <2>1, <2>2 DEF TypeOK, Up, bounds
  <2> QED BY <2>1, <2>2, <2>3, QuietKeeps DEF Stands, Up
<1>5. CASE Joined
  <2>1. /\ svr' \in {svr, "STOP"} /\ pc = "join" /\ pc' = "loop"
        /\ UNCHANGED <<stop, caller, session, state, sock, db, bounds, hist>>
    BY <1>5 DEF Joined, CompleteRun
  <2>2. TypeOK'
    BY <2>1 DEF Stages, TypeOK, Up, bounds
  <2> QED BY <2>1, <2>2, QuietKeeps DEF Stages, Stands, Up
<1>6. CASE LeaveLoop
  <2>1. TypeOK'
    BY <1>6 DEF LeaveLoop, TypeOK, Up, bounds
  <2> QED BY <1>6, <2>1, QuietKeeps DEF LeaveLoop, Running, Stands, Up, bounds
<1>7. CASE ConsoleStop
  <2>1. TypeOK'
    BY <1>7 DEF ConsoleStop, Stop, TypeOK, Up, bounds
  <2>2. pc = "init" => pc' = "init"
    BY <1>7 DEF ConsoleStop
  <2> QED BY <1>7, <2>1 DEF ConsoleStop, Stands, Stages, Paid, OrphansCounted, InStep,
             NoDanglingSession, Up
<1>8. CASE Uninitialized
  <2>1. db' \in DbRec
    BY <1>8 DEF Uninitialized, TypeOK, DbRec
  <2>2. sock' = [s \in Sockets |-> Free] /\ pc' = "over" /\ UNCHANGED <<svr, stop, session, state, bounds, hist>>
    BY <1>8 DEF Uninitialized
  <2>3. TypeOK'
    BY <1>8, <2>1, SockType DEF Uninitialized, TypeOK, Up, bounds
  <2>4. Pending(sock') = {}
    BY <2>2 DEF Pending, Free
  <2>5. IsFiniteSet(Pending(sock')) /\ Cardinality(Pending(sock')) = 0
    BY <2>4, FS_EmptySet
  <2>6. Stands'
    BY <2>2 DEF Stands, Free
  <2> QED BY <2>2, <2>3, <2>5, <2>6 DEF Stages, Paid, OrphansCounted, InStep,
             NoDanglingSession, Up, TypeOK, HistRec
<1> QED BY <1>1, <1>2, <1>3, <1>4, <1>5, <1>6, <1>7, <1>8 DEF Server

LEMMA Invariance == IInv /\ [Next]_vars => IInv'
<1> SUFFICES ASSUME IInv, [Next]_vars PROVE IInv'
  OBVIOUS
<1>1. CASE Next
  BY <1>1, EstablishKeeps, TerminateKeeps, FreeSocketKeeps, ConnectedKeeps, HandRetKeeps,
     ConnectFailKeeps, BrokenKeeps, RefusedKeeps, RequestKeeps, ResultKeeps, InitConnectKeeps,
     ServerKeeps DEF Next, Callbacks
<1>2. CASE UNCHANGED vars
  BY <1>2 DEF vars, app, bounds, IInv, TypeOK, Stands, Stages, Paid, OrphansCounted, InStep,
              NoDanglingSession, Up
<1> QED BY <1>1, <1>2

LEMMA Invariant == Spec => []IInv
BY Initially, Invariance, PTL DEF Spec

(* For any number of slots, faults and requests: the states, the session   *)
(* and the sockets of the data server stay in their ranges, no counter     *)
(* falls below zero, and m_async_caller is there whenever OnState has work *)
(* to do.                                                                  *)
THEOREM TypeCorrect == Spec => []TypeOK
BY Invariant, PTL DEF IInv

(* m_session never points to a socket that has told its end or was freed,  *)
(* however many sockets call the one WorldServer.                          *)
THEOREM SessionAlive == Spec => []NoDanglingSession
BY Invariant, PTL DEF IInv

(* m_session of the WorldServer is the one socket that can still call it   *)
(* back, or the one left is ending, and m_state speaks of a connection     *)
(* that stands, for as long as CDataServerApp has not connected twice:     *)
(* through every order of ends, failed connects, refusals and stops.       *)
THEOREM SessionInStep == Spec => []InStep
BY Invariant, PTL DEF IInv

(* There is at most one connection more than refused handshakes: neither   *)
(* OnTerminate nor OnConnectFailed ever adds one, only the timer of INIT.  *)
THEOREM OrphansBounded == Spec => []OrphansCounted
BY Invariant, PTL DEF IInv, Paid
=============================================================================
