---------------------------- MODULE AgentProofs ----------------------------
(***************************************************************************)
(* No callback reaches a deleted agent, no session keeps a dead socket,    *)
(* and what a session was given leaves in order, for every size of the     *)
(* rings, the packets and the caches.                                      *)
(* NoDanglingPointer is not inductive: that a deleted agent has no socket  *)
(* left follows from what m_front_state and m_back_state say of the        *)
(* sockets (Known), which is the heart of the argument: the states are set *)
(* by the callbacks, and CheckTerminate trusts them.                       *)
(* InOrder is not inductive either: it rests on what the sessions hold     *)
(* before the connection stands (Early, Blank), and on the one case in     *)
(* which units come without a handshake (Sent, with left).                 *)
(***************************************************************************)
EXTENDS Agent, SequenceTheorems, TLAPS

(* the fields of the sockets and the sessions, without their types         *)
NetAs(n) == [e \in Ends |-> [phase |-> n[e].phase, up |-> n[e].up, ring |-> n[e].ring]]
SessAs(s) == [e \in Ends |-> [handle |-> s[e].handle, cache |-> s[e].cache,
                              check |-> s[e].check, fed |-> s[e].fed]]

Shape == /\ net = NetAs(net) /\ sess = SessAs(sess)
         /\ state = [e \in Ends |-> state[e]]

(* what the states of the agent say of its sockets                         *)
KnownFront ==
  /\ state["front"] = "NONE" => net["front"].phase = "none"
  /\ state["front"] = "TERMINATE" => net["front"].phase = "over"
  /\ state["front"] \in {"NONE", "ESTABLISH", "TERMINATE"}

KnownBack ==
  /\ state["back"] \in {"NONE", "WAIT_CONNECT", "WAIT_CHECK"} => net["back"].phase = "none"
  /\ state["back"] = "TERMINATE" => net["back"].phase \in {"none", "over"}
  /\ net["back"].phase = "opening" <=> state["back"] = "CONNECT"

(* the life of the agent                                                   *)
Life ==
  /\ agent \in {"none", "live", "deleted"}
  /\ agent = "none" => state["front"] = "NONE" /\ state["back"] = "NONE" /\ ~ending
  /\ agent = "deleted" => AllTerminated /\ ~ending

Held == \A e \in Ends : sess[e].handle => Alive(e)

IInv == Shape /\ KnownFront /\ KnownBack /\ Life /\ Held

-----------------------------------------------------------------------------
(* sockets and sessions given field by field                               *)
NetWith(p, u, r) == [e \in Ends |-> [phase |-> p[e], up |-> u[e], ring |-> r[e]]]
Phases == [e \in Ends |-> net[e].phase]
Ups == [e \in Ends |-> net[e].up]
Rings == [e \in Ends |-> net[e].ring]
Put(f, e, v) == [d \in Ends |-> IF d = e THEN v ELSE f[d]]

SessWith(h, c, k, n) ==
  [e \in Ends |-> [handle |-> h[e], cache |-> c[e], check |-> k[e], fed |-> n[e]]]
Handles == [e \in Ends |-> sess[e].handle]
Caches == [e \in Ends |-> sess[e].cache]
Checks == [e \in Ends |-> sess[e].check]
Feds == [e \in Ends |-> sess[e].fed]

LEMMA NetFields ==
  ASSUME NEW p, NEW u, NEW r
  PROVE  /\ NetWith(p, u, r) = NetAs(NetWith(p, u, r))
         /\ \A e \in Ends : NetWith(p, u, r)[e].phase = p[e]
         /\ \A e \in Ends : NetWith(p, u, r)[e].up = u[e]
BY DEF NetWith, NetAs

LEMMA SessFields ==
  ASSUME NEW h, NEW c, NEW k, NEW n
  PROVE  /\ SessWith(h, c, k, n) = SessAs(SessWith(h, c, k, n))
         /\ \A e \in Ends : SessWith(h, c, k, n)[e].handle = h[e]
BY DEF SessWith, SessAs

LEMMA OneUp ==
  ASSUME net = NetAs(net), NEW e \in Ends, NEW b
  PROVE  [net[e] EXCEPT !.up = b] = [phase |-> net[e].phase, up |-> b, ring |-> net[e].ring]
<1> DEFINE r == [phase |-> net[e].phase, up |-> net[e].up, ring |-> net[e].ring]
<1>1. net[e] = r
  BY DEF NetAs
<1>2. [r EXCEPT !.up = b] = [phase |-> net[e].phase, up |-> b, ring |-> net[e].ring]
  OBVIOUS
<1>3. QED
  BY <1>1, <1>2

LEMMA OneHandle ==
  ASSUME sess = SessAs(sess), NEW e \in Ends, NEW b
  PROVE  [sess[e] EXCEPT !.handle = b] =
           [handle |-> b, cache |-> sess[e].cache, check |-> sess[e].check, fed |-> sess[e].fed]
<1> DEFINE r == [handle |-> sess[e].handle, cache |-> sess[e].cache,
                 check |-> sess[e].check, fed |-> sess[e].fed]
<1>1. sess[e] = r
  BY DEF SessAs
<1>2. [r EXCEPT !.handle = b] =
        [handle |-> b, cache |-> sess[e].cache, check |-> sess[e].check, fed |-> sess[e].fed]
  OBVIOUS
<1>3. QED
  BY <1>1, <1>2

LEMMA OneCheck ==
  ASSUME sess = SessAs(sess), NEW e \in Ends, NEW b
  PROVE  [sess[e] EXCEPT !.check = b] =
           [handle |-> sess[e].handle, cache |-> sess[e].cache, check |-> b, fed |-> sess[e].fed]
<1> DEFINE r == [handle |-> sess[e].handle, cache |-> sess[e].cache,
                 check |-> sess[e].check, fed |-> sess[e].fed]
<1>1. sess[e] = r
  BY DEF SessAs
<1>2. [r EXCEPT !.check = b] =
        [handle |-> sess[e].handle, cache |-> sess[e].cache, check |-> b, fed |-> sess[e].fed]
  OBVIOUS
<1>3. QED
  BY <1>1, <1>2

LEMMA RingChanges ==
  ASSUME net = NetAs(net), NEW e \in Ends, NEW v
  PROVE  [net EXCEPT ![e].ring = v] = NetWith(Phases, Ups, Put(Rings, e, v))
BY DEF NetAs, NetWith, Phases, Ups, Rings, Put

(* the sockets and the sessions keep their shape, no socket changes its    *)
(* phase and no session gets a socket                                      *)
NetQuiet == net' = NetAs(net') /\ \A e \in Ends : net'[e].phase = net[e].phase
SessQuiet == /\ sess' = SessAs(sess')
             /\ \A e \in Ends : sess'[e].handle => sess[e].handle

LEMMA NetSendQuiet ==
  ASSUME Shape, NEW e \in Ends, NEW u, net' = NetSend(e, u)
  PROVE  NetQuiet
<1>1. net = NetAs(net)
  BY DEF Shape
<1>2. CASE net[e].up
  <2>1. net' = [net EXCEPT ![e].ring = net[e].ring \o u]
    BY <1>2 DEF NetSend
  <2>2. net' = NetWith(Phases, Ups, Put(Rings, e, net[e].ring \o u))
    BY <1>1, <2>1, RingChanges
  <2>3. net' = NetAs(net') /\ \A d \in Ends : net'[d].phase = Phases[d]
    BY <2>2, NetFields
  <2>4. QED
    BY <2>3 DEF NetQuiet, Phases
<1>3. CASE ~net[e].up
  BY <1>1, <1>3 DEF NetSend, NetQuiet
<1>4. QED
  BY <1>2, <1>3

LEMMA CacheQuiet ==
  ASSUME Shape, NEW e \in Ends, NEW c, NEW n, NEW k,
         \/ sess' = [sess EXCEPT ![e].cache = c, ![e].fed = n, ![e].check = k]
         \/ sess' = [sess EXCEPT ![e].cache = c, ![e].check = k]
         \/ sess' = [sess EXCEPT ![e].cache = c, ![e].fed = n]
  PROVE  SessQuiet
<1>1. sess = SessAs(sess)
  BY DEF Shape
<1>2. QED
  BY <1>1 DEF SessQuiet, SessAs

LEMMA DisconnectQuiet ==
  ASSUME Shape, NEW E, Disconnect(E)
  PROVE  NetQuiet /\ SessQuiet
<1> DEFINE ups == [e \in Ends |-> IF e \in E /\ sess[e].handle THEN FALSE ELSE net[e].up]
<1> DEFINE handles == [e \in Ends |-> IF e \in E THEN FALSE ELSE sess[e].handle]
<1>1. net = NetAs(net) /\ sess = SessAs(sess)
  BY DEF Shape
<1>2. NetQuiet
  <2>1. \A e \in Ends : Closed(E, net)[e] =
          [phase |-> net[e].phase, up |-> ups[e], ring |-> net[e].ring]
    <3> SUFFICES ASSUME NEW e \in Ends
                 PROVE  Closed(E, net)[e] =
                          [phase |-> net[e].phase, up |-> ups[e], ring |-> net[e].ring]
      OBVIOUS
    <3>1. CASE e \in E /\ sess[e].handle
      <4>1. Closed(E, net)[e] = [net[e] EXCEPT !.up = FALSE]
        BY <3>1 DEF Closed
      <4>2. ups[e] = FALSE
        BY <3>1
      <4>3. QED
        BY <1>1, <4>1, <4>2, OneUp
    <3>2. CASE ~(e \in E /\ sess[e].handle)
      <4>1. Closed(E, net)[e] = net[e] /\ ups[e] = net[e].up
        BY <3>2 DEF Closed
      <4>2. QED
        BY <1>1, <4>1 DEF NetAs
    <3>3. QED
      BY <3>1, <3>2
  <2>2. net' = NetWith(Phases, ups, Rings)
    BY <2>1 DEF Disconnect, Closed, NetWith, Phases, Rings
  <2> HIDE DEF ups, handles
  <2>3. net' = NetAs(net') /\ \A d \in Ends : net'[d].phase = Phases[d]
    BY <2>2, NetFields
  <2>4. QED
    BY <2>3 DEF NetQuiet, Phases
<1>3. SessQuiet
  <2>1. \A e \in Ends : Dropped(E, sess)[e] =
          [handle |-> handles[e], cache |-> sess[e].cache,
           check |-> sess[e].check, fed |-> sess[e].fed]
    <3> SUFFICES ASSUME NEW e \in Ends
                 PROVE  Dropped(E, sess)[e] =
                          [handle |-> handles[e], cache |-> sess[e].cache,
                           check |-> sess[e].check, fed |-> sess[e].fed]
      OBVIOUS
    <3>1. CASE e \in E
      <4>1. Dropped(E, sess)[e] = [sess[e] EXCEPT !.handle = FALSE]
        BY <3>1 DEF Dropped
      <4>2. handles[e] = FALSE
        BY <3>1
      <4>3. QED
        BY <1>1, <4>1, <4>2, OneHandle
    <3>2. CASE e \notin E
      <4>1. Dropped(E, sess)[e] = sess[e] /\ handles[e] = sess[e].handle
        BY <3>2 DEF Dropped
      <4>2. QED
        BY <1>1, <4>1 DEF SessAs
    <3>3. QED
      BY <3>1, <3>2
  <2>2. sess' = SessWith(handles, Caches, Checks, Feds)
    BY <2>1 DEF Disconnect, Dropped, SessWith, Caches, Checks, Feds
  <2>0. \A d \in Ends : handles[d] => sess[d].handle
    OBVIOUS
  <2> HIDE DEF ups, handles
  <2>3. sess' = SessAs(sess') /\ \A d \in Ends : sess'[d].handle = handles[d]
    BY <2>2, SessFields
  <2>4. QED
    BY <2>0, <2>3 DEF SessQuiet
<1>4. QED
  BY <1>2, <1>3

LEMMA SendQuiet ==
  ASSUME Shape, NEW e \in Ends, SendRawData(e)
  PROVE  NetQuiet /\ SessQuiet
<1>1. CASE sess[e].handle
  <2>1. PICK u : net' = NetSend(e, u)
    BY <1>1 DEF SendRawData
  <2>2. PICK c, n : sess' = Keep(e, c, n)
    BY <1>1 DEF SendRawData
  <2>3. sess' = [sess EXCEPT ![e].cache = c, ![e].fed = n,
                             ![e].check = sess[e].check \/ c # <<>>]
    BY <2>2 DEF Keep
  <2>4. QED
    BY <2>1, <2>3, NetSendQuiet, CacheQuiet
<1>2. CASE ~sess[e].handle
  BY <1>2 DEF SendRawData, Shape, NetQuiet, SessQuiet
<1>3. QED
  BY <1>1, <1>2

WithPhase(n, e, v) == [n EXCEPT ![e].phase = v]
WithUp(n, e, v) == [n EXCEPT ![e].up = v]
WithRing(n, e, v) == [n EXCEPT ![e].ring = v]
WithHandle(s, e, v) == [s EXCEPT ![e].handle = v]
WithFed(s, e, v) == [s EXCEPT ![e].fed = v]

LEMMA ChangePhase ==
  ASSUME NEW n, n = NetAs(n), NEW e \in Ends, NEW v
  PROVE  /\ WithPhase(n, e, v) = NetAs(WithPhase(n, e, v))
         /\ \A d \in Ends : WithPhase(n, e, v)[d].phase = IF d = e THEN v ELSE n[d].phase
BY DEF NetAs, WithPhase

LEMMA ChangeUp ==
  ASSUME NEW n, n = NetAs(n), NEW e \in Ends, NEW v
  PROVE  /\ WithUp(n, e, v) = NetAs(WithUp(n, e, v))
         /\ \A d \in Ends : WithUp(n, e, v)[d].phase = n[d].phase
BY DEF NetAs, WithUp

LEMMA ChangeRing ==
  ASSUME NEW n, n = NetAs(n), NEW e \in Ends, NEW v
  PROVE  /\ WithRing(n, e, v) = NetAs(WithRing(n, e, v))
         /\ \A d \in Ends : WithRing(n, e, v)[d].phase = n[d].phase
BY DEF NetAs, WithRing

LEMMA ChangeHandle ==
  ASSUME NEW s, s = SessAs(s), NEW e \in Ends, NEW v
  PROVE  LET m == WithHandle(s, e, v)
         IN /\ m = SessAs(m)
            /\ m[e].handle = v
            /\ \A d \in Ends : d # e => m[d].handle = s[d].handle
BY DEF SessAs, WithHandle

LEMMA DropHandle ==
  ASSUME NEW s, s = SessAs(s), NEW e \in Ends
  PROVE  LET m == WithHandle(s, e, FALSE)
         IN m = SessAs(m) /\ \A d \in Ends : m[d].handle => d # e /\ s[d].handle
<1>1. \A v : LET m == WithHandle(s, e, v)
             IN /\ m = SessAs(m)
                /\ m[e].handle = v
                /\ \A d \in Ends : d # e => m[d].handle = s[d].handle
  BY ChangeHandle
<1>2. QED
  BY <1>1, Zenon

LEMMA TakeHandle ==
  ASSUME NEW s, s = SessAs(s), NEW e \in Ends
  PROVE  LET m == WithHandle(s, e, TRUE)
         IN m = SessAs(m) /\ \A d \in Ends : m[d].handle => d = e \/ s[d].handle
<1>1. \A v : LET m == WithHandle(s, e, v)
             IN /\ m = SessAs(m)
                /\ \A d \in Ends : d # e => m[d].handle = s[d].handle
  BY ChangeHandle
<1>2. QED
  BY <1>1, Zenon

LEMMA ChangeFed ==
  ASSUME NEW s, s = SessAs(s), NEW e \in Ends, NEW v
  PROVE  /\ WithFed(s, e, v) = SessAs(WithFed(s, e, v))
         /\ \A d \in Ends : WithFed(s, e, v)[d].handle = s[d].handle
BY DEF SessAs, WithFed

LEMMA ChangeState ==
  ASSUME NEW s, s = [e \in Ends |-> s[e]], NEW e \in Ends, NEW v
  PROVE  LET m == [s EXCEPT ![e] = v]
         IN m = [d \in Ends |-> m[d]] /\ \A d \in Ends : m[d] = IF d = e THEN v ELSE s[d]
OBVIOUS

-----------------------------------------------------------------------------
(* steps that open or end no connection keep the invariant                 *)
LEMMA QuietStep ==
  ASSUME IInv, NetQuiet, SessQuiet, UNCHANGED <<agent, state, ending>>
  PROVE  IInv'
<1>1. Shape'
  BY DEF IInv, Shape, NetQuiet, SessQuiet, NetAs, SessAs
<1>2. KnownFront' /\ KnownBack'
  BY DEF IInv, KnownFront, KnownBack, NetQuiet, Ends
<1>3. Life'
  BY DEF IInv, Life, AllTerminated
<1>4. Held'
  BY DEF IInv, Held, Alive, NetQuiet, SessQuiet
<1>5. QED
  BY <1>1, <1>2, <1>3, <1>4 DEF IInv

(* and so do those that move on m_back_state only, as the handshakes do    *)
Handshaking(v) ==
  \/ state["back"] \in {"WAIT_CONNECT", "WAIT_CHECK"} /\ v \in {"WAIT_CHECK", "TERMINATE"}
  \/ state["back"] = "ESTABLISH" /\ v = "WORK"

LEMMA QuietBackStep ==
  ASSUME IInv, NetQuiet, SessQuiet, UNCHANGED <<agent, ending>>,
         NEW v, Handshaking(v), state' = [state EXCEPT !["back"] = v]
  PROVE  IInv'
<1>1. state' = [d \in Ends |-> state'[d]] /\ state'["back"] = v
      /\ state'["front"] = state["front"]
  BY ChangeState DEF IInv, Shape, Ends
<1>2. Shape'
  BY <1>1 DEF IInv, Shape, NetQuiet, SessQuiet, NetAs, SessAs
<1>3. KnownFront'
  BY <1>1 DEF IInv, KnownFront, NetQuiet, Ends
<1>4. net'["back"].phase = net["back"].phase
  BY DEF NetQuiet, Ends
<1>5. KnownBack'
  BY <1>1, <1>4 DEF IInv, KnownBack, Handshaking
<1>6. state["back"] \notin {"NONE", "TERMINATE"}
  BY DEF Handshaking
<1>7. agent = "live"
  BY <1>6 DEF IInv, Life, AllTerminated, Ends
<1>8. Life'
  BY <1>7 DEF Life
<1>9. Held'
  BY DEF IInv, Held, Alive, NetQuiet, SessQuiet
<1>10. QED
  BY <1>2, <1>3, <1>5, <1>8, <1>9 DEF IInv

(* an end whose connection opens or ends                                   *)
LEMMA TerminatedShape ==
  ASSUME Shape, NEW e \in Ends, Terminated(e)
  PROVE  /\ net' = NetAs(net') /\ sess' = SessAs(sess')
         /\ \A d \in Ends : net'[d].phase = IF d = e THEN "over" ELSE net[d].phase
         /\ \A d \in Ends : sess'[d].handle => d # e /\ sess[d].handle
<1> DEFINE n == WithPhase(net, e, "over")
<1>1. net = NetAs(net) /\ sess = SessAs(sess)
  BY DEF Shape
<1>2. n = NetAs(n) /\ \A d \in Ends : n[d].phase = IF d = e THEN "over" ELSE net[d].phase
  BY <1>1, ChangePhase
<1>3. net' = WithRing(n, e, <<>>) /\ sess' = WithHandle(sess, e, FALSE)
  BY DEF Terminated, WithPhase, WithRing, WithHandle
<1>4. sess' = SessAs(sess')
      /\ \A d \in Ends : sess'[d].handle => d # e /\ sess[d].handle
  BY <1>1, <1>3, DropHandle
<1> HIDE DEF n
<1>5. net' = NetAs(net') /\ \A d \in Ends : net'[d].phase = n[d].phase
  BY <1>2, <1>3, ChangeRing
<1>6. QED
  BY <1>2, <1>4, <1>5

LEMMA FrontEstablishStep ==
  ASSUME IInv, FrontEstablish
  PROVE  IInv'
<1> DEFINE n == WithPhase(net, "front", "open")
           s == WithHandle(sess, "front", TRUE)
           t == [state EXCEPT !["front"] = "ESTABLISH"]
<1>1. net = NetAs(net) /\ sess = SessAs(sess) /\ state = [d \in Ends |-> state[d]]
  BY DEF IInv, Shape
<1>2. "front" \in Ends /\ "back" \in Ends
  BY DEF Ends
<1>3. n = NetAs(n) /\ \A d \in Ends : n[d].phase = IF d = "front" THEN "open" ELSE net[d].phase
  BY <1>1, <1>2, ChangePhase
<1>4. s = SessAs(s) /\ \A d \in Ends : s[d].handle => d = "front" \/ sess[d].handle
  BY <1>1, <1>2, TakeHandle
<1>5. t = [d \in Ends |-> t[d]] /\ t["front"] = "ESTABLISH"
  BY <1>1, <1>2, ChangeState
<1>6. PICK up : net' = WithUp(n, "front", up)
  BY DEF FrontEstablish, WithPhase, WithUp
<1>7. sess' = WithFed(s, "back", 1) /\ state' = [t EXCEPT !["back"] = "WAIT_CONNECT"]
  BY DEF FrontEstablish, WithHandle, WithFed
<1> HIDE DEF n, s, t
<1>8. net' = NetAs(net') /\ \A d \in Ends : net'[d].phase = n[d].phase
  BY <1>2, <1>3, <1>6, ChangeUp
<1>9. sess' = SessAs(sess') /\ \A d \in Ends : sess'[d].handle = s[d].handle
  BY <1>2, <1>4, <1>7, ChangeFed
<1>10. state' = [d \in Ends |-> state'[d]]
       /\ state'["back"] = "WAIT_CONNECT" /\ state'["front"] = "ESTABLISH"
  BY <1>2, <1>5, <1>7, ChangeState
<1>11. net'["front"].phase = "open" /\ net'["back"].phase = "none"
  <2>1. net["back"].phase = "none"
    BY DEF IInv, FrontEstablish, Life, KnownBack
  <2>2. QED
    BY <1>2, <1>3, <1>8, <2>1
<1>12. Shape'
  BY <1>8, <1>9, <1>10 DEF Shape, NetAs, SessAs
<1>13. KnownFront' /\ KnownBack'
  BY <1>10, <1>11 DEF KnownFront, KnownBack
<1>14. Life'
  BY DEF FrontEstablish, Life
<1>15. ~sess'["back"].handle
  <2>1. net["back"].phase = "none"
    BY DEF IInv, FrontEstablish, Life, KnownBack
  <2>2. ~sess["back"].handle
    BY <1>2, <2>1 DEF IInv, Held, Alive
  <2>3. QED
    BY <1>2, <1>4, <1>9, <2>2
<1>16. Held'
  BY <1>11, <1>15 DEF Held, Alive, Ends
<1>17. QED
  BY <1>12, <1>13, <1>14, <1>16 DEF IInv

LEMMA FrontTerminateStep ==
  ASSUME IInv, FrontTerminate
  PROVE  IInv'
<1> DEFINE t == [state EXCEPT !["front"] = "TERMINATE"]
           v == IF state["back"] \in {"WAIT_CONNECT", "WAIT_CHECK"}
                  THEN "TERMINATE" ELSE state["back"]
<1>1. Shape /\ "front" \in Ends /\ "back" \in Ends /\ state = [d \in Ends |-> state[d]]
  BY DEF IInv, Shape, Ends
<1>2. /\ net' = NetAs(net') /\ sess' = SessAs(sess')
      /\ \A d \in Ends : net'[d].phase = IF d = "front" THEN "over" ELSE net[d].phase
      /\ \A d \in Ends : sess'[d].handle => d # "front" /\ sess[d].handle
  BY <1>1, TerminatedShape DEF FrontTerminate
<1>3. t = [d \in Ends |-> t[d]] /\ t["front"] = "TERMINATE" /\ t["back"] = state["back"]
  BY <1>1, ChangeState
<1>4. state' = [t EXCEPT !["back"] = v]
  BY <1>3 DEF FrontTerminate
<1> HIDE DEF t, v
<1>5. state' = [d \in Ends |-> state'[d]] /\ state'["front"] = "TERMINATE" /\ state'["back"] = v
  BY <1>1, <1>3, <1>4, ChangeState
<1>6. net'["front"].phase = "over" /\ net'["back"].phase = net["back"].phase
  BY <1>1, <1>2
<1>7. Shape'
  BY <1>2, <1>5 DEF Shape, NetAs, SessAs
<1>8. KnownFront'
  BY <1>5, <1>6 DEF KnownFront
<1>9. KnownBack'
  <2>1. CASE state["back"] \in {"WAIT_CONNECT", "WAIT_CHECK"}
    BY <2>1, <1>5, <1>6 DEF v, IInv, KnownBack
  <2>2. CASE state["back"] \notin {"WAIT_CONNECT", "WAIT_CHECK"}
    BY <2>2, <1>5, <1>6 DEF v, IInv, KnownBack
  <2>3. QED
    BY <2>1, <2>2
<1>10. Life'
  <2>1. agent = "live"
    <3>1. net["front"].phase = "open"
      BY DEF FrontTerminate
    <3>2. state["front"] = "ESTABLISH"
      BY <3>1 DEF IInv, KnownFront
    <3>3. QED
      BY <1>1, <3>2 DEF IInv, Life, AllTerminated
  <2>2. QED
    BY <2>1 DEF FrontTerminate, Life
<1>11. Held'
  <2>1. \A d \in Ends : sess'[d].handle => net'[d].phase = net[d].phase /\ sess[d].handle
    BY <1>2
  <2>2. QED
    BY <2>1 DEF IInv, Held, Alive
<1>12. QED
  BY <1>7, <1>8, <1>9, <1>10, <1>11 DEF IInv

LEMMA ConnectBackStep ==
  ASSUME IInv, ConnectBack, UNCHANGED <<agent, ending>>,
         state["back"] \in {"WAIT_CONNECT", "WAIT_CHECK"}
  PROVE  IInv'
<1>1. /\ Shape /\ "front" \in Ends /\ "back" \in Ends /\ state = [d \in Ends |-> state[d]]
      /\ net = NetAs(net) /\ sess = SessAs(sess)
  BY DEF IInv, Shape, Ends
<1>2. /\ sess' = WithHandle(sess, "back", TRUE) /\ net' = WithPhase(net, "back", "opening")
      /\ state' = [state EXCEPT !["back"] = "CONNECT"]
  BY DEF ConnectBack, WithHandle, WithPhase
<1>3. net' = NetAs(net')
      /\ \A d \in Ends : net'[d].phase = IF d = "back" THEN "opening" ELSE net[d].phase
  BY <1>1, <1>2, ChangePhase
<1>4. sess' = SessAs(sess') /\ \A d \in Ends : sess'[d].handle => d = "back" \/ sess[d].handle
  BY <1>1, <1>2, TakeHandle
<1>5. state' = [d \in Ends |-> state'[d]] /\ state'["front"] = state["front"]
      /\ state'["back"] = "CONNECT"
  BY <1>1, <1>2, ChangeState
<1>6. net'["front"].phase = net["front"].phase /\ net'["back"].phase = "opening"
  BY <1>1, <1>3
<1>7. Shape'
  BY <1>3, <1>4, <1>5 DEF Shape, NetAs, SessAs
<1>8. KnownFront' /\ KnownBack'
  BY <1>5, <1>6 DEF IInv, KnownFront, KnownBack
<1>9. agent = "live"
  BY <1>1 DEF IInv, Life, AllTerminated
<1>10. Life'
  BY <1>9 DEF Life
<1>11. Held'
  <2>1. sess'["front"].handle => sess["front"].handle
    BY <1>1, <1>4
  <2>2. QED
    BY <1>6, <2>1 DEF IInv, Held, Alive, Ends
<1>12. QED
  BY <1>7, <1>8, <1>10, <1>11 DEF IInv

(* the connection to the server fails, or ends                             *)
LEMMA BackOver ==
  ASSUME IInv, Terminated("back"), net["back"].phase \in {"opening", "open"},
         state' = [state EXCEPT !["back"] = "TERMINATE"], UNCHANGED agent
  PROVE  IInv'
<1>1. Shape /\ "front" \in Ends /\ "back" \in Ends /\ state = [d \in Ends |-> state[d]]
  BY DEF IInv, Shape, Ends
<1>2. /\ net' = NetAs(net') /\ sess' = SessAs(sess')
      /\ \A d \in Ends : net'[d].phase = IF d = "back" THEN "over" ELSE net[d].phase
      /\ \A d \in Ends : sess'[d].handle => d # "back" /\ sess[d].handle
  BY <1>1, TerminatedShape
<1>3. state' = [d \in Ends |-> state'[d]] /\ state'["front"] = state["front"]
      /\ state'["back"] = "TERMINATE"
  BY <1>1, ChangeState
<1>4. net'["front"].phase = net["front"].phase /\ net'["back"].phase = "over"
  BY <1>1, <1>2
<1>5. Shape'
  BY <1>2, <1>3 DEF Shape, NetAs, SessAs
<1>6. KnownFront' /\ KnownBack'
  BY <1>3, <1>4 DEF IInv, KnownFront, KnownBack
<1>7. agent = "live"
  <2>1. state["back"] \notin {"NONE", "TERMINATE"}
    BY DEF IInv, KnownBack
  <2>2. QED
    BY <1>1, <2>1 DEF IInv, Life, AllTerminated
<1>8. Life'
  BY <1>7 DEF Life
<1>9. Held'
  <2>1. \A d \in Ends : sess'[d].handle => net'[d].phase = net[d].phase /\ sess[d].handle
    BY <1>2
  <2>2. QED
    BY <2>1 DEF IInv, Held, Alive
<1>10. QED
  BY <1>5, <1>6, <1>8, <1>9 DEF IInv

LEMMA BackEstablishStep ==
  ASSUME IInv, BackEstablish
  PROVE  IInv'
<1> DEFINE n == WithPhase(net, "back", "open")
<1>1. /\ "front" \in Ends /\ "back" \in Ends /\ state = [d \in Ends |-> state[d]]
      /\ Shape /\ net = NetAs(net)
  BY DEF IInv, Shape, Ends
<1>2. PICK up, r : net' = WithRing(WithUp(n, "back", up), "back", r)
  BY DEF BackEstablish, WithPhase, WithUp, WithRing
<1>3. PICK c, k : sess' = [sess EXCEPT !["back"].cache = c, !["back"].check = k]
  BY DEF BackEstablish
<1>4. n = NetAs(n) /\ \A d \in Ends : n[d].phase = IF d = "back" THEN "open" ELSE net[d].phase
  BY <1>1, ChangePhase
<1> HIDE DEF n
<1>5. net' = NetAs(net') /\ \A d \in Ends : net'[d].phase = n[d].phase
  <2> DEFINE m == WithUp(n, "back", up)
  <2>1. m = NetAs(m) /\ \A d \in Ends : m[d].phase = n[d].phase
    BY <1>1, <1>4, ChangeUp
  <2>2. net' = WithRing(m, "back", r)
    BY <1>2
  <2> HIDE DEF m
  <2>3. net' = NetAs(net') /\ \A d \in Ends : net'[d].phase = m[d].phase
    BY <1>1, <2>1, <2>2, ChangeRing
  <2>4. QED
    BY <2>1, <2>3
<1>6. SessQuiet
  BY <1>1, <1>3, CacheQuiet
<1>7. state' = [d \in Ends |-> state'[d]] /\ state'["front"] = state["front"]
      /\ state'["back"] = "ESTABLISH"
  BY <1>1, ChangeState DEF BackEstablish
<1>8. net'["front"].phase = net["front"].phase /\ net'["back"].phase = "open"
  BY <1>1, <1>4, <1>5
<1>9. Shape'
  BY <1>5, <1>6, <1>7 DEF Shape, SessQuiet, NetAs, SessAs
<1>10. KnownFront' /\ KnownBack'
  BY <1>7, <1>8 DEF IInv, KnownFront, KnownBack
<1>11. state["back"] = "CONNECT"
  BY DEF BackEstablish, IInv, KnownBack
<1>12. Life'
  BY <1>1, <1>11 DEF IInv, Life, AllTerminated, BackEstablish
<1>13. Held'
  <2>1. \A d \in Ends : sess'[d].handle => sess[d].handle
    BY <1>6 DEF SessQuiet
  <2>2. QED
    BY <1>8, <2>1 DEF IInv, Held, Alive, Ends
<1>14. QED
  BY <1>9, <1>10, <1>12, <1>13 DEF IInv

-----------------------------------------------------------------------------
(* the packets of the client                                               *)
LEMMA FrontSteppingStep ==
  ASSUME IInv, FrontSteps
  PROVE  IInv'
<1>1. /\ Shape /\ "front" \in Ends /\ "back" \in Ends
      /\ net = NetAs(net) /\ sess = SessAs(sess)
  BY DEF IInv, Shape, Ends
<1>2. UNCHANGED net => NetQuiet
  BY <1>1 DEF NetQuiet
<1>3. UNCHANGED sess => SessQuiet
  BY <1>1 DEF SessQuiet
<1>4. CacheSendRawData("back") => SessQuiet
  <2>1. ASSUME CacheSendRawData("back")
        PROVE  SessQuiet
    <3>1. PICK c, k : sess' = [sess EXCEPT !["back"].cache = c, !["back"].fed = k]
      BY <2>1 DEF CacheSendRawData
    <3>2. QED
      BY <1>1, <3>1, CacheQuiet
  <2>2. QED
    BY <2>1
<1>5. RefuseFront /\ state["back"] \in {"WAIT_CONNECT", "WAIT_CHECK"} /\ UNCHANGED <<agent, ending>>
        => IInv'
  <2>1. ASSUME RefuseFront, state["back"] \in {"WAIT_CONNECT", "WAIT_CHECK"},
               UNCHANGED <<agent, ending>>
        PROVE  IInv'
    <3>1. NetQuiet /\ SessQuiet
      BY <1>1, <2>1, DisconnectQuiet DEF RefuseFront
    <3>2. Handshaking("TERMINATE") /\ state' = [state EXCEPT !["back"] = "TERMINATE"]
      BY <2>1 DEF Handshaking, RefuseFront
    <3>3. QED
      BY <2>1, <3>1, <3>2, QuietBackStep
  <2>2. QED
    BY <2>1
<1>6. CASE FrontRecvConnecting
  BY <1>2, <1>4, <1>6, QuietStep DEF FrontRecvConnecting
<1>7. CASE FrontHandshake
  <2>1. state["back"] = "WAIT_CONNECT" /\ UNCHANGED <<agent, ending>>
    BY <1>7 DEF FrontHandshake
  <2>2. CASE Disconnect({"front"}) /\ state' = [state EXCEPT !["back"] = "TERMINATE"]
    <3>1. NetQuiet /\ SessQuiet
      BY <1>1, <2>2, DisconnectQuiet
    <3>2. Handshaking("TERMINATE")
      BY <2>1 DEF Handshaking
    <3>3. QED
      BY <2>1, <2>2, <3>1, <3>2, QuietBackStep
  <2>3. CASE ConnectBack
    BY <2>1, <2>3, ConnectBackStep
  <2>4. CASE SendRawData("front") /\ state' = [state EXCEPT !["back"] = "WAIT_CHECK"]
    <3>1. NetQuiet /\ SessQuiet
      BY <1>1, <2>4, SendQuiet
    <3>2. Handshaking("WAIT_CHECK")
      BY <2>1 DEF Handshaking
    <3>3. QED
      BY <2>1, <2>4, <3>1, <3>2, QuietBackStep
  <2>5. CASE RefuseFront
    BY <1>5, <2>1, <2>5
  <2>6. QED
    BY <1>7, <2>2, <2>3, <2>4, <2>5 DEF FrontHandshake
<1>8. CASE FrontCheck
  <2>1. state["back"] = "WAIT_CHECK" /\ UNCHANGED <<agent, ending>>
    BY <1>8 DEF FrontCheck
  <2>2. CASE ConnectBack
    BY <2>1, <2>2, ConnectBackStep
  <2>3. CASE RefuseFront
    BY <1>5, <2>1, <2>3
  <2>4. CASE CacheSendRawData("back") /\ UNCHANGED <<state, net, down>>
    BY <1>2, <1>4, <2>1, <2>4, QuietStep
  <2>5. QED
    BY <1>8, <2>2, <2>3, <2>4 DEF FrontCheck
<1>9. CASE FrontRecv
  <2>1. UNCHANGED <<agent, state, ending>>
    BY <1>9 DEF FrontRecv
  <2>2. NetQuiet /\ SessQuiet
    <3>1. CASE \E e \in Ends : SendRawData(e)
      BY <1>1, <3>1, SendQuiet
    <3>2. CASE UNCHANGED <<sess, net>>
      BY <1>2, <1>3, <3>2
    <3>3. QED
      BY <1>9, <3>1, <3>2 DEF FrontRecv
  <2>3. QED
    BY <2>1, <2>2, QuietStep
<1>10. QED
  BY <1>6, <1>7, <1>8, <1>9 DEF FrontSteps

(* the packets of the server                                               *)
LEMMA BackSteppingStep ==
  ASSUME IInv, BackSteps
  PROVE  IInv'
<1>1. /\ Shape /\ "front" \in Ends
      /\ net = NetAs(net) /\ sess = SessAs(sess)
  BY DEF IInv, Shape, Ends
<1>2. UNCHANGED <<agent, ending>>
  BY DEF BackSteps, BackHandshake, BackRecv
<1>3. CASE Disconnect({"back"}) /\ UNCHANGED state
  <2>1. NetQuiet /\ SessQuiet
    BY <1>1, <1>3, DisconnectQuiet
  <2>2. QED
    BY <1>2, <1>3, <2>1, QuietStep
<1>4. CASE SendRawData("front") /\ state["back"] = "ESTABLISH"
           /\ state' = [state EXCEPT !["back"] = "WORK"]
  <2>1. NetQuiet /\ SessQuiet
    BY <1>1, <1>4, SendQuiet
  <2>2. Handshaking("WORK")
    BY <1>4 DEF Handshaking
  <2>3. QED
    BY <1>2, <1>4, <2>1, <2>2, QuietBackStep
<1>5. CASE (SendRawData("front") \/ UNCHANGED <<sess, net>>) /\ UNCHANGED state
  <2>1. CASE SendRawData("front")
    <3>1. NetQuiet /\ SessQuiet
      BY <1>1, <2>1, SendQuiet
    <3>2. QED
      BY <1>2, <1>5, <3>1, QuietStep
  <2>2. CASE UNCHANGED <<sess, net>>
    <3>1. NetQuiet /\ SessQuiet
      BY <1>1, <2>2 DEF NetQuiet, SessQuiet
    <3>2. QED
      BY <1>2, <1>5, <3>1, QuietStep
  <2>3. QED
    BY <1>5, <2>1, <2>2
<1>6. QED
  BY <1>3, <1>4, <1>5 DEF BackSteps, BackHandshake, BackRecv

(* the timers                                                              *)
LEMMA CheckTerminateStep ==
  ASSUME IInv, CheckTerminate
  PROVE  IInv'
<1>1. Shape /\ net = NetAs(net) /\ sess = SessAs(sess)
  BY DEF IInv, Shape
<1>2. CASE AllTerminated
  <2> DEFINE s == [e \in Ends |-> [sess[e] EXCEPT !.check = FALSE]]
  <2>1. UNCHANGED <<net, state>> /\ agent' = "deleted" /\ ~ending' /\ sess' = s
    BY <1>2 DEF CheckTerminate
  <2>2. SessQuiet
    <3>1. \A e \in Ends : s[e] = [handle |-> sess[e].handle, cache |-> sess[e].cache,
                                  check |-> FALSE, fed |-> sess[e].fed]
      <4> SUFFICES ASSUME NEW e \in Ends
                   PROVE  s[e] = [handle |-> sess[e].handle, cache |-> sess[e].cache,
                                  check |-> FALSE, fed |-> sess[e].fed]
        OBVIOUS
      <4>1. s[e] = [sess[e] EXCEPT !.check = FALSE]
        OBVIOUS
      <4> HIDE DEF s
      <4>2. QED
        BY <1>1, <4>1, OneCheck
    <3> DEFINE k == [e \in Ends |-> FALSE]
    <3>2. s = SessWith(Handles, Caches, k, Feds)
      BY <3>1 DEF SessWith, Handles, Caches, Feds
    <3> HIDE DEF s, k
    <3>3. sess' = SessAs(sess') /\ \A d \in Ends : sess'[d].handle = Handles[d]
      BY <2>1, <3>2, SessFields
    <3>4. QED
      BY <3>3 DEF SessQuiet, Handles
  <2>3. Shape' /\ KnownFront' /\ KnownBack'
    BY <2>1, <2>2 DEF IInv, Shape, KnownFront, KnownBack, SessQuiet, SessAs, NetAs
  <2>4. Life'
    BY <1>2, <2>1 DEF Life, AllTerminated
  <2>5. Held'
    BY <2>1, <2>2 DEF IInv, Held, Alive, SessQuiet
  <2>6. QED
    BY <2>3, <2>4, <2>5 DEF IInv
<1>3. CASE ~AllTerminated
  <2>1. PICK E : Disconnect(E)
    BY <1>3 DEF CheckTerminate
  <2>2. NetQuiet /\ SessQuiet
    BY <1>1, <2>1, DisconnectQuiet
  <2>3. UNCHANGED <<agent, state, ending>>
    BY <1>3 DEF CheckTerminate
  <2>4. QED
    BY <2>2, <2>3, QuietStep
<1>4. QED
  BY <1>2, <1>3

LEMMA CheckSessionStep ==
  ASSUME IInv, CheckSession
  PROVE  IInv'
<1>1. PICK E : Disconnect(E)
  BY DEF CheckSession
<1>2. NetQuiet /\ SessQuiet
  BY <1>1, DisconnectQuiet DEF IInv
<1>3. QED
  BY <1>2, QuietStep DEF CheckSession

LEMMA OnDataCheckStep ==
  ASSUME IInv, NEW e \in Ends, OnDataCheck(e)
  PROVE  IInv'
<1>1. PICK u : net' = NetSend(e, u)
  BY DEF OnDataCheck
<1>2. PICK c, k : sess' = [sess EXCEPT ![e].cache = c, ![e].check = k]
  BY DEF OnDataCheck
<1>3. NetQuiet /\ SessQuiet
  BY <1>1, <1>2, NetSendQuiet, CacheQuiet DEF IInv
<1>4. QED
  BY <1>3, QuietStep DEF OnDataCheck

LEMMA NetworkStep ==
  ASSUME IInv, NEW e \in Ends, GoesDown(e) \/ Drain(e) \/ ParsePart(e)
  PROVE  IInv'
<1>1. Shape /\ net = NetAs(net) /\ sess = SessAs(sess)
  BY DEF IInv, Shape
<1>2. UNCHANGED <<agent, state, ending>>
  BY DEF GoesDown, Drain, ParsePart
<1>3. NetQuiet /\ SessQuiet
  <2>1. CASE GoesDown(e)
    <3>1. net' = WithUp(net, e, FALSE) /\ UNCHANGED sess
      BY <2>1 DEF GoesDown, WithUp
    <3>2. net' = NetAs(net') /\ \A d \in Ends : net'[d].phase = net[d].phase
      BY ZenonT(60), <1>1, <3>1, ChangeUp
    <3>3. QED
      BY <1>1, <3>1, <3>2 DEF NetQuiet, SessQuiet
  <2>2. CASE Drain(e)
    <3>1. PICK r : net' = WithRing(net, e, r)
      BY <2>2 DEF Drain, WithRing
    <3>2. PICK c, f : sess' = [sess EXCEPT ![e].cache = c, ![e].fed = f]
      BY <2>2 DEF Drain
    <3>3. SessQuiet
      BY <1>1, <3>2, CacheQuiet
    <3>4. net' = NetAs(net') /\ \A d \in Ends : net'[d].phase = net[d].phase
      BY <1>1, <3>1, ChangeRing
    <3>5. QED
      BY <3>3, <3>4 DEF NetQuiet
  <2>3. CASE ParsePart(e)
    BY <1>1, <2>3 DEF ParsePart, NetQuiet, SessQuiet
  <2>4. QED
    BY <2>1, <2>2, <2>3
<1>4. QED
  BY <1>2, <1>3, QuietStep

-----------------------------------------------------------------------------
LEMMA IInvInit == Init => IInv
<1> SUFFICES ASSUME Init
             PROVE  IInv
  OBVIOUS
<1>1. \A e \in Ends : state[e] = "NONE" /\ net[e] = NewNet /\ sess[e] = NewSess
  BY DEF Init
<1>2. \A e \in Ends : net[e].phase = "none" /\ ~sess[e].handle
  BY <1>1 DEF NewNet, NewSess
<1>3. Shape
  BY DEF Init, Shape, NetAs, SessAs, NewNet, NewSess
<1>4. KnownFront /\ KnownBack
  BY <1>1, <1>2 DEF KnownFront, KnownBack, Ends
<1>5. Life /\ Held
  BY <1>1, <1>2 DEF Init, Life, Held, Ends
<1>6. QED
  BY <1>3, <1>4, <1>5 DEF IInv

LEMMA IInvNext == IInv /\ [Next]_vars => IInv'
<1> SUFFICES ASSUME IInv, [Next]_vars
             PROVE  IInv'
  OBVIOUS
<1>1. CASE FrontEstablish
  BY <1>1, FrontEstablishStep
<1>2. CASE FrontTerminate
  BY <1>2, FrontTerminateStep
<1>3. CASE FrontSteps
  BY <1>3, FrontSteppingStep
<1>4. CASE BackEstablish
  BY <1>4, BackEstablishStep
<1>5. CASE BackError
  BY <1>5, BackOver DEF BackError
<1>6. CASE BackTerminate
  BY <1>6, BackOver DEF BackTerminate
<1>7. CASE BackSteps
  BY <1>7, BackSteppingStep
<1>8. CASE CheckTerminate
  BY <1>8, CheckTerminateStep
<1>9. CASE CheckSession
  BY <1>9, CheckSessionStep
<1>10. ASSUME NEW e \in Ends, OnDataCheck(e) \/ GoesDown(e) \/ Drain(e) \/ ParsePart(e)
       PROVE  IInv'
  BY <1>10, OnDataCheckStep, NetworkStep
<1>11. CASE UNCHANGED vars
  <2>1. NetQuiet /\ SessQuiet /\ UNCHANGED <<agent, state, ending>>
    BY <1>11 DEF vars, NetQuiet, SessQuiet, IInv, Shape
  <2>2. QED
    BY <2>1, QuietStep
<1>12. QED
  BY <1>1, <1>2, <1>3, <1>4, <1>5, <1>6, <1>7, <1>8, <1>9, <1>10, <1>11 DEF Next

LEMMA IInvImplies == IInv => NoDanglingPointer
<1> SUFFICES ASSUME IInv, NEW e \in Ends
             PROVE  (Alive(e) => agent = "live") /\ (sess[e].handle => Alive(e))
  BY DEF NoDanglingPointer
<1>1. sess[e].handle => Alive(e)
  BY DEF IInv, Held
<1>2. ASSUME Alive(e)
      PROVE  agent = "live"
  <2>1. CASE agent = "none"
    BY <1>2, <2>1 DEF IInv, Life, KnownFront, KnownBack, Alive, Ends
  <2>2. CASE agent = "deleted"
    BY <1>2, <2>2 DEF IInv, Life, AllTerminated, KnownFront, KnownBack, Alive, Ends
  <2>3. QED
    BY <2>1, <2>2 DEF IInv, Life
<1>3. QED
  BY <1>1, <1>2

(* For every size of rings, packets and caches: no callback of a socket    *)
(* reaches an agent that CheckTerminate has deleted, and no session keeps  *)
(* the address of a socket that is over.                                   *)
THEOREM NothingDangles == Spec => []NoDanglingPointer
<1>1. Spec => []IInv
  BY IInvInit, IInvNext, PTL DEF Spec
<1>2. QED
  BY <1>1, IInvImplies, PTL

-----------------------------------------------------------------------------
(***************************************************************************)
(* The units and the timers.  InOrder is not inductive either: it speaks   *)
(* only of a socket that is up, and what it says then rests on what was    *)
(* kept for the server before (Early), on the count of what was given to   *)
(* the session, which must be exact as long as the client is there, and on *)
(* the timer: of a server that is connected after the client has left, the *)
(* handshake is missing, and only the dead timer keeps the cache back.     *)
(***************************************************************************)
(* s and n are a session and its socket; left: the client was gone when    *)
(* the server was connected                                                *)
Sent(s, n, left) ==
  n.up =>
    /\ n.phase = "open"
    /\ n.ring = Numbers(0, Len(n.ring))
    /\ s.cache = Numbers(s.fed - Len(s.cache), Len(s.cache))
    /\ \/ s.fed = Len(n.ring) + Len(s.cache)
       \/ left /\ n.ring = <<>> /\ s.fed = Len(s.cache) + 1 /\ ~s.check

Blank(s, n) == s.cache = <<>> /\ s.fed = 0 /\ ~s.check /\ n.ring = <<>>

Early(s) == s.cache = Numbers(1, Len(s.cache)) /\ s.fed = Len(s.cache) + 1 /\ ~s.check

Left(e) == e = "back" /\ state["front"] # "ESTABLISH"

Counted == \A e \in Ends : Sent(sess[e], net[e], Left(e))
NotYet == agent = "none" => \A e \in Ends : Blank(sess[e], net[e])
Kept == agent # "none" /\ net["back"].phase \in {"none", "opening"} => Early(sess["back"])
Served == Connected("back") => net["back"].phase = "open"

(* a cache that is not empty has its timer, unless the session has lost    *)
(* its socket; the one of the server once it is connected for a client     *)
Timed(s) == s.handle /\ s.cache # <<>> => s.check
Timers == /\ Timed(sess["front"])
          /\ Connected("back") /\ state["front"] = "ESTABLISH" => Timed(sess["back"])

Whole == TypeOK /\ IInv /\ Counted /\ NotYet /\ Kept /\ Served /\ Timers

-----------------------------------------------------------------------------
(***************************************************************************)
(* Numbered units.                                                         *)
(***************************************************************************)
LEMMA Room == Cap \in Nat /\ Cap >= 1 /\ MsgLen \in Nat /\ MsgLen >= 1
BY AgentAssumption

LEMMA NumbersAre ==
  ASSUME NEW n \in Nat, NEW k \in Nat
  PROVE  /\ Numbers(n, k) \in Seq(Nat) /\ Len(Numbers(n, k)) = k
         /\ \A i \in 1 .. k : Numbers(n, k)[i] = n + i
BY DEF Numbers

LEMMA AreNumbers ==
  ASSUME NEW n \in Nat, NEW k \in Nat, NEW s \in Seq(Nat), Len(s) = k,
         \A i \in 1 .. k : s[i] = n + i
  PROVE  s = Numbers(n, k)
<1>1. s = [i \in 1 .. k |-> s[i]]
  OBVIOUS
<1> QED
  BY <1>1 DEF Numbers

LEMMA NoNumbers ==
  ASSUME NEW n \in Nat
  PROVE  Numbers(n, 0) = <<>> /\ <<1>> = Numbers(0, 1)
<1>1. <<1>> \in Seq(Nat) /\ Len(<<1>>) = 1 /\ <<1>>[1] = 1
  OBVIOUS
<1>2. <<1>> = Numbers(0, 1)
  <2>1. \A i \in 1 .. 1 : <<1>>[i] = 0 + i
    BY <1>1
  <2> QED BY <1>1, <2>1, AreNumbers
<1>3. Len(Numbers(n, 0)) = 0 /\ Numbers(n, 0) \in Seq(Nat)
  BY NumbersAre
<1> QED
  BY <1>2, <1>3

LEMMA CutTypes ==
  ASSUME NEW s \in Seq(Nat), NEW n \in 0 .. Len(s)
  PROVE  /\ Prefix(s, n) \in Seq(Nat) /\ Rest(s, n) \in Seq(Nat)
         /\ Len(Prefix(s, n)) = n /\ Len(Rest(s, n)) = Len(s) - n
         /\ \A i \in 1 .. n : Prefix(s, n)[i] = s[i]
         /\ \A i \in 1 .. Len(s) - n : Rest(s, n)[i] = s[n + i]
<1>1. Len(s) \in Nat /\ \A i \in 1 .. Len(s) : s[i] \in Nat
  OBVIOUS
<1>2. \A i \in 1 .. n : s[i] \in Nat
  BY <1>1
<1>3. \A i \in n + 1 .. Len(s) : s[i] \in Nat
  BY <1>1
<1>4. /\ Prefix(s, n) \in Seq(Nat)
      /\ Len(Prefix(s, n)) = IF 1 <= n THEN n - 1 + 1 ELSE 0
      /\ \A i \in 1 .. n - 1 + 1 : Prefix(s, n)[i] = s[1 + i - 1]
  BY <1>1, <1>2, SubSeqProperties DEF Prefix
<1>5. /\ Rest(s, n) \in Seq(Nat)
      /\ Len(Rest(s, n)) = IF n + 1 <= Len(s) THEN Len(s) - (n + 1) + 1 ELSE 0
      /\ \A i \in 1 .. Len(s) - (n + 1) + 1 : Rest(s, n)[i] = s[n + 1 + i - 1]
  BY <1>1, <1>3, SubSeqProperties DEF Rest
<1> HIDE DEF Prefix, Rest
<1>6. Len(Prefix(s, n)) = n /\ Len(Rest(s, n)) = Len(s) - n
  BY <1>1, <1>4, <1>5
<1>7. ASSUME NEW i \in 1 .. n PROVE Prefix(s, n)[i] = s[i]
  <2>1. i \in 1 .. n - 1 + 1 /\ 1 + i - 1 = i
    OBVIOUS
  <2> QED BY <1>4, <2>1
<1>8. ASSUME NEW i \in 1 .. Len(s) - n PROVE Rest(s, n)[i] = s[n + i]
  <2>1. i \in 1 .. Len(s) - (n + 1) + 1 /\ n + 1 + i - 1 = n + i
    BY <1>1
  <2> QED BY <1>5, <2>1
<1> QED
  BY <1>4, <1>5, <1>6, <1>7, <1>8

(* what a prefix takes from the numbers, and what it leaves                *)
LEMMA CutNumbers ==
  ASSUME NEW n \in Nat, NEW k \in Nat, NEW m \in 0 .. k
  PROVE  /\ Prefix(Numbers(n, k), m) = Numbers(n, m)
         /\ Rest(Numbers(n, k), m) = Numbers(n + m, k - m)
<1> DEFINE s == Numbers(n, k)
           a == Prefix(s, m)
           b == Rest(s, m)
           j == k - m
           l == n + m
<1>1. s \in Seq(Nat) /\ Len(s) = k /\ \A i \in 1 .. k : s[i] = n + i
  BY NumbersAre
<1>2. j \in Nat /\ l \in Nat /\ m \in Nat
  OBVIOUS
<1> HIDE DEF s
<1>3. /\ a \in Seq(Nat) /\ b \in Seq(Nat) /\ Len(a) = m /\ Len(b) = k - m
      /\ \A i \in 1 .. m : a[i] = s[i]
      /\ \A i \in 1 .. k - m : b[i] = s[m + i]
  BY <1>1, CutTypes
<1> HIDE DEF a, b
<1>4. \A i \in 1 .. m : a[i] = n + i
  BY <1>1, <1>3
<1>5. \A i \in 1 .. j : b[i] = l + i
  BY <1>1, <1>3
<1>6. Len(b) = j
  BY <1>3
<1> HIDE DEF j, l
<1>7. a = Numbers(n, m)
  BY <1>2, <1>3, <1>4, AreNumbers
<1>8. b = Numbers(l, j)
  BY <1>2, <1>3, <1>5, <1>6, AreNumbers
<1> QED
  BY <1>7, <1>8 DEF a, b, s, j, l

LEMMA JoinNumbers ==
  ASSUME NEW n \in Nat, NEW k \in Nat, NEW m \in Nat
  PROVE  Numbers(n, k) \o Numbers(n + k, m) = Numbers(n, k + m)
<1> DEFINE a == Numbers(n, k)
           b == Numbers(n + k, m)
           j == k + m
           s == a \o b
<1>1. n + k \in Nat /\ j \in Nat
  OBVIOUS
<1>2. a \in Seq(Nat) /\ Len(a) = k /\ \A i \in 1 .. k : a[i] = n + i
  BY NumbersAre
<1>3. b \in Seq(Nat) /\ Len(b) = m /\ \A i \in 1 .. m : b[i] = n + k + i
  BY <1>1, NumbersAre
<1> HIDE DEF a, b
<1>4. /\ s \in Seq(Nat) /\ Len(s) = j
      /\ \A i \in 1 .. j : s[i] = IF i <= k THEN a[i] ELSE b[i - k]
  BY <1>2, <1>3, ConcatProperties
<1> HIDE DEF s
<1>5. \A i \in 1 .. j : s[i] = n + i
  BY <1>2, <1>3, <1>4
<1> HIDE DEF j
<1>6. s = Numbers(n, j)
  BY <1>1, <1>4, <1>5, AreNumbers
<1> QED
  BY <1>6 DEF s, a, b, j

(* one unit leaves: the others are one nearer                              *)
LEMMA NearerNumbers ==
  ASSUME NEW n \in Nat \ {0}, NEW k \in Nat
  PROVE  Nearer(Numbers(n, k)) = Numbers(n - 1, k)
<1> DEFINE s == Numbers(n, k)
<1>1. s = [i \in 1 .. k |-> n + i]
  BY DEF Numbers
<1>2. Nearer(s) = [i \in 1 .. k |-> (n + i) - 1]
  BY <1>1 DEF Nearer
<1>3. Numbers(n - 1, k) = [i \in 1 .. k |-> (n - 1) + i]
  BY DEF Numbers
<1>4. \A i \in 1 .. k : (n + i) - 1 = (n - 1) + i
  OBVIOUS
<1> QED
  BY <1>2, <1>3, <1>4

LEMMA NearerTail ==
  ASSUME NEW k \in Nat \ {0}
  PROVE  Nearer(Tail(Numbers(0, k))) = Numbers(0, k - 1)
<1> DEFINE s == Numbers(0, k)
           v == Tail(s)
           w == Nearer(v)
           j == k - 1
<1>1. s \in Seq(Nat) /\ Len(s) = k /\ \A i \in 1 .. k : s[i] = 0 + i
  BY NumbersAre
<1> HIDE DEF s
<1>2. s # <<>>
  BY <1>1
<1>3. v \in Seq(Nat) /\ Len(v) = k - 1 /\ \A i \in 1 .. k - 1 : v[i] = s[i + 1]
  BY <1>1, <1>2, HeadTailProperties
<1> HIDE DEF v
<1>4. w = [i \in 1 .. k - 1 |-> v[i] - 1]
  BY <1>3 DEF Nearer
<1>5. j \in Nat /\ \A i \in 1 .. k - 1 : v[i] - 1 = 0 + i
  BY <1>1, <1>3
<1>6. w = [i \in 1 .. j |-> 0 + i]
  BY <1>4, <1>5
<1> HIDE DEF w, j
<1>7. w = Numbers(0, j)
  BY <1>6 DEF Numbers
<1> QED
  BY <1>7 DEF w, v, s, j

LEMMA GiveNumbers ==
  ASSUME NEW r \in Nat, NEW k \in Nat, NEW n \in 0 .. k
  PROVE  /\ Numbers(0, r) \o Prefix(Numbers(r, k), n) = Numbers(0, r + n)
         /\ Rest(Numbers(r, k), n) = Numbers(r + n, k - n)
<1>1. Prefix(Numbers(r, k), n) = Numbers(r, n) /\ Rest(Numbers(r, k), n) = Numbers(r + n, k - n)
  BY CutNumbers
<1>2. n \in Nat /\ 0 \in Nat /\ 0 + r = r
  OBVIOUS
<1>3. Numbers(0, r) \o Numbers(0 + r, n) = Numbers(0, r + n)
  BY <1>2, JoinNumbers
<1> QED
  BY <1>1, <1>2, <1>3

(* Sent of a client that is there, with the two lengths                    *)
LEMMA SentIs ==
  ASSUME NEW s \in SessRec, NEW n \in NetRec, Sent(s, n, FALSE), n.up
  PROVE  /\ n.phase = "open"
         /\ Len(n.ring) \in Nat /\ Len(s.cache) \in Nat
         /\ n.ring = Numbers(0, Len(n.ring))
         /\ s.cache = Numbers(Len(n.ring), Len(s.cache))
         /\ s.fed = Len(n.ring) + Len(s.cache)
<1> DEFINE r == Len(n.ring)
           c == Len(s.cache)
<1>1. r \in Nat /\ c \in Nat
  BY DEF SessRec, NetRec
<1>2. n.phase = "open" /\ n.ring = Numbers(0, r) /\ s.fed = r + c /\ s.cache = Numbers(s.fed - c, c)
  BY DEF Sent
<1>3. s.fed - c = r
  <2> HIDE DEF r, c
  <2> QED BY <1>1, <1>2
<1> QED
  BY <1>1, <1>2, <1>3

LEMMA SentWhen ==
  ASSUME NEW s, NEW n, NEW r \in Nat, NEW k \in Nat, NEW left,
         n.up => n.phase = "open" /\ n.ring = Numbers(0, r) /\ s.cache = Numbers(r, k) /\ s.fed = r + k
  PROVE  Sent(s, n, left)
<1> SUFFICES ASSUME n.up PROVE Sent(s, n, left)
  BY DEF Sent
<1>1. Len(n.ring) = r /\ Len(s.cache) = k
  <2>1. Len(Numbers(0, r)) = r /\ Len(Numbers(r, k)) = k
    BY NumbersAre
  <2>2. n.ring = Numbers(0, r) /\ s.cache = Numbers(r, k)
    OBVIOUS
  <2> QED BY <2>1, <2>2
<1>2. s.fed - k = r
  OBVIOUS
<1> QED
  BY <1>1, <1>2 DEF Sent

-----------------------------------------------------------------------------
(***************************************************************************)
(* The operations of a session.                                            *)
(***************************************************************************)
Typed == sess \in [Ends -> SessRec] /\ net \in [Ends -> NetRec]

LEMMA PacketIs ==
  ASSUME Typed, NEW e \in Ends
  PROVE  /\ Packet(e) \in Seq(Nat) /\ Len(Packet(e)) = MsgLen /\ Last(Packet(e)) \in Nat
         /\ ~ Unheard(e) => /\ Packet(e) = Numbers(sess[e].fed, MsgLen)
                            /\ Last(Packet(e)) = sess[e].fed + MsgLen
<1> DEFINE f == sess[e].fed
           m == MsgLen
           z == [i \in 1 .. MsgLen |-> 0]
           p == Packet(e)
<1>1. f \in Nat /\ m \in Nat /\ m >= 1
  BY Room DEF Typed, SessRec
<1>2. Numbers(f, m) \in Seq(Nat) /\ Len(Numbers(f, m)) = m /\ \A i \in 1 .. m : Numbers(f, m)[i] = f + i
  BY <1>1, NumbersAre
<1>3. z \in Seq(Nat) /\ Len(z) = m
  BY <1>1
<1>4. p = IF Unheard(e) THEN z ELSE Numbers(f, m)
  BY DEF Packet
<1> HIDE DEF z, f, m, p
<1>5. p \in Seq(Nat) /\ Len(p) = m /\ (~ Unheard(e) => p = Numbers(f, m))
  BY <1>2, <1>3, <1>4
<1>6. Last(p) = p[m] /\ m \in 1 .. Len(p) /\ m \in 1 .. m
  BY <1>1, <1>5 DEF Last
<1>7. Last(p) \in Nat /\ (~ Unheard(e) => Last(p) = f + m)
  BY <1>2, <1>5, <1>6
<1> QED
  BY <1>5, <1>7 DEF f, m, p

(* the socket and the session of e go on with other units                  *)
Moved(e) ==
  /\ sess' \in [Ends -> SessRec] /\ net' \in [Ends -> NetRec]
  /\ \A d \in Ends : /\ sess'[d].handle = sess[d].handle
                     /\ net'[d].phase = net[d].phase /\ net'[d].up = net[d].up
  /\ \A d \in Ends : d # e => sess'[d] = sess[d] /\ net'[d] = net[d]

LEMMA NetSent ==
  ASSUME Typed, NEW e \in Ends, NEW u \in Seq(Nat), net' = NetSend(e, u)
  PROVE  /\ net' \in [Ends -> NetRec]
         /\ \A d \in Ends : net'[d].phase = net[d].phase /\ net'[d].up = net[d].up
         /\ \A d \in Ends : d # e => net'[d] = net[d]
         /\ net'[e].ring = IF net[e].up THEN net[e].ring \o u ELSE net[e].ring
<1>1. CASE ~ net[e].up
  BY <1>1 DEF NetSend, Typed
<1>2. CASE net[e].up
  <2> DEFINE w == net[e].ring \o u
  <2>1. w \in Seq(Nat)
    BY ConcatProperties DEF Typed, NetRec
  <2>2. net' = [net EXCEPT ![e].ring = w]
    BY <1>2 DEF NetSend
  <2> HIDE DEF w
  <2>3. /\ net' \in [Ends -> NetRec]
        /\ \A d \in Ends : net'[d].phase = net[d].phase /\ net'[d].up = net[d].up
        /\ \A d \in Ends : d # e => net'[d] = net[d]
        /\ net'[e].ring = w
    <3>1. /\ \A d \in Ends : net'[d].phase = net[d].phase /\ net'[d].up = net[d].up
          /\ \A d \in Ends : d # e => net'[d] = net[d]
          /\ net'[e].ring = w
      BY <2>2 DEF Typed, NetRec
    <3>2. net' \in [Ends -> NetRec]
      BY <2>1, <2>2 DEF Typed, NetRec
    <3> QED BY <3>1, <3>2
  <2> QED
    BY <1>2, <2>3 DEF w
<1> QED
  BY <1>1, <1>2

(* the new queue, the new count and the timer of a session                 *)
SetAll(e, c, n, b) == sess' = [sess EXCEPT ![e].cache = c, ![e].fed = n, ![e].check = b]
SetCheck(e, c, b) == sess' = [sess EXCEPT ![e].cache = c, ![e].check = b]
SetFed(e, c, n) == sess' = [sess EXCEPT ![e].cache = c, ![e].fed = n]

LEMMA SessSet ==
  ASSUME Typed, NEW e \in Ends, NEW c \in Seq(Nat), NEW n \in Nat, NEW b \in BOOLEAN,
         \/ SetAll(e, c, n, b)
         \/ SetCheck(e, c, b) /\ n = sess[e].fed
         \/ SetFed(e, c, n) /\ b = sess[e].check
  PROVE  /\ sess' \in [Ends -> SessRec]
         /\ \A d \in Ends : sess'[d].handle = sess[d].handle
         /\ \A d \in Ends : d # e => sess'[d] = sess[d]
         /\ sess'[e].cache = c /\ sess'[e].fed = n /\ sess'[e].check = b
<1>1. CASE SetAll(e, c, n, b)
  BY <1>1 DEF Typed, SessRec, SetAll
<1>2. CASE SetCheck(e, c, b) /\ n = sess[e].fed
  BY <1>2 DEF Typed, SessRec, SetCheck
<1>3. CASE SetFed(e, c, n) /\ b = sess[e].check
  BY <1>3 DEF Typed, SessRec, SetFed
<1> QED
  BY <1>1, <1>2, <1>3

(* the state of a socket and what its ring holds                           *)
SetNet(e, p, b, w) ==
  net' = [net EXCEPT ![e].phase = p, ![e].up = b, ![e].ring = w]
SetUp(e, p, b) == net' = [net EXCEPT ![e].phase = p, ![e].up = b]
SetPhase(e, p) == net' = [net EXCEPT ![e].phase = p]

LEMMA NetSet ==
  ASSUME Typed, NEW e \in Ends, NEW p \in {"none", "opening", "open", "over"},
         NEW b \in BOOLEAN, NEW w \in Seq(Nat),
         \/ SetNet(e, p, b, w)
         \/ SetUp(e, p, b) /\ w = net[e].ring
         \/ SetPhase(e, p) /\ b = net[e].up /\ w = net[e].ring
  PROVE  /\ net' \in [Ends -> NetRec]
         /\ \A d \in Ends : d # e => net'[d] = net[d]
         /\ net'[e].phase = p /\ net'[e].up = b /\ net'[e].ring = w
<1>1. CASE SetNet(e, p, b, w)
  BY <1>1 DEF Typed, NetRec, SetNet
<1>2. CASE SetUp(e, p, b) /\ w = net[e].ring
  BY <1>2 DEF Typed, NetRec, SetUp
<1>3. CASE SetPhase(e, p) /\ b = net[e].up /\ w = net[e].ring
  BY <1>3 DEF Typed, NetRec, SetPhase
<1> QED
  BY <1>1, <1>2, <1>3

(* what SendRawData gives to the socket fits in its ring, and the units    *)
(* stay in their order                                                     *)
LEMMA SendMoves ==
  ASSUME Typed, NEW e \in Ends, Len(net[e].ring) <= Cap, Sent(sess[e], net[e], FALSE),
         SendRawData(e)
  PROVE  /\ Moved(e) /\ Len(net'[e].ring) <= Cap
         /\ Sent(sess'[e], net'[e], FALSE) /\ Timed(sess'[e])
<1>1. CASE ~ sess[e].handle
  BY <1>1 DEF SendRawData, Moved, Typed, Timed
<1>2. CASE sess[e].handle
  <2> DEFINE r == net[e].ring
             c == sess[e].cache
             p == Packet(e)
             all == c \o p
             free == Cap - Len(r)
             n == IF Len(all) <= free THEN Len(all)
                  ELSE IF c = <<>> THEN free ELSE Least(free, Len(c))
             a == Prefix(all, n)
             b == Rest(all, n)
             l == Last(p)
             k == sess[e].check \/ b # <<>>
  <2>1. /\ r \in Seq(Nat) /\ c \in Seq(Nat) /\ Len(r) \in Nat /\ Len(c) \in Nat
        /\ Len(r) <= Cap /\ sess[e] \in SessRec /\ net[e] \in NetRec
    BY DEF Typed, SessRec, NetRec
  <2>2. p \in Seq(Nat) /\ Len(p) = MsgLen /\ l \in Nat
    BY PacketIs
  <2>3. all \in Seq(Nat) /\ Len(all) = Len(c) + MsgLen
    <3> HIDE DEF c, p
    <3> QED BY <2>1, <2>2, ConcatProperties
  <2>4. n \in 0 .. Len(all) /\ n <= free /\ n \in Nat
    <3> DEFINE x == Len(r)
               y == Len(c)
               z == Len(all)
    <3>1. x \in Nat /\ y \in Nat /\ z = y + MsgLen /\ x <= Cap
      BY <2>1, <2>3
    <3>2. n = IF z <= Cap - x THEN z
              ELSE IF c = <<>> THEN Cap - x ELSE IF Cap - x <= y THEN Cap - x ELSE y
      BY DEF Least
    <3> HIDE DEF n, x, y, z, c
    <3>3. n \in 0 .. z /\ n <= Cap - x /\ n \in Nat
      BY <3>1, <3>2, Room
    <3> QED BY <3>3 DEF x, z
  <2>5. /\ a \in Seq(Nat) /\ b \in Seq(Nat) /\ Len(a) = n /\ Len(b) = Len(all) - n
    <3> HIDE DEF all, n
    <3> QED BY <2>3, <2>4, CutTypes
  <2>6. /\ net' = NetSend(e, a)
        /\ SetAll(e, b, l, k)
    BY <1>2 DEF SendRawData, Keep, Free, SetAll
  <2>7. k \in BOOLEAN
    BY DEF Typed, SessRec
  <2>8. /\ net' \in [Ends -> NetRec]
        /\ \A d \in Ends : net'[d].phase = net[d].phase /\ net'[d].up = net[d].up
        /\ \A d \in Ends : d # e => net'[d] = net[d]
        /\ net'[e].ring = IF net[e].up THEN r \o a ELSE r
    <3> HIDE DEF a
    <3> QED BY <2>5, <2>6, NetSent
  <2>9. /\ sess' \in [Ends -> SessRec]
        /\ \A d \in Ends : sess'[d].handle = sess[d].handle
        /\ \A d \in Ends : d # e => sess'[d] = sess[d]
        /\ sess'[e].cache = b /\ sess'[e].fed = l /\ sess'[e].check = k
    <3> HIDE DEF b, l, k
    <3> QED BY <2>2, <2>5, <2>6, <2>7, SessSet
  <2>10. Moved(e)
    BY <2>8, <2>9 DEF Moved
  <2>11. Timed(sess'[e])
    <3>1. b # <<>> => k
      OBVIOUS
    <3> HIDE DEF b, k
    <3> QED BY <2>9, <3>1 DEF Timed
  <2>12. Len(net'[e].ring) <= Cap
    <3>1. Len(r \o a) = Len(r) + n
      <4> HIDE DEF r, a, n
      <4> QED BY <2>1, <2>5, ConcatProperties
    <3> DEFINE x == Len(r)
    <3>2. x \in Nat /\ x <= Cap /\ n <= Cap - x /\ n \in Nat
      BY <2>1, <2>4
    <3>3. Len(net'[e].ring) = x + n \/ Len(net'[e].ring) = x
      BY <2>8, <3>1
    <3> HIDE DEF x, n
    <3> QED BY <3>2, <3>3, Room
  <2>13. Sent(sess'[e], net'[e], FALSE)
    <3> DEFINE x == Len(r)
               y == Len(c)
               m == y + MsgLen
               u == x + n
               v == m - n
    <3>1. CASE net[e].up
      <4>1. /\ net[e].phase = "open" /\ r = Numbers(0, x) /\ c = Numbers(x, y)
            /\ sess[e].fed = x + y
        BY <2>1, <3>1, SentIs
      <4>2. p = Numbers(x + y, MsgLen) /\ l = (x + y) + MsgLen
        BY <3>1, <4>1, PacketIs DEF Unheard
      <4>3. x \in Nat /\ y \in Nat /\ n \in 0 .. m /\ MsgLen \in Nat
        BY <2>1, <2>3, <2>4, Room
      <4> HIDE DEF x, y, n, l
      <4>4. m \in Nat /\ n \in Nat /\ u \in Nat /\ v \in Nat /\ l = u + v
        BY <4>2, <4>3
      <4>5. all = Numbers(x, m)
        BY ZenonT(60), <4>1, <4>2, <4>3, JoinNumbers
      <4> HIDE DEF all, m
      <4>6. r \o a = Numbers(0, u) /\ b = Numbers(u, v)
        <5>1. /\ Numbers(0, x) \o Prefix(Numbers(x, m), n) = Numbers(0, x + n)
              /\ Rest(Numbers(x, m), n) = Numbers(x + n, m - n)
          BY <4>3, <4>4, GiveNumbers DEF m
        <5> QED BY <4>1, <4>5, <5>1
      <4>7. net'[e].phase = "open" /\ net'[e].ring = Numbers(0, u)
        BY <2>8, <3>1, <4>1, <4>6
      <4>8. sess'[e].cache = Numbers(u, v) /\ sess'[e].fed = u + v
        BY <2>9, <4>4, <4>6
      <4> HIDE DEF u, v
      <4> QED BY <4>4, <4>7, <4>8, SentWhen
    <3>2. CASE ~ net[e].up
      BY <2>8, <3>2 DEF Sent
    <3> QED BY <3>1, <3>2
  <2> QED
    BY <2>10, <2>11, <2>12, <2>13
<1> QED
  BY <1>1, <1>2

LEMMA ExactIfTimed ==
  ASSUME NEW s, NEW n, NEW left, Sent(s, n, left), s.check \/ n.ring # <<>> \/ ~ left
  PROVE  Sent(s, n, FALSE)
BY DEF Sent

LEMMA DataCheckMoves ==
  ASSUME Typed, NEW e \in Ends, Len(net[e].ring) <= Cap, Sent(sess[e], net[e], FALSE),
         OnDataCheck(e)
  PROVE  /\ Moved(e) /\ Len(net'[e].ring) <= Cap
         /\ Sent(sess'[e], net'[e], FALSE) /\ Timed(sess'[e])
<1> DEFINE r == net[e].ring
           c == sess[e].cache
           x == Len(r)
           y == Len(c)
           n == Sendable(e)
           a == Prefix(c, n)
           b == Rest(c, n)
           k == sess[e].handle /\ b # <<>>
           u == x + n
           v == y - n
<1>1. /\ r \in Seq(Nat) /\ c \in Seq(Nat) /\ x \in Nat /\ y \in Nat
      /\ x <= Cap /\ sess[e] \in SessRec /\ net[e] \in NetRec
  BY DEF Typed, SessRec, NetRec
<1>2. n \in 0 .. y /\ n \in Nat /\ x + n <= Cap
  <2>1. n = IF sess[e].handle THEN (IF Cap - x <= y THEN Cap - x ELSE y) ELSE 0
    BY DEF Sendable, Least, Free
  <2> HIDE DEF n, x, y
  <2> QED BY <1>1, <2>1, Room
<1>3. /\ a \in Seq(Nat) /\ b \in Seq(Nat) /\ Len(a) = n /\ Len(b) = y - n
  <2> HIDE DEF c, n
  <2> QED BY <1>1, <1>2, CutTypes
<1>4. net' = NetSend(e, a) /\ SetCheck(e, b, k)
  BY DEF OnDataCheck, SetCheck
<1>5. k \in BOOLEAN
  OBVIOUS
<1>6. /\ net' \in [Ends -> NetRec]
      /\ \A d \in Ends : net'[d].phase = net[d].phase /\ net'[d].up = net[d].up
      /\ \A d \in Ends : d # e => net'[d] = net[d]
      /\ net'[e].ring = IF net[e].up THEN r \o a ELSE r
  <2> HIDE DEF a
  <2> QED BY <1>3, <1>4, NetSent
<1>7. /\ sess' \in [Ends -> SessRec]
      /\ \A d \in Ends : sess'[d].handle = sess[d].handle
      /\ \A d \in Ends : d # e => sess'[d] = sess[d]
      /\ sess'[e].cache = b /\ sess'[e].fed = sess[e].fed /\ sess'[e].check = k
  <2> HIDE DEF b, k
  <2> QED BY <1>1, <1>3, <1>4, <1>5, SessSet DEF SessRec
<1>8. Moved(e)
  BY <1>6, <1>7 DEF Moved
<1>9. Timed(sess'[e])
  BY <1>7 DEF Timed
<1>10. Len(net'[e].ring) <= Cap
  <2>1. Len(r \o a) = Len(r) + n
    <3> HIDE DEF r, a, n
    <3> QED BY <1>1, <1>3, ConcatProperties
  <2> QED BY <1>1, <1>2, <1>6, <2>1
<1>11. Sent(sess'[e], net'[e], FALSE)
  <2>1. CASE net[e].up
    <3>1. /\ net[e].phase = "open" /\ r = Numbers(0, x) /\ c = Numbers(x, y)
          /\ sess[e].fed = x + y
      BY <1>1, <2>1, SentIs
    <3> HIDE DEF x, y, n
    <3>2. u \in Nat /\ v \in Nat /\ x + y = u + v
      BY <1>1, <1>2
    <3>3. r \o a = Numbers(0, u) /\ b = Numbers(u, v)
      <4>1. /\ Numbers(0, x) \o Prefix(Numbers(x, y), n) = Numbers(0, x + n)
            /\ Rest(Numbers(x, y), n) = Numbers(x + n, y - n)
        BY <1>1, <1>2, GiveNumbers
      <4> QED BY <3>1, <4>1
    <3>4. net'[e].phase = "open" /\ net'[e].ring = Numbers(0, u)
      BY <1>6, <2>1, <3>1, <3>3
    <3>5. sess'[e].cache = Numbers(u, v) /\ sess'[e].fed = u + v
      BY <1>7, <3>1, <3>2, <3>3
    <3> HIDE DEF u, v
    <3> QED BY <3>2, <3>4, <3>5, SentWhen
  <2>2. CASE ~ net[e].up
    BY <1>6, <2>2 DEF Sent
  <2> QED BY <2>1, <2>2
<1> QED
  BY <1>8, <1>9, <1>10, <1>11

LEMMA DrainMoves ==
  ASSUME Typed, NEW e \in Ends, Len(net[e].ring) <= Cap, Sent(sess[e], net[e], FALSE), Drain(e)
  PROVE  /\ Moved(e) /\ Len(net'[e].ring) <= Cap
         /\ Sent(sess'[e], net'[e], FALSE) /\ (Timed(sess[e]) => Timed(sess'[e]))
<1> DEFINE r == net[e].ring
           c == sess[e].cache
           x == Len(r)
           y == Len(c)
           a == Nearer(Tail(r))
           b == Nearer(c)
           u == x - 1
           n == u + y
<1>1. /\ r \in Seq(Nat) /\ c \in Seq(Nat) /\ x \in Nat /\ y \in Nat
      /\ x <= Cap /\ sess[e] \in SessRec /\ net[e] \in NetRec
      /\ net[e].up /\ r # <<>>
  BY DEF Typed, SessRec, NetRec, Drain
<1>2. /\ net[e].phase = "open" /\ r = Numbers(0, x) /\ c = Numbers(x, y)
      /\ sess[e].fed = x + y
  BY <1>1, SentIs
<1>3. x # 0
  BY <1>1, EmptySeq
<1>4. /\ net' = [net EXCEPT ![e].ring = a]
      /\ sess' = [sess EXCEPT ![e].cache = b, ![e].fed = sess[e].fed - 1]
  BY DEF Drain
<1> HIDE DEF x, y
<1>5. /\ u \in Nat /\ n \in Nat /\ sess[e].fed - 1 = n /\ u <= Cap
  BY <1>1, <1>2, <1>3, Room
<1>6. a = Numbers(0, u) /\ b = Numbers(u, y)
  <2>1. Nearer(Tail(Numbers(0, x))) = Numbers(0, x - 1)
    BY <1>1, <1>3, NearerTail
  <2>2. Nearer(Numbers(x, y)) = Numbers(x - 1, y)
    BY <1>1, <1>3, NearerNumbers
  <2> QED BY <1>2, <2>1, <2>2
<1> HIDE DEF u, n, a, b
<1>7. /\ a \in Seq(Nat) /\ Len(a) = u /\ b \in Seq(Nat) /\ Len(b) = y
  BY <1>1, <1>5, <1>6, NumbersAre
<1>8. SetFed(e, b, n)
  BY <1>4, <1>5 DEF SetFed
<1>9. /\ sess' \in [Ends -> SessRec]
      /\ \A d \in Ends : sess'[d].handle = sess[d].handle
      /\ \A d \in Ends : d # e => sess'[d] = sess[d]
      /\ sess'[e].cache = b /\ sess'[e].fed = n /\ sess'[e].check = sess[e].check
  BY <1>1, <1>5, <1>7, <1>8, SessSet DEF SessRec
<1>10. /\ net' \in [Ends -> NetRec]
       /\ \A d \in Ends : net'[d].phase = net[d].phase /\ net'[d].up = net[d].up
       /\ \A d \in Ends : d # e => net'[d] = net[d]
       /\ net'[e].ring = a
  BY <1>4, <1>7 DEF Typed, NetRec
<1>11. Moved(e) /\ Len(net'[e].ring) <= Cap
  BY <1>5, <1>7, <1>9, <1>10 DEF Moved
<1>12. Timed(sess[e]) => Timed(sess'[e])
  <2>1. b = <<>> <=> c = <<>>
    BY <1>1, <1>7, EmptySeq DEF y
  <2> QED BY <1>9, <2>1 DEF Timed
<1>13. Sent(sess'[e], net'[e], FALSE)
  <2>1. net'[e].phase = "open" /\ net'[e].ring = Numbers(0, u)
    BY <1>2, <1>6, <1>10
  <2>2. sess'[e].cache = Numbers(u, y) /\ sess'[e].fed = u + y
    BY <1>6, <1>9 DEF n
  <2> QED BY <1>1, <1>5, <2>1, <2>2, SentWhen
<1> QED
  BY <1>11, <1>12, <1>13

(* what the client sends before the server is connected is kept, numbered  *)
(* from the handshake on                                                   *)
LEMMA KeepsEarly ==
  ASSUME Typed, Early(sess["back"]), net["back"].phase # "open", net' = net,
         CacheSendRawData("back")
  PROVE  Moved("back") /\ Early(sess'["back"])
<1> DEFINE s == sess["back"]
           c == s.cache
           y == Len(c)
           p == Packet("back")
           b == c \o p
           l == Last(p)
           m == y + MsgLen
<1>1. /\ "back" \in Ends /\ c \in Seq(Nat) /\ y \in Nat
      /\ c = Numbers(1, y) /\ s.fed = y + 1 /\ ~ s.check
  BY DEF Typed, SessRec, Ends, Early
<1>2. p = Numbers(s.fed, MsgLen) /\ l = s.fed + MsgLen
  BY <1>1, PacketIs DEF Unheard
<1>3. SetFed("back", b, l)
  BY DEF CacheSendRawData, SetFed
<1> HIDE DEF y
<1>4. m \in Nat /\ l = m + 1 /\ l \in Nat /\ s.fed = 1 + y
  BY <1>1, <1>2, Room
<1>5. b = Numbers(1, m)
  <2>1. Numbers(1, y) \o Numbers(1 + y, MsgLen) = Numbers(1, y + MsgLen)
    BY <1>1, JoinNumbers, Room
  <2> QED BY <1>1, <1>2, <1>4, <2>1
<1> HIDE DEF l, m, b
<1>6. b \in Seq(Nat) /\ Len(b) = m
  BY <1>4, <1>5, NumbersAre
<1>7. /\ sess' \in [Ends -> SessRec]
      /\ \A d \in Ends : sess'[d].handle = sess[d].handle
      /\ \A d \in Ends : d # "back" => sess'[d] = sess[d]
      /\ sess'["back"].cache = b /\ sess'["back"].fed = l /\ sess'["back"].check = s.check
  <2>1. s.check \in BOOLEAN
    BY <1>1 DEF Typed, SessRec
  <2> QED BY <1>1, <1>3, <1>4, <1>6, <2>1, SessSet
<1>8. Moved("back")
  BY <1>7 DEF Moved, Typed
<1>9. Early(sess'["back"])
  BY <1>1, <1>4, <1>5, <1>6, <1>7 DEF Early
<1> QED
  BY <1>8, <1>9

-----------------------------------------------------------------------------
(***************************************************************************)
(* Steps that send, and steps that leave the units where they are.         *)
(***************************************************************************)
Others ==
  /\ agent' \in {"none", "live", "deleted"} /\ state' \in [Ends -> SessionState]
  /\ seen' \in [Ends -> SeenRec] /\ ending' \in BOOLEAN /\ down' \in BOOLEAN
  /\ agent' = "none" <=> agent = "none"
  /\ state'["front"] = "ESTABLISH" => state["front"] = "ESTABLISH"
  /\ Connected("back")' => Connected("back")

LEMMA BothEnds == /\ "front" \in Ends /\ "back" \in Ends
                  /\ \A e \in Ends : e = "front" \/ e = "back"
BY DEF Ends

LEMMA MovedStep ==
  ASSUME Whole, IInv', Others, NEW e \in Ends, Moved(e), Len(net'[e].ring) <= Cap,
         Sent(sess'[e], net'[e], FALSE), Timed(sess[e]) => Timed(sess'[e]),
         agent # "none", e = "back" => net[e].phase \notin {"none", "opening"}
  PROVE  Whole'
<1>1. TypeOK'
  BY DEF Whole, TypeOK, Others, Moved
<1>2. Counted'
  <2> SUFFICES ASSUME NEW d \in Ends PROVE Sent(sess'[d], net'[d], Left(d)')
    BY DEF Counted
  <2>1. CASE d = e
    BY <2>1 DEF Sent
  <2>2. CASE d # e
    <3>1. sess'[d] = sess[d] /\ net'[d] = net[d] /\ (Left(d) => Left(d)')
      BY <2>2 DEF Moved, Others, Left
    <3>2. Sent(sess[d], net[d], Left(d))
      BY DEF Whole, Counted
    <3> QED BY <3>1, <3>2 DEF Sent
  <2> QED BY <2>1, <2>2
<1>3. NotYet'
  BY DEF NotYet, Others
<1>4. Kept'
  <2>1. CASE e = "back"
    BY <2>1, BothEnds DEF Kept, Moved
  <2>2. CASE e # "back"
    BY <2>2, BothEnds DEF Kept, Moved, Whole
  <2> QED BY <2>1, <2>2
<1>5. Served'
  <2>1. net'["back"].phase = net["back"].phase
    BY BothEnds DEF Moved
  <2> QED BY <2>1 DEF Served, Others, Whole
<1>6. Timers'
  <2>1. \A d \in Ends : Timed(sess[d]) => Timed(sess'[d])
    BY DEF Moved
  <2> QED BY <2>1, BothEnds DEF Timers, Whole, Others
<1> QED
  BY <1>1, <1>2, <1>3, <1>4, <1>5, <1>6 DEF Whole

(* the units of d stay, or go with the socket                              *)
Stays(d) ==
  /\ sess'[d].cache = sess[d].cache /\ sess'[d].fed = sess[d].fed
  /\ sess'[d].check => sess[d].check
  /\ net'[d].up => /\ net[d].up /\ net'[d].phase = net[d].phase
                   /\ net'[d].ring = net[d].ring
  /\ net'[d].ring \in {net[d].ring, <<>>}

LEMMA StayStep ==
  ASSUME Whole, IInv', Others, Typed', \A d \in Ends : Stays(d),
         Timed(sess["front"]) => Timed(sess'["front"]),
         Connected("back")' => /\ Timed(sess["back"]) => Timed(sess'["back"])
                               /\ net'["back"].phase = net["back"].phase,
         net'["back"].phase \in {"none", "opening"} => net["back"].phase \in {"none", "opening"}
  PROVE  Whole'
<1>1. TypeOK'
  <2>1. ASSUME NEW e \in Ends PROVE Len(net'[e].ring) <= Cap
    <3>1. Len(net[e].ring) <= Cap
      BY DEF Whole, TypeOK
    <3>2. net'[e].ring = net[e].ring \/ net'[e].ring = <<>>
      BY DEF Stays
    <3> QED BY <3>1, <3>2, Room
  <2> QED BY <2>1 DEF TypeOK, Others, Typed
<1>2. Counted'
  <2> SUFFICES ASSUME NEW d \in Ends PROVE Sent(sess'[d], net'[d], Left(d)')
    BY DEF Counted
  <2>1. Left(d) => Left(d)'
    BY DEF Others, Left
  <2>2. Sent(sess[d], net[d], Left(d)) /\ Stays(d)
    BY DEF Whole, Counted
  <2> QED BY <2>1, <2>2 DEF Sent, Stays
<1>3. NotYet'
  BY DEF NotYet, Others, Whole, Blank, Stays
<1>4. Kept'
  BY BothEnds DEF Kept, Others, Whole, Early, Stays
<1>5. Served'
  BY DEF Served, Others, Whole
<1>6. Timers'
  BY BothEnds DEF Timers, Whole, Others
<1> QED
  BY <1>1, <1>2, <1>3, <1>4, <1>5, <1>6 DEF Whole

LEMMA DropFields ==
  ASSUME Typed, NEW E, Disconnect(E)
  PROVE  /\ Typed'
         /\ \A d \in Ends : /\ Stays(d) /\ net'[d].phase = net[d].phase
                            /\ Timed(sess[d]) => Timed(sess'[d])
<1>1. ASSUME NEW d \in Ends
      PROVE  /\ sess'[d] \in SessRec /\ sess'[d].cache = sess[d].cache
             /\ sess'[d].fed = sess[d].fed /\ sess'[d].check = sess[d].check
             /\ sess'[d].handle => sess[d].handle
  <2>1. sess'[d] = IF d \in E THEN [sess[d] EXCEPT !.handle = FALSE] ELSE sess[d]
    BY DEF Disconnect, Dropped
  <2> QED BY <2>1 DEF Typed, SessRec
<1>2. ASSUME NEW d \in Ends
      PROVE  /\ net'[d] \in NetRec /\ net'[d].ring = net[d].ring
             /\ net'[d].phase = net[d].phase /\ (net'[d].up => net[d].up)
  <2>1. net'[d] = IF d \in E /\ sess[d].handle THEN [net[d] EXCEPT !.up = FALSE] ELSE net[d]
    BY DEF Disconnect, Closed
  <2>2. \A n \in NetRec : /\ [n EXCEPT !.up = FALSE] \in NetRec
                          /\ [n EXCEPT !.up = FALSE].ring = n.ring
                          /\ [n EXCEPT !.up = FALSE].phase = n.phase
                          /\ [n EXCEPT !.up = FALSE].up = FALSE
    BY DEF NetRec
  <2>3. net[d] \in NetRec
    BY DEF Typed
  <2> QED BY <2>1, <2>2, <2>3
<1>3. Typed'
  BY <1>1, <1>2 DEF Typed, Disconnect, Dropped, Closed
<1> QED
  BY <1>1, <1>2, <1>3 DEF Stays, Timed

-----------------------------------------------------------------------------
(***************************************************************************)
(* The steps keep Whole.                                                   *)
(***************************************************************************)
LEMMA WholeHas ==
  ASSUME Whole
  PROVE  /\ Typed /\ IInv /\ state \in [Ends -> SessionState] /\ seen \in [Ends -> SeenRec]
         /\ agent \in {"none", "live", "deleted"} /\ ending \in BOOLEAN /\ down \in BOOLEAN
         /\ \A e \in Ends : Sent(sess[e], net[e], Left(e)) /\ Len(net[e].ring) <= Cap
         /\ \A e \in Ends : Alive(e) => agent = "live"
         /\ \A e \in Ends : ~ Alive(e) => ~ sess[e].handle
BY IInvImplies DEF Whole, TypeOK, Typed, Counted, NoDanglingPointer

(* a connection of the client that is open is in the state ESTABLISH       *)
LEMMA ClientThere ==
  ASSUME Whole, net["front"].phase = "open"
  PROVE  agent = "live" /\ state["front"] = "ESTABLISH" /\ \A e \in Ends : ~ Left(e)
BY WholeHas, BothEnds DEF IInv, KnownFront, Alive, Left

LEMMA WholeInit == Init => Whole
<1> SUFFICES ASSUME Init PROVE Whole
  OBVIOUS
<1>1. IInv
  BY IInvInit
<1>2. \A e \in Ends : /\ sess[e] = NewSess /\ net[e] = NewNet /\ state[e] = "NONE"
                      /\ ~ Connected(e)
  BY DEF Init, Connected
<1>3. /\ NewSess \in SessRec /\ NewNet \in NetRec /\ Len(<<>>) = 0 /\ 0 <= Cap
      /\ NewSess.cache = <<>> /\ NewSess.fed = 0 /\ NewSess.check = FALSE
      /\ NewSess.handle = FALSE /\ NewNet.ring = <<>> /\ NewNet.up = FALSE
  BY Room DEF NewSess, NewNet, SessRec, NetRec
<1>4. TypeOK
  <2>1. sess \in [Ends -> SessRec] /\ net \in [Ends -> NetRec]
    BY <1>3 DEF Init
  <2>2. state \in [Ends -> SessionState] /\ seen \in [Ends -> SeenRec]
    BY DEF Init, SessionState, SeenRec
  <2>3. \A e \in Ends : Len(net[e].ring) <= Cap
    BY <1>2, <1>3
  <2> QED BY <2>1, <2>2, <2>3 DEF Init, TypeOK
<1>5. Counted /\ NotYet /\ Kept /\ Served /\ Timers
  BY <1>2, <1>3, BothEnds
     DEF Init, Counted, Sent, NotYet, Blank, Kept, Served, Timers, Timed
<1> QED
  BY <1>1, <1>4, <1>5 DEF Whole

LEMMA FrontEstablishWhole ==
  ASSUME Whole, IInv', FrontEstablish
  PROVE  Whole'
<1>1. /\ agent = "none" /\ agent' = "live" /\ state["back"] = "NONE"
      /\ net["back"].phase = "none" /\ ~ net["back"].up
      /\ \A e \in Ends : Blank(sess[e], net[e])
  BY WholeHas, BothEnds
     DEF FrontEstablish, IInv, Life, KnownBack, Whole, NotYet, Counted, Sent
<1>2. PICK up \in BOOLEAN : net' = [net EXCEPT !["front"].phase = "open", !["front"].up = up]
  BY DEF FrontEstablish
<1>3. /\ net' \in [Ends -> NetRec] /\ net'["back"] = net["back"]
      /\ net'["front"].phase = "open" /\ net'["front"].ring = net["front"].ring
  <2>1. SetUp("front", "open", up) /\ net["front"].ring \in Seq(Nat) /\ Typed
    BY <1>2, WholeHas, BothEnds DEF SetUp, Typed, NetRec
  <2> QED BY <2>1, NetSet, BothEnds
<1>4. /\ sess' \in [Ends -> SessRec]
      /\ sess'["front"].cache = sess["front"].cache /\ sess'["front"].fed = sess["front"].fed
      /\ sess'["back"].cache = sess["back"].cache /\ sess'["back"].fed = 1
      /\ sess'["back"].check = sess["back"].check
  <2>1. /\ sess' = [sess EXCEPT !["front"].handle = TRUE, !["back"].fed = 1]
        /\ sess \in [Ends -> SessRec]
    BY WholeHas DEF FrontEstablish, Typed
  <2>2. \A b \in BOOLEAN : sess' = [sess EXCEPT !["front"].handle = b, !["back"].fed = 1] =>
          /\ sess' \in [Ends -> SessRec]
          /\ sess'["front"].cache = sess["front"].cache /\ sess'["front"].fed = sess["front"].fed
          /\ sess'["back"].cache = sess["back"].cache /\ sess'["back"].fed = 1
          /\ sess'["back"].check = sess["back"].check
    <3> SUFFICES ASSUME NEW b \in BOOLEAN,
                        sess' = [sess EXCEPT !["front"].handle = b, !["back"].fed = 1]
                 PROVE  /\ sess' \in [Ends -> SessRec]
                        /\ sess'["front"].cache = sess["front"].cache
                        /\ sess'["front"].fed = sess["front"].fed
                        /\ sess'["back"].cache = sess["back"].cache /\ sess'["back"].fed = 1
                        /\ sess'["back"].check = sess["back"].check
      OBVIOUS
    <3>1. /\ sess'["front"] = [sess["front"] EXCEPT !.handle = b]
          /\ sess'["back"] = [sess["back"] EXCEPT !.fed = 1]
      BY <2>1, BothEnds
    <3>2. sess["front"] \in SessRec /\ sess["back"] \in SessRec
      BY <2>1, BothEnds
    <3>3. sess'["front"] \in SessRec /\ sess'["back"] \in SessRec
      <4>1. \A s \in SessRec : [s EXCEPT !.handle = b] \in SessRec /\ [s EXCEPT !.fed = 1] \in SessRec
        BY DEF SessRec
      <4> QED BY <3>1, <3>2, <4>1
    <3>4. sess' \in [Ends -> SessRec]
      BY <2>1, <3>3, BothEnds
    <3> QED BY <3>1, <3>2, <3>4 DEF SessRec
  <2> QED BY Zenon, <2>1, <2>2
<1>5. /\ state' \in [Ends -> SessionState] /\ state'["front"] = "ESTABLISH"
      /\ state'["back"] = "WAIT_CONNECT"
  BY WholeHas, BothEnds DEF FrontEstablish, SessionState
<1>6. TypeOK'
  <2>1. \A e \in Ends : net'[e].ring = net[e].ring
    BY <1>3, BothEnds
  <2> QED BY <1>1, <1>3, <1>4, <1>5, <2>1, WholeHas DEF TypeOK, FrontEstablish
<1>7. Len(<<>>) = 0 /\ Numbers(0, 0) = <<>> /\ Numbers(1, 0) = <<>>
  BY NoNumbers
<1>8. Counted'
  <2>1. Sent(sess'["front"], net'["front"], Left("front")')
    <3>1. /\ net'["front"].ring = <<>> /\ net'["front"].phase = "open"
          /\ sess'["front"].cache = <<>> /\ sess'["front"].fed = 0
      BY <1>1, <1>3, <1>4, BothEnds DEF Blank
    <3>2. 0 - 0 = 0 /\ 0 + 0 = 0
      OBVIOUS
    <3> QED BY <1>7, <3>1, <3>2 DEF Sent
  <2>2. Sent(sess'["back"], net'["back"], Left("back")')
    BY <1>1, <1>3 DEF Sent
  <2> QED BY <2>1, <2>2, BothEnds DEF Counted
<1>9. NotYet' /\ Served'
  BY <1>1, <1>5 DEF NotYet, Served, Connected
<1>10. Kept'
  BY <1>1, <1>4, <1>7, BothEnds DEF Kept, Early, Blank
<1>11. Timers'
  BY <1>1, <1>4, <1>5, BothEnds DEF Timers, Timed, Blank, Connected
<1> QED
  BY <1>6, <1>8, <1>9, <1>10, <1>11 DEF Whole

(* the end of a connection                                                 *)
LEMMA OverFields ==
  ASSUME Whole, NEW e \in Ends, Terminated(e), ~ net[e].up
  PROVE  /\ Typed'
         /\ \A d \in Ends : Stays(d) /\ (Timed(sess[d]) => Timed(sess'[d]))
         /\ \A d \in Ends : net'[d].phase = IF d = e THEN "over" ELSE net[d].phase
<1>1. /\ sess' \in [Ends -> SessRec]
      /\ \A d \in Ends : /\ sess'[d].cache = sess[d].cache /\ sess'[d].fed = sess[d].fed
                         /\ sess'[d].check = sess[d].check
                         /\ sess'[d].handle => sess[d].handle
  BY WholeHas DEF Terminated, Typed, SessRec
<1>2. /\ net' \in [Ends -> NetRec]
      /\ \A d \in Ends : /\ net'[d].up = net[d].up
                         /\ net'[d].phase = IF d = e THEN "over" ELSE net[d].phase
                         /\ net'[d].ring = IF d = e THEN <<>> ELSE net[d].ring
  <2>1. <<>> \in Seq(Nat)
    OBVIOUS
  <2> QED BY <2>1, WholeHas DEF Terminated, Typed, NetRec
<1> QED
  BY <1>1, <1>2 DEF Typed, Stays, Timed

LEMMA FrontTerminateWhole ==
  ASSUME Whole, IInv', FrontTerminate
  PROVE  Whole'
<1>1. Terminated("front") /\ ~ net["front"].up
  BY DEF FrontTerminate
<1>2. Others
  BY WholeHas, BothEnds DEF FrontTerminate, Others, SessionState, Connected
<1> QED
  BY <1>1, <1>2, OverFields, StayStep, BothEnds

LEMMA BackOverWhole ==
  ASSUME Whole, IInv', BackError \/ BackTerminate
  PROVE  Whole'
<1>1. /\ Terminated("back") /\ ~ net["back"].up
  BY WholeHas, BothEnds DEF BackError, BackTerminate, Sent
<1>2. Others /\ ~ Connected("back")'
  BY WholeHas, BothEnds DEF BackError, BackTerminate, Others, SessionState, Connected
<1> QED
  BY <1>1, <1>2, OverFields, StayStep, BothEnds

(* a packet of the client is kept for the server                           *)
LEMMA EarlyWhole ==
  ASSUME Whole, IInv', net["front"].phase = "open", state["back"] \in {"CONNECT", "WAIT_CHECK"},
         CacheSendRawData("back"), seen' \in [Ends -> SeenRec],
         UNCHANGED <<agent, state, ending, down, net>>
  PROVE  Whole'
<1>1. agent = "live" /\ net["back"].phase \in {"none", "opening"} /\ ~ net["back"].up
  BY ClientThere, WholeHas, BothEnds DEF IInv, KnownBack, Sent
<1>2. Early(sess["back"])
  BY <1>1 DEF Whole, Kept
<1>3. Moved("back") /\ Early(sess'["back"])
  BY <1>1, <1>2, WholeHas, KeepsEarly
<1>4. TypeOK'
  BY <1>3 DEF Whole, TypeOK, Moved
<1>5. Counted'
  <2>1. Sent(sess'["back"], net'["back"], Left("back")')
    BY <1>1 DEF Sent
  <2>2. Sent(sess["front"], net["front"], Left("front"))
    BY WholeHas, BothEnds
  <2>3. Left("front") = Left("front")' /\ sess'["front"] = sess["front"] /\ net'["front"] = net["front"]
    BY <1>3, BothEnds DEF Left, Moved
  <2>4. Sent(sess'["front"], net'["front"], Left("front")')
    BY <2>2, <2>3
  <2> QED BY <2>1, <2>4, BothEnds DEF Counted
<1>6. NotYet' /\ Kept' /\ Served'
  BY <1>1, <1>3 DEF NotYet, Kept, Whole, Served, Connected
<1>7. Timers'
  BY <1>3, BothEnds DEF Timers, Whole, Moved, Connected
<1> QED
  BY <1>4, <1>5, <1>6, <1>7 DEF Whole

LEMMA ConnectBackWhole ==
  ASSUME Whole, IInv', state["back"] \in {"WAIT_CONNECT", "WAIT_CHECK"}, ConnectBack,
         seen' \in [Ends -> SeenRec], UNCHANGED <<agent, ending>>
  PROVE  Whole'
<1>1. net["back"].phase = "none" /\ ~ net["back"].up
  BY WholeHas, BothEnds DEF IInv, KnownBack, Sent
<1>2. /\ sess' \in [Ends -> SessRec]
      /\ \A d \in Ends : /\ sess'[d].cache = sess[d].cache /\ sess'[d].fed = sess[d].fed
                         /\ sess'[d].check = sess[d].check
      /\ sess'["front"] = sess["front"]
  BY ZenonT(60), WholeHas, BothEnds DEF ConnectBack, Typed, SessRec
<1>3. /\ net' \in [Ends -> NetRec]
      /\ \A d \in Ends : /\ net'[d].up = net[d].up /\ net'[d].ring = net[d].ring
      /\ net'["front"] = net["front"]
  <2>1. /\ SetPhase("back", "opening") /\ Typed
        /\ net["back"].up \in BOOLEAN /\ net["back"].ring \in Seq(Nat)
    BY WholeHas, BothEnds DEF ConnectBack, SetPhase, Typed, NetRec
  <2> QED BY <2>1, NetSet, BothEnds
<1>4. Typed' /\ \A d \in Ends : Stays(d)
  BY <1>1, <1>2, <1>3, BothEnds DEF Typed, Stays
<1>5. Others /\ ~ Connected("back")'
  BY WholeHas, BothEnds DEF ConnectBack, Others, SessionState, Connected
<1> QED
  BY <1>1, <1>2, <1>4, <1>5, StayStep

LEMMA DropWhole ==
  ASSUME Whole, IInv', Others, NEW E, Disconnect(E)
  PROVE  Whole'
BY WholeHas, BothEnds, DropFields, StayStep

LEMMA SendWhole ==
  ASSUME Whole, IInv', Others, NEW e \in Ends, SendRawData(e), net["front"].phase = "open",
         e = "back" => net["back"].phase \notin {"none", "opening"}
  PROVE  Whole'
<1>1. agent # "none" /\ Sent(sess[e], net[e], FALSE)
  <2>1. Sent(sess[e], net[e], Left(e)) /\ ~ Left(e) /\ agent = "live"
    BY ClientThere, WholeHas
  <2> QED BY <2>1 DEF Sent
<1>2. /\ Moved(e) /\ Len(net'[e].ring) <= Cap
      /\ Sent(sess'[e], net'[e], FALSE) /\ (Timed(sess[e]) => Timed(sess'[e]))
  BY <1>1, WholeHas, SendMoves
<1> QED
  BY <1>1, <1>2, MovedStep

LEMMA HeardSeen ==
  ASSUME Whole, NEW e \in Ends, Heard(e)
  PROVE  seen' \in [Ends -> SeenRec] /\ net[e].phase = "open"
BY WholeHas DEF Heard, SeenRec

LEMMA FrontSteppingWhole ==
  ASSUME Whole, IInv', FrontSteps
  PROVE  Whole'
<1>1. CASE FrontRecvConnecting
  BY <1>1, HeardSeen, EarlyWhole, BothEnds DEF FrontRecvConnecting
<1>2. CASE FrontHandshake
  <2>1. /\ seen' \in [Ends -> SeenRec] /\ net["front"].phase = "open"
        /\ UNCHANGED <<agent, ending>> /\ state["back"] = "WAIT_CONNECT"
    BY <1>2, HeardSeen, BothEnds DEF FrontHandshake
  <2>2. CASE /\ Disconnect({"front"})
             /\ state' = [state EXCEPT !["back"] = "TERMINATE"]
             /\ down' = ~ sess["front"].handle
    <3>1. Others
      BY <2>1, <2>2, WholeHas, BothEnds DEF Others, SessionState, Connected, Typed, SessRec
    <3> QED BY <2>2, <3>1, DropWhole
  <2>3. CASE ConnectBack
    BY <2>1, <2>3, ConnectBackWhole
  <2>4. CASE /\ sess["front"].handle /\ SendRawData("front")
             /\ state' = [state EXCEPT !["back"] = "WAIT_CHECK"] /\ UNCHANGED down
    <3>1. Others
      BY <2>1, <2>4, WholeHas, BothEnds DEF Others, SessionState, Connected
    <3> QED BY <2>1, <2>4, <3>1, SendWhole, BothEnds
  <2>5. CASE RefuseFront
    <3>1. Others
      BY <2>1, <2>5, WholeHas, BothEnds DEF RefuseFront, Others, SessionState, Connected
    <3> QED BY <2>5, <3>1, DropWhole DEF RefuseFront
  <2> QED BY <1>2, <2>2, <2>3, <2>4, <2>5 DEF FrontHandshake
<1>3. CASE FrontCheck
  <2>1. /\ seen' \in [Ends -> SeenRec] /\ net["front"].phase = "open"
        /\ UNCHANGED <<agent, ending>> /\ state["back"] = "WAIT_CHECK"
    BY <1>3, HeardSeen, BothEnds DEF FrontCheck
  <2>2. CASE ConnectBack
    BY <2>1, <2>2, ConnectBackWhole
  <2>3. CASE RefuseFront
    <3>1. Others
      BY <2>1, <2>3, WholeHas, BothEnds DEF RefuseFront, Others, SessionState, Connected
    <3> QED BY <2>3, <3>1, DropWhole DEF RefuseFront
  <2>4. CASE CacheSendRawData("back") /\ UNCHANGED <<state, net, down>>
    BY <2>1, <2>4, EarlyWhole
  <2> QED BY <1>3, <2>2, <2>3, <2>4 DEF FrontCheck
<1>4. CASE FrontRecv
  <2>1. /\ seen' \in [Ends -> SeenRec] /\ net["front"].phase = "open"
        /\ UNCHANGED <<agent, state, ending, down>>
    BY <1>4, HeardSeen, BothEnds DEF FrontRecv
  <2>2. Others
    BY <2>1, WholeHas DEF Others, Connected
  <2>3. ASSUME state["back"] # "TERMINATE", NEW e \in Ends, SendRawData(e) PROVE Whole'
    <3>1. Connected("back")
      BY <1>4, <2>3 DEF FrontRecv, Connected
    <3>2. net["back"].phase = "open"
      BY <3>1 DEF Whole, Served
    <3> QED BY <2>1, <2>2, <2>3, <3>2, SendWhole
  <2>4. CASE UNCHANGED <<sess, net>>
    BY <2>2, <2>4, WholeHas, StayStep DEF Typed, Stays
  <2> QED BY <1>4, <2>3, <2>4 DEF FrontRecv
<1> QED
  BY <1>1, <1>2, <1>3, <1>4 DEF FrontSteps

LEMMA BackSteppingWhole ==
  ASSUME Whole, IInv', BackSteps
  PROVE  Whole'
<1>1. seen' \in [Ends -> SeenRec] /\ net["back"].phase = "open" /\ UNCHANGED <<agent, ending, down>>
  BY HeardSeen, BothEnds DEF BackSteps, BackHandshake, BackRecv
<1>2. agent # "none"
  BY <1>1, WholeHas, BothEnds DEF Alive
<1>3. ASSUME Others, SendRawData("front") PROVE Whole'
  <2>1. /\ Moved("front") /\ Len(net'["front"].ring) <= Cap
        /\ Sent(sess'["front"], net'["front"], FALSE)
        /\ (Timed(sess["front"]) => Timed(sess'["front"]))
    <3>1. Sent(sess["front"], net["front"], FALSE)
      BY WholeHas, BothEnds DEF Left, Sent
    <3> QED BY <1>3, <3>1, WholeHas, BothEnds, SendMoves
  <2> QED BY <1>2, <1>3, <2>1, MovedStep, BothEnds
<1>4. CASE BackHandshake
  <2>1. CASE Disconnect({"back"}) /\ UNCHANGED state
    <3>1. Others
      BY <1>1, <2>1, WholeHas DEF Others, Connected
    <3> QED BY <2>1, <3>1, DropWhole
  <2>2. CASE SendRawData("front") /\ state' = [state EXCEPT !["back"] = "WORK"]
    <3>1. Others
      BY <1>1, <1>4, <2>2, WholeHas, BothEnds
         DEF BackHandshake, Others, SessionState, Connected
    <3> QED BY <1>3, <2>2, <3>1
  <2> QED BY <1>4, <2>1, <2>2 DEF BackHandshake
<1>5. CASE BackRecv
  <2>1. Others
    BY <1>1, <1>5, WholeHas DEF BackRecv, Others, Connected
  <2>2. CASE UNCHANGED <<sess, net>>
    BY <2>1, <2>2, WholeHas, StayStep DEF Typed, Stays
  <2> QED BY <1>3, <1>5, <2>1, <2>2 DEF BackRecv
<1> QED
  BY <1>4, <1>5 DEF BackSteps

(* the handshake and what was kept: with a client they are numbered from   *)
(* the first unit on; without one the handshake is missing                 *)
LEMMA BackEstablishWhole ==
  ASSUME Whole, IInv', BackEstablish
  PROVE  Whole'
<1> DEFINE s == sess["back"]
           c == s.cache
           y == Len(c)
           hands == state["front"] = "ESTABLISH"
<1>1. /\ net["back"].phase = "opening" /\ agent = "live" /\ Early(s)
      /\ c \in Seq(Nat) /\ y \in Nat /\ s.fed \in Nat
      /\ c = Numbers(1, y) /\ s.fed = y + 1
  BY WholeHas, BothEnds DEF BackEstablish, Alive, Whole, Kept, Early, Typed, SessRec
<1>2. PICK up \in BOOLEAN :
        LET room == IF up THEN Cap - 1 ELSE Cap
            n == IF hands THEN Least(room, y) ELSE 0
            left == Rest(c, n)
        IN /\ net' = [net EXCEPT
                        !["back"].phase = "open", !["back"].up = up,
                        !["back"].ring = IF up /\ hands THEN <<1>> \o Prefix(c, n) ELSE <<>>]
           /\ sess' = [sess EXCEPT !["back"].cache = left,
                                   !["back"].check = hands /\ left # <<>>]
  BY DEF BackEstablish
<1> DEFINE room == IF up THEN Cap - 1 ELSE Cap
           n == IF hands THEN Least(room, y) ELSE 0
           left == Rest(c, n)
           w == IF up /\ hands THEN <<1>> \o Prefix(c, n) ELSE <<>>
           k == hands /\ left # <<>>
           u == 1 + n
           v == y - n
<1>3. n \in 0 .. y /\ n \in Nat /\ (up => u <= Cap)
  <2>1. n = IF hands THEN (IF room <= y THEN room ELSE y) ELSE 0
    BY DEF Least
  <2> HIDE DEF n, y, hands
  <2> QED BY <1>1, <2>1, Room
<1>4. /\ Prefix(c, n) = Numbers(1, n) /\ left = Numbers(u, v)
      /\ Numbers(0, 1) \o Numbers(1, n) = Numbers(0, u)
  <2>1. \A b \in Nat : \A m \in 0 .. b :
          /\ Prefix(Numbers(1, b), m) = Numbers(1, m)
          /\ Rest(Numbers(1, b), m) = Numbers(1 + m, b - m)
    BY CutNumbers
  <2>2. \A m \in Nat : Numbers(0, 1) \o Numbers(0 + 1, m) = Numbers(0, 1 + m)
    BY JoinNumbers
  <2> HIDE DEF n, y
  <2>3. Prefix(Numbers(1, y), n) = Numbers(1, n) /\ Rest(Numbers(1, y), n) = Numbers(1 + n, y - n)
    BY <1>1, <1>3, <2>1
  <2>4. Numbers(0, 1) \o Numbers(1, n) = Numbers(0, 1 + n)
    <3>1. 0 + 1 = 1
      OBVIOUS
    <3> QED BY <1>3, <2>2, <3>1
  <2>5. c = Numbers(1, y)
    BY <1>1
  <2> HIDE DEF c
  <2> QED BY <2>3, <2>4, <2>5
<1>5. w = IF up /\ hands THEN Numbers(0, u) ELSE <<>>
  BY <1>4, NoNumbers
<1>6. u \in Nat /\ v \in Nat /\ s.fed = u + v
  <2> HIDE DEF n, y
  <2> QED BY <1>1, <1>3
<1>7. /\ net' = [net EXCEPT !["back"].phase = "open", !["back"].up = up, !["back"].ring = w]
      /\ SetCheck("back", left, k)
  BY <1>2 DEF SetCheck
<1>8. k \in BOOLEAN /\ up \in BOOLEAN /\ (~ hands => n = 0)
  OBVIOUS
<1> HIDE DEF u, v, w, k, left
<1>9. /\ w \in Seq(Nat) /\ left \in Seq(Nat) /\ Len(left) = v
      /\ (up /\ hands => Len(w) = u) /\ Len(<<>>) = 0
  BY <1>4, <1>5, <1>6, NumbersAre, EmptySeq
<1>10. /\ sess' \in [Ends -> SessRec]
       /\ \A d \in Ends : sess'[d].handle = sess[d].handle
       /\ \A d \in Ends : d # "back" => sess'[d] = sess[d]
       /\ sess'["back"].cache = left /\ sess'["back"].fed = s.fed /\ sess'["back"].check = k
  <2>1. Typed /\ "back" \in Ends /\ sess["back"].fed \in Nat
    BY <1>1, WholeHas, BothEnds
  <2>2. SetCheck("back", left, k) /\ left \in Seq(Nat) /\ k \in BOOLEAN
    BY <1>7, <1>8, <1>9
  <2> QED BY <2>1, <2>2, SessSet
<1>11. /\ net' \in [Ends -> NetRec] /\ net'["front"] = net["front"]
       /\ net'["back"].phase = "open" /\ net'["back"].up = up /\ net'["back"].ring = w
  <2>1. SetNet("back", "open", up, w) /\ Typed
    BY <1>7, WholeHas DEF SetNet
  <2> QED BY <1>9, <2>1, NetSet, BothEnds
<1>12. /\ state' \in [Ends -> SessionState] /\ state'["front"] = state["front"]
       /\ down' \in BOOLEAN /\ UNCHANGED <<agent, seen, ending>>
  BY WholeHas, BothEnds DEF BackEstablish, SessionState
<1>13. TypeOK'
  <2>1. Len(net'["back"].ring) <= Cap
    BY <1>3, <1>5, <1>8, <1>9, <1>11, Room
  <2>2. \A e \in Ends : Len(net'[e].ring) <= Cap
    BY <1>11, <2>1, BothEnds, WholeHas
  <2> QED BY <1>10, <1>11, <1>12, <2>2, WholeHas DEF TypeOK
<1>14. Sent(sess'["back"], net'["back"], Left("back")')
  <2>1. CASE hands
    <3>1. up => /\ net'["back"].phase = "open" /\ net'["back"].ring = Numbers(0, u)
                /\ sess'["back"].cache = Numbers(u, v) /\ sess'["back"].fed = u + v
      BY <1>4, <1>5, <1>6, <1>10, <1>11, <2>1
    <3> QED BY <1>6, <1>11, <3>1, SentWhen
  <2>2. CASE ~ hands
    <3>1. Left("back")' /\ w = <<>> /\ ~ k
      BY <1>5, <1>12, <2>2 DEF Left, k
    <3>2. u = 1 /\ v = y
      BY <1>1, <1>8, <2>2 DEF u, v
    <3>3. s.fed - v = 1 /\ s.fed = v + 1 /\ left = Numbers(1, v)
      BY <1>1, <1>4, <1>6, <3>2
    <3>4. <<>> = Numbers(0, 0)
      BY NoNumbers
    <3> QED BY <1>9, <1>10, <1>11, <3>1, <3>3, <3>4 DEF Sent
  <2> QED BY <2>1, <2>2
<1>15. Counted'
  <2>1. Sent(sess["front"], net["front"], Left("front"))
    BY WholeHas, BothEnds
  <2>2. Left("front") = Left("front")' /\ sess'["front"] = sess["front"] /\ net'["front"] = net["front"]
    BY <1>10, <1>11, BothEnds DEF Left
  <2>3. Sent(sess'["front"], net'["front"], Left("front")')
    BY <2>1, <2>2
  <2> QED BY <1>14, <2>3, BothEnds DEF Counted
<1>16. NotYet' /\ Kept' /\ Served'
  BY <1>1, <1>11, <1>12 DEF NotYet, Kept, Served
<1>17. Timers'
  BY <1>10, <1>12, BothEnds DEF Timers, Timed, Whole, k
<1> QED
  BY <1>13, <1>15, <1>16, <1>17 DEF Whole

LEMMA CheckTerminateWhole ==
  ASSUME Whole, IInv', CheckTerminate
  PROVE  Whole'
<1>1. UNCHANGED <<state, seen, down>> /\ ending /\ agent # "none"
  BY WholeHas DEF CheckTerminate, IInv, Life
<1>2. CASE AllTerminated
  <2>1. /\ agent' = "deleted" /\ ending' = FALSE /\ net' = net
        /\ sess' = [e \in Ends |-> [sess[e] EXCEPT !.check = FALSE]]
    BY <1>2 DEF CheckTerminate
  <2>2. /\ sess' \in [Ends -> SessRec]
        /\ \A d \in Ends : /\ sess'[d].cache = sess[d].cache /\ sess'[d].fed = sess[d].fed
                           /\ sess'[d].handle = sess[d].handle /\ ~ sess'[d].check
    BY <2>1, WholeHas DEF Typed, SessRec
  <2>3. \A d \in Ends : ~ sess[d].handle
    BY <1>2, BothEnds, WholeHas DEF AllTerminated, IInv, KnownFront, KnownBack, Alive
  <2>4. Others
    BY <1>1, <2>1, WholeHas DEF Others, Connected
  <2>5. Typed' /\ \A d \in Ends : Stays(d) /\ Timed(sess'[d])
    BY <2>1, <2>2, <2>3, WholeHas DEF Typed, Stays, Timed
  <2> QED BY <2>1, <2>4, <2>5, BothEnds, StayStep
<1>3. CASE ~ AllTerminated
  <2>1. /\ UNCHANGED <<agent, ending>>
        /\ \E E : Disconnect(E)
    BY <1>3 DEF CheckTerminate
  <2>2. Others
    BY <1>1, <2>1, WholeHas DEF Others, Connected
  <2> QED BY <2>1, <2>2, DropWhole
<1> QED
  BY <1>2, <1>3

LEMMA CheckSessionWhole ==
  ASSUME Whole, IInv', CheckSession
  PROVE  Whole'
<1>1. UNCHANGED <<agent, state, ending, down>> /\ \E E : Disconnect(E)
  BY DEF CheckSession
<1>2. seen' \in [Ends -> SeenRec]
  <2>1. ASSUME NEW e \in Ends PROVE seen'[e] \in SeenRec
    <3>1. seen[e] \in SeenRec
      BY WholeHas
    <3>2. seen'[e] = IF Connected(e) /\ seen[e].fresh THEN [fresh |-> FALSE, age |-> 0]
                     ELSE [seen[e] EXCEPT !.age = Least(2, @ + 1)]
      BY DEF CheckSession
    <3>3. Least(2, seen[e].age + 1) \in 0 .. 2
      BY <3>1 DEF SeenRec, Least
    <3> QED BY <3>1, <3>2, <3>3 DEF SeenRec
  <2> QED BY <2>1 DEF CheckSession
<1>3. Others
  BY <1>1, <1>2, WholeHas DEF Others, Connected
<1> QED
  BY <1>1, <1>3, DropWhole

LEMMA NetworkWhole ==
  ASSUME Whole, IInv', NEW e \in Ends, OnDataCheck(e) \/ GoesDown(e) \/ Drain(e) \/ ParsePart(e)
  PROVE  Whole'
<1>1. Others
  BY WholeHas DEF Others, Connected, OnDataCheck, GoesDown, Drain, ParsePart
<1>2. CASE OnDataCheck(e)
  <2>1. sess[e].check
    BY <1>2 DEF OnDataCheck
  <2>2. agent # "none" /\ (e = "back" => net[e].phase \notin {"none", "opening"})
    BY <2>1 DEF Whole, NotYet, Kept, Blank, Early
  <2>3. Sent(sess[e], net[e], FALSE)
    BY <2>1, WholeHas, ExactIfTimed
  <2> QED BY <1>1, <1>2, <2>2, <2>3, WholeHas, DataCheckMoves, MovedStep
<1>3. CASE Drain(e)
  <2>1. net[e].up /\ net[e].ring # <<>>
    BY <1>3 DEF Drain
  <2>2. Sent(sess[e], net[e], FALSE)
    BY <2>1, WholeHas, ExactIfTimed
  <2>3. net[e].phase = "open"
    BY <2>1, <2>2 DEF Sent
  <2>4. agent # "none"
    BY <2>3, WholeHas DEF Alive
  <2> QED BY <1>1, <1>3, <2>2, <2>3, <2>4, WholeHas, DrainMoves, MovedStep
<1>4. CASE GoesDown(e)
  <2>1. sess' = sess /\ net' = [net EXCEPT ![e].up = FALSE]
    BY <1>4 DEF GoesDown
  <2>2. /\ net' \in [Ends -> NetRec]
        /\ \A d \in Ends : /\ net'[d].phase = net[d].phase /\ net'[d].ring = net[d].ring
                           /\ net'[d].up => net[d].up
    BY <2>1, WholeHas DEF Typed, NetRec
  <2>3. Typed' /\ \A d \in Ends : Stays(d)
    BY <2>1, <2>2, WholeHas DEF Typed, Stays
  <2> QED BY <1>1, <2>1, <2>2, <2>3, BothEnds, StayStep
<1>5. CASE ParsePart(e)
  <2>1. sess' = sess /\ net' = net
    BY <1>5 DEF ParsePart
  <2> QED BY <1>1, <2>1, WholeHas, StayStep DEF Typed, Stays
<1> QED
  BY <1>2, <1>3, <1>4, <1>5

LEMMA WholeNext == Whole /\ [Next]_vars => Whole'
<1> SUFFICES ASSUME Whole, [Next]_vars PROVE Whole'
  OBVIOUS
<1>1. IInv'
  BY IInvNext, WholeHas
<1>2. CASE FrontEstablish
  BY <1>1, <1>2, FrontEstablishWhole
<1>3. CASE FrontTerminate
  BY <1>1, <1>3, FrontTerminateWhole
<1>4. CASE FrontSteps
  BY <1>1, <1>4, FrontSteppingWhole
<1>5. CASE BackEstablish
  BY <1>1, <1>5, BackEstablishWhole
<1>6. CASE BackError \/ BackTerminate
  BY <1>1, <1>6, BackOverWhole
<1>7. CASE BackSteps
  BY <1>1, <1>7, BackSteppingWhole
<1>8. CASE CheckTerminate
  BY <1>1, <1>8, CheckTerminateWhole
<1>9. CASE CheckSession
  BY <1>1, <1>9, CheckSessionWhole
<1>10. ASSUME NEW e \in Ends, OnDataCheck(e) \/ GoesDown(e) \/ Drain(e) \/ ParsePart(e)
       PROVE  Whole'
  BY <1>1, <1>10, NetworkWhole
<1>11. CASE UNCHANGED vars
  <2>1. Others /\ Typed' /\ sess' = sess /\ net' = net
    BY <1>11, WholeHas DEF vars, Others, Connected, Typed
  <2> QED BY <1>1, <2>1, StayStep DEF Stays
<1> QED
  BY <1>2, <1>3, <1>4, <1>5, <1>6, <1>7, <1>8, <1>9, <1>10, <1>11 DEF Next

LEMMA WholeAlways == Spec => []Whole
BY WholeInit, WholeNext, PTL DEF Spec

-----------------------------------------------------------------------------
(* For every size of rings, packets and caches, every field stays in its   *)
(* range, and no session ever asks net_tcp_send for more than the ring of  *)
(* its socket has room for, which would close the connection.              *)
THEOREM TypeCorrect == Spec => []TypeOK
<1>1. Whole => TypeOK
  BY DEF Whole
<1> QED
  BY <1>1, WholeAlways, PTL

(* However the ring cuts the packets, and whenever the client, the server  *)
(* and the timers act: the units leave in the order they were given, the   *)
(* handshake before what was kept for the server, and without a gap.       *)
THEOREM UnitsInOrder == Spec => []InOrder
<1>1. ASSUME Whole PROVE InOrder
  <2> SUFFICES ASSUME NEW e \in Ends, net[e].up
               PROVE  /\ net[e].ring = Numbers(0, Len(net[e].ring))
                      /\ sess[e].cache =
                           Numbers(sess[e].fed - Len(sess[e].cache), Len(sess[e].cache))
                      /\ Connected("front") =>
                           sess[e].fed = Len(net[e].ring) + Len(sess[e].cache)
    BY DEF InOrder
  <2>1. Sent(sess[e], net[e], Left(e)) /\ IInv
    BY <1>1, WholeHas
  <2>2. Connected("front") => ~ Left(e)
    BY <2>1 DEF IInv, KnownFront, Connected, Left
  <2> QED BY <2>1, <2>2 DEF Sent
<1> QED
  BY <1>1, WholeAlways, PTL

(* While both connections stand, m_data_check_timer runs for every send    *)
(* cache that is not empty.                                                *)
THEOREM CachesAreSent == Spec => []CacheHasTimer
<1>1. ASSUME Whole PROVE CacheHasTimer
  <2>1. /\ state["front"] \in {"NONE", "ESTABLISH", "TERMINATE"}
    BY <1>1 DEF Whole, IInv, KnownFront
  <2> QED
    BY <1>1, <2>1, BothEnds DEF CacheHasTimer, Whole, Timers, Timed, Connected
<1> QED
  BY <1>1, WholeAlways, PTL
=============================================================================
