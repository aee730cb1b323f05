------------------------ MODULE LockFreeQueueProofs -------------------------
(***************************************************************************)
(* The queue of lock_free_queue.hpp, pushed and popped by any number of    *)
(* threads at once, is a bounded queue, and refuses a call with the latest *)
(* index only when it is full or another thread is in the middle of a call. *)
(***************************************************************************)
EXTENDS LockFreeQueue, SequenceTheorems, TLAPS

-----------------------------------------------------------------------------
(***************************************************************************)
(* Indices and nodes: _capacityMask maps an index to its node.             *)
(***************************************************************************)

LEMMA CapIsPos == Cap \in Nat \ {0}
BY LockFreeQueueAssumption

LEMMA Division ==
  ASSUME NEW c \in Nat \ {0}, NEW k \in Nat
  PROVE  /\ k = c * (k \div c) + (k % c)
         /\ k % c \in 0 .. c - 1 /\ k \div c \in Nat
BY SMT

LEMMA AtType == ASSUME NEW k \in Nat PROVE At(k) \in Nodes
BY CapIsPos, Division DEF At, Nodes

LEMMA AtOwn == ASSUME NEW k \in Nodes PROVE k \in Nat /\ At(k) = k
<1>1. k = Cap * 0 + k
  BY CapIsPos DEF Nodes
<1> QED BY <1>1, CapIsPos, SMT DEF At, Nodes

LEMMA AtCap == ASSUME NEW k \in Nat PROVE At(k + Cap) = At(k)
<1> DEFINE q == k \div Cap
           r == k % Cap
<1>1. k = Cap * q + r /\ r \in 0 .. Cap - 1 /\ q \in Nat
  BY CapIsPos, Division
<1> HIDE DEF q, r
<1>2. k + Cap = Cap * (q + 1) + r
  BY <1>1, CapIsPos
<1>3. (Cap * (q + 1) + r) % Cap = r
  BY <1>1, CapIsPos
<1> QED BY <1>2, <1>3 DEF At, r

(* Indices less than a turn apart have different nodes.                    *)
LEMMA AtInj ==
  ASSUME NEW j \in Nat, NEW k \in Nat, j < k, k < j + Cap
  PROVE  At(j) # At(k)
<1> DEFINE p == j \div Cap
           q == k \div Cap
           r == k % Cap
<1>1. k = Cap * q + r /\ r \in 0 .. Cap - 1 /\ q \in Nat
  BY CapIsPos, Division
<1>2. p \in Nat /\ j = Cap * p + (j % Cap)
  BY CapIsPos, Division
<1> SUFFICES ASSUME j % Cap = r PROVE FALSE
  BY DEF At
<1> HIDE DEF p, q, r
<1>3. k - j = Cap * (q - p)
  BY <1>1, <1>2, CapIsPos
<1>4. CASE q - p >= 1
  <2>1. Cap * (q - p) >= Cap
    BY <1>1, <1>2, <1>4, CapIsPos
  <2> QED BY <1>3, <2>1, CapIsPos
<1>5. CASE q - p <= 0
  <2>1. Cap * (q - p) <= 0
    BY <1>1, <1>2, <1>5, CapIsPos
  <2> QED BY <1>3, <2>1, CapIsPos
<1> QED BY <1>1, <1>2, <1>4, <1>5

-----------------------------------------------------------------------------
(***************************************************************************)
(* The inductive invariant.                                                *)
(***************************************************************************)
Pcs == {"idle", "push_test", "push_swap", "fill", "publish",
        "pop_test", "pop_swap", "take", "release"}

Results == {<<>>} \cup {<<v>> : v \in Val \cup {None}}

CallRec == [pc : Pcs, index : Nat, val : Val \cup {None}, got : Results]

NodeRec == [tail : Nat, head : Int, data : Val \cup {None}]

Typed ==
  /\ tail \in Nat /\ head \in Nat
  /\ node \in [Nodes -> NodeRec]
  /\ call \in [Threads -> CallRec]

Counts == head <= tail /\ tail <= head + Cap

(* Every node serves one of the Cap indices from _head on: one that was    *)
(* pushed and is not yet popped, or the next one, for which it is ready    *)
(* when the pop of its former index has released it.                       *)
Full(k) ==
  /\ node[At(k)].tail = k
  /\ IF Pushing(k) THEN node[At(k)].head < k ELSE node[At(k)].head = k

Empty(k) ==
  /\ node[At(k)].head < k
  /\ node[At(k)].tail = IF Popping(k - Cap) THEN k - Cap ELSE k

Window == \A k \in head .. head + Cap - 1 : IF k < tail THEN Full(k) ELSE Empty(k)

(* What each thread knows of its index, at every place of a call.          *)
Filling(t) == call[t].pc \in {"fill", "publish"}
Emptying(t) == call[t].pc \in {"take", "release"}

PushKnows(t) ==
  /\ call[t].pc \in {"push_test", "push_swap"} => call[t].index <= tail
  /\ call[t].pc = "push_swap" /\ call[t].index = tail => node[At(tail)].tail = tail
  /\ Filling(t) => head <= call[t].index /\ call[t].index < tail
  /\ call[t].pc \in {"push_test", "push_swap", "fill", "publish"} => call[t].val \in Val

PopKnows(t) ==
  /\ call[t].pc \in {"pop_test", "pop_swap"} => call[t].index <= head
  /\ call[t].pc = "pop_swap" /\ call[t].index = head => node[At(head)].head = head
  /\ Emptying(t) => tail <= call[t].index + Cap /\ call[t].index < head

(* The compare-and-swap gives an index to one thread.                      *)
Alone ==
  \A t, u \in Threads :
    /\ Filling(t) /\ Filling(u) /\ call[t].index = call[u].index => t = u
    /\ Emptying(t) /\ Emptying(u) /\ call[t].index = call[u].index => t = u

IInv ==
  /\ Typed
  /\ Counts
  /\ Window
  /\ \A t \in Threads : PushKnows(t) /\ PopKnows(t)
  /\ Alone

-----------------------------------------------------------------------------
(* The invariant holds of the queue that init has made.                    *)
LEMMA Initially == Init => IInv
<1> SUFFICES ASSUME Init PROVE IInv
  OBVIOUS
<1>1. Typed
  BY CapIsPos DEF Init, Typed, NodeRec, CallRec, Results, Pcs, Nodes
<1>2. Counts
  BY CapIsPos DEF Init, Counts
<1>3. Window
  <2> SUFFICES ASSUME NEW k \in 0 .. Cap - 1
               PROVE  Empty(k)
    BY CapIsPos DEF Init, Window
  <2>1. ~ Popping(k - Cap)
    BY DEF Init, Popping, Holds
  <2>2. At(k) = k /\ k \in Nodes
    BY AtOwn DEF Nodes
  <2> QED BY <2>1, <2>2 DEF Init, Empty
<1>4. (\A t \in Threads : PushKnows(t) /\ PopKnows(t)) /\ Alone
  BY DEF Init, PushKnows, PopKnows, Alone, Filling, Emptying
<1> QED BY <1>1, <1>2, <1>3, <1>4 DEF IInv

(* Window decides what the first test of push and pop finds.               *)
LEMMA Refusals == IInv => RefusedRightly
<1> SUFFICES ASSUME IInv PROVE RefusedRightly
  OBVIOUS
<1> USE CapIsPos DEF IInv, Typed, Counts
<1>1. ASSUME tail < head + Cap
      PROVE  Empty(tail)
  BY <1>1 DEF Window
<1>2. tail = head + Cap => At(tail) = At(head)
  BY AtCap
<1>3. head < tail => Full(head)
  BY DEF Window
<1>4. head = tail => Empty(head)
  BY DEF Window
<1>5. node[At(tail)].tail # tail <=> (tail - head = Cap \/ Popping(tail - Cap))
  <2>1. CASE tail < head + Cap
    BY <1>1, <2>1 DEF Empty
  <2>2. CASE tail = head + Cap
    BY <1>2, <1>3, <2>2 DEF Full
  <2> QED BY <2>1, <2>2
<1>6. node[At(head)].head # head <=> (tail = head \/ Pushing(head))
  <2>1. CASE head < tail
    BY <1>3, <2>1 DEF Full
  <2>2. CASE head = tail
    BY <1>4, <2>2 DEF Empty
  <2> QED BY <2>1, <2>2
<1> QED BY <1>5, <1>6 DEF RefusedRightly

(* A step of one thread outside what the others look at.                   *)
LEMMA Quiet ==
  ASSUME IInv, NEW t \in Threads,
         UNCHANGED <<tail, head, node>>,
         call' \in [Threads -> CallRec],
         \A u \in Threads \ {t} : call'[u] = call[u],
         ~ Filling(t), ~ Emptying(t), ~ Filling(t)', ~ Emptying(t)',
         PushKnows(t)', PopKnows(t)'
  PROVE  IInv'
<1>1. Typed' /\ Counts'
  BY DEF IInv, Typed, Counts
<1>2. ASSUME NEW k \in Int
      PROVE  (Pushing(k)' <=> Pushing(k)) /\ (Popping(k)' <=> Popping(k))
  BY DEF Pushing, Popping, Holds, Filling, Emptying
<1>3. Window'
  <2> SUFFICES ASSUME NEW k \in head .. head + Cap - 1
               PROVE  (IF k < tail THEN Full(k) ELSE Empty(k))'
    BY DEF Window
  <2>1. IF k < tail THEN Full(k) ELSE Empty(k)
    BY DEF IInv, Window
  <2>2. k \in Int /\ k - Cap \in Int
    BY CapIsPos DEF IInv, Typed
  <2> QED BY <1>2, <2>1, <2>2 DEF Full, Empty
<1>4. \A u \in Threads : PushKnows(u)' /\ PopKnows(u)'
  BY DEF IInv, PushKnows, PopKnows, Filling, Emptying
<1>5. Alone'
  BY DEF IInv, Alone, Filling, Emptying
<1> QED BY <1>1, <1>3, <1>4, <1>5 DEF IInv

LEMMA PushLoadKeeps ==
  ASSUME IInv, NEW t \in Threads, NEW v \in Val, PushLoad(t, v)
  PROVE  IInv'
<1>1. call' \in [Threads -> CallRec] /\ \A u \in Threads \ {t} : call'[u] = call[u]
  <2>1. [call[t] EXCEPT !.pc = "push_test", !.index = tail, !.val = v] \in CallRec
    BY DEF IInv, Typed, CallRec, Pcs
  <2>2. call' = [call EXCEPT ![t] = [call[t] EXCEPT !.pc = "push_test", !.index = tail, !.val = v]]
    BY DEF PushLoad, IInv, Typed
  <2> QED BY <2>1, <2>2 DEF IInv, Typed
<1>2. ~ Filling(t) /\ ~ Emptying(t) /\ ~ Filling(t)' /\ ~ Emptying(t)'
  BY DEF PushLoad, Goto, Filling, Emptying, IInv, Typed
<1>3. PushKnows(t)' /\ PopKnows(t)'
  BY <1>2 DEF PushLoad, Goto, PushKnows, PopKnows, IInv, Typed, CallRec
<1> QED BY <1>1, <1>2, <1>3, Quiet DEF PushLoad

LEMMA PushReadyKeeps ==
  ASSUME IInv, NEW t \in Threads, PushReady(t)
  PROVE  IInv'
<1>1. call' \in [Threads -> CallRec] /\ \A u \in Threads \ {t} : call'[u] = call[u]
  BY DEF PushReady, Goto, IInv, Typed, CallRec, Pcs
<1>2. ~ Filling(t) /\ ~ Emptying(t) /\ ~ Filling(t)' /\ ~ Emptying(t)'
  BY DEF PushReady, Goto, Filling, Emptying, IInv, Typed
<1>3. PushKnows(t)' /\ PopKnows(t)'
  BY <1>2 DEF PushReady, Goto, PushKnows, PopKnows, IInv, Typed, CallRec
<1> QED BY <1>1, <1>2, <1>3, Quiet DEF PushReady

LEMMA PushRefuseKeeps ==
  ASSUME IInv, NEW t \in Threads, PushRefuse(t)
  PROVE  IInv'
<1>1. call' \in [Threads -> CallRec] /\ \A u \in Threads \ {t} : call'[u] = call[u]
  BY ZenonT(60) DEF PushRefuse, Goto, IInv, Typed, CallRec, Pcs
<1>2. ~ Filling(t) /\ ~ Emptying(t) /\ ~ Filling(t)' /\ ~ Emptying(t)'
  BY DEF PushRefuse, Goto, Filling, Emptying, IInv, Typed
<1>3. PushKnows(t)' /\ PopKnows(t)'
  BY <1>2 DEF PushRefuse, Goto, PushKnows, PopKnows, IInv, Typed, CallRec
<1> QED BY <1>1, <1>2, <1>3, Quiet DEF PushRefuse

LEMMA PushAgainKeeps ==
  ASSUME IInv, NEW t \in Threads, PushAgain(t)
  PROVE  IInv'
<1>1. call' \in [Threads -> CallRec] /\ \A u \in Threads \ {t} : call'[u] = call[u]
  BY ZenonT(60) DEF PushAgain, Goto, IInv, Typed, CallRec, Pcs
<1>2. ~ Filling(t) /\ ~ Emptying(t) /\ ~ Filling(t)' /\ ~ Emptying(t)'
  BY DEF PushAgain, Goto, Filling, Emptying, IInv, Typed
<1>3. PushKnows(t)' /\ PopKnows(t)'
  BY <1>2 DEF PushAgain, Goto, PushKnows, PopKnows, IInv, Typed, CallRec
<1> QED BY <1>1, <1>2, <1>3, Quiet DEF PushAgain

LEMMA PopLoadKeeps ==
  ASSUME IInv, NEW t \in Threads, PopLoad(t)
  PROVE  IInv'
<1>1. call' \in [Threads -> CallRec] /\ \A u \in Threads \ {t} : call'[u] = call[u]
  BY ZenonT(60) DEF PopLoad, Goto, IInv, Typed, CallRec, Pcs
<1>2. ~ Filling(t) /\ ~ Emptying(t) /\ ~ Filling(t)' /\ ~ Emptying(t)'
  BY DEF PopLoad, Goto, Filling, Emptying, IInv, Typed
<1>3. PushKnows(t)' /\ PopKnows(t)'
  BY <1>2 DEF PopLoad, Goto, PushKnows, PopKnows, IInv, Typed, CallRec
<1> QED BY <1>1, <1>2, <1>3, Quiet DEF PopLoad

LEMMA PopReadyKeeps ==
  ASSUME IInv, NEW t \in Threads, PopReady(t)
  PROVE  IInv'
<1>1. call' \in [Threads -> CallRec] /\ \A u \in Threads \ {t} : call'[u] = call[u]
  BY DEF PopReady, Goto, IInv, Typed, CallRec, Pcs
<1>2. ~ Filling(t) /\ ~ Emptying(t) /\ ~ Filling(t)' /\ ~ Emptying(t)'
  BY DEF PopReady, Goto, Filling, Emptying, IInv, Typed
<1>3. PushKnows(t)' /\ PopKnows(t)'
  BY <1>2 DEF PopReady, Goto, PushKnows, PopKnows, IInv, Typed, CallRec
<1> QED BY <1>1, <1>2, <1>3, Quiet DEF PopReady

LEMMA PopRefuseKeeps ==
  ASSUME IInv, NEW t \in Threads, PopRefuse(t)
  PROVE  IInv'
<1>1. call' \in [Threads -> CallRec] /\ \A u \in Threads \ {t} : call'[u] = call[u]
  BY DEF PopRefuse, Goto, IInv, Typed, CallRec, Pcs
<1>2. ~ Filling(t) /\ ~ Emptying(t) /\ ~ Filling(t)' /\ ~ Emptying(t)'
  BY DEF PopRefuse, Goto, Filling, Emptying, IInv, Typed
<1>3. PushKnows(t)' /\ PopKnows(t)'
  BY <1>2 DEF PopRefuse, Goto, PushKnows, PopKnows, IInv, Typed, CallRec
<1> QED BY <1>1, <1>2, <1>3, Quiet DEF PopRefuse

LEMMA PopAgainKeeps ==
  ASSUME IInv, NEW t \in Threads, PopAgain(t)
  PROVE  IInv'
<1>1. call' \in [Threads -> CallRec] /\ \A u \in Threads \ {t} : call'[u] = call[u]
  BY ZenonT(60) DEF PopAgain, Goto, IInv, Typed, CallRec, Pcs
<1>2. ~ Filling(t) /\ ~ Emptying(t) /\ ~ Filling(t)' /\ ~ Emptying(t)'
  BY DEF PopAgain, Goto, Filling, Emptying, IInv, Typed
<1>3. PushKnows(t)' /\ PopKnows(t)'
  BY <1>2 DEF PopAgain, Goto, PushKnows, PopKnows, IInv, Typed, CallRec
<1> QED BY <1>1, <1>2, <1>3, Quiet DEF PopAgain

(* A step of t leaves every index with one thread, if nobody else has the  *)
(* one that t has afterwards.                                              *)
(* A step that takes no index leaves the indices with their threads.       *)
LEMMA StaysAlone ==
  ASSUME IInv, NEW t \in Threads,
         \A u \in Threads \ {t} : call'[u] = call[u],
         \A u \in Threads \ {t} :
           Filling(t)' /\ Filling(u) => call[u].index # call'[t].index,
         \A u \in Threads \ {t} :
           Emptying(t)' /\ Emptying(u) => call[u].index # call'[t].index
  PROVE  Alone'
<1> SUFFICES ASSUME NEW u \in Threads, NEW w \in Threads,
                    u # w, call'[u].index = call'[w].index
             PROVE  ~ (Filling(u)' /\ Filling(w)') /\ ~ (Emptying(u)' /\ Emptying(w)')
  BY DEF Alone
<1>1. CASE u # t /\ w # t
  BY <1>1 DEF IInv, Alone, Filling, Emptying
<1>2. CASE u = t
  <2>1. w \in Threads \ {t} /\ call'[w] = call[w]
    BY <1>2
  <2> QED BY <1>2, <2>1 DEF Filling, Emptying
<1>3. CASE w = t
  <2>1. u \in Threads \ {t} /\ call'[u] = call[u]
    BY <1>3
  <2> QED BY <1>3, <2>1 DEF Filling, Emptying
<1> QED BY <1>1, <1>2, <1>3

LEMMA PushSwapKeeps ==
  ASSUME IInv, NEW t \in Threads, PushSwap(t)
  PROVE  IInv'
<1> PICK k \in Nat : k = tail
  BY DEF IInv, Typed
<1>1. tail = k /\ call[t].pc = "push_swap" /\ call[t].index = k /\ tail' = k + 1
      /\ node' = node /\ head' = head /\ k \in Nat /\ head \in Nat
  BY DEF PushSwap, IInv, Typed
<1>2. call' \in [Threads -> CallRec] /\ call'[t] = [call[t] EXCEPT !.pc = "fill"]
      /\ \A u \in Threads \ {t} : call'[u] = call[u]
  BY DEF PushSwap, Goto, IInv, Typed, CallRec, Pcs
<1>3. node[At(k)].tail = k
  BY <1>1 DEF IInv, PushKnows
<1>4. k < head + Cap /\ ~ Popping(k - Cap) /\ Empty(k)
  <2>1. k - head # Cap /\ ~ Popping(k - Cap)
    BY <1>3, Refusals DEF RefusedRightly
  <2> QED BY <2>1, <1>1, CapIsPos DEF IInv, Counts, Window
<1>5. Typed' /\ Counts'
  BY <1>1, <1>2, <1>4, CapIsPos DEF IInv, Typed, Counts
<1>6. ASSUME NEW j \in Int
      PROVE  /\ Popping(j)' <=> Popping(j)
             /\ j # k => (Pushing(j)' <=> Pushing(j))
  BY SMTT(30), <1>1, <1>2 DEF Pushing, Popping, Holds, IInv, Typed, CallRec
<1>7. ASSUME NEW j \in Int, j = k
      PROVE  Pushing(j)'
  BY <1>7, <1>1, <1>2 DEF Pushing, Holds, IInv, Typed, CallRec
<1>8. Window'
  <2> SUFFICES ASSUME NEW j \in head .. head + Cap - 1
               PROVE  (IF j < tail THEN Full(j) ELSE Empty(j))'
    BY <1>1 DEF Window
  <2>1. IF j < k THEN Full(j) ELSE Empty(j)
    BY DEF IInv, Window
  <2>2. CASE j = k
    <3>1. node[At(j)].tail = j /\ node[At(j)].head < j
      BY <1>3, <1>4, <2>2 DEF Empty
    <3>2. Pushing(j)' /\ j < tail'
      BY <1>1, <1>7, <2>2
    <3> QED BY <1>1, <3>1, <3>2 DEF Full
  <2>3. CASE j # k
    <3>1. j \in Int /\ j - Cap \in Int /\ (j < k + 1 <=> j < k)
      BY <1>1, <2>3, CapIsPos
    <3> QED BY <1>1, <1>6, <2>1, <2>3, <3>1 DEF Full, Empty
  <2> QED BY <2>2, <2>3
<1>9. ASSUME NEW u \in Threads
      PROVE  PushKnows(u)' /\ PopKnows(u)'
  <2>1. PushKnows(u) /\ PopKnows(u) /\ call[u].index \in Nat
    BY DEF IInv, Typed, CallRec
  <2>2. CASE u = t
    BY <1>1, <1>2, <2>1, <2>2 DEF PushKnows, PopKnows, Filling, Emptying, IInv, Typed, CallRec, Counts
  <2>3. CASE u # t
    <3>1. call'[u] = call[u]
      BY <1>2, <2>3
    <3>2. Emptying(u) => call[u].index # k - Cap
      BY <1>4 DEF Popping, Holds, Emptying
    <3>3. PushKnows(u)'
      BY <1>1, <2>1, <3>1 DEF PushKnows, Filling
    <3>4. PopKnows(u)'
      BY <1>1, <2>1, <3>1, <3>2, CapIsPos DEF PopKnows, Emptying
    <3> QED BY <3>3, <3>4
  <2> QED BY <2>2, <2>3
<1>10. Alone'
  <2>1. ASSUME NEW u \in Threads \ {t}, Filling(u)
        PROVE  call[u].index # k
    BY <1>1, <2>1 DEF IInv, PushKnows, Typed, CallRec
  <2>2. call'[t].index = k /\ ~ Emptying(t)'
    BY <1>1, <1>2 DEF Emptying, IInv, Typed, CallRec
  <2> QED BY <1>2, <2>1, <2>2, StaysAlone
<1> QED BY <1>5, <1>8, <1>9, <1>10 DEF IInv

LEMMA FillKeeps ==
  ASSUME IInv, NEW t \in Threads, Fill(t)
  PROVE  IInv'
<1> PICK k \in Nat : k = call[t].index
  BY DEF IInv, Typed, CallRec
<1>1. call[t].index = k /\ call[t].pc = "fill" /\ k \in Nat /\ call[t].val \in Val
      /\ tail' = tail /\ head' = head /\ tail \in Nat /\ head \in Nat
      /\ node' = [node EXCEPT ![At(k)].data = call[t].val]
  BY DEF Fill, IInv, Typed, CallRec, PushKnows
<1>2. call' \in [Threads -> CallRec] /\ call'[t] = [call[t] EXCEPT !.pc = "publish"]
      /\ \A u \in Threads \ {t} : call'[u] = call[u]
  BY DEF Fill, Goto, IInv, Typed, CallRec, Pcs
<1>3. Typed' /\ Counts'
  BY <1>1, <1>2, AtType DEF IInv, Typed, Counts, NodeRec
<1>4. \A i \in Nodes : node'[i].tail = node[i].tail /\ node'[i].head = node[i].head
  BY <1>1, AtType DEF IInv, Typed, NodeRec
<1>5. \A u \in Threads : call'[u].index = call[u].index /\ call'[u].val = call[u].val
                         /\ (Filling(u)' <=> Filling(u)) /\ (Emptying(u)' <=> Emptying(u))
  BY <1>1, <1>2 DEF Filling, Emptying, IInv, Typed, CallRec
<1>6. ASSUME NEW j \in Int
      PROVE  (Pushing(j)' <=> Pushing(j)) /\ (Popping(j)' <=> Popping(j))
  BY <1>5 DEF Pushing, Popping, Holds, Filling, Emptying
<1>7. Window'
  <2> SUFFICES ASSUME NEW j \in head .. head + Cap - 1
               PROVE  (IF j < tail THEN Full(j) ELSE Empty(j))'
    BY <1>1 DEF Window
  <2>1. IF j < tail THEN Full(j) ELSE Empty(j)
    BY DEF IInv, Window
  <2>2. At(j) \in Nodes /\ j \in Int /\ j - Cap \in Int
    BY <1>1, AtType, CapIsPos
  <2> QED BY <1>1, <1>4, <1>6, <2>1, <2>2 DEF Full, Empty
<1>8. ASSUME NEW u \in Threads
      PROVE  PushKnows(u)' /\ PopKnows(u)'
  <2>1. At(tail) \in Nodes /\ At(head) \in Nodes
    BY <1>1, AtType
  <2>2. PushKnows(u) /\ PopKnows(u)
    BY DEF IInv
  <2>3. CASE u = t
    BY <1>1, <1>2, <1>4, <1>5, <2>1, <2>2, <2>3 DEF PushKnows, PopKnows, Filling, IInv, Typed, CallRec
  <2>4. CASE u # t
    BY <1>1, <1>2, <1>4, <1>5, <2>1, <2>2, <2>4 DEF PushKnows, PopKnows
  <2> QED BY <2>3, <2>4
<1>9. Alone'
  BY <1>5 DEF IInv, Alone, Filling, Emptying
<1> QED BY <1>3, <1>7, <1>8, <1>9 DEF IInv

LEMMA PublishKeeps ==
  ASSUME IInv, NEW t \in Threads, Publish(t)
  PROVE  IInv'
<1> PICK k \in Nat : k = call[t].index
  BY DEF IInv, Typed, CallRec
<1>1. call[t].index = k /\ call[t].pc = "publish"
      /\ tail' = tail /\ head' = head /\ tail \in Nat /\ head \in Nat
      /\ node' = [node EXCEPT ![At(k)].head = k]
  BY DEF Publish, IInv, Typed
<1>2. call' \in [Threads -> CallRec] /\ call'[t].pc = "idle"
      /\ \A u \in Threads \ {t} : call'[u] = call[u]
  BY DEF Publish, IInv, Typed, CallRec, Pcs
<1>3. head <= k /\ k < tail /\ tail <= head + Cap
  BY <1>1 DEF IInv, PushKnows, Filling, Counts
<1>4. Typed' /\ Counts'
  BY <1>1, <1>2, AtType DEF IInv, Typed, Counts, NodeRec
<1>5. ASSUME NEW i \in Nodes
      PROVE  /\ node'[i].tail = node[i].tail
             /\ node'[i].head = IF i = At(k) THEN k ELSE node[i].head
  BY <1>1, AtType DEF IInv, Typed, NodeRec
<1>6. ASSUME NEW j \in Int
      PROVE  /\ Popping(j)' <=> Popping(j)
             /\ Pushing(j)' <=> (Pushing(j) /\ j # k)
  <2>1. \A u \in Threads \ {t} : Filling(u) => call[u].index # k
    BY <1>1 DEF IInv, Alone, Filling
  <2>2. Pushing(j)' <=> \E u \in Threads \ {t} : Filling(u) /\ call[u].index = j
    BY <1>2 DEF Pushing, Holds, Filling
  <2>3. Pushing(j) <=> j = k \/ \E u \in Threads \ {t} : Filling(u) /\ call[u].index = j
    BY <1>1 DEF Pushing, Holds, Filling
  <2>4. Popping(j)' <=> Popping(j)
    BY <1>1, <1>2 DEF Popping, Holds
  <2> QED BY <2>1, <2>2, <2>3, <2>4
<1>7. ASSUME NEW j \in head .. head + Cap - 1, j # k
      PROVE  At(j) # At(k)
  BY <1>1, <1>3, <1>7, CapIsPos, AtInj
<1>8. Window'
  <2> SUFFICES ASSUME NEW j \in head .. head + Cap - 1
               PROVE  (IF j < tail THEN Full(j) ELSE Empty(j))'
    BY <1>1 DEF Window
  <2>1. IF j < tail THEN Full(j) ELSE Empty(j)
    BY DEF IInv, Window
  <2>2. At(j) \in Nodes /\ j \in Int /\ j - Cap \in Int
    BY <1>1, AtType, CapIsPos
  <2>3. CASE j = k
    BY <1>1, <1>3, <1>5, <1>6, <2>1, <2>2, <2>3 DEF Full
  <2>4. CASE j # k
    BY <1>1, <1>5, <1>6, <1>7, <2>1, <2>2, <2>4 DEF Full, Empty
  <2> QED BY <2>3, <2>4
<1>9. ASSUME NEW u \in Threads
      PROVE  PushKnows(u)' /\ PopKnows(u)'
  <2>1. At(tail) \in Nodes /\ At(head) \in Nodes /\ (head # k => At(head) # At(k))
    BY <1>1, <1>7, AtType, CapIsPos
  <2>2. PushKnows(u) /\ PopKnows(u)
    BY DEF IInv
  <2>3. CASE u = t
    BY <1>1, <1>2, <2>3 DEF PushKnows, PopKnows, Filling, Emptying, IInv, Typed, CallRec
  <2>4. CASE u # t
    <3>1. call'[u] = call[u]
      BY <1>2, <2>4
    <3>2. node'[At(tail)].tail = node[At(tail)].tail
      BY <1>5, <2>1
    <3>3. node[At(head)].head = head => node'[At(head)].head = head
      BY <1>5, <2>1
    <3> QED BY <1>1, <2>2, <3>1, <3>2, <3>3 DEF PushKnows, PopKnows, Filling, Emptying
  <2> QED BY <2>3, <2>4
<1>10. Alone'
  <2>1. ~ Filling(t)' /\ ~ Emptying(t)'
    BY <1>2 DEF Filling, Emptying, IInv, Typed, CallRec
  <2> QED BY <1>2, <2>1, StaysAlone
<1> QED BY <1>4, <1>8, <1>9, <1>10 DEF IInv

LEMMA PopSwapKeeps ==
  ASSUME IInv, NEW t \in Threads, PopSwap(t)
  PROVE  IInv'
<1> PICK k \in Nat : k = head
  BY DEF IInv, Typed
<1>1. head = k /\ call[t].index = k /\ call[t].pc = "pop_swap" /\ head' = k + 1
      /\ node' = node /\ tail' = tail /\ tail \in Nat
  BY DEF PopSwap, IInv, Typed
<1>2. call' \in [Threads -> CallRec] /\ call'[t] = [call[t] EXCEPT !.pc = "take"]
      /\ \A u \in Threads \ {t} : call'[u] = call[u]
  BY DEF PopSwap, Goto, IInv, Typed, CallRec, Pcs
<1>3. node[At(k)].head = k
  BY <1>1 DEF IInv, PopKnows
<1>4. k < tail /\ ~ Pushing(k) /\ tail <= k + Cap
  <2>1. tail # head /\ ~ Pushing(head)
    BY <1>1, <1>3, Refusals DEF RefusedRightly
  <2> QED BY <1>1, <2>1 DEF IInv, Counts
<1>5. Typed' /\ Counts'
  BY <1>1, <1>2, <1>4, CapIsPos DEF IInv, Typed, Counts
<1>6. ASSUME NEW j \in Int
      PROVE  /\ Pushing(j)' <=> Pushing(j)
             /\ Popping(j)' <=> (Popping(j) \/ j = k)
  BY <1>1, <1>2 DEF Pushing, Popping, Holds, IInv, Typed, CallRec
<1>7. Window'
  <2> SUFFICES ASSUME NEW j \in k + 1 .. k + Cap
               PROVE  (IF j < tail THEN Full(j) ELSE Empty(j))'
    BY <1>1, CapIsPos DEF Window
  <2>1. j \in Int /\ j - Cap \in Int
    BY CapIsPos
  <2>2. CASE j = k + Cap
    <3>1. At(j) = At(k)
      BY <2>2, AtCap
    <3>2. Full(k)
      BY <1>1, <1>4, CapIsPos DEF IInv, Window
    <3>3. Popping(j - Cap)' /\ j - Cap = k
      BY <1>6, <2>1, <2>2, CapIsPos
    <3>4. node[At(j)].tail = k /\ node[At(j)].head = k
      BY <1>3, <3>1, <3>2 DEF Full
    <3> QED BY <1>1, <1>4, <2>2, <3>3, <3>4, CapIsPos DEF Empty
  <2>3. CASE j # k + Cap
    <3>1. IF j < tail THEN Full(j) ELSE Empty(j)
      BY <1>1, <2>3, CapIsPos DEF IInv, Window
    <3>2. j - Cap # k
      BY <2>3, CapIsPos
    <3> QED BY <1>1, <1>6, <2>1, <3>1, <3>2 DEF Full, Empty
  <2> QED BY <2>2, <2>3
<1>8. ASSUME NEW u \in Threads
      PROVE  PushKnows(u)' /\ PopKnows(u)'
  <2>1. PushKnows(u) /\ PopKnows(u) /\ call[u].index \in Nat
    BY DEF IInv, Typed, CallRec
  <2>2. CASE u = t
    BY <1>1, <1>2, <1>4, <2>1, <2>2 DEF PushKnows, PopKnows, Filling, Emptying, IInv, Typed, CallRec, Counts
  <2>3. CASE u # t
    <3>1. call'[u] = call[u]
      BY <1>2, <2>3
    <3>2. Filling(u) => call[u].index # k
      BY <1>4 DEF Pushing, Holds, Filling
    <3>3. PushKnows(u)'
      BY <1>1, <2>1, <3>1, <3>2 DEF PushKnows, Filling
    <3>4. PopKnows(u)'
      BY <1>1, <2>1, <3>1 DEF PopKnows, Emptying
    <3> QED BY <3>3, <3>4
  <2> QED BY <2>2, <2>3
<1>9. Alone'
  <2>1. ASSUME NEW u \in Threads \ {t}, Emptying(u)
        PROVE  call[u].index # k
    BY <1>1, <2>1 DEF IInv, PopKnows, Typed, CallRec
  <2>2. call'[t].index = k /\ ~ Filling(t)'
    BY <1>1, <1>2 DEF Filling, IInv, Typed, CallRec
  <2> QED BY <1>2, <2>1, <2>2, StaysAlone
<1> QED BY <1>5, <1>7, <1>8, <1>9 DEF IInv

LEMMA TakeKeeps ==
  ASSUME IInv, NEW t \in Threads, Take(t)
  PROVE  IInv'
<1> PICK k \in Nat : k = call[t].index
  BY DEF IInv, Typed, CallRec
<1> DEFINE d == node[At(k)].data
<1>1. call[t].index = k /\ call[t].pc = "take" /\ d \in Val \cup {None}
      /\ tail' = tail /\ head' = head /\ tail \in Nat /\ head \in Nat
      /\ node' = [node EXCEPT ![At(k)].data = None]
  BY AtType DEF Take, IInv, Typed, NodeRec
<1>2. call' = [call EXCEPT ![t] = [call[t] EXCEPT !.pc = "release", !.got = <<d>>]]
  BY DEF Take, IInv, Typed
<1> HIDE DEF d
<1>3. [call[t] EXCEPT !.pc = "release", !.got = <<d>>] \in CallRec
  BY <1>1 DEF IInv, Typed, CallRec, Results, Pcs
<1>4. Typed' /\ Counts'
  BY <1>1, <1>2, <1>3, AtType DEF IInv, Typed, Counts, NodeRec
<1>5. \A i \in Nodes : node'[i].tail = node[i].tail /\ node'[i].head = node[i].head
  BY <1>1, AtType DEF IInv, Typed, NodeRec
<1>6. call'[t].pc = "release" /\ call'[t].index = k /\ \A u \in Threads \ {t} : call'[u] = call[u]
  BY <1>1, <1>2 DEF IInv, Typed, CallRec
<1>7. \A u \in Threads : call'[u].index = call[u].index
                         /\ (Filling(u)' <=> Filling(u)) /\ (Emptying(u)' <=> Emptying(u))
  BY <1>1, <1>6 DEF Filling, Emptying
<1>8. ASSUME NEW j \in Int
      PROVE  (Pushing(j)' <=> Pushing(j)) /\ (Popping(j)' <=> Popping(j))
  BY <1>7 DEF Pushing, Popping, Holds, Filling, Emptying
<1>9. Window'
  <2> SUFFICES ASSUME NEW j \in head .. head + Cap - 1
               PROVE  (IF j < tail THEN Full(j) ELSE Empty(j))'
    BY <1>1 DEF Window
  <2>1. IF j < tail THEN Full(j) ELSE Empty(j)
    BY DEF IInv, Window
  <2>2. At(j) \in Nodes /\ j \in Int /\ j - Cap \in Int
    BY <1>1, AtType, CapIsPos
  <2> QED BY <1>1, <1>5, <1>8, <2>1, <2>2 DEF Full, Empty
<1>10. ASSUME NEW u \in Threads
       PROVE  PushKnows(u)' /\ PopKnows(u)'
  <2>1. At(tail) \in Nodes /\ At(head) \in Nodes
    BY <1>1, AtType
  <2>2. PushKnows(u) /\ PopKnows(u)
    BY DEF IInv
  <2>3. CASE u = t
    BY <1>1, <1>6, <2>2, <2>3 DEF PushKnows, PopKnows, Filling, Emptying
  <2>4. CASE u # t
    BY <1>1, <1>5, <1>6, <2>1, <2>2, <2>4 DEF PushKnows, PopKnows, Filling, Emptying
  <2> QED BY <2>3, <2>4
<1>11. Alone'
  BY <1>7 DEF IInv, Alone, Filling, Emptying
<1> QED BY <1>4, <1>9, <1>10, <1>11 DEF IInv

LEMMA ReleaseKeeps ==
  ASSUME IInv, NEW t \in Threads, Release(t)
  PROVE  IInv'
<1> PICK k \in Nat : k = call[t].index
  BY DEF IInv, Typed, CallRec
<1>0. At(k + Cap) = At(k)
  BY AtCap
<1>1. call[t].index = k /\ call[t].pc = "release" /\ k + Cap \in Nat
      /\ tail' = tail /\ head' = head /\ tail \in Nat /\ head \in Nat
      /\ node' = [node EXCEPT ![At(k + Cap)].tail = k + Cap]
  <2>1. call[t].index = k /\ call[t].pc = "release" /\ k + Cap \in Nat
        /\ tail' = tail /\ head' = head /\ tail \in Nat /\ head \in Nat
    BY CapIsPos DEF Release, IInv, Typed
  <2>2. node' = [node EXCEPT ![At(k)].tail = k + Cap]
    BY DEF Release
  <2> QED BY <1>0, <2>1, <2>2
<1>2. call' \in [Threads -> CallRec] /\ call'[t].pc = "idle"
      /\ \A u \in Threads \ {t} : call'[u] = call[u]
  BY DEF Release, Goto, IInv, Typed, CallRec, Pcs
<1>3. tail <= k + Cap /\ k < head /\ head <= tail
  BY <1>1 DEF IInv, PopKnows, Emptying, Counts
<1>4. Typed' /\ Counts'
  BY <1>1, <1>2, AtType DEF IInv, Typed, Counts, NodeRec
<1>5. ASSUME NEW i \in Nodes
      PROVE  /\ node'[i].head = node[i].head
             /\ node'[i].tail = IF i = At(k + Cap) THEN k + Cap ELSE node[i].tail
  BY <1>1, AtType DEF IInv, Typed, NodeRec
<1>6. ASSUME NEW j \in Int
      PROVE  /\ Pushing(j)' <=> Pushing(j)
             /\ Popping(j)' <=> (Popping(j) /\ j # k)
  <2>1. \A u \in Threads \ {t} : Emptying(u) => call[u].index # k
    BY <1>1 DEF IInv, Alone, Emptying
  <2>2. Popping(j)' <=> \E u \in Threads \ {t} : Emptying(u) /\ call[u].index = j
    BY <1>2 DEF Popping, Holds, Emptying
  <2>3. Popping(j) <=> j = k \/ \E u \in Threads \ {t} : Emptying(u) /\ call[u].index = j
    BY <1>1 DEF Popping, Holds, Emptying
  <2>4. Pushing(j)' <=> Pushing(j)
    BY <1>1, <1>2 DEF Pushing, Holds
  <2> QED BY <2>1, <2>2, <2>3, <2>4
<1>7. ASSUME NEW j \in head .. head + Cap - 1, j # k + Cap
      PROVE  At(j) # At(k + Cap)
  BY <1>1, <1>3, <1>7, CapIsPos, AtInj
<1>8. Window'
  <2> SUFFICES ASSUME NEW j \in head .. head + Cap - 1
               PROVE  (IF j < tail THEN Full(j) ELSE Empty(j))'
    BY <1>1 DEF Window
  <2>1. IF j < tail THEN Full(j) ELSE Empty(j)
    BY DEF IInv, Window
  <2>2. At(j) \in Nodes /\ j \in Int /\ j - Cap \in Int
    BY <1>1, AtType, CapIsPos
  <2>3. CASE j = k + Cap
    <3>1. ~ Popping(j - Cap)' /\ ~ (j < tail)
      BY <1>1, <1>3, <1>6, <2>2, <2>3, CapIsPos
    <3>2. node'[At(j)].tail = j /\ node'[At(j)].head < j
      BY <1>5, <2>1, <2>2, <2>3, <3>1 DEF Empty
    <3> QED BY <1>1, <3>1, <3>2 DEF Empty
  <2>4. CASE j # k + Cap
    <3>1. j - Cap # k /\ At(j) # At(k + Cap)
      BY <1>7, <2>2, <2>4, CapIsPos
    <3> QED BY <1>1, <1>5, <1>6, <2>1, <2>2, <3>1 DEF Full, Empty
  <2> QED BY <2>3, <2>4
<1>9. ASSUME NEW u \in Threads
      PROVE  PushKnows(u)' /\ PopKnows(u)'
  <2>1. At(tail) \in Nodes /\ At(head) \in Nodes
    BY <1>1, AtType
  <2>2. PushKnows(u) /\ PopKnows(u)
    BY DEF IInv
  <2>3. CASE u = t
    BY <1>1, <1>2, <2>3 DEF PushKnows, PopKnows, Filling, Emptying
  <2>4. CASE u # t
    <3>1. call'[u] = call[u]
      BY <1>2, <2>4
    <3>2. node'[At(head)].head = node[At(head)].head
      BY <1>5, <2>1
    <3>3. ASSUME node[At(tail)].tail = tail
          PROVE  node'[At(tail)].tail = tail
      <4>1. tail - head # Cap
        BY <3>3, Refusals DEF RefusedRightly
      <4>2. tail \in head .. head + Cap - 1
        BY <1>1, <4>1, CapIsPos DEF IInv, Counts
      <4>3. tail # k + Cap => At(tail) # At(k + Cap)
        BY <1>7, <4>2
      <4> QED BY <1>5, <2>1, <3>3, <4>3
    <3> QED BY <1>1, <2>2, <3>1, <3>2, <3>3 DEF PushKnows, PopKnows, Filling, Emptying
  <2> QED BY <2>3, <2>4
<1>10. Alone'
  <2>1. ~ Filling(t)' /\ ~ Emptying(t)'
    BY <1>2 DEF Filling, Emptying
  <2> QED BY <1>2, <2>1, StaysAlone
<1> QED BY <1>4, <1>8, <1>9, <1>10 DEF IInv

-----------------------------------------------------------------------------
(* No step of any thread breaks the invariant.                             *)
LEMMA Invariance == IInv /\ [Next]_vars => IInv'
<1> SUFFICES ASSUME IInv, [Next]_vars PROVE IInv'
  OBVIOUS
<1>1. ASSUME NEW t \in Threads, Push(t)
      PROVE  IInv'
  BY <1>1, PushLoadKeeps, PushReadyKeeps, PushRefuseKeeps, PushSwapKeeps, PushAgainKeeps,
     FillKeeps, PublishKeeps DEF Push
<1>2. ASSUME NEW t \in Threads, Pop(t)
      PROVE  IInv'
  BY <1>2, PopLoadKeeps, PopReadyKeeps, PopRefuseKeeps, PopSwapKeeps, PopAgainKeeps,
     TakeKeeps, ReleaseKeeps DEF Pop
<1>3. CASE UNCHANGED vars
  BY <1>3 DEF vars, IInv, Typed, Counts, Window, Full, Empty, Pushing, Popping, Holds,
              PushKnows, PopKnows, Filling, Emptying, Alone
<1> QED BY <1>1, <1>2, <1>3 DEF Next

LEMMA Invariant == Spec => []IInv
BY Initially, Invariance, PTL DEF Spec

(* A push that has the latest index fails only when the queue is full or   *)
(* the thread that empties its node has not finished; a pop only when the  *)
(* queue is empty or the thread that fills its node has not finished: the  *)
(* early returns of push and pop in lock_free_queue.hpp, for any capacity  *)
(* and any number of threads.                                              *)
THEOREM NoFalseRefusal == Spec => []RefusedRightly
BY Invariant, Refusals, PTL

-----------------------------------------------------------------------------
(***************************************************************************)
(* The queue implements SharedFifo.                                        *)
(***************************************************************************)
(* What an index stands for: the value on its way, or that of its node.    *)
Valued ==
  \A k \in Nat :
    /\ \A t \in Threads : Holds(t, {"fill"}, k) => ValueOf(k) = call[t].val
    /\ (\A t \in Threads : ~ Holds(t, {"fill"}, k)) => ValueOf(k) = node[At(k)].data

LEMMA Values == Alone => Valued
<1> SUFFICES ASSUME Alone, NEW k \in Nat
             PROVE  /\ \A t \in Threads : Holds(t, {"fill"}, k) => ValueOf(k) = call[t].val
                    /\ (\A t \in Threads : ~ Holds(t, {"fill"}, k)) => ValueOf(k) = node[At(k)].data
  BY DEF Valued
<1>1. ASSUME NEW t \in Threads, Holds(t, {"fill"}, k)
      PROVE  ValueOf(k) = call[t].val
  <2> DEFINE u == CHOOSE w \in Threads : Holds(w, {"fill"}, k)
  <2>1. u \in Threads /\ Holds(u, {"fill"}, k)
    BY <1>1
  <2>2. ValueOf(k) = call[u].val
    BY <1>1 DEF ValueOf
  <2> HIDE DEF u
  <2>3. u = t
    BY <1>1, <2>1 DEF Alone, Holds, Filling
  <2> QED BY <2>2, <2>3
<1>2. ASSUME \A t \in Threads : ~ Holds(t, {"fill"}, k)
      PROVE  ValueOf(k) = node[At(k)].data
  BY <1>2 DEF ValueOf
<1> QED BY <1>1, <1>2

LEMMA ValuesNext == Alone' => Valued'
BY Values, PTL

(* The content of the queue, index by index.                               *)
Spelled ==
  /\ Content \in Seq(Val \cup {None}) /\ Len(Content) = tail - head
  /\ tail - head \in Nat
  /\ \A i \in 1 .. tail - head : Content[i] = ValueOf(head + i - 1)

LEMMA ContentIs == IInv => Spelled
<1> SUFFICES ASSUME IInv PROVE Spelled
  OBVIOUS
<1>1. tail - head \in Nat /\ tail \in Nat /\ head \in Nat
  BY DEF IInv, Typed, Counts
<1>2. \A k \in Nat : ValueOf(k) \in Val \cup {None}
  <2> SUFFICES ASSUME NEW k \in Nat PROVE ValueOf(k) \in Val \cup {None}
    OBVIOUS
  <2>1. CASE \E t \in Threads : Holds(t, {"fill"}, k)
    BY <2>1, Values DEF IInv, Valued, Typed, CallRec
  <2>2. CASE \A t \in Threads : ~ Holds(t, {"fill"}, k)
    BY <2>2, Values, AtType DEF IInv, Valued, Typed, NodeRec
  <2> QED BY <2>1, <2>2
<1>3. \A i \in 1 .. tail - head : head + i - 1 \in Nat
  BY <1>1
<1>4. Content \in [1 .. tail - head -> Val \cup {None}]
  BY <1>2, <1>3 DEF Content
<1> QED BY <1>1, <1>4 DEF Content, Spelled

LEMMA ContentNext == IInv' => Spelled'
BY ContentIs, PTL

(* What keeps the value of an index.                                       *)
LEMMA SameValue ==
  ASSUME IInv, IInv', NEW k \in Nat,
         \A u \in Threads : call'[u].pc = "fill" /\ call'[u].index = k
                         <=> call[u].pc = "fill" /\ call[u].index = k,
         \A u \in Threads : call[u].pc = "fill" => call'[u].val = call[u].val,
         node'[At(k)].data = node[At(k)].data
  PROVE  ValueOf(k)' = ValueOf(k)
<1>1. CASE \E u \in Threads : call[u].pc = "fill" /\ call[u].index = k
  <2> PICK u \in Threads : call[u].pc = "fill" /\ call[u].index = k
    BY <1>1
  <2>1. ValueOf(k) = call[u].val
    BY Values DEF IInv, Valued, Holds
  <2>2. ValueOf(k)' = call'[u].val
    BY ValuesNext DEF IInv, Valued, Holds
  <2> QED BY <2>1, <2>2
<1>2. CASE \A u \in Threads : ~ (call[u].pc = "fill" /\ call[u].index = k)
  <2>1. ValueOf(k) = node[At(k)].data
    BY <1>2, Values DEF IInv, Valued, Holds
  <2>2. ValueOf(k)' = node'[At(k)].data
    BY <1>2, ValuesNext DEF IInv, Valued, Holds
  <2> QED BY <2>1, <2>2
<1> QED BY <1>1, <1>2

(* A step that neither moves an index nor changes what an index stands for *)
LEMMA Stutters ==
  ASSUME IInv, IInv', UNCHANGED <<tail, head>>,
         \A k \in Nat : head <= k /\ k < tail => ValueOf(k)' = ValueOf(k),
         Taken' = Taken
  PROVE  UNCHANGED Abstract!vars
<1>1. Spelled /\ Spelled'
  BY ContentIs, ContentNext
<1>2. head \in Nat /\ tail \in Nat
  BY DEF IInv, Typed
<1>3. ASSUME NEW i \in 1 .. Len(Content)
      PROVE  Content'[i] = Content[i]
  <2>1. head + i - 1 \in Nat /\ head <= head + i - 1 /\ head + i - 1 < tail
    BY <1>1, <1>2 DEF Spelled
  <2> QED BY <1>1, <2>1 DEF Spelled
<1>4. Content' = Content
  BY <1>1, <1>3, SeqEqual DEF Spelled
<1> QED BY <1>4 DEF Abstract!vars

(* A step of t that has nothing to do with the data                        *)
LEMMA QuietStutters ==
  ASSUME IInv, IInv', NEW t \in Threads, UNCHANGED <<tail, head>>,
         \A i \in Nodes : node'[i].data = node[i].data,
         \A u \in Threads \ {t} : call'[u] = call[u],
         call'[t].got = call[t].got,
         call[t].pc \notin {"fill", "take"}, call'[t].pc \notin {"fill", "take"}
  PROVE  UNCHANGED Abstract!vars
<1>1. ASSUME NEW k \in Nat
      PROVE  ValueOf(k)' = ValueOf(k)
  <2>1. At(k) \in Nodes
    BY AtType
  <2> QED BY <2>1, SameValue
<1>2. ASSUME NEW u \in Threads
      PROVE  Taken'[u] = Taken[u]
  <2>1. Taken[u] = IF call[u].pc = "take" THEN <<node[At(call[u].index)].data>> ELSE call[u].got
    BY DEF Taken
  <2>2. Taken'[u] = IF call'[u].pc = "take" THEN <<node'[At(call'[u].index)].data>> ELSE call'[u].got
    BY DEF Taken, At
  <2>3. At(call[u].index) \in Nodes
    BY AtType DEF IInv, Typed, CallRec
  <2> QED BY <2>1, <2>2, <2>3
<1>3. Taken' = Taken
  BY <1>2 DEF Taken
<1> QED BY <1>1, <1>3, Stutters

(* The index of a push that is being filled and that of a pop that is      *)
(* being emptied are never those of one node.                              *)
LEMMA Apart ==
  IInv =>
    /\ \A t \in Threads, k \in Nat :
         Emptying(t) /\ head <= k /\ k < tail => At(k) # At(call[t].index)
    /\ \A t, u \in Threads :
         Emptying(t) /\ Emptying(u) /\ t # u => At(call[u].index) # At(call[t].index)
<1> SUFFICES ASSUME IInv
             PROVE  /\ \A t \in Threads, k \in Nat :
                         Emptying(t) /\ head <= k /\ k < tail => At(k) # At(call[t].index)
                    /\ \A t, u \in Threads :
                         Emptying(t) /\ Emptying(u) /\ t # u => At(call[u].index) # At(call[t].index)
  OBVIOUS
<1>1. ASSUME NEW t \in Threads, Emptying(t)
      PROVE  call[t].index \in Nat /\ tail <= call[t].index + Cap /\ call[t].index < head
             /\ head <= tail /\ head \in Nat /\ tail \in Nat
  BY <1>1 DEF IInv, Typed, CallRec, PopKnows, Counts
<1>2. ASSUME NEW t \in Threads, NEW k \in Nat, Emptying(t), head <= k, k < tail
      PROVE  At(k) # At(call[t].index)
  BY <1>1, <1>2, AtInj, CapIsPos
<1>3. ASSUME NEW t \in Threads, NEW u \in Threads, Emptying(t), Emptying(u), t # u
      PROVE  At(call[u].index) # At(call[t].index)
  <2>1. call[u].index # call[t].index
    BY <1>3 DEF IInv, Alone
  <2>2. /\ call[t].index \in Nat /\ call[u].index \in Nat
        /\ call[u].index < call[t].index + Cap /\ call[t].index < call[u].index + Cap
    BY <1>1, <1>3, CapIsPos
  <2>3. CASE call[u].index < call[t].index
    BY <2>2, <2>3, AtInj
  <2>4. CASE call[t].index < call[u].index
    BY <2>2, <2>4, AtInj
  <2> QED BY <2>1, <2>2, <2>3, <2>4
<1> QED BY <1>2, <1>3

LEMMA FillStutters ==
  ASSUME IInv, IInv', NEW t \in Threads, Fill(t)
  PROVE  UNCHANGED Abstract!vars
<1> PICK k \in Nat : k = call[t].index
  BY DEF IInv, Typed, CallRec
<1>1. call[t].index = k /\ call[t].pc = "fill" /\ head <= k /\ k < tail
      /\ tail' = tail /\ head' = head /\ tail \in Nat /\ head \in Nat
      /\ node' = [node EXCEPT ![At(k)].data = call[t].val]
  BY DEF Fill, IInv, Typed, PushKnows, Filling
<1>2. call'[t].pc = "publish" /\ call'[t].got = call[t].got
      /\ \A u \in Threads \ {t} : call'[u] = call[u]
  BY DEF Fill, Goto, IInv, Typed, CallRec
<1>3. ASSUME NEW i \in Nodes
      PROVE  node'[i].data = IF i = At(k) THEN call[t].val ELSE node[i].data
  BY <1>1, AtType DEF IInv, Typed, NodeRec
<1>4. ASSUME NEW j \in Nat, head <= j, j < tail
      PROVE  ValueOf(j)' = ValueOf(j)
  <2>1. At(j) \in Nodes
    BY AtType
  <2>2. CASE j = k
    <3>1. ValueOf(j) = call[t].val
      BY <1>1, <2>2, Values DEF IInv, Valued, Holds
    <3>2. \A u \in Threads : ~ (call'[u].pc = "fill" /\ call'[u].index = j)
      BY <1>1, <1>2, <2>2 DEF IInv, Alone, Filling
    <3>3. ValueOf(j)' = node'[At(j)].data
      BY <3>2, ValuesNext DEF IInv, Valued, Holds
    <3> QED BY <1>3, <2>1, <2>2, <3>1, <3>3
  <2>3. CASE j # k
    <3>1. At(j) # At(k)
      <4>1. j < k + Cap /\ k < j + Cap
        BY <1>1, <1>4, CapIsPos DEF IInv, Counts
      <4>2. j < k \/ k < j
        BY <2>3
      <4> QED BY <4>1, <4>2, AtInj
    <3>2. node'[At(j)].data = node[At(j)].data
      BY <1>3, <2>1, <3>1
    <3>3. \A u \in Threads : call'[u].pc = "fill" /\ call'[u].index = j
                          <=> call[u].pc = "fill" /\ call[u].index = j
      BY <1>1, <1>2, <2>3
    <3>4. \A u \in Threads : call[u].pc = "fill" => call'[u].val = call[u].val
      BY <1>2 DEF Fill, Goto, IInv, Typed, CallRec
    <3> QED BY <3>2, <3>3, <3>4, SameValue
  <2> QED BY <2>2, <2>3
<1>5. ASSUME NEW u \in Threads
      PROVE  Taken'[u] = Taken[u]
  <2>1. Taken[u] = IF call[u].pc = "take" THEN <<node[At(call[u].index)].data>> ELSE call[u].got
    BY DEF Taken
  <2>2. Taken'[u] = IF call'[u].pc = "take" THEN <<node'[At(call'[u].index)].data>> ELSE call'[u].got
    BY DEF Taken, At
  <2>3. CASE u = t
    BY <1>1, <1>2, <2>1, <2>2, <2>3
  <2>4. CASE u # t
    <3>1. call[u].pc = "take" => At(call[u].index) # At(k)
      BY <1>1, Apart DEF Emptying
    <3>2. At(call[u].index) \in Nodes
      BY AtType DEF IInv, Typed, CallRec
    <3> QED BY <1>2, <1>3, <2>1, <2>2, <2>4, <3>1, <3>2
  <2> QED BY <2>3, <2>4
<1>6. Taken' = Taken
  BY <1>5 DEF Taken
<1> QED BY <1>1, <1>4, <1>6, Stutters

LEMMA TakeStutters ==
  ASSUME IInv, IInv', NEW t \in Threads, Take(t)
  PROVE  UNCHANGED Abstract!vars
<1> PICK k \in Nat : k = call[t].index
  BY DEF IInv, Typed, CallRec
<1>1. call[t].index = k /\ call[t].pc = "take"
      /\ tail' = tail /\ head' = head /\ tail \in Nat /\ head \in Nat
      /\ node' = [node EXCEPT ![At(k)].data = None]
  BY DEF Take, IInv, Typed
<1>2. call'[t].pc = "release" /\ call'[t].got = <<node[At(k)].data>>
      /\ \A u \in Threads \ {t} : call'[u] = call[u]
  BY DEF Take, IInv, Typed, CallRec
<1>3. ASSUME NEW i \in Nodes, i # At(k)
      PROVE  node'[i].data = node[i].data
  BY <1>1, <1>3, AtType DEF IInv, Typed, NodeRec
<1>4. ASSUME NEW j \in Nat, head <= j, j < tail
      PROVE  ValueOf(j)' = ValueOf(j)
  <2>1. At(j) \in Nodes /\ At(j) # At(k)
    BY <1>1, <1>4, AtType, Apart DEF Emptying
  <2>2. node'[At(j)].data = node[At(j)].data
    BY <1>3, <2>1
  <2> QED BY <1>1, <1>2, <2>2, SameValue
<1>5. ASSUME NEW u \in Threads
      PROVE  Taken'[u] = Taken[u]
  <2>1. Taken[u] = IF call[u].pc = "take" THEN <<node[At(call[u].index)].data>> ELSE call[u].got
    BY DEF Taken
  <2>2. Taken'[u] = IF call'[u].pc = "take" THEN <<node'[At(call'[u].index)].data>> ELSE call'[u].got
    BY DEF Taken, At
  <2>3. CASE u = t
    BY <1>1, <1>2, <2>1, <2>2, <2>3
  <2>4. CASE u # t
    <3>1. call[u].pc = "take" => At(call[u].index) # At(k)
      BY <1>1, <2>4, Apart DEF Emptying
    <3>2. At(call[u].index) \in Nodes
      BY AtType DEF IInv, Typed, CallRec
    <3> QED BY <1>2, <1>3, <2>1, <2>2, <2>4, <3>1, <3>2
  <2> QED BY <2>3, <2>4
<1>6. Taken' = Taken
  BY <1>5 DEF Taken
<1> QED BY <1>1, <1>4, <1>6, Stutters

LEMMA PushSwapEnqueues ==
  ASSUME IInv, IInv', NEW t \in Threads, PushSwap(t)
  PROVE  Abstract!Enqueue(call[t].val) /\ call[t].val \in Val
<1> PICK k \in Nat : k = tail
  BY DEF IInv, Typed
<1> PICK v \in Val : v = call[t].val
  BY DEF IInv, PushKnows, PushSwap
<1>1. tail = k /\ call[t].pc = "push_swap" /\ call[t].index = k /\ tail' = k + 1
      /\ node' = node /\ head' = head /\ head \in Nat
  BY DEF PushSwap, IInv, Typed
<1>2. call'[t].pc = "fill" /\ call'[t].index = k /\ call'[t].val = v /\ call'[t].got = call[t].got
      /\ \A u \in Threads \ {t} : call'[u] = call[u]
  BY <1>1 DEF PushSwap, Goto, IInv, Typed, CallRec
<1>3. tail - head < Cap
  <2>1. tail - head # Cap
    BY <1>1, Refusals DEF RefusedRightly, IInv, PushKnows
  <2> QED BY <2>1, CapIsPos DEF IInv, Typed, Counts
<1>4. Spelled /\ Spelled'
  BY ContentIs, ContentNext
<1> DEFINE longer == Append(Content, v)
<1>5. /\ longer \in Seq(Val \cup {None}) /\ Len(longer) = Len(Content) + 1
      /\ \A i \in 1 .. Len(Content) : longer[i] = Content[i]
      /\ longer[Len(Content) + 1] = v
  BY <1>4, AppendProperties DEF Spelled
<1> HIDE DEF longer
<1>6. ASSUME NEW i \in 1 .. Len(Content) + 1
      PROVE  Content'[i] = longer[i]
  <2>1. head + i - 1 \in Nat /\ Content'[i] = ValueOf(head + i - 1)'
    BY <1>1, <1>4 DEF Spelled
  <2>2. PICK j \in Nat : j = head + i - 1
    BY <2>1
  <2>3. Content'[i] = ValueOf(j)'
    <3>1. i \in 1 .. tail' - head' /\ head' + i - 1 = j
      BY <1>1, <1>4, <2>2 DEF Spelled
    <3> QED BY <1>1, <1>4, <2>2, <3>1 DEF Spelled
  <2>4. CASE i = Len(Content) + 1
    <3>1. j = k
      BY <1>1, <1>4, <2>2, <2>4 DEF Spelled
    <3>2. ValueOf(j)' = v
      BY <1>2, <3>1, ValuesNext DEF IInv, Valued, Holds
    <3> QED BY <1>5, <2>3, <2>4, <3>2
  <2>5. CASE i <= Len(Content)
    <3>1. j # k /\ i \in 1 .. Len(Content) /\ Content[i] = ValueOf(j)
      BY <1>1, <1>4, <2>2, <2>5 DEF Spelled
    <3>2. ValueOf(j)' = ValueOf(j)
      BY <1>1, <1>2, <3>1, SameValue
    <3> QED BY <1>5, <2>3, <3>1, <3>2
  <2> QED BY <1>4, <2>4, <2>5 DEF Spelled
<1>7. Content' = longer
  BY <1>1, <1>4, <1>5, <1>6, SeqEqual DEF Spelled
<1>8. Taken' = Taken
  BY <1>1, <1>2 DEF Taken, At
<1> QED BY <1>3, <1>4, <1>7, <1>8 DEF Abstract!Enqueue, Spelled, longer

LEMMA PopSwapDequeues ==
  ASSUME IInv, IInv', NEW t \in Threads, PopSwap(t)
  PROVE  Abstract!Dequeue(t)
<1> PICK k \in Nat : k = head
  BY DEF IInv, Typed
<1>1. head = k /\ call[t].pc = "pop_swap" /\ call[t].index = k /\ head' = k + 1
      /\ node' = node /\ tail' = tail /\ tail \in Nat
  BY DEF PopSwap, IInv, Typed
<1>2. call'[t].pc = "take" /\ call'[t].index = k /\ call[t].pc # "fill"
      /\ \A u \in Threads \ {t} : call'[u] = call[u]
  BY <1>1 DEF PopSwap, Goto, IInv, Typed, CallRec
<1>3. tail # head /\ ~ Pushing(head)
  BY <1>1, Refusals DEF RefusedRightly, IInv, PopKnows
<1>4. Spelled /\ Spelled'
  BY ContentIs, ContentNext
<1>5. Content # <<>>
  BY <1>1, <1>3, <1>4, EmptySeq DEF Spelled
<1>6. /\ Tail(Content) \in Seq(Val \cup {None}) /\ Len(Tail(Content)) = Len(Content) - 1
      /\ \A i \in 1 .. Len(Content) - 1 : Tail(Content)[i] = Content[i + 1]
      /\ Head(Content) = Content[1]
  BY <1>4, <1>5, HeadTailProperties DEF Spelled
<1>7. ASSUME NEW i \in 1 .. Len(Content) - 1
      PROVE  Content'[i] = Tail(Content)[i]
  <2>1. PICK j \in Nat : j = k + i
    BY <1>4 DEF Spelled
  <2>2. Content'[i] = ValueOf(j)'
    <3>1. i \in 1 .. tail' - head' /\ head' + i - 1 = j
      BY <1>1, <1>4, <2>1 DEF Spelled
    <3> QED BY <1>1, <1>4, <2>1, <3>1 DEF Spelled
  <2>3. Content[i + 1] = ValueOf(j)
    <3>1. i + 1 \in 1 .. tail - head /\ head + (i + 1) - 1 = j
      BY <1>1, <1>4, <2>1 DEF Spelled
    <3> QED BY <1>4, <3>1 DEF Spelled
  <2>4. ValueOf(j)' = ValueOf(j)
    BY <1>1, <1>2, SameValue
  <2> QED BY <1>6, <2>2, <2>3, <2>4
<1>8. Content' = Tail(Content)
  BY <1>1, <1>4, <1>6, <1>7, SeqEqual DEF Spelled
<1>9. Head(Content) = node[At(k)].data
  <2>1. 1 \in 1 .. tail - head /\ head + 1 - 1 = k
    BY <1>1, <1>3, <1>4 DEF Spelled
  <2>2. Content[1] = ValueOf(k)
    BY <1>4, <2>1 DEF Spelled
  <2>3. \A u \in Threads : ~ Holds(u, {"fill"}, k)
    BY <1>1, <1>3 DEF Pushing, Holds
  <2>4. ValueOf(k) = node[At(k)].data
    BY <2>3, Values DEF IInv, Valued
  <2> QED BY <1>6, <2>2, <2>4
<1>10. ASSUME NEW u \in Threads
       PROVE  Taken'[u] = IF u = t THEN <<node[At(k)].data>> ELSE Taken[u]
  <2>1. Taken[u] = IF call[u].pc = "take" THEN <<node[At(call[u].index)].data>> ELSE call[u].got
    BY DEF Taken
  <2>2. Taken'[u] = IF call'[u].pc = "take" THEN <<node'[At(call'[u].index)].data>> ELSE call'[u].got
    BY DEF Taken, At
  <2> QED BY <1>1, <1>2, <2>1, <2>2
<1>11. Taken' = [Taken EXCEPT ![t] = <<Head(Content)>>]
  BY <1>9, <1>10 DEF Taken
<1> QED BY <1>5, <1>8, <1>11 DEF Abstract!Dequeue

LEMMA StartsEmpty == Init => Abstract!Init
<1> SUFFICES ASSUME Init PROVE Abstract!Init
  OBVIOUS
<1>1. Spelled /\ tail - head = 0
  BY Initially, ContentIs DEF Init
<1>2. Content = <<>>
  BY <1>1, EmptySeq DEF Spelled
<1>3. Taken = [t \in Threads |-> <<>>]
  BY DEF Init, Taken
<1> QED BY <1>2, <1>3 DEF Abstract!Init

LEMMA StepRefines == IInv /\ IInv' /\ [Next]_vars => [Abstract!Next]_Abstract!vars
<1> SUFFICES ASSUME IInv, IInv', [Next]_vars
             PROVE  [Abstract!Next]_Abstract!vars
  OBVIOUS
<1>1. ASSUME NEW t \in Threads, NEW v \in Val, PushLoad(t, v)
      PROVE  UNCHANGED Abstract!vars
  <2>1. call'[t].got = call[t].got /\ call[t].pc = "idle" /\ call'[t].pc = "push_test"
        /\ \A u \in Threads \ {t} : call'[u] = call[u]
    BY <1>1 DEF PushLoad, IInv, Typed, CallRec
  <2> QED BY <1>1, <2>1, QuietStutters DEF PushLoad
<1>2. ASSUME NEW t \in Threads,
             PushReady(t) \/ PushRefuse(t) \/ PushAgain(t)
             \/ PopLoad(t) \/ PopReady(t) \/ PopRefuse(t) \/ PopAgain(t)
      PROVE  UNCHANGED Abstract!vars
  <2>1. /\ call'[t].got = call[t].got /\ call[t].pc \notin {"fill", "take"}
        /\ call'[t].pc \notin {"fill", "take"}
        /\ \A u \in Threads \ {t} : call'[u] = call[u]
    BY <1>2 DEF PushReady, PushRefuse, PushAgain, PopLoad, PopReady, PopRefuse, PopAgain,
                Goto, IInv, Typed, CallRec
  <2>2. UNCHANGED <<tail, head, node>>
    BY <1>2 DEF PushReady, PushRefuse, PushAgain, PopLoad, PopReady, PopRefuse, PopAgain
  <2> QED BY <2>1, <2>2, QuietStutters
<1>3. ASSUME NEW t \in Threads, Publish(t) \/ Release(t)
      PROVE  UNCHANGED Abstract!vars
  <2>1. At(call[t].index) \in Nodes
    BY AtType DEF IInv, Typed, CallRec
  <2>2. \A i \in Nodes : node'[i].data = node[i].data
    BY <1>3, <2>1 DEF Publish, Release, IInv, Typed, NodeRec
  <2>3. /\ call'[t].got = call[t].got /\ call[t].pc \notin {"fill", "take"}
        /\ call'[t].pc \notin {"fill", "take"}
        /\ \A u \in Threads \ {t} : call'[u] = call[u]
    BY <1>3 DEF Publish, Release, Goto, IInv, Typed, CallRec
  <2>4. UNCHANGED <<tail, head>>
    BY <1>3 DEF Publish, Release
  <2> QED BY <2>2, <2>3, <2>4, QuietStutters
<1>4. ASSUME NEW t \in Threads, PushSwap(t)
      PROVE  Abstract!Next
  BY <1>4, PushSwapEnqueues DEF Abstract!Next
<1>5. ASSUME NEW t \in Threads, PopSwap(t)
      PROVE  Abstract!Next
  BY <1>5, PopSwapDequeues DEF Abstract!Next
<1>6. ASSUME NEW t \in Threads, Fill(t) \/ Take(t)
      PROVE  UNCHANGED Abstract!vars
  BY <1>6, FillStutters, TakeStutters
<1>7. CASE UNCHANGED vars
  BY <1>7 DEF vars, Abstract!vars, Content, Taken, ValueOf, Holds, At
<1> QED BY <1>1, <1>2, <1>3, <1>4, <1>5, <1>6, <1>7 DEF Next, Push, Pop

(* Push and pop of lock_free_queue.hpp take effect at once, at the swaps   *)
(* of _tail and _head: the swap of a push is an Enqueue of SharedFifo, the *)
(* swap of a pop a Dequeue, every other step of a thread a stutter, for    *)
(* any capacity that is a power of two, any threads and any values.        *)
THEOREM Refinement == Spec => ImplementsSharedFifo
BY StartsEmpty, StepRefines, Invariant, PTL DEF Spec, ImplementsSharedFifo, Abstract!Spec
=============================================================================
