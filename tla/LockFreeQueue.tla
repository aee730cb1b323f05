--------------------------- MODULE LockFreeQueue ----------------------------
(***************************************************************************)
(* LockFreeLoopQueue<T, true, true> of libsvr/include/lock_free_queue.hpp, *)
(* the queue behind lock_free_ptr_queue_push and _pop: any number of       *)
(* threads push and pop without a lock.  _tail and _head hand out indices, *)
(* one to each push and to each pop; a node tells by its own tail and head *)
(* for which index it is ready.  With one consumer or one producer the     *)
(* index is taken by a plain store, which is the compare-and-swap that     *)
(* always succeeds.  Each load and store of an atomic is one step, in      *)
(* program order (x86); the indices are size_t of 64 bits and do not wrap. *)
(***************************************************************************)
EXTENDS Integers, Sequences

CONSTANTS
  Threads,
  Cap,     \* _capacity
  Val,     \* the data
  None,    \* the data of a node that was never used
  MaxPush  \* bound: pushes that get an index

ASSUME LockFreeQueueAssumption ==
  /\ Cap \in Nat \ {0} /\ \E k \in 0 .. Cap : Cap = 2 ^ k
  /\ MaxPush \in Nat
  /\ None \notin Val

VARIABLES
  tail, \* _tail
  head, \* _head
  node, \* _queue
  call  \* the call each thread is in: where, its index and its value

vars == <<tail, head, node, call>>

-----------------------------------------------------------------------------
Nodes == 0 .. Cap - 1

(* index & _capacityMask, as _roundup_power_of_2 has made _capacity        *)
At(index) == index % Cap

Goto(t, pc) == call' = [call EXCEPT ![t].pc = pc]

-----------------------------------------------------------------------------
(***************************************************************************)
(* push                                                                    *)
(***************************************************************************)
PushLoad(t, v) ==
  /\ call[t].pc = "idle"
  /\ tail < MaxPush
  /\ call' = [call EXCEPT ![t].pc = "push_test", ![t].index = tail, ![t].val = v]
  /\ UNCHANGED <<tail, head, node>>

PushReady(t) ==
  /\ call[t].pc = "push_test"
  /\ node[At(call[t].index)].tail = call[t].index
  /\ Goto(t, "push_swap")
  /\ UNCHANGED <<tail, head, node>>

PushRefuse(t) ==
  /\ call[t].pc = "push_test"
  /\ node[At(call[t].index)].tail # call[t].index
  /\ call' = [call EXCEPT ![t].pc = "idle", ![t].val = None]
  /\ UNCHANGED <<tail, head, node>>

PushSwapStale(t) == \* mutant: the index is not compared
  /\ call[t].pc = "push_swap"
  /\ tail' = call[t].index + 1
  /\ Goto(t, "fill")
  /\ UNCHANGED <<head, node>>

PushSwap(t) ==
  /\ call[t].pc = "push_swap"
  /\ tail = call[t].index
  /\ tail' = tail + 1
  /\ Goto(t, "fill")
  /\ UNCHANGED <<head, node>>

(* compare_exchange_weak fails, for no reason too, and loads the index     *)
PushAgain(t) ==
  /\ call[t].pc = "push_swap"
  /\ call' = [call EXCEPT ![t].pc = "push_test", ![t].index = tail]
  /\ UNCHANGED <<tail, head, node>>

Fill(t) ==
  /\ call[t].pc = "fill"
  /\ node' = [node EXCEPT ![At(call[t].index)].data = call[t].val]
  /\ Goto(t, "publish")
  /\ UNCHANGED <<tail, head>>

Publish(t) ==
  /\ call[t].pc = "publish"
  /\ node' = [node EXCEPT ![At(call[t].index)].head = call[t].index]
  /\ call' = [call EXCEPT ![t].pc = "idle", ![t].val = None]
  /\ UNCHANGED <<tail, head>>

-----------------------------------------------------------------------------
(***************************************************************************)
(* pop                                                                     *)
(***************************************************************************)
PopLoad(t) ==
  /\ call[t].pc = "idle"
  /\ call' = [call EXCEPT ![t].pc = "pop_test", ![t].index = head]
  /\ UNCHANGED <<tail, head, node>>

PopReady(t) ==
  /\ call[t].pc = "pop_test"
  /\ node[At(call[t].index)].head = call[t].index
  /\ Goto(t, "pop_swap")
  /\ UNCHANGED <<tail, head, node>>

PopRefuse(t) ==
  /\ call[t].pc = "pop_test"
  /\ node[At(call[t].index)].head # call[t].index
  /\ Goto(t, "idle")
  /\ UNCHANGED <<tail, head, node>>

PopSwap(t) ==
  /\ call[t].pc = "pop_swap"
  /\ head = call[t].index
  /\ head' = head + 1
  /\ Goto(t, "take")
  /\ UNCHANGED <<tail, node>>

PopAgain(t) ==
  /\ call[t].pc = "pop_swap"
  /\ call' = [call EXCEPT ![t].pc = "pop_test", ![t].index = head]
  /\ UNCHANGED <<tail, head, node>>

(* the copy, and the destructor of what lies in the node                   *)
Take(t) ==
  /\ call[t].pc = "take"
  /\ call' = [call EXCEPT ![t].pc = "release", ![t].got = <<node[At(call[t].index)].data>>]
  /\ node' = [node EXCEPT ![At(call[t].index)].data = None]
  /\ UNCHANGED <<tail, head>>

ReleaseNext(t) == \* mutant: the node is ready for the next index
  /\ call[t].pc = "release"
  /\ node' = [node EXCEPT ![At(call[t].index)].tail = call[t].index + 1]
  /\ Goto(t, "idle")
  /\ UNCHANGED <<tail, head>>

Release(t) ==
  /\ call[t].pc = "release"
  /\ node' = [node EXCEPT ![At(call[t].index)].tail = call[t].index + Cap]
  /\ Goto(t, "idle")
  /\ UNCHANGED <<tail, head>>

-----------------------------------------------------------------------------
Init ==
  /\ tail = 0 /\ head = 0
  /\ node = [i \in Nodes |-> [tail |-> i, head |-> -1, data |-> None]]
  /\ call = [t \in Threads |-> [pc |-> "idle", index |-> 0, val |-> None, got |-> <<>>]]

Push(t) ==
  \/ \E v \in Val : PushLoad(t, v)
  \/ PushReady(t) \/ PushRefuse(t) \/ PushSwap(t) \/ PushAgain(t)
  \/ Fill(t) \/ Publish(t)

Pop(t) ==
  \/ PopLoad(t) \/ PopReady(t) \/ PopRefuse(t) \/ PopSwap(t) \/ PopAgain(t)
  \/ Take(t) \/ Release(t)

Next == \E t \in Threads : Push(t) \/ Pop(t)

Spec == Init /\ [][Next]_vars

-----------------------------------------------------------------------------
(* the thread that holds an index between its swap and its end             *)
Holds(t, pcs, index) == call[t].pc \in pcs /\ call[t].index = index

Pushing(index) == \E t \in Threads : Holds(t, {"fill", "publish"}, index)
Popping(index) == \E t \in Threads : Holds(t, {"take", "release"}, index)

(* A push that has the latest index is refused only when the queue is full *)
(* or the thread that empties its node has not finished, and a pop only    *)
(* when it is empty or the thread that fills its node has not finished.    *)
(* One that has an older index may be refused by a queue with room, or     *)
(* with data: others have come between its load and its test.              *)
RefusedRightly ==
  /\ node[At(tail)].tail # tail <=> (tail - head = Cap \/ Popping(tail - Cap))
  /\ node[At(head)].head # head <=> (tail = head \/ Pushing(head))

(* The values of the indices between _head and _tail: the thread has them, *)
(* or already the node.                                                    *)
ValueOf(index) ==
  IF \E t \in Threads : Holds(t, {"fill"}, index)
    THEN call[CHOOSE t \in Threads : Holds(t, {"fill"}, index)].val
    ELSE node[At(index)].data

Content == [i \in 1 .. tail - head |-> ValueOf(head + i - 1)]

(* A thread that has swapped _head is as good as having its value.         *)
Taken ==
  [t \in Threads |-> IF call[t].pc = "take" THEN <<node[At(call[t].index)].data>>
                                            ELSE call[t].got]

Abstract == INSTANCE SharedFifo WITH queue <- Content, got <- Taken

(* Pushes and pops take effect one at a time, at their swaps: nothing is   *)
(* lost, taken twice, taken out of turn or before it is there, and a node  *)
(* that is being filled or emptied is left alone.                          *)
ImplementsSharedFifo == Abstract!Spec
=============================================================================
