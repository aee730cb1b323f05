----------------------------- MODULE SharedFifo -----------------------------
(***************************************************************************)
(* What a queue of several producers and consumers promises: a push puts   *)
(* one value at the end and a pop takes the first one, each at one moment  *)
(* and for one thread only.  LockFreeQueue implements it.                  *)
(***************************************************************************)
EXTENDS Naturals, Sequences

CONSTANTS
  Threads, \* those that use the queue
  Val,     \* the values
  Cap      \* how many of them fit

VARIABLES
  queue, \* what was pushed and not yet popped
  got    \* what each thread took out last

vars == <<queue, got>>

Init == queue = <<>> /\ got \in [Threads -> {<<>>}]

Enqueue(v) ==
  /\ Len(queue) < Cap
  /\ queue' = Append(queue, v)
  /\ UNCHANGED got

Dequeue(t) ==
  /\ queue # <<>>
  /\ got' = [got EXCEPT ![t] = <<Head(queue)>>]
  /\ queue' = Tail(queue)

Next == (\E v \in Val : Enqueue(v)) \/ (\E t \in Threads : Dequeue(t))

Spec == Init /\ [][Next]_vars
=============================================================================
