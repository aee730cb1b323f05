-------------------------------- MODULE Fifo --------------------------------
(***************************************************************************)
(* What loop_cache promises to its two users: a bounded queue of data      *)
(* units, to which one appends and from which the other takes, in order    *)
(* and each unit once.  LoopCache implements it.                           *)
(***************************************************************************)
EXTENDS Naturals, Sequences

CONSTANTS
  Val,  \* the data units
  Cap   \* how many of them fit

VARIABLES
  queue, \* what was pushed and not yet popped
  given, \* what the last push put in
  taken  \* what the last pop took out

vars == <<queue, given, taken>>

Init == queue = <<>> /\ given = <<>> /\ taken = <<>>

Enqueue ==
  /\ given' \in Seq(Val)
  /\ queue' = queue \o given'
  /\ Len(queue') <= Cap
  /\ UNCHANGED taken

Dequeue ==
  \E n \in 1 .. Len(queue) :
    /\ taken' = SubSeq(queue, 1, n)
    /\ queue' = SubSeq(queue, n + 1, Len(queue))
    /\ UNCHANGED given

Next == Enqueue \/ Dequeue

Spec == Init /\ [][Next]_vars
=============================================================================
