-------------------------- MODULE MCLockFreeQueue ---------------------------
(***************************************************************************)
(* LockFreeQueue for TLC: the threads are alike.                           *)
(***************************************************************************)
EXTENDS LockFreeQueue, TLC

Symmetry == Permutations(Threads)
=============================================================================
