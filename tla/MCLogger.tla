------------------------------ MODULE MCLogger ------------------------------
(***************************************************************************)
(* Loggers for TLC: on one log thread, and only Busy is used before it is  *)
(* destroyed.                                                              *)
(***************************************************************************)
EXTENDS Logger

CONSTANT Busy

OneThread == [l \in Loggers |-> 1]
OnlyBusy == [l \in Loggers |-> IF l = Busy THEN Known \ {"try"} ELSE {}]
=============================================================================
