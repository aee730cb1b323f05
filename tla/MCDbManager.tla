---------------------------- MODULE MCDbManager -----------------------------
(***************************************************************************)
(* Connections for TLC.                                                    *)
(***************************************************************************)
EXTENDS DbManager

OneThread == [c \in Conns |-> 1]
EachItsOwn == CHOOSE f \in [Conns -> Threads] : {f[c] : c \in Conns} = Threads
=============================================================================
