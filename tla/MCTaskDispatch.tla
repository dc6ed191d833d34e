--------------------------- MODULE MCTaskDispatch ---------------------------
(***************************************************************************)
(* TaskDispatch for TLC: the attempts of its calls carry one task id, and  *)
(* one id aborts them.                                                     *)
(***************************************************************************)
EXTENDS TaskDispatch

OneTask == [c \in Calls |-> "task"]

OneAbort == [c \in Calls |-> "run"]
=============================================================================
