---------------------------- MODULE MCQueueLink ----------------------------
(***************************************************************************)
(* QueueLink for TLC: the owner queues more messages than its history, its *)
(* peer's queue and one datagram can hold, the host one message.           *)
(***************************************************************************)
EXTENDS QueueLink, TLC

CONSTANTS MaxOwner, MaxHost

MaxQueuedBy == [e \in {Owner, Host} |-> IF e = Owner THEN MaxOwner ELSE MaxHost]

(* Message bodies are never looked into. *)
AnyBody == Permutations(Message)
=============================================================================
