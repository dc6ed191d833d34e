-------------------------- MODULE MCSeqReservation --------------------------
(* Model-checking instance of SeqReservation: two processes racing for one *)
(* identity directory, blocks of two sequences, at most two identities.    *)
EXTENDS SeqReservation, TLC

Processes == Permutations(Proc)
=============================================================================
