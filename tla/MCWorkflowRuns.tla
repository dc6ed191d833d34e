--------------------------- MODULE MCWorkflowRuns ---------------------------
(***************************************************************************)
(* WorkflowRuns for TLC: a run is parked at a gate or cancelled, not both. *)
(* The theorems of WorkflowRunsProofs are about both.                      *)
(***************************************************************************)
EXTENDS WorkflowRuns

OneLoad == Init /\ [][Next /\ (gates = 0 \/ cancels' = 0)]_vars /\ Fairness
=============================================================================
