--------------------------- MODULE MCTaskRegistry ---------------------------
(* Model-checking instance of TaskRegistry: two grants, one of which may    *)
(* have a single task in flight, and a table as small as it may be.         *)
EXTENDS TaskRegistry

CONSTANTS a, b

TwoGrants == {a, b}

OneAndTwo == [g \in TwoGrants |-> IF g = a THEN 1 ELSE 2]
=============================================================================
