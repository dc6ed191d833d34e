----------------------------- MODULE ScreenGrid -----------------------------
(***************************************************************************)
(* The channel-1 state of medulla-link: state/grid.rs, a grid of rows of   *)
(* which the latest wins.  A diff is the row count and the rows that       *)
(* changed.                                                                *)
(*                                                                         *)
(* A row is [count, index, body], the header send_screen_frame puts before *)
(* a chunk and the chunk; every row is taken to be a full chunk, so the    *)
(* size of a diff is the number of rows it carries.  Left out: the byte    *)
(* layout, and the checks of decode_rows that no peer's diff fails.        *)
(***************************************************************************)
EXTENDS Integers, Sequences, FiniteSets

CONSTANT
    MaxChanged      \* full rows that fit one datagram (packet::MAX_DIFF_LEN)

ASSUME MaxChangedAssumption == MaxChanged \in Nat \ {0}

EmptyGrid == <<>>

(* The row resize adds: no bytes at all. *)
BlankRow == [count |-> 0, index |-> 0, body |-> <<>>]

(* diff_from: the rows that are not what prev has there. *)
ChangedRows(g, prev) ==
    {i \in DOMAIN g : ~(i \in DOMAIN prev /\ prev[i] = g[i])}

GridDiff(g, prev) ==
    [rows |-> Len(g), updates |-> [i \in ChangedRows(g, prev) |-> g[i]]]

(* apply_diff: resize, then set the rows carried. *)
GridApply(g, diff) ==
    [i \in 1..diff.rows |->
        IF i \in DOMAIN diff.updates THEN diff.updates[i]
        ELSE IF i \in DOMAIN g THEN g[i] ELSE BlankRow]

(* The validation before anything is changed. *)
GridAccepts(g, diff) == DOMAIN diff.updates \subseteq 1..diff.rows

(* A latest-wins state holds no history to release. *)
GridRelease(g, num) == g

GridFits(diff) == Cardinality(DOMAIN diff.updates) <= MaxChanged

(* rebase_steps: the grid grown one row at a time. *)
RebaseSteps(g) == [i \in 1..Len(g) |-> SubSeq(g, 1, i)]
=============================================================================
