---------------------------- MODULE MCScreenLink ----------------------------
(***************************************************************************)
(* ScreenLink for TLC: frames of one and two chunks, three in all, from    *)
(* two tasks that are alike.                                               *)
(***************************************************************************)
EXTENDS ScreenLink, TLC

CONSTANTS x, y

SomeFrames == {<<x>>, <<y, x>>}

AnyWriter == Permutations(Writer)
=============================================================================
