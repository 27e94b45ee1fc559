--------------------------- MODULE MCFixedWindow ----------------------------
(***************************************************************************)
(* FixedWindow with ticks of a third of a second, windows of one second    *)
(* and a run of three, so that a hit's two calls can be separated by the   *)
(* end of its window and by the start of the next.                         *)
(***************************************************************************)
EXTENDS FixedWindow, TLC

MCCosts == {1, 2}
MCSymmetry == Permutations(Tasks)
=============================================================================
