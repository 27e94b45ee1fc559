--------------------------- MODULE MCMovingWindow ---------------------------
(***************************************************************************)
(* MovingWindow with half-second ticks and calls that may take a tick, on  *)
(* three requests of which two can fill the limit.                         *)
(***************************************************************************)
EXTENDS MovingWindow, TLC

MCCosts == {1, 2}
MCSymmetry == Permutations(Tasks)
=============================================================================
