-------------------------- MODULE MCSlidingWindow ---------------------------
(***************************************************************************)
(* SlidingWindow with two overlapping requests of cost 1 or 2, windows of  *)
(* two ticks and a run of three of them, so that a hit can be sampled in   *)
(* one window and take effect in another, or after its counter has         *)
(* expired.                                                                *)
(***************************************************************************)
EXTENDS SlidingWindow, TLC

MCSymmetry == Permutations(Tasks)
=============================================================================
