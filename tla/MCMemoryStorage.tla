-------------------------- MODULE MCMemoryStorage ---------------------------
(***************************************************************************)
(* MemoryStorage on five keys of the three kinds with room for two, a      *)
(* sweep every second write and windows of two ticks, so that expiry,      *)
(* sweep and eviction meet in one call.  A cost of 3 exceeds the limit of  *)
(* the log and leaves an empty one behind.                                 *)
(***************************************************************************)
EXTENDS MemoryStorage, TLC

MCCosts == {1, 3}

\* Counter keys are interchangeable, and so are log keys.
MCSymmetry == Permutations(CounterKeys) \cup Permutations(LogKeys)
=============================================================================
