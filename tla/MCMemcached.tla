---------------------------- MODULE MCMemcached -----------------------------
(***************************************************************************)
(* What a Memcached server holds for a limiter depends on its strategy.    *)
(*                                                                         *)
(* With token buckets, two requests race for a bucket of two tokens, one   *)
(* more every tick, that expires after two ticks.  With fixed windows, two *)
(* tasks hit and reset a counter across its expiry.                        *)
(***************************************************************************)
EXTENDS MemcachedBucket, MemcachedCounters, TLC

CONSTANTS t1, t2

VARIABLE strategy

mcVars == <<vars, countersVars, strategy>>

MCInit ==
  /\ strategy \in {"token-bucket", "fixed-window"}
  /\ Init
  /\ CountersInit

MCNext ==
  \/ strategy = "token-bucket" /\ Next /\ UNCHANGED <<countersVars, strategy>>
  \/ strategy = "fixed-window" /\ CountersNext /\ UNCHANGED <<vars, strategy>>

MCSpec == MCInit /\ [][MCNext]_mcVars

MCCosts == {1, 2}
MCSymmetry == Permutations(Tasks)
=============================================================================
