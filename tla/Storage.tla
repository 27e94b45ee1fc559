------------------------------ MODULE Storage -------------------------------
(***************************************************************************)
(* What backends/base.py promises of a storage: each primitive takes       *)
(* effect at once, in the order of the times the calls are stamped with,   *)
(* and a call whose caller is gone may have taken effect all the same.     *)
(***************************************************************************)
EXTENDS Primitives

CONSTANT MaxClock

VARIABLES clock,   \* now()
          db,      \* what the storage holds
          answer,  \* the last answer given
          last     \* the stamp of the last call

vars == <<clock, db, answer, last>>

Init ==
  /\ clock = 0
  /\ db = EmptyDatabase
  /\ answer = NoAnswer
  /\ last = 0

\* incr, acquire_entry and take_token, which are stamped, and reset.
Apply(c, s) ==
  /\ c.op # "prune"
  /\ c.op = "reset" => s = last
  /\ last <= s /\ s <= clock
  /\ db' = Effect(db, c, s)
  /\ answer' \in {AnswerOf(db, c, s), answer}
  /\ last' = s
  /\ UNCHANGED clock

\* get_num_acquired and get_oldest_entry: dropping what has left the window
\* needs no order.
Prune(c, s) ==
  /\ c.op = "prune"
  /\ s <= clock
  /\ db' = Effect(db, c, s)
  /\ UNCHANGED <<clock, answer, last>>

Tick ==
  /\ clock < MaxClock
  /\ clock' = clock + 1
  /\ UNCHANGED <<db, answer, last>>

Next ==
  \/ \E c \in Calls, s \in 0..clock : Apply(c, s) \/ Prune(c, s)
  \/ Tick

Spec == Init /\ [][Next]_vars
=============================================================================
