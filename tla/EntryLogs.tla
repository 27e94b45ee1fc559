----------------------------- MODULE EntryLogs ------------------------------
(***************************************************************************)
(* Timestamp logs: the part of a storage the moving window strategy is     *)
(* built on.  The code keeps a list of admission times in which one time   *)
(* may occur several times; here a log is the set of the pairs <<ts, i>>,  *)
(* the i-th entry made at time ts, so that the length of the list is the   *)
(* cardinality of the set and its first element the least time.  (The      *)
(* sorted set of RedisStorage is the same thing: a score and a unique      *)
(* member.)                                                                *)
(***************************************************************************)
EXTENDS Integers, FiniteSets

Ts(entry) == entry[1]

\* The comprehension [ts for ts in log if ts > now - expiry].
InWindow(log, t, expiry) == {e \in log : Ts(e) > t - expiry}

\* (Mutant of Admits: room for one unit is taken for room for all.)
AdmitsAnyAmount(log, t, limit, expiry, amount) ==
  Cardinality(InWindow(log, t, expiry)) < limit

\* Can amount more units be logged at time t, once the old ones are dropped?
Admits(log, t, limit, expiry, amount) ==
  Cardinality(InWindow(log, t, expiry)) + amount <= limit

\* [t] * amount, when n entries of time t exist.
NewEntries(t, n, amount) == {<<t, n + i>> : i \in 1..amount}

\* log.extend([t] * amount).
Extended(log, t, amount) ==
  log \cup NewEntries(t, Cardinality({e \in log : Ts(e) = t}), amount)

\* acquire_entry: the log it leaves behind, whether it admits or not.
Acquired(log, t, limit, expiry, amount) ==
  IF Admits(log, t, limit, expiry, amount)
  THEN Extended(InWindow(log, t, expiry), t, amount)
  ELSE InWindow(log, t, expiry)

\* log[0], of a log that is not empty.
Oldest(log) == CHOOSE ts \in {Ts(e) : e \in log} : \A e \in log : ts <= Ts(e)
=============================================================================
