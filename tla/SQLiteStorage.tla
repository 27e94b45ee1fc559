--------------------------- MODULE SQLiteStorage ----------------------------
(***************************************************************************)
(* backends/sqlite.py: several processes share one database file.  Each    *)
(* has one connection and one asyncio.Lock, and runs several tasks; every  *)
(* statement is an await, between which the other tasks and the other      *)
(* processes go on.                                                        *)
(*                                                                         *)
(* A call that writes locks, begins (BEGIN IMMEDIATE), reads, executes the *)
(* statements that write, three of them for a reset, and commits.  view[p] *)
(* is what the connection of p sees of the transaction it has open: the    *)
(* database with the writes not committed yet.  A task that is cancelled   *)
(* (its client disconnects) leaves with a CancelledError that no handler   *)
(* rolls back: the lock is released, the transaction stays open, with as   *)
(* many of the statements as there were.  A process that crashes loses its *)
(* transaction.                                                            *)
(*                                                                         *)
(* SQLite is modelled as the code uses it: one transaction at a time may   *)
(* write to the file, a connection has one transaction, a statement that   *)
(* waits too long for the file fails.                                      *)
(***************************************************************************)
EXTENDS Primitives

CONSTANTS Processes,
          Tasks,
          Home,       \* the process a task runs in
          Requests,   \* the calls a task makes
          MaxCalls,   \* bound: the calls made in a behaviour
          MaxCrashes, \* bound: the crashes in a behaviour
          MaxClock

NoTask == "no task"

ASSUME SQLiteAssumption ==
  /\ NoTask \notin Tasks
  /\ Home \in [Tasks -> Processes]
  /\ Requests \in [Tasks -> SUBSET Calls]
  /\ {MaxCalls, MaxCrashes, MaxClock} \subseteq Nat

VARIABLES clock,     \* now()
          db,        \* the database, as committed
          answer,    \* the last answer given
          last,      \* the stamp of the last call committed
          connected, \* _db is not None, for each process
          lock,      \* the task that holds the _lock of a process
          view,      \* the open transaction of a process
          pc,        \* what a task did last
          call,      \* the call it makes
          stamp,     \* current = now(), in a call
          done,      \* the statements of a call that have written
          calls,     \* the calls made
          crashes    \* the crashes there were

vars == <<clock, db, answer, last, connected, lock, view, pc, call, stamp, done, calls,
          crashes>>

NoView == [open |-> FALSE]
NoCall == [op |-> "none"]

PCs == {"idle", "waiting", "locked", "begun", "read"}

\* Whoever observes the database through the connection of p sees this.
Seen(p) == IF view[p] = NoView THEN db ELSE view[p]

Init ==
  /\ clock = 0
  /\ db = EmptyDatabase
  /\ answer = NoAnswer
  /\ last = 0
  /\ connected = [p \in Processes |-> TRUE]
  /\ lock = [p \in Processes |-> NoTask]
  /\ view = [p \in Processes |-> NoView]
  /\ pc = [t \in Tasks |-> "idle"]
  /\ call = [t \in Tasks |-> NoCall]
  /\ stamp = [t \in Tasks |-> 0]
  /\ done = [t \in Tasks |-> 0]
  /\ calls = 0
  /\ crashes = 0

-----------------------------------------------------------------------------
(* The steps of a call by task t.                                          *)

Start(t, c) ==
  /\ pc[t] = "idle"
  /\ connected[Home[t]]
  /\ calls < MaxCalls
  /\ calls' = calls + 1
  /\ pc' = [pc EXCEPT ![t] = "waiting"]
  /\ call' = [call EXCEPT ![t] = c]
  /\ UNCHANGED <<clock, db, answer, last, connected, lock, view, stamp, done, crashes>>

\* async with self._lock.  A call that prunes reads the clock next.
Lock(t) ==
  /\ pc[t] = "waiting"
  /\ lock[Home[t]] = NoTask
  /\ lock' = [lock EXCEPT ![Home[t]] = t]
  /\ pc' = [pc EXCEPT ![t] = "locked"]
  /\ stamp' = [stamp EXCEPT ![t] = IF call[t].op = "prune" THEN clock ELSE 0]
  /\ UNCHANGED <<clock, db, answer, last, connected, view, call, done, calls, crashes>>

\* (Mutant of CanBegin: a deferred BEGIN, which locks nothing.)
CanBeginDeferred(p) == connected[p] /\ view[p] = NoView

\* (Mutant of CanBegin: BEGIN is skipped when the connection is in a transaction.)
CanBeginNested(p) == connected[p] /\ \A q \in Processes \ {p} : view[q] = NoView

\* BEGIN IMMEDIATE takes the one write lock of the file; a connection that is
\* in a transaction cannot begin another.
CanBegin(p) == connected[p] /\ \A q \in Processes : view[q] = NoView

\* (Mutant of GivesUp: a connection that waits for the file forever.)
NeverTimesOut(p) == view[p] # NoView

\* The statement fails: at once in a transaction of its own connection and on a
\* connection that was closed, after the timeout of the driver when another
\* connection is in a transaction.
GivesUp(p) == ~CanBegin(p)

Begin(t) ==
  /\ pc[t] = "locked"
  /\ call[t].op # "prune"
  /\ CanBegin(Home[t])
  /\ view' = [view EXCEPT ![Home[t]] = Seen(Home[t])]
  /\ pc' = [pc EXCEPT ![t] = "begun"]
  /\ UNCHANGED <<clock, db, answer, last, connected, lock, call, stamp, done, calls,
                 crashes>>

\* The call of t ends and releases the lock.
Leaves(t) ==
  /\ pc' = [pc EXCEPT ![t] = "idle"]
  /\ call' = [call EXCEPT ![t] = NoCall]
  /\ stamp' = [stamp EXCEPT ![t] = 0]
  /\ done' = [done EXCEPT ![t] = 0]
  /\ lock' = [p \in Processes |-> IF lock[p] = t THEN NoTask ELSE lock[p]]
  /\ UNCHANGED <<clock, connected, calls, crashes>>

\* BEGIN IMMEDIATE is outside the try: nothing is rolled back.
BeginFails(t) ==
  /\ pc[t] = "locked"
  /\ call[t].op # "prune"
  /\ GivesUp(Home[t])
  /\ Leaves(t)
  /\ UNCHANGED <<db, answer, last, view>>

\* current = now() and the SELECT of incr and take_token; reset reads nothing.
Read(t) ==
  /\ pc[t] = "begun"
  /\ pc' = [pc EXCEPT ![t] = "read"]
  /\ stamp' = [stamp EXCEPT ![t] = IF call[t].op = "reset" THEN last ELSE clock]
  /\ UNCHANGED <<clock, db, answer, last, connected, lock, view, call, done, calls, crashes>>

\* The statements that write: reset has a DELETE for each table, acquire_entry
\* one for what has left the window and an INSERT for what it admits.
Statements(c) ==
  CASE c.op = "reset" -> 3 [] c.op = "acquire" -> 2 [] OTHER -> 1

\* What the n-th of them, of a call c stamped s, makes of d.
Executed(d, c, s, n) ==
  CASE c.op = "reset" /\ n = 1   -> [d EXCEPT !.counters = Without(@, {c.key})]
    [] c.op = "reset" /\ n = 2   -> [d EXCEPT !.logs[c.key] = {}]
    [] c.op = "reset" /\ n = 3   -> [d EXCEPT !.buckets = Without(@, {c.key})]
    [] c.op = "acquire" /\ n = 1 -> Pruned(d, c.key, s)
    [] OTHER                     -> Effect(d, c, s)

\* The next statement of t is executed.
AfterWrite(t) == Executed(view[Home[t]], call[t], stamp[t], done[t] + 1)

Writes(t) == pc[t] = "read" /\ done[t] < Statements(call[t])

Write(t) ==
  /\ Writes(t)
  /\ view' = [view EXCEPT ![Home[t]] = AfterWrite(t)]
  /\ done' = [done EXCEPT ![t] = @ + 1]
  /\ UNCHANGED <<clock, db, answer, last, connected, lock, pc, call, stamp, calls, crashes>>

HasWritten(t) == pc[t] = "read" /\ done[t] = Statements(call[t])

\* COMMIT is executed.
Committed(t) ==
  /\ db' = view[Home[t]]
  /\ view' = [view EXCEPT ![Home[t]] = NoView]
  /\ last' = stamp[t]

\* COMMIT, and the return.
Commit(t) ==
  /\ HasWritten(t)
  /\ Committed(t)
  /\ answer' = AnswerOf(db, call[t], stamp[t])
  /\ Leaves(t)

\* get_num_acquired and get_oldest_entry: a DELETE without a transaction, or
\* in the one that was left open on this connection.
PrunedBy(t) ==
  LET p == Home[t]
  IN  IF view[p] = NoView
      THEN /\ CanBegin(p)
           /\ db' = Effect(db, call[t], stamp[t])
           /\ view' = view
      ELSE /\ view' = [view EXCEPT ![p] = Effect(@, call[t], stamp[t])]
           /\ db' = db

Prune(t) ==
  /\ pc[t] = "locked"
  /\ call[t].op = "prune"
  /\ PrunedBy(t)
  /\ Leaves(t)
  /\ UNCHANGED <<answer, last>>

PruneFails(t) ==
  /\ pc[t] = "locked"
  /\ call[t].op = "prune"
  /\ view[Home[t]] = NoView
  /\ GivesUp(Home[t])
  /\ Leaves(t)
  /\ UNCHANGED <<db, answer, last, view>>

\* except Exception: ROLLBACK and raise.
Fail(t) ==
  /\ pc[t] \in {"begun", "read"}
  /\ view' = [view EXCEPT ![Home[t]] = NoView]
  /\ Leaves(t)
  /\ UNCHANGED <<db, answer, last>>

\* A CancelledError at the await t is at.  The statement it waits for is in the
\* queue of the connection already, and may be executed all the same.
Cancel(t) ==
  /\ pc[t] # "idle"
  /\ \/ UNCHANGED <<db, last, view>>
     \/ /\ pc[t] = "locked" /\ call[t].op # "prune" /\ CanBegin(Home[t])
        /\ view' = [view EXCEPT ![Home[t]] = db]
        /\ UNCHANGED <<db, last>>
     \/ /\ pc[t] = "locked" /\ call[t].op = "prune" /\ PrunedBy(t)
        /\ UNCHANGED last
     \/ /\ Writes(t)
        /\ view' = [view EXCEPT ![Home[t]] = AfterWrite(t)]
        /\ UNCHANGED <<db, last>>
     \/ /\ HasWritten(t)
        /\ Committed(t)
  /\ Leaves(t)
  /\ UNCHANGED answer

-----------------------------------------------------------------------------
(* The connections.                                                        *)

\* What p has open is lost.
Disconnects(p) ==
  /\ connected[p]
  /\ connected' = [connected EXCEPT ![p] = FALSE]
  /\ view' = [view EXCEPT ![p] = NoView]
  /\ lock' = [lock EXCEPT ![p] = NoTask]
  /\ UNCHANGED <<clock, db, answer, last, calls>>

\* The calls of the tasks Ended end.
Ends(Ended) ==
  /\ pc' = [t \in Tasks |-> IF t \in Ended THEN "idle" ELSE pc[t]]
  /\ call' = [t \in Tasks |-> IF t \in Ended THEN NoCall ELSE call[t]]
  /\ stamp' = [t \in Tasks |-> IF t \in Ended THEN 0 ELSE stamp[t]]
  /\ done' = [t \in Tasks |-> IF t \in Ended THEN 0 ELSE done[t]]

\* setup: the tables of a database that has them are kept.
Setup(p) ==
  /\ ~connected[p]
  /\ connected' = [connected EXCEPT ![p] = TRUE]
  /\ UNCHANGED <<clock, db, answer, last, lock, view, pc, call, stamp, done, calls, crashes>>

\* close, which waits for nobody: the call that holds the lock finds the
\* connection closed at its next statement, and cannot roll back.
Close(p) ==
  /\ Disconnects(p)
  /\ Ends({t \in Tasks : lock[p] = t})
  /\ UNCHANGED crashes

\* The process is killed, at any point.
Crash(p) ==
  /\ Disconnects(p)
  /\ crashes < MaxCrashes
  /\ crashes' = crashes + 1
  /\ Ends({t \in Tasks : Home[t] = p})

Tick ==
  /\ clock < MaxClock
  /\ clock' = clock + 1
  /\ UNCHANGED <<db, answer, last, connected, lock, view, pc, call, stamp, done, calls, crashes>>

-----------------------------------------------------------------------------

\* What t does of its own accord once it holds the lock.
Proceed(t) ==
  \/ Begin(t) \/ BeginFails(t) \/ Read(t) \/ Write(t) \/ Commit(t)
  \/ Prune(t) \/ PruneFails(t)

Next ==
  \/ \E t \in Tasks :
       \/ \E c \in Requests[t] : Start(t, c)
       \/ Lock(t)
       \/ Proceed(t)
       \/ Fail(t)
       \/ Cancel(t)
  \/ \E p \in Processes : Setup(p) \/ Close(p) \/ Crash(p)
  \/ Tick

\* The event loop runs what can go on, and the lock is handed on in the order
\* of its waiters.
Fairness == \A t \in Tasks : WF_vars(Proceed(t)) /\ SF_vars(Lock(t))

Spec == Init /\ [][Next]_vars /\ Fairness

-----------------------------------------------------------------------------
(* Properties.                                                             *)

\* Each part of the state has its type, and no bucket holds more than it can.
TypeOK ==
  /\ clock \in 0..MaxClock
  /\ IsDatabase(db)
  /\ answer \in Answer
  /\ last \in 0..MaxClock
  /\ connected \in [Processes -> BOOLEAN]
  /\ lock \in [Processes -> Tasks \cup {NoTask}]
  /\ DOMAIN view = Processes
  /\ \A p \in Processes : view[p] = NoView \/ IsDatabase(view[p])
  /\ pc \in [Tasks -> PCs]
  /\ call \in [Tasks -> Calls \cup {NoCall}]
  /\ stamp \in [Tasks -> 0..MaxClock]
  /\ done \in [Tasks -> 0..3]
  /\ calls \in 0..MaxCalls
  /\ crashes \in 0..MaxCrashes

\* base.py, "Atomically": whatever is cancelled, fails or crashes, the database
\* goes from one state to the next by whole calls, in the order of their times.
Promised == INSTANCE Storage

KeepsThePromise == Promised!Spec

\* get, get_expiry and the two readings of the log do not begin a transaction:
\* they see what the connection has not committed, though a counter never but as
\* it is committed or as one whole call leaves it, nor a log, and no two calls
\* are in what they see, even when a transaction was left open.  (A counter and
\* a log need not fit together: half a reset can be read.)
ReadsAreOneCallAhead ==
  \A p \in Processes, k \in Keys :
    \/ Reading(Seen(p), k, clock) = Reading(db, k, clock)
    \/ \E c \in Calls, s \in 0..clock :
         /\ CounterReading(Seen(p), k, clock) \in
              {CounterReading(db, k, clock), CounterReading(Effect(db, c, s), k, clock)}
         /\ LogReading(Seen(p), k, clock) \in
              {LogReading(db, k, clock), LogReading(Effect(db, c, s), k, clock)}

\* Every call ends, with an answer, an error or its cancellation, even when a
\* transaction was left open on its connection or on another one.
EveryCallEnds == \A t \in Tasks : pc[t] # "idle" ~> pc[t] = "idle"
=============================================================================
