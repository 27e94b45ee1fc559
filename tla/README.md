# fastapi-limitex in TLA+

fastapi-limitex limits the rate of requests to a FastAPI application. This
directory holds TLA+ modules of its concurrent core (the storages, the four
strategies, the limiter's enforcement with its escalating bans, the registry of
limits and the way of a request through the application), TLC configurations that
check them on small instances, and proofs, checked by TLAPS, that the most
important properties hold for every value of the constants.

Source paths below are relative to `src/src/fastapi_limitex/`.

## The system

| Component | State it keeps | Operations | Interacts with |
| --- | --- | --- | --- |
| `backends/memory.py` | three dictionaries (`_counters`, `_logs`, `_buckets`), an LRU index, a write counter | `incr`, `get`, `get_expiry`, `acquire_entry`, `get_num_acquired`, `get_oldest_entry`, `take_token`, `reset`, `close` | called by strategies and the escalation policy; one `asyncio.Lock`, no await under it |
| `backends/redis.py` | keys on a Redis server, with TTLs | the same, as three Lua scripts and plain commands | many workers; scripts are atomic, but a log entry is stamped in the worker |
| `backends/sqlite.py` | three tables | the same, as `BEGIN IMMEDIATE` transactions in a thread | one connection and one lock per process, several processes on one file |
| `backends/memcached.py` | a counter and an expiry under two keys; a bucket under one, changed by compare-and-swap | counters and buckets, no logs | many workers, calls not atomic together |
| `strategies/fixed_window.py` | none of its own | `hit`: `incr`, then `get_expiry` | storage |
| `strategies/sliding_window.py` | none of its own | `hit`: the clock, two `get`, `incr` | storage |
| `strategies/moving_window.py` | none of its own | `hit`: `acquire_entry`, `get_num_acquired`, `get_oldest_entry` | storage with logs |
| `strategies/token_bucket.py` | none of its own | `hit`: `take_token` | storage |
| `limiter.py` | ready flag, policy | `enforce`, `guard`, `check`, `peek`, `ensure_ready`, `shutdown`, the decorator | everything below it; runs once per request, requests overlap at every await |
| `escalation.py` | breach counters and bans, in the storage | `is_banned`, `register_breach`, `clear` | storage, limiter |
| `registry.py` | the rules by name and by group, each rule's limits and their parsed items | registration, `set_limit`, `resolve_items` | administrators' calls and synchronous endpoints, from threads |
| `exemptions.py`, `keys.py`, `rate.py`, `responses.py`, `errors.py`, `types.py` | sets of exempt identities; otherwise none | pure functions of the request, the rate string, or the answer | limiter |
| `middleware.py`, `dependencies.py` | none | call the limiter around or before the endpoint | limiter |

What is hard here is time and interleaving. A storage call of a shared storage
is an await: other requests of the same client run and time passes between any
two of them, so a strategy that needs two calls sees two different stores, and
the limiter, which makes several for one request, may be half way through one
request when another begins, when the request is cancelled, or when an
administrator clears a ban. Windows end between the counting of a hit and the
answer to it; a ban that is being renewed has a moment in which it is gone;
entries are stamped by one machine and stored by another. A call that is cancelled
between two statements leaves a transaction, a lock or a half-made setup behind,
and the registry is edited from threads while the event loop reads it.

A test fixes one schedule and one clock. The modules let TLC try all of them, and
the properties are the promises of the code and its documentation that such
schedules could break: a window admits no more than its limit; the storage
forgets only what it may; nobody is banned who did not earn it, and a ban once
begun lasts; what a client is told about waiting is true; a database moves by
whole calls whatever is cancelled; an edited limit takes effect; nobody waits for a
lock forever.

PROJECT.json lists the hazards by line with the properties that cover each.

## The modules

| Module | Models | State |
| --- | --- | --- |
| `Dicts` | Python dictionaries as functions | |
| `Counters` | the expiring counter shared by storages: `get`, `get_expiry`, `incr` | operators over a dictionary |
| `EntryLogs` | the log of a moving window: `acquire_entry` and its readers | operators over a set of (time, number) pairs |
| `MemoryStorage` | `backends/memory.py`, each method an action | clock, the three dictionaries, the index, the write counter |
| `FixedWindow` | `strategies/fixed_window.py` | clock, counter, where each task is, its answer, history of admissions |
| `MovingWindow` | `strategies/moving_window.py` over any storage with logs | clock, log, where each task is, its answer, history of admissions |
| `SlidingWindow` | `strategies/sliding_window.py` | clock, counters by window, what each task has read, its answer, history of admissions |
| `Buckets` | the arithmetic of `take_token`, and the parameters and answers of `strategies/token_bucket.py` | operators |
| `TokenBucket` | the abstract bucket: each call one atomic step, as in memory, SQLite and Redis | clock, bucket, history of tokens given away, last answer |
| `MemcachedBucket` | `take_token` of `backends/memcached.py`: `gets`, the clock, `add` or `cas`, again up to eight times | clock, item, who holds its cas token, what each task knows, histories, last answer |
| `Enforcement` | `limiter.py` `_apply`, `_enforce_ban`, `_raise_block` and `escalation.py` | clock, policy, counters, breach counters, bans, where each request is, histories |
| `Primitives` | the eight calls of `backends/base.py` on one database: what each does to it, answers and reads | operators over a record of counters, logs and buckets |
| `Storage` | the abstract storage: one call after the other, in the order of their times | clock, database, last answer, last stamp |
| `SQLiteStorage` | `backends/sqlite.py`, statement by statement, for several processes on one file | clock, the committed database, each connection and its open transaction, each lock, where each task is |
| `MemcachedCounters` | `incr`, `get_expiry`, `reset` of `backends/memcached.py`, command by command | clock, the two items of a counter, where each task is, histories |
| `Rates` | `rate.py`: `parse` and `parse_many` | operators |
| `Registry` | `registry.py` and the functions of `limiter.py` that register and edit limits by name | the rules' fields, the lists, what each thread and the event loop are doing, histories |
| `Service` | the limiter's life cycle, `middleware.py`, `dependencies.py`, the decorator's part of a request and which stats its headers show | flags, setup lock, connection, where each request is and what it has noted, its response |
| `StoreLemmas` | facts about `Dicts`, `Counters`, `EntryLogs` | |
| `MemoryStorageProofs`, `SQLiteStorageProofs`, `FixedWindowProofs`, `MovingWindowProofs`, `SlidingWindowProofs` | theorems about the module they name | |
| `MemcachedProofs` | theorems about `TokenBucket`, `MemcachedBucket` and `MemcachedCounters` | |
| `LimiterProofs` | theorems about `Enforcement`, `Service` and `Registry` | |
| `MC*` | the instances for TLC | |

### MemoryStorage

Every method that changes the dictionaries is one action: the methods run under
one lock and do not await while they hold it. The action includes what the
method does last, `_touch`: the key moves to the end of the index, every
`PruneInterval` writes a sweep drops what has expired, and the least recently
used keys are evicted until `MaxEntries` are left. The `OrderedDict` is modelled
by the set of keys used after each key, so that recency needs no sequence.
Tokens and rates of a bucket are whole numbers here (`Buckets` has the fractions).

### FixedWindow, MovingWindow, SlidingWindow

One key, any number of tasks, and the storage calls of a hit as separate actions
with time and other tasks in between. On `MemoryStorage` a call never actually
suspends (its lock is free whenever a task runs), so these interleavings are those
of the storages behind a connection or a thread: Redis, Memcached, SQLite. Time is
in integer ticks, `TicksPerSecond` to the second, because answers are rounded to
seconds and the rounding is part of what is checked. In `MovingWindow`, `MaxDelay`
bounds the time from the stamp of a call to its effect: 0 for the storages that
read the clock under their lock, more for Redis. In `SlidingWindow` weighted
counts are multiples of 1/`Window`, exact where the code has floats.

### Buckets, TokenBucket, MemcachedBucket

Tokens are counted in parts of `1/Whole`, so that the code's floats are integers:
a tick gains `Rate` of them. Every storage computes the same (`Refilled`, `Enough`,
`Left`, `AfterCall`); what differs is how a call gets at the bucket. `TokenBucket` is
the promise: a call is one step, up to `MaxDelay` after its stamp (0 where the clock
is read under the lock, more for Redis, whose stamps can also come out of order and
leave a negative number of tokens). `Forget` is the key's time to live. `given` is
the history of tokens given away up to and at each time.

`MemcachedBucket` is the loop. A cas token is modelled by the set of tasks whose
token is still the item's: any change empties it. A call may be cancelled or fail at
any await, also after the server has accepted its write (`Store` then leaves the
answer as it was). `writes` counts the changes of the item since a call began. The
module is checked and proved to implement `TokenBucket` (`KeepsThePromise`), with the
item for the bucket: the write that is accepted is the atomic call; everything else
stutters, but for the refusal after the last try, which is `TokenBucket`'s `GiveUp`.

### Enforcement

One client (clients share no keys), a sequence of rules with scopes and items, and
one action per storage call of a request: the ban check, the hit of an item, the
hit of the penalty, the breach counter, the two calls that renew a ban, and the
block. `Failures` lets a request end at any of them, with an exception or a
cancellation; `ClearTimes` are, for each penalty, the moments at which `clear()`,
with its two calls, may begin. The strategy is the
default one, the fixed window, whose hit decides in one call. Left out: the choice
of the primary answer and the headers, the `banned` flag of answers, eviction
during a request.

### Primitives, Storage, SQLiteStorage

`Primitives` gives each call of `BaseStorage` as one effect on a database (`Effect`),
one answer (`AnswerOf`) and one reading (`Reading`), translated from the statements
of `sqlite.py`. `Storage` is what the base class promises with the word "Atomically":
every call one step, stamped no earlier than the one before it.

In `SQLiteStorage` a call waits for the process's lock, begins, reads, writes and
commits, each an await. `view[p]` is the transaction the connection of process `p` has
open, which is what its readers see. `Fail` is the handler that rolls back. `Cancel` is
the case it does not handle: `CancelledError` is no `Exception`, so the lock is released
and the transaction stays open, and the statement that was awaited may or may not have
been executed. From then on every `BEGIN` of that connection fails, and every other
connection's times out, until the process closes its connection or dies. Each statement
that writes is a step (`Write`, `Executed`): a reset has three, an `acquire_entry` two,
and readers, cancellations and failures come between them. So what a reader sees need
not be the database or what one call makes of it: of a reset it may see the counter
gone and the log kept. `ReadsAreOneCallAhead` speaks of a counter and of a log by
itself. `Close` waits for nobody, as `Limiter.shutdown` does not: the call under way
fails at its next statement. `Crash` kills a process at any point. Of SQLite itself the module assumes what the code uses: one
transaction writes at a time, a connection has one, a statement that waits too long
fails, an open transaction is lost with its connection.

### MemcachedCounters

A counter is two items with a time to live each, the count and its reset time, and a
hit is `add`, `set` (or `touch`), `incr` and `get`. Each is an action; in between, other
tasks hit or reset, requests fail, and either item expires. The reset time is computed
in the worker (`Stamp`) before the `set` is sent, which takes effect up to `SetDelay`
later (`SetExp`), maybe over the reset time of the next count. `admitted` is the history
of what was admitted, `settled` whether a reset time was set since the count was made
and nothing parted them since. `exptime` is taken as seconds from now, which holds up
to 30 days.

### Rates, Registry

A limit is a callable or a sequence of parts; a part is a rate, blank, a ready item or
something that does not parse. Threads run `register_rule` (endpoints that are plain
functions), one thread edits (`set_limit`, `update`, `enable`, `disable`, `remove_limit`)
and the event loop resolves. Nothing is locked, so a step is one access to shared
state. A loop over a list is a step for each of its rules (`SwitchRule`, `Update` and
`Invalidate`), and comes to rules that are appended in the course of it. Lists are
numbered, because a thread may append to a list that was popped meanwhile; `dropped`
are the rules that a removal took out with their list, `crossed` those that were
appended where a removal under way does not come to them, or again after it. All rules have one name: rules of different names
share only the set of seen rules, in which each has an element of its own.

The items of a limit are keyed by the places of their parts, which keeps their
order and drops blanks without a loop. That every item has a positive amount and
window is what `parse` sees to for rates that are written; of items made by hand,
which `parse` hands through, the module assumes it.

`Enforcement`, `Service` and `Registry` are three views of `limiter.py` that share no
state. Their names differ (`ServiceSpec`, `RegistrySpec`, ...), and so do those of
`MemcachedBucket` and `MemcachedCounters`, so that one module of proofs can extend
them together.

### Service

A request's way is a sequence of checks: the middleware's, dependencies', the
decorator's, a WebSocket message's, or a call of `startup`. Each check readies the
storage (`EnsureReady`, `Lock`, `Connect`, `CreateSchema`), applies its rules with any
outcome (`Admit`, `SkipRules`, `BlockRequest`, `MissIdentity`, `Raise`; how rules decide is in
`Enforcement`) and notes the stats that the headers will show. The storage behind it is
SQLite's, the one whose setup has a middle. `Shutdown` and `Closed` are the two halves
of `close`, with requests in between; `Cancel` may strike at any await.

## What the runs check

Runs that may stop (every task is done or a bound is reached) say
`CHECK_DEADLOCK FALSE`.

| Run | Instance | Shows |
| --- | --- | --- |
| `memory` | 2 counter keys, 2 log keys, 1 bucket; room for 2; a sweep every 2 writes; 4 ticks, windows of 2 | types; every held key is in the index (`IndexCoversEntries`: no `KeyError` in `get`); what limits are decided from stays within `max_entries` (`StoreBounded`); a call forgets live state only when the storage is full, and then the least recently used (`LosesOnlyLeastRecent`) |
| `fixed` | 2 tasks, limit 2, costs 1 and 2, windows of 3 ticks of a third of a second, 7 ticks | a window admits at most the limit; any interval of its length at most twice the limit; a refusal's reset time is never before the end of the window that counted it, and its waiting time falls short of it by at most half a second (`RetryAfterIsNear`) |
| `moving` | 3 tasks, limit 2, windows of 4 ticks, calls up to 1 tick late and in any order | an interval shorter than the window by the delay sees at most the limit; reset and waiting times name the next free slot, although count and oldest entry are read by different calls |
| `sliding` | 2 tasks, limit 2, costs 1 and 2, windows of 2 ticks, 5 ticks | nothing admitted is forgotten while its window is still weighed (`CountsAreKept`); the weighted count passes the limit by no more than the other tasks can have under way (`OvershootIsBounded`) |
| `sliding_retry` | the same, costs of 1 | **violation** of `RetryAfterIsEnough`: the end of the window is not when a client is admitted again |
| `memcached` | for token buckets: 2 tasks, 3 tries, a bucket of 2 tokens that gains 1 a tick, costs 1 and 2, calls up to 1 tick late, an item that expires after 2 ticks; or for fixed windows: 2 tasks, 5 hits and resets, limit 1, windows of 2 ticks, a `set` up to 1 tick late, 2 ticks | the loop implements the atomic bucket (`KeepsThePromise`), so no interval shorter than the time to live sees more given away than a full bucket and what it gains (`BurstIsBounded`); a request refused for lost races was overtaken in each try (`GivesUpOnlyWhenOvertaken`). What expiry between `add` and `incr` lets through uncounted is at most a hit of each task (`AdmittedInAWindow`); a count whose reset time was set outlives that time by no more than a `set` may be late (`ResetTimeCoversTheCount`) |
| `enforcement` | 2 overlapping requests, 2 rules that share a counter, failures, 3 seconds; the banned are blocked and `clear()` comes at any time, or they have a penalty limit | what is served fits every limit and penalty in every window, also when a ban begins between two rules of a request (`ServedWithinEveryLimit`); a ban has `Threshold` breaches within `TrackSeconds` behind it, none of them forgotten by `clear()` unless the ban was under way then (`BannedForBreaches`); a ban once begun or renewed lasts (`BanLasts`) |
| `sqlite` | 2 processes with 2 tasks and 1, one key, 3 calls of every kind, closed connections, a crash, 1 tick | the database moves by whole calls in the order of their stamps (`KeepsThePromise`, a refinement of `Storage`); a reader, which takes no lock, sees a counter, or a log, as it is committed or as one whole call leaves it (`ReadsAreOneCallAhead`); every call ends (`EveryCallEnds`) |
| `registry` | 2 rules, one registered when made and one at its first request, 2 threads, 2 edits, 4 limits: two of rates, one of them with a blank part, one a callable, one that does not parse | an enabled rule resolves to its present limit but for one race (`AnswersTheLimit`); a rule can be managed by its name until the name is removed, but for another (`ManagedUntilRemoved`) |
| `registry_removed` | the same with 1 edit | **violation** of `RemovedStaysRemoved`: a removed rule is listed again by a second thread |
| `service` | 2 requests: one through middleware, dependency and decorator, the other through a dependency, a WebSocket message or `startup`; shutdowns and restarts, failures and cancellations | a ready limiter has a usable storage but while it is closed and after a setup cut short (`ReadyMeansUsable`); the headers of an admitted request show the tightest check since its last dependency (`HeadersShowTheTightest`); every request ends (`EveryRequestEnds`) |
| `blocked_headers` | the same | **violation** of `RefusalShowsItsLimit`: the middleware overwrites the headers of a refusal |

The bounds. Two tasks are enough for a step of one between any two steps of the
other, which is where the properties about pairs of steps can break; `moving` has
three because the log must fill (two) and be passed by a late one, `sqlite` has three
because tasks meet in one process (a lock) and across processes (the file). Three
calls there are one that leaves a transaction open, one that meets it in its own
process and one in the other. Three tries of the compare-and-swap loop (the code has
eight) are a first, a middle and a last one. Clocks run through at least two ends of a
window where a property speaks of windows; in `memcached` the clock runs to the end
of an item, after which the race is run again for a bucket that is missing, and hits
meet a second count (an interval shorter than the window meets no more). Buckets and
counters share no key, so the two kinds of state there are explored one or the other,
as the limiter's strategy says. Limits of 1 or 2 make "full" reachable in one or two
steps and leave room for one step too many. Two edits are a change and a change, or a removal, that overtakes it.
`MaxCount`, `MaxBreaches`, `MaxCalls`, `MaxEdits` and `MaxCrashes` keep the behaviours
finite; they are in the guards of the actions that would pass them. Symmetry sets are
used where tasks, keys or requests are alike, and not in the runs with a liveness
property.

Fairness. Two properties are liveness properties: a storage call ends, and a request
ends. They assume weak fairness of what a task does by itself once it can go on
(`Proceed`: the event loop runs every task that is ready, and SQLite answers or times
out) and strong fairness of taking a lock (`Lock`: `asyncio.Lock` wakes its waiters in
order, so a task is not passed over forever, although the lock is taken and released
again and again). Failures, cancellations, crashes, shutdowns, arrivals and the clock
are not assumed to happen. The other modules state no fairness: nothing in the code
promises that a request is eventually admitted.

The violations are disagreements between the code and its documentation;
PROJECT.json quotes both:

- `sliding_retry`: a client that is refused by the sliding window and waits as told is
  refused again, because the window's count is then weighed in full.
- `registry_removed`: `register_rule` checks whether a rule was seen and notes it in two
  steps. Of two threads past the check one lists the rule, `remove_limit` disables it and
  drops its name, and the other lists it again, which the docstring rules out.
- `blocked_headers`: a refusal by a decorator or a dependency goes back through the
  middleware, which writes the stats of checks passed before over the stats of the
  limit that blocked.

Some disagreements are visible in the modules without a run of their own. The
readers of a log in memory store empty lists that no index entry covers. A full
moving window on Redis can see more than the limit, since stamps are older than
effects (`AtMostLimitInAnyWindow` allows for the delay). Renewing a ban drops it for
the time of one call (`BanLasts` excepts it). Breaches on both sides of a breach
window's end are never added up. The items of an old limit stay cached when a
resolution parsed them before an edit and stored them after it (`late`), a rule can be
listed and enforced in a list that no name leads to (`crossed`), a ban can outlive a
`clear()` that met it under way (`missed`), a cancelled SQLite call makes all later
writes fail, and a setup cut short poisons the next one (`cutShort`): the properties
name these cases as their only exceptions.

## What is proved

The proofs hold for any number of processes, tasks, threads, keys and rules, any
limit, window, cost, delay and threshold, any ways of requests through the
application: the constants only satisfy the named assumptions of their modules
(positive amounts and lengths as `rate.py` enforces, finite sets of tasks where tasks
are counted, names such as `Nobody` and `NoTask` that are not tasks, a way of a call of
`startup` or of a message that has no other check). The bounds (`MaxClock`, `MaxCount`,
`MaxBreaches`, `MaxCalls`, `MaxEdits`, `MaxCrashes`, ...) are arbitrary naturals in them.
Every safety invariant that a passing run checks, both refinements and every other action
property is stated by a theorem.

| Theorem | States | Argument |
| --- | --- | --- |
| `MemoryStorageProofs!EntriesAreIndexed` | `[]IndexCoversEntries` | every write touches its key, every eviction takes the key out of all dictionaries, and a read that stores an empty log adds nothing that must be covered |
| `MemoryStorageProofs!HoldsAtMostMaxEntries` | `[]StoreBounded` | moving to the end and dropping keep the index an order by recency; in an order of finitely many keys those with fewer than `MaxEntries` keys after them are at most `MaxEntries` |
| `MemoryStorageProofs!ForgetsOnlyLeastRecent` | `LosesOnlyLeastRecent` | of the keys an eviction takes, the most recent has at least `MaxEntries` keys after it, which all stay, and what it takes is older than what it keeps; a sweep takes only what has expired |
| `SQLiteStorageProofs!SQLiteReads` | `[]ReadsAreOneCallAhead` | see below |
| `SQLiteStorageProofs!SQLiteKeepsThePromise` | `KeepsThePromise` | from the same invariant: a commit whose transaction holds the effect of its call is the abstract call, and everything else stutters |
| `FixedWindowProofs!WindowLimit` | `[]AtMostLimitPerWindow` | a unit admitted is identified by its window and the value of the counter that accounts for it; values lie in `1..Limit` and differ |
| `FixedWindowProofs!TwiceTheLimit` | `[]AtMostTwiceTheLimit` | windows end at least a window's length apart, so an interval of that length touches two |
| `FixedWindowProofs!ResetIsNotEarly` | `[]ResetCoversTheWindow` | a counter's reset time is never less than that of a window counted before it |
| `FixedWindowProofs!RetryIsNear` | `[]RetryAfterIsNear` | the reset time is no earlier than the window, and rounding loses at most half a second |
| `MovingWindowProofs!NeverMoreThanLimit` | `[]AtMostLimitInAnyWindow` | an entry is cut only by a call stamped a window later, so the log holds all that an interval could contain when the next is admitted |
| `MovingWindowProofs!ExactWithoutDelay` | `MaxDelay = 0` implies `[]NeverMoreThanLimitInAnyWindow` | the same: what the docstring says holds where the clock is read under the lock |
| `MovingWindowProofs!AnswersAreRight` | `AnswersWithTheNextFreeSlot` | the log never exceeds the limit, so it is full exactly when no slot is free; nothing leaves it before the oldest entry has aged by a window, and that entry leaves then |
| `SlidingWindowProofs!NothingForgotten` | `[]CountsAreKept` | a counter incremented in or after its window lives through the next one |
| `SlidingWindowProofs!Overshoot` | `[]OvershootIsBounded` | see below |
| `MemcachedProofs!BucketBurst` | `[]BurstIsBounded` of `TokenBucket` | for every time, an account: what was given away since and what is left came out of one full bucket and the time since, less a delay; a bucket is forgotten only when it has filled up |
| `MemcachedProofs!ImplementsThePromise` | `KeepsThePromise` | while a task's cas token is the item's, what it has read is the item |
| `MemcachedProofs!BurstBounded` | `[]BurstIsBounded` of the loop | from the two theorems above |
| `MemcachedProofs!OnlyWhenOvertaken` | `[]GivesUpOnlyWhenOvertaken` | a failed write has been preceded by a change since its `gets` |
| `MemcachedProofs!CountersAdmit` | `[]AdmittedInAWindow` | an account for every time from which on the interval is short: what the old count admitted is within the limit, in the gap until the next one is made every task takes its hit for the first at most once, and what the new count admitted is within the limit again |
| `MemcachedProofs!CountersExpire` | `[]ResetTimeCoversTheCount` | a `set` carries a time at most `SetDelay` behind its effect, when the count it meets ends no later than a window from then; only a touch, a new count or a reset parts them |
| `LimiterProofs!LimitsHold` | `[]ServedWithinEveryLimit` | units of a counter and window have distinct numbers up to the amount |
| `LimiterProofs!BansAreDeserved` | `[]BannedForBreaches` | the breaches a violation counter stands for all lie in its window, and are forgotten with it |
| `LimiterProofs!BansLast` | `[]BanLasts` | a request that drops the ban has recorded how long the next one must last, and sets one that lasts longer |
| `LimiterProofs!ServiceReady` | `[]ReadyMeansUsable` | nothing is ready while somebody sets up, and an open connection has its tables, or its task is at them, or a setup was cut short |
| `LimiterProofs!ServiceHeaders` | `[]HeadersShowTheTightest` | at every check of a way the stats noted are the tightest of those passed since the last dependency |
| `LimiterProofs!RegistryAnswers` | `[]AnswersTheLimit` | a filled cache holds the items of its rule's limit, except between the two assignments of `update` and after a late store; a resolution no edit has met works on the limit of its rule |
| `LimiterProofs!RegistryManages` | `[]ManagedUntilRemoved` | only the last list is in the dictionary, a thread that is about to append to another has had its rule's name removed, and the loop of a removal has disabled what it has passed |
| `*!TypeCorrect`, `BucketTypes`, `CountersTypes`, `SQLiteTypes`, `ServiceTypes`, `RegistryTypes` | `[]TypeOK` of each module | with the facts above where the type depends on them, as an eviction takes keys by their place in the index |

Every safety theorem rests on an inductive invariant of its module (`IInv`; in the
modules with several parts `BucketIInv`, `CountersInv`, `ServiceInv`, `RegistryInv`),
with the three facts `Init => IInv`, `IInv /\ [Next]_vars => IInv'` and
`IInv => property`. The invariants were checked by TLC on the small instances first.
An action property is proved from the invariant before and after the step.

The invariant of `SQLiteStorage` says where every call is. At most one connection has
a transaction open; the task past the lock of its process holds it, and nobody else
does. The transaction's view is what the statements executed so far (`done`) make of the
database, which after the last of them is the effect of the call; what a cancelled call
left open is such a view too. Only a call that has executed them all commits, so the
database moves by whole calls; and each statement writes one table, so that each table
by itself is as committed or as the call leaves it.

The overshoot of the sliding window shows why a strengthening is needed. That the
weighted count is within its bound now says nothing of what the tasks that have
read a smaller count may still add. The invariant keeps an account: from the
moment a read can lead to an admission, the count leaves a reserve of `MaxCost`
for every task that has read the window's counter and was not ruled out by it. An
admission spends one reserve; any other step can only let tasks drop out or, as
time passes, let the previous window weigh less. With costs of 1 the bound is
tight: all tasks may read one less than the limit before any of them increments.

Only model-checked: the liveness properties `EveryCallEnds` and `EveryRequestEnds`.
They rest on fairness, whose definition needs `ENABLED`, which TLAPS does not reason
about. There is no recursive definition.

## What is not modelled, and the plan

Formatting (`responses.py`, `errors.py`, key prefixes and hashing), the text of rates,
identity extraction (`keys.py`), the exemption sets and the decorator's signature
inspection are data without state; they appear as sets of constants and as
outcomes. Connection set-up of Redis and Memcached does nothing that could be half
done. `peek` writes nothing but what `take_token` writes at a cost of 0, which
`TokenBucket` has. What Memcached does with an `exptime` of more than 30 days is not in
the source. A clock that is set back is not modelled.

Next, in this order:

1. Composition: `FixedWindow` over `MemoryStorage`, where eviction makes a limit
   forget, and the refinement of `Enforcement`'s hit by the strategies.
2. `Storage` implemented by `MemoryStorage` while it is not full, as it is by
   `SQLiteStorage`.
