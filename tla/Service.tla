------------------------------ MODULE Service -------------------------------
(***************************************************************************)
(* The limiter between an application and its storage: limiter.py's life   *)
(* cycle (startup, shutdown, the setup at first use), and the way of a     *)
(* request through middleware.py, dependencies.py and the decorator of     *)
(* limiter.py, to the headers of its response (responses.py).              *)
(*                                                                         *)
(* A request passes the checks of its path in turn, each of which readies  *)
(* the storage, applies its rules and notes the stats the headers will     *)
(* show.  All run in one event loop; other requests, and the shutdown, go  *)
(* on at each await.  What rules decide is the matter of Enforcement: here *)
(* a check may admit with any number of requests left, block, or find the  *)
(* client exempt or without identity.  The storage is SQLite's             *)
(* (backends/sqlite.py, setup and close): the others have nothing to set up*)
(* that could go wrong half way.                                           *)
(***************************************************************************)
EXTENDS Integers, Sequences

CONSTANTS Callers,  \* the requests, messages of WebSockets and calls of startup
          Paths,    \* the ways a request may take: the checks it passes, in order
          MaxLeft   \* bound: the requests a check leaves

\* Where a check is made.  The path of a call of startup is the check
\* "startup", a message of a WebSocket has the check "websocket".
Checks == {"middleware", "dependency", "decorator", "websocket", "startup"}

Nobody == "nobody"

\* A call of startup and a message of a WebSocket pass no other check.
ASSUME ServiceAssumption ==
  /\ Nobody \notin Callers
  /\ \A r \in Callers :
       /\ Paths[r] \subseteq Seq(Checks) \ {<<>>}
       /\ \A way \in Paths[r] :
            (\E i \in DOMAIN way : way[i] \in {"startup", "websocket"}) => Len(way) = 1
  /\ MaxLeft \in Nat

VARIABLES switchedOn, \* _enabled
          ready,      \* _ready
          holder,     \* the request that holds _setup_lock
          conn,       \* _db: none, an open connection or one being closed
          schema,     \* the tables exist in the database file
          cutShort,   \* history: a setup ended between its connection and its tables
          phase,      \* what a request waits for
          path,       \* the way it takes
          place,      \* the check it is at
          stats,      \* request.state.limitex_stats, or NoStats
          verdict,    \* the stats of the limit that blocks it
          response,   \* the last response: its status and the stats in its headers
          passed      \* history: the stats of the checks it passed

lifecycle == <<switchedOn, ready, holder, conn, schema, cutShort>>
requests == <<phase, path, place, stats, verdict, response, passed>>
serviceVars == <<lifecycle, requests>>

\* WindowStats: the check they are of and the requests it leaves.
Stats == [check : Nat, left : 0..MaxLeft]
NoStats == [check |-> 0, left |-> 0]
Response == [status : {0, 200, 401, 429, 500, 1008}, shown : Stats]
NoResponse == [status |-> 0, shown |-> NoStats]

\* Each part of the state has its type, and the lock is held by who sets up.
ServiceTypeOK ==
  /\ {switchedOn, ready, schema, cutShort} \subseteq BOOLEAN
  /\ holder \in Callers \cup {Nobody}
  /\ conn \in {"none", "open", "closing"}
  /\ phase \in [Callers -> {"idle", "check", "waiting", "connect", "schema", "apply",
                             "callback", "endpoint"}]
  /\ path \in [Callers -> Seq(Checks)]
  /\ place \in [Callers -> Nat]
  /\ {stats, verdict} \subseteq [Callers -> Stats]
  /\ response \in [Callers -> Response]
  /\ passed \in [Callers -> Seq(Stats)]
  /\ \A r \in Callers :
       /\ path[r] \in Paths[r] \cup {<<>>} /\ place[r] <= Len(path[r])
       /\ phase[r] \in {"connect", "schema"} <=> holder = r

ServiceInit ==
  /\ switchedOn \in BOOLEAN
  /\ ready = FALSE
  /\ holder = Nobody
  /\ conn = "none"
  /\ schema \in BOOLEAN
  /\ cutShort = FALSE
  /\ phase = [r \in Callers |-> "idle"]
  /\ path = [r \in Callers |-> <<>>]
  /\ place = [r \in Callers |-> 0]
  /\ stats = [r \in Callers |-> NoStats]
  /\ verdict = [r \in Callers |-> NoStats]
  /\ response = [r \in Callers |-> NoResponse]
  /\ passed = [r \in Callers |-> <<>>]

Awaits(r, where) == phase' = [phase EXCEPT ![r] = where]

CurrentCheck(r) == path[r][place[r]]

\* The request is answered, or gone.
Answered(r, status, shown) ==
  /\ Awaits(r, "idle")
  /\ place' = [place EXCEPT ![r] = 0]
  /\ stats' = [stats EXCEPT ![r] = NoStats]
  /\ verdict' = [verdict EXCEPT ![r] = NoStats]
  /\ response' = [response EXCEPT ![r] = [status |-> status, shown |-> shown]]
  /\ UNCHANGED path

Errs(r) == Answered(r, 500, NoStats) /\ UNCHANGED passed

\* A request arrives.
Arrive(r) ==
  /\ phase[r] = "idle"
  /\ \E way \in Paths[r] : path' = [path EXCEPT ![r] = way]
  /\ Awaits(r, "check")
  /\ place' = [place EXCEPT ![r] = 1]
  /\ response' = [response EXCEPT ![r] = NoResponse]
  /\ passed' = [passed EXCEPT ![r] = <<>>]
  /\ UNCHANGED <<lifecycle, stats, verdict>>

-----------------------------------------------------------------------------
(* _ensure_ready.                                                          *)

\* if self._ready: return.
EnsureReady(r) ==
  /\ phase[r] = "check"
  /\ Awaits(r, IF ready THEN "apply" ELSE "waiting")
  /\ UNCHANGED <<lifecycle, path, place, stats, verdict, response, passed>>

\* The lock is acquired: another may have set up meanwhile.  setup returns at
\* once when it finds a connection.
Lock(r) ==
  /\ phase[r] = "waiting"
  /\ holder = Nobody
  /\ IF ready \/ conn # "none"
     THEN ready' = TRUE /\ Awaits(r, "apply") /\ UNCHANGED holder
     ELSE holder' = r /\ Awaits(r, "connect") /\ UNCHANGED ready
  /\ UNCHANGED <<switchedOn, conn, schema, cutShort, path, place, stats, verdict, response,
                 passed>>

\* (Mutant of Released: the lock is not released when the setup fails.)
ReleasedOnSuccess(r) == IF holder = r /\ ready' THEN Nobody ELSE holder

\* The lock after r, who may hold it, has left.
Released(r) == IF holder = r THEN Nobody ELSE holder

\* setup: aiosqlite.connect.
Connect(r) ==
  /\ phase[r] = "connect"
  /\ conn' = "open"
  /\ Awaits(r, "schema")
  /\ UNCHANGED <<switchedOn, ready, holder, schema, cutShort, path, place, stats, verdict,
                 response, passed>>

\* setup: the statements of _SCHEMA, unless the connection was closed before.
CreateSchema(r) ==
  /\ phase[r] = "schema"
  /\ conn # "none"
  /\ schema' = TRUE
  /\ ready' = TRUE
  /\ holder' = Released(r)
  /\ Awaits(r, "apply")
  /\ UNCHANGED <<switchedOn, conn, cutShort, path, place, stats, verdict, response, passed>>

\* What a request that leaves a setup leaves behind.
LeavesSetup(r) ==
  /\ UNCHANGED <<switchedOn, ready, conn, schema>>
  /\ holder' = Released(r)
  /\ cutShort' = (cutShort \/ (phase[r] = "schema" /\ conn # "none"))

SetupFails(r) ==
  /\ phase[r] \in {"connect", "schema"}
  /\ LeavesSetup(r)
  /\ Errs(r)

-----------------------------------------------------------------------------
(* guard, enforce and check.                                               *)

Usable == conn = "open" /\ schema

\* (Mutant of MostRestrictive: the comparison is the wrong way round.)
LeastRestrictive(existing, s) ==
  IF existing = NoStats \/ s.left > existing.left THEN s ELSE existing

MostRestrictive(existing, s) ==
  IF existing = NoStats \/ s.left < existing.left THEN s ELSE existing

\* guard, of the middleware and of the decorator, keeps the most restrictive of
\* the stats; enforce, of a dependency, overwrites them; check keeps none.
Noted(r, s) ==
  CASE CurrentCheck(r) \in {"middleware", "decorator"} -> MostRestrictive(stats[r], s)
    [] CurrentCheck(r) = "dependency"                  -> s
    [] OTHER                                           -> stats[r]

\* The request goes on to its next check, or to what it came for.
GoesOn(r) ==
  /\ IF place[r] < Len(path[r])
     THEN Awaits(r, "check") /\ place' = [place EXCEPT ![r] = @ + 1]
     ELSE Awaits(r, "endpoint") /\ UNCHANGED place
  /\ UNCHANGED <<lifecycle, path, verdict, response>>

\* Every rule admits the request; left is the least that remains.
Admit(r, left) ==
  LET s == [check |-> place[r], left |-> left]
  IN  /\ phase[r] = "apply"
      /\ CurrentCheck(r) # "startup"
      /\ switchedOn \/ CurrentCheck(r) = "websocket"
      /\ Usable
      /\ stats' = [stats EXCEPT ![r] = Noted(r, s)]
      /\ passed' = [passed EXCEPT ![r] = Append(@, s)]
      /\ GoesOn(r)

\* The limiter is disabled, which check does not look at, or no rule is for
\* this client; startup has no rules.
SkipRules(r) ==
  /\ phase[r] = "apply"
  /\ CurrentCheck(r) # "websocket"
  /\ GoesOn(r)
  /\ UNCHANGED <<stats, passed>>

\* A rule blocks the request, at a cost of 1 with nothing left: _raise_block
\* calls on_breach.
BlockRequest(r) ==
  /\ phase[r] = "apply"
  /\ CurrentCheck(r) \in {"middleware", "dependency", "decorator"}
  /\ switchedOn
  /\ Usable
  /\ Awaits(r, "callback")
  /\ verdict' = [verdict EXCEPT ![r] = [check |-> place[r], left |-> 0]]
  /\ UNCHANGED <<lifecycle, path, place, stats, response, passed>>

\* check finds a limit used up: it asks for no identity, and calls nobody back.
LimitIsUsedUp(r) ==
  /\ phase[r] = "apply"
  /\ CurrentCheck(r) = "websocket"
  /\ Usable

\* The WebSocket's message loop gets a RateLimitExceeded.
BlockMessage(r) ==
  /\ LimitIsUsedUp(r)
  /\ Answered(r, 1008, NoStats)
  /\ UNCHANGED <<lifecycle, passed>>

\* dispatch: the middleware writes the stats of the request, if it has any, into
\* the headers of whatever response comes back to it.
AfterMiddleware(r, shown) == IF stats[r] = NoStats THEN shown ELSE stats[r]

\* on_breach and response_builder have run; the response is built with the
\* headers of the limit that blocked, and goes back through the middleware
\* unless it is the middleware's own.
Refuse(r) ==
  /\ phase[r] = "callback"
  /\ Answered(r, 429, IF CurrentCheck(r) = "middleware" THEN verdict[r]
                      ELSE AfterMiddleware(r, verdict[r]))
  /\ UNCHANGED <<lifecycle, passed>>

\* MissingIdentityError, while the rules are applied.
MissIdentity(r) ==
  /\ phase[r] = "apply"
  /\ CurrentCheck(r) \in {"middleware", "dependency", "decorator"}
  /\ switchedOn
  /\ Answered(r, 401, IF CurrentCheck(r) = "middleware" THEN NoStats
                      ELSE AfterMiddleware(r, NoStats))
  /\ UNCHANGED <<lifecycle, passed>>

\* The endpoint answers; _inject_success and the middleware add the headers.
Respond(r) ==
  /\ phase[r] = "endpoint"
  /\ Answered(r, 200, stats[r])
  /\ UNCHANGED <<lifecycle, passed>>

\* The storage, a key function, on_breach, response_builder or the endpoint
\* raises.  A storage that is not usable always does.
Raise(r) ==
  /\ phase[r] \in {"apply", "callback", "endpoint"}
  /\ CurrentCheck(r) # "startup"
  /\ Errs(r)
  /\ UNCHANGED lifecycle

\* The client is gone: CancelledError at the await the request is at.
Cancel(r) ==
  /\ phase[r] # "idle"
  /\ LeavesSetup(r)
  /\ Answered(r, 0, NoStats)
  /\ UNCHANGED passed

-----------------------------------------------------------------------------
(* shutdown and the operator's switch.                                     *)

\* (Mutant of ReadyWhen: the flag is cleared before the storage is closed.)
ReadyClearedFirst(stage) == stage = "closed" /\ ready

\* The flag while the storage is being closed, and when it is closed.
ReadyWhen(stage) == stage = "closing" /\ ready

\* shutdown: close waits for the connection's thread,
Shutdown ==
  /\ conn = "open"
  /\ conn' = "closing"
  /\ ready' = ReadyWhen("closing")
  /\ UNCHANGED <<switchedOn, holder, schema, cutShort, requests>>

\* forgets the connection, and the flag is cleared.
Closed ==
  /\ conn = "closing"
  /\ conn' = "none"
  /\ ready' = ReadyWhen("closed")
  /\ cutShort' = FALSE
  /\ UNCHANGED <<switchedOn, holder, schema, requests>>

\* shutdown, when there is no connection.
ShutdownAtOnce ==
  /\ conn = "none"
  /\ ready' = FALSE
  /\ UNCHANGED <<switchedOn, holder, conn, schema, cutShort, requests>>

\* enable and disable.
Toggle ==
  /\ switchedOn' = ~switchedOn
  /\ UNCHANGED <<ready, holder, conn, schema, cutShort, requests>>

-----------------------------------------------------------------------------

\* What a request does when the event loop runs it.
Proceed(r) ==
  \/ EnsureReady(r) \/ Connect(r) \/ CreateSchema(r) \/ SetupFails(r)
  \/ \E left \in 0..MaxLeft : Admit(r, left)
  \/ SkipRules(r) \/ BlockRequest(r) \/ BlockMessage(r) \/ MissIdentity(r)
  \/ Refuse(r) \/ Respond(r) \/ Raise(r)

ServiceNext ==
  \/ \E r \in Callers : Arrive(r) \/ Lock(r) \/ Proceed(r) \/ Cancel(r)
  \/ Shutdown \/ Closed \/ ShutdownAtOnce \/ Toggle

\* What can go on does, and the setup lock is handed on in order.
Fairness == \A r \in Callers : WF_serviceVars(Proceed(r)) /\ SF_serviceVars(Lock(r))

ServiceSpec == ServiceInit /\ [][ServiceNext]_serviceVars /\ Fairness

-----------------------------------------------------------------------------
(* Properties.                                                             *)

\* _ready stands for a storage that can be used, but while it is being closed
\* and after a setup that ended half way: the connection it left makes the next
\* setup return at once, although the tables were never made.
ReadyMeansUsable ==
  ready => Usable \/ conn = "closing" \/ cutShort

\* The headers of an admitted request show the tightest of the limits it was
\* checked against, from the last dependency on: enforce forgets what the checks
\* before it noted.
HeadersShowTheTightest ==
  \A r \in Callers : response[r].status = 200 /\ path[r][1] # "websocket" =>
    LET deps  == {i \in DOMAIN passed[r] : path[r][passed[r][i].check] = "dependency"}
        since == {i \in DOMAIN passed[r] : \A d \in deps : d <= i}
        lefts == {passed[r][i].left : i \in since}
    IN  /\ (response[r].shown = NoStats) <=> (since = {})
        /\ since # {} => /\ response[r].shown.left \in lefts
                         /\ \A left \in lefts : response[r].shown.left <= left

\* Whatever fails, is cancelled or is shut down, every request ends: nobody
\* waits for the setup lock forever.
EveryRequestEnds == \A r \in Callers : phase[r] # "idle" ~> phase[r] = "idle"

\* README.md, lines 544-545: "By default a blocked request receives a `429` JSON
\* body plus `Retry-After` and `X-RateLimit-*` headers", which build_response
\* fills with the stats of the limit that blocked.  The middleware overwrites
\* them with those of a check that the request has passed.
RefusalShowsItsLimit ==
  \A r \in Callers : response[r].status = 429 =>
    \A i \in DOMAIN passed[r] : response[r].shown.check # passed[r][i].check
=============================================================================
