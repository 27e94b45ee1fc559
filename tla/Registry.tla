------------------------------ MODULE Registry ------------------------------
(***************************************************************************)
(* registry.py, and the functions of limiter.py that manage limits by name.*)
(*                                                                         *)
(* Endpoints that are plain functions run in threads, and so do the rules  *)
(* they register at their first request and what an administrator's        *)
(* endpoint edits; the items of a rule are resolved in the event loop.     *)
(* Nothing is locked.  A step here is what one thread does between two     *)
(* points where another can be switched in.  A loop over a list takes its  *)
(* rules one by one, those that are appended in the course of it included. *)
(*                                                                         *)
(* All rules have one name.  A list of the registry's dictionary that was  *)
(* popped may still be appended to by a thread that got it before.         *)
(***************************************************************************)
EXTENDS Rates

CONSTANTS LimitRules,   \* the rules
          Decorated,    \* the rules of Limiter.limit, listed when they are made
          Threads,      \* the threads that run endpoints
          Limits,       \* the values a limit may have
          FirstLimit,   \* the value the rules are made with
          MaxEdits      \* bound: the edits of the administrator

ASSUME RegistryAssumption ==
  /\ Decorated \subseteq LimitRules
  /\ FirstLimit \in Limits
  /\ Limits \subseteq [callable : BOOLEAN, parts : Seq(Parts)]
  /\ MaxEdits \in Nat

VARIABLES limit, cache, enabled, \* the fields of each rule
          listed,   \* the lists of rules there ever were
          current,  \* the number of the one in the dictionary, or 0
          seen,     \* _registered_ids
          thread,   \* what each thread does, for which rule and with which list
          admin,    \* what the administrator's thread does
          eval,     \* what the event loop does
          edits,    \* the edits made
          late,     \* history: the cache was parsed from a limit replaced meanwhile
          removed,  \* history: its name was removed since the rule was seen
          dropped,  \* history: the rules that were in a list when it was popped
          crossed   \* history: the rule was appended in the course of a removal,
                    \* or again after it

rules == <<limit, cache, enabled>>
registry == <<listed, current, seen>>
registryHistory == <<late, removed, dropped, crossed>>
registryVars == <<rules, registry, thread, admin, eval, edits, registryHistory>>

\* A limit is a callable, which gives its parts at each request, or has them.
LimitValue(callable, parts) == [callable |-> callable, parts |-> parts]

NoCache == <<>>
Idle == [pc |-> "idle"]

Registering(pc, rule, list) == [pc |-> pc, rule |-> rule, list |-> list]

\* In a loop over a list, or 0 for none: the rules done.
Updating(pc, rule, list, done, value) ==
  [pc |-> pc, rule |-> rule, list |-> list, done |-> done, value |-> value]
Switching(pc, on, list, done) == [pc |-> pc, on |-> on, list |-> list, done |-> done]

\* edited: the rule was edited since the resolution began.
Resolving(pc, rule, value, items, edited) ==
  [pc |-> pc, rule |-> rule, value |-> value, items |-> items, edited |-> edited]

\* What rules resolve to.
ParsedItems == {NoCache} \cup {ParseMany(l.parts) : l \in Limits}

\* What the threads may be doing.
Registrations ==
  {Idle} \cup [pc : {"see", "look", "list"}, rule : LimitRules, list : {0}]
         \cup [pc : {"append"}, rule : LimitRules, list : DOMAIN listed]
Administration ==
  {Idle, [pc |-> "pop"]}
    \cup [pc : {"update", "invalidate"}, rule : LimitRules, list : 0..Len(listed),
          done : SUBSET LimitRules, value : Limits]
    \cup [pc : {"switch", "remove"}, on : BOOLEAN, list : 0..Len(listed),
          done : SUBSET LimitRules]
Resolutions ==
  {Idle} \cup [pc : {"call", "cached", "parse", "store", "return", "done"},
               rule : LimitRules, value : Limits, items : ParsedItems, edited : BOOLEAN]

\* Every item that is cached has a positive amount and window.
RegistryTypeOK ==
  /\ limit \in [LimitRules -> Limits]
  /\ cache \in [LimitRules -> ParsedItems]
  /\ \A rule \in LimitRules : \A i \in DOMAIN cache[rule] : Proper(cache[rule][i])
  /\ enabled \in [LimitRules -> BOOLEAN]
  /\ listed \in Seq(SUBSET LimitRules)
  /\ current \in 0..Len(listed)
  /\ seen \subseteq LimitRules
  /\ dropped \subseteq LimitRules
  /\ thread \in [Threads -> Registrations]
  /\ admin \in Administration
  /\ eval \in Resolutions
  /\ edits \in 0..MaxEdits
  /\ {late, removed, crossed} \subseteq [LimitRules -> BOOLEAN]

\* Limiter.limit lists its rule, and counts it as seen, before any request.
RegistryInit ==
  /\ limit = [rule \in LimitRules |-> FirstLimit]
  /\ cache = [rule \in LimitRules |-> NoCache]
  /\ enabled = [rule \in LimitRules |-> TRUE]
  /\ listed = IF Decorated = {} THEN <<>> ELSE <<Decorated>>
  /\ current = Len(listed)
  /\ seen = Decorated
  /\ thread = [t \in Threads |-> Idle]
  /\ admin = Idle
  /\ eval = Idle
  /\ edits = 0
  /\ late = [rule \in LimitRules |-> FALSE]
  /\ removed = [rule \in LimitRules |-> FALSE]
  /\ dropped = {}
  /\ crossed = [rule \in LimitRules |-> FALSE]

\* What is in a list by now.
RulesOf(list) == IF list = 0 THEN {} ELSE listed[list]

\* get: self._rules.get(name, []).
Get == RulesOf(current)

-----------------------------------------------------------------------------
(* register_rule, in the threads of the endpoints.                         *)

\* if id(rule) in self._registered_ids: return.
Register(t, rule) ==
  /\ thread[t] = Idle
  /\ rule \notin seen
  /\ thread' = [thread EXCEPT ![t] = Registering("see", rule, 0)]
  /\ UNCHANGED <<rules, registry, admin, eval, edits, registryHistory>>

\* self._registered_ids.add(id(rule)).
See(t) ==
  LET rule == thread[t].rule
  IN  /\ thread[t].pc = "see"
      /\ seen' = seen \cup {rule}
      /\ removed' = [removed EXCEPT ![rule] = @ /\ rule \in seen]
      /\ thread' = [thread EXCEPT ![t] = Registering("look", rule, 0)]
      /\ UNCHANGED <<rules, listed, current, admin, eval, edits, late, dropped, crossed>>

\* (Mutant of IsListed: a rule is taken for another of its name.)
NameIsListed(rule) == Get # {}

\* Is the rule itself in the list of its name?
IsListed(rule) == rule \in Get

Look(t) ==
  /\ thread[t].pc = "look"
  /\ thread' = [thread EXCEPT ![t] = IF IsListed(@.rule) THEN Idle
                                     ELSE Registering("list", @.rule, 0)]
  /\ UNCHANGED <<rules, registry, admin, eval, edits, registryHistory>>

\* add: self._rules.setdefault(rule.name, []),
SetDefault(t) ==
  /\ thread[t].pc = "list"
  /\ listed' = IF current = 0 THEN Append(listed, {}) ELSE listed
  /\ current' = Len(listed')
  /\ thread' = [thread EXCEPT ![t] = Registering("append", @.rule, current')]
  /\ UNCHANGED <<rules, seen, admin, eval, edits, registryHistory>>

\* A removal under way does not come to what is appended to the list now: its
\* loop is over, or goes over no list.
Missed(list) == admin.pc = "pop" \/ (admin.pc = "remove" /\ admin.list # list)

\* and append, to what may not be in the dictionary any more.
AppendRule(t) ==
  LET rule == thread[t].rule
      list == thread[t].list
  IN  /\ thread[t].pc = "append"
      /\ listed' = [listed EXCEPT ![list] = @ \cup {rule}]
      /\ crossed' = [crossed EXCEPT ![rule] =
                       @ \/ list # current \/ Missed(list) \/ rule \in dropped]
      /\ thread' = [thread EXCEPT ![t] = Idle]
      /\ UNCHANGED <<rules, current, seen, admin, eval, edits, late, removed, dropped>>

-----------------------------------------------------------------------------
(* The administrator's thread.                                             *)

Edits ==
  /\ admin = Idle
  /\ edits < MaxEdits
  /\ edits' = edits + 1

\* set_limit, which raises KeyError when the name has no rules, or the update of
\* the rule that a RateLimiter dependency has of its own.
SetLimit(value) ==
  /\ Edits
  /\ \E rule \in LimitRules :
       \/ rule \in Get /\ admin' = Updating("update", rule, current, {rule}, value)
       \/ admin' = Updating("update", rule, 0, {rule}, value)
  /\ UNCHANGED <<rules, registry, thread, eval, registryHistory>>

\* The resolution under way, when the rule is edited.
Noticed(rule) ==
  IF eval # Idle /\ eval.rule = rule THEN [eval EXCEPT !.edited = TRUE] ELSE eval

\* (Mutant of Assigned: update clears the cache first.)
AssignedCacheFirst(step, rule, value) ==
  IF step = 1
  THEN /\ cache' = [cache EXCEPT ![rule] = NoCache]
       /\ late' = [late EXCEPT ![rule] = FALSE]
       /\ UNCHANGED limit
  ELSE /\ limit' = [limit EXCEPT ![rule] = value]
       /\ UNCHANGED <<cache, late>>

\* update: the limit first, then the cache.
Assigned(step, rule, value) ==
  IF step = 1
  THEN /\ limit' = [limit EXCEPT ![rule] = value]
       /\ UNCHANGED <<cache, late>>
  ELSE /\ cache' = [cache EXCEPT ![rule] = NoCache]
       /\ late' = [late EXCEPT ![rule] = FALSE]
       /\ UNCHANGED limit

Update ==
  /\ admin.pc = "update"
  /\ Assigned(1, admin.rule, admin.value)
  /\ eval' = Noticed(admin.rule)
  /\ admin' = [admin EXCEPT !.pc = "invalidate"]
  /\ UNCHANGED <<enabled, registry, thread, edits, removed, dropped, crossed>>

\* What the loop has still to do.
Left == RulesOf(admin.list) \ admin.done

\* The second assignment, and on to the next rule of the list.
Invalidate ==
  /\ admin.pc = "invalidate"
  /\ Assigned(2, admin.rule, admin.value)
  /\ eval' = Noticed(admin.rule)
  /\ \/ Left = {} /\ admin' = Idle
     \/ \E rule \in Left :
          admin' = Updating("update", rule, admin.list, admin.done \cup {rule}, admin.value)
  /\ UNCHANGED <<enabled, registry, thread, edits, removed, dropped, crossed>>

OnlyAdmin == UNCHANGED <<rules, registry, thread, eval, registryHistory>>

\* enable and disable,
Switch(on) ==
  /\ Edits
  /\ admin' = Switching("switch", on, current, {})
  /\ OnlyAdmin

\* and remove, which disables the rules that are listed:
Remove ==
  /\ Edits
  /\ admin' = Switching("remove", FALSE, current, {})
  /\ OnlyAdmin

\* one by one, until there is no more,
SwitchRule ==
  /\ admin.pc \in {"switch", "remove"}
  /\ \E rule \in Left :
       /\ enabled' = [enabled EXCEPT ![rule] = admin.on]
       /\ admin' = [admin EXCEPT !.done = @ \cup {rule}]
  /\ UNCHANGED <<limit, cache, registry, thread, eval, edits, registryHistory>>

LoopEnds ==
  /\ admin.pc \in {"switch", "remove"}
  /\ Left = {}
  /\ admin' = IF admin.pc = "remove" THEN [pc |-> "pop"] ELSE Idle
  /\ UNCHANGED edits
  /\ OnlyAdmin

\* and a removal pops the list.
Pop ==
  /\ admin.pc = "pop"
  /\ current' = 0
  /\ removed' = [rule \in LimitRules |-> removed[rule] \/ rule \in seen]
  /\ dropped' = dropped \cup Get
  /\ admin' = Idle
  /\ UNCHANGED <<rules, listed, seen, thread, eval, edits, late, crossed>>

-----------------------------------------------------------------------------
(* resolve_items, in the event loop.                                       *)

Evaluates(pc) == eval.pc = pc

\* The resolution goes on, with what was parsed, if anything.
EvalTo(pc, value, items) ==
  eval' = Resolving(pc, eval.rule, value, items, eval.edited)

OnlyEval == UNCHANGED <<rules, registry, thread, admin, edits, registryHistory>>

\* An enabled rule is applied: callable(self.limit)?
Resolve(rule) ==
  /\ eval = Idle
  /\ enabled[rule]
  /\ eval' = Resolving(IF limit[rule].callable THEN "call" ELSE "cached", rule,
                       limit[rule], <<>>, admin.pc = "invalidate" /\ admin.rule = rule)
  /\ OnlyEval

\* parse_many(self.limit(request)): what is no callable any more raises.
CallLimit ==
  /\ Evaluates("call")
  /\ LET now == limit[eval.rule]
     IN  EvalTo("done", now, IF now.callable THEN ParseMany(now.parts) ELSE <<>>)
  /\ OnlyEval

\* if self._cache is None.
LookInCache ==
  /\ Evaluates("cached")
  /\ EvalTo(IF cache[eval.rule] = NoCache THEN "parse" ELSE "return", eval.value, <<>>)
  /\ OnlyEval

\* parse_many(self.limit), which may raise: so does a callable.
Parse ==
  /\ Evaluates("parse")
  /\ LET now   == limit[eval.rule]
         items == IF now.callable THEN <<>> ELSE ParseMany(now.parts)
     IN  EvalTo(IF items = <<>> THEN "done" ELSE "store", now, items)
  /\ OnlyEval

\* self._cache = ...
Store ==
  /\ Evaluates("store")
  /\ cache' = [cache EXCEPT ![eval.rule] = eval.items]
  /\ late' = [late EXCEPT ![eval.rule] = eval.value # limit[eval.rule]]
  /\ EvalTo("return", eval.value, <<>>)
  /\ UNCHANGED <<limit, enabled, registry, thread, admin, edits, removed, dropped,
                 crossed>>

\* return self._cache, which may be None by now.
Return ==
  /\ Evaluates("return")
  /\ EvalTo("done", eval.value, cache[eval.rule])
  /\ OnlyEval

\* The items are used, or the request fails.
Done ==
  /\ Evaluates("done")
  /\ eval' = Idle
  /\ OnlyEval

-----------------------------------------------------------------------------

RegistryNext ==
  \/ \E t \in Threads :
       \/ \E rule \in LimitRules : Register(t, rule)
       \/ See(t) \/ Look(t) \/ SetDefault(t) \/ AppendRule(t)
  \/ \E value \in Limits : SetLimit(value)
  \/ Update \/ Invalidate
  \/ \E on \in BOOLEAN : Switch(on)
  \/ Remove \/ SwitchRule \/ LoopEnds \/ Pop
  \/ \E rule \in LimitRules : Resolve(rule)
  \/ CallLimit \/ LookInCache \/ Parse \/ Store \/ Return \/ Done

RegistrySpec == RegistryInit /\ [][RegistryNext]_registryVars

-----------------------------------------------------------------------------
(* Properties.                                                             *)

\* A rule resolves to the items of its limit, or fails because that has none,
\* unless it is edited in the course of it, or was edited after an evaluation
\* had parsed the old limit and before it stored the items: they stay.
AnswersTheLimit ==
  Evaluates("done") /\ ~eval.edited /\ ~late[eval.rule] =>
    eval.items = ParseMany(limit[eval.rule].parts)

\* A rule that is registered can be managed by its name until the name is
\* removed, and is then disabled and in no list.  Except for a rule that was
\* appended in the course of a removal, which goes on being enforced while no
\* name leads to it, and for one that is listed again.
ManagedUntilRemoved ==
  \A rule \in seen :
    (\A t \in Threads : thread[t] = Idle \/ thread[t].rule # rule) =>
      \/ rule \in Get \ dropped
      \/ removed[rule] /\ rule \notin Get /\ ~enabled[rule]
      \/ removed[rule] /\ crossed[rule]

\* register_rule: "Rules removed via remove_limit are not re-registered".
RemovedStaysRemoved == dropped \cap Get = {}
=============================================================================
