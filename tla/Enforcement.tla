---------------------------- MODULE Enforcement -----------------------------
(***************************************************************************)
(* limiter.py's _apply and escalation.py: what a request goes through.     *)
(*                                                                         *)
(* A request is judged by the limiter's rules in turn, and by the items of *)
(* a rule in turn.  A client that breaches a limit Threshold times is      *)
(* banned and, while banned, judged by the penalty limit instead, or       *)
(* blocked outright when there is none.  Every call of the storage is an   *)
(* await: other requests of the same client run, time passes, and the      *)
(* request may come to an end, between any two of them.                    *)
(*                                                                         *)
(* Clients share nothing, so one client is modelled: its identity in a     *)
(* rule is the rule's scope, which several rules may name.  The strategy   *)
(* is the fixed window, the default, whose hit counts and decides in one   *)
(* call of the storage (module FixedWindow has the second call, which      *)
(* only fills the headers).  The storage's calls are atomic and it evicts  *)
(* nothing.  Its three families of keys (fw:, escv:, escb:) are three      *)
(* dictionaries.  Time is in whole seconds.                                *)
(***************************************************************************)
EXTENDS Dicts, Counters, FiniteSets, Sequences

CONSTANTS Requests,      \* the tasks that run the client's requests
          Rules,         \* sequence of [scope, items], items a sequence of [amount, expiry]
          Threshold, TrackSeconds, BanSeconds,  \* the EscalationPolicy
          Penalties,     \* the penalty items it may have, NoPenalty among them or not
          NoPenalty,     \* penalty_limit=None
          NoScope,
          Costs,         \* the costs of a request
          Failures,      \* whether requests may end at any await
          ClearTimes,    \* when clear() may be called, for each penalty
          MaxClock, MaxCount, MaxBreaches  \* bounds of the model

Item == [amount : Nat, expiry : Nat \ {0}]
Scopes == {Rules[i].scope : i \in DOMAIN Rules}
ItemsOf(rule) == {rule.items[j] : j \in DOMAIN rule.items}
RuleItems == UNION {ItemsOf(Rules[i]) : i \in DOMAIN Rules}
Items == RuleItems \cup (Penalties \ {NoPenalty})

ASSUME EnforcementAssumption ==
  /\ Rules \in Seq([scope : Scopes, items : Seq(Item) \ {<<>>}]) \ {<<>>}
  /\ Threshold \in Nat \ {0} /\ TrackSeconds \in Nat \ {0} /\ BanSeconds \in Nat \ {0}
  /\ Penalties \subseteq Item \cup {NoPenalty} /\ NoPenalty \notin Item
  /\ NoScope \notin Scopes
  /\ Costs \subseteq Nat \ {0}
  /\ Failures \in BOOLEAN /\ ClearTimes \in [Penalties -> SUBSET Nat]
  /\ MaxClock \in Nat /\ MaxCount \in Nat /\ MaxBreaches \in Nat

VARIABLES clock,      \* now()
          penalty,    \* the policy's penalty_item, fixed at start
          counters,   \* fw: counters, of limits and of penalties
          violations, \* escv: the breach counter of each scope
          bans,       \* escb: the ban of each scope
          pc,         \* the next storage call of each task
          at,         \* the rule and the item the request is at, and its cost there
          counted,    \* the units of cost the request was admitted with so far
          clearing,   \* the scope that clear() is half through, or NoScope
          served,     \* history: the units of the requests that were let through
          breaches,   \* history: the breaches registered since the last clear()
          missed,     \* history: the scopes that clear() left banned, or about to be
          due         \* history: how long the last ban begun must last

storage == <<counters, violations, bans>>
history == <<served, breaches, missed, due>>
vars == <<clock, penalty, storage, pc, at, counted, clearing, history>>

Steps == {"rule", "item", "penalty", "breach", "unban", "ban", "block"}

\* The counters: fw:<item>:<scope> and fw:<item>:pen:<scope>.
Counter == [kind : {"limit", "penalty"}, scope : Scopes, item : Items]
Unit == [by : Requests, counter : Counter, window : Nat, number : Nat]
Breach == [scope : Scopes, at : Nat, window : Nat, number : Nat]
CounterEntry == [value : Nat, reset_at : Nat]

TypeOK ==
  /\ clock \in 0..MaxClock
  /\ penalty \in Penalties
  /\ IsDict(counters, Counter, CounterEntry)
  /\ IsDict(violations, Scopes, CounterEntry)
  /\ IsDict(bans, Scopes, CounterEntry)
  /\ pc \in [Requests -> Steps]
  /\ at \in [Requests -> [rule : DOMAIN Rules, item : Nat \ {0}, cost : Nat]]
  /\ \A r \in Requests : at[r].item \in DOMAIN Rules[at[r].rule].items
  /\ counted \in [Requests -> SUBSET Unit]
  /\ clearing \in Scopes \cup {NoScope}
  /\ served \subseteq Unit
  /\ breaches \subseteq Breach
  /\ missed \subseteq Scopes
  /\ due \in [Scopes -> Nat]

Init ==
  /\ clock = 0
  /\ penalty \in Penalties
  /\ counters = EmptyDict
  /\ violations = EmptyDict
  /\ bans = EmptyDict
  /\ pc = [r \in Requests |-> "rule"]
  /\ at = [r \in Requests |-> [rule |-> 1, item |-> 1, cost |-> 0]]
  /\ counted = [r \in Requests |-> {}]
  /\ clearing = NoScope
  /\ served = {}
  /\ breaches = {}
  /\ missed = {}
  /\ due = [s \in Scopes |-> 0]

-----------------------------------------------------------------------------
(* The request.                                                            *)

Rule(r) == Rules[at[r].rule]
Scope(r) == Rule(r).scope
CurrentItem(r) == Rule(r).items[at[r].item]

GoTo(r, step) == pc' = [pc EXCEPT ![r] = step]

Start == [rule |-> 1, item |-> 1, cost |-> 0]

\* The request is over, and its task free for another.
End(r) ==
  /\ GoTo(r, "rule")
  /\ at' = [at EXCEPT ![r] = Start]
  /\ counted' = [counted EXCEPT ![r] = {}]

\* The end of a rule: the next one or, after the last, the endpoint.
\* units is what the request has been admitted with.
NextRule(r, units) ==
  \/ /\ at[r].rule < Len(Rules)
     /\ GoTo(r, "rule")
     /\ at' = [at EXCEPT ![r] = [Start EXCEPT !.rule = at[r].rule + 1]]
     /\ counted' = [counted EXCEPT ![r] = units]
     /\ UNCHANGED served
  \/ /\ at[r].rule = Len(Rules)
     /\ End(r)
     /\ served' = served \cup units

\* A rule that is disabled, not for this method, or that the request is
\* exempt from.
Skip(r) ==
  /\ pc[r] = "rule"
  /\ NextRule(r, counted[r])
  /\ UNCHANGED <<clock, penalty, storage, clearing, breaches, missed, due>>

\* is_banned
Banned(scope) == Value(bans, scope, clock) > 0

\* A rule that applies: its cost is resolved and the ban is looked up.  With
\* a ban the penalty takes the place of the rule's items or, without a
\* penalty limit, the request is blocked.
Check(r, cost) ==
  /\ pc[r] = "rule"
  /\ at' = [at EXCEPT ![r].cost = cost]
  /\ GoTo(r, IF ~Banned(Scope(r)) THEN "item"
             ELSE IF penalty = NoPenalty THEN "block" ELSE "penalty")
  /\ UNCHANGED <<clock, penalty, storage, counted, clearing, history>>

\* (Mutant of Within: the hit itself is not counted.)
WithinBeforeTheHit(value, item) == value <= item.amount + 1

\* value <= item.amount
Within(value, item) == value <= item.amount

\* The units of the counter that a hit of request r counted.
Units(r, counter, entry) ==
  {[by |-> r, counter |-> counter, window |-> entry.reset_at, number |-> n] :
     n \in (entry.value - at[r].cost + 1)..entry.value}

LimitCounter(r) == [kind |-> "limit", scope |-> Scope(r), item |-> CurrentItem(r)]
PenaltyCounter(r) == [kind |-> "penalty", scope |-> Scope(r), item |-> penalty]

\* FixedWindowStrategy.hit
Hit(counter, cost) == Incremented(counters, counter, clock, counter.item.expiry, cost)

\* (Mutant of MoreItems: one step past the last item.)
MoreOrLastItem(r) == at[r].item <= Len(Rule(r).items)

MoreItems(r) == at[r].item < Len(Rule(r).items)

\* strategy.hit for one item of the rule.
HitItem(r) ==
  LET entry == Hit(LimitCounter(r), at[r].cost)
      units == counted[r] \cup Units(r, LimitCounter(r), entry)
  IN  /\ pc[r] = "item"
      /\ entry.value <= MaxCount
      /\ counters' = With(counters, LimitCounter(r), entry)
      /\ \/ /\ ~Within(entry.value, CurrentItem(r))
            /\ GoTo(r, "breach")
            /\ UNCHANGED <<at, counted, served>>
         \/ /\ Within(entry.value, CurrentItem(r))
            /\ MoreItems(r)
            /\ at' = [at EXCEPT ![r].item = @ + 1]
            /\ counted' = [counted EXCEPT ![r] = units]
            /\ UNCHANGED <<pc, served>>
         \/ /\ Within(entry.value, CurrentItem(r))
            /\ ~MoreItems(r)
            /\ NextRule(r, units)
      /\ UNCHANGED <<clock, penalty, violations, bans, clearing, breaches, missed, due>>

\* _enforce_ban with a penalty limit: its breaches are not registered.
HitPenalty(r) ==
  LET entry == Hit(PenaltyCounter(r), at[r].cost)
      units == counted[r] \cup Units(r, PenaltyCounter(r), entry)
  IN  /\ pc[r] = "penalty"
      /\ entry.value <= MaxCount
      /\ counters' = With(counters, PenaltyCounter(r), entry)
      /\ \/ /\ ~Within(entry.value, penalty)
            /\ GoTo(r, "block")
            /\ UNCHANGED <<at, counted, served>>
         \/ /\ Within(entry.value, penalty)
            /\ NextRule(r, units)
      /\ UNCHANGED <<clock, penalty, violations, bans, clearing, breaches, missed, due>>

-----------------------------------------------------------------------------
(* Escalation.                                                             *)

ReachesThreshold(count) == count >= Threshold

\* register_breach, up to and with the first incr.
RegisterBreach(r) ==
  LET entry == Incremented(violations, Scope(r), clock, TrackSeconds, 1)
  IN  /\ pc[r] = "breach"
      /\ entry.value <= MaxBreaches
      /\ violations' = With(violations, Scope(r), entry)
      /\ breaches' = breaches \cup {[scope |-> Scope(r), at |-> clock,
                                     window |-> entry.reset_at, number |-> entry.value]}
      /\ missed' = IF ReachesThreshold(entry.value) THEN missed \ {Scope(r)} ELSE missed
      /\ GoTo(r, IF ReachesThreshold(entry.value) THEN "unban" ELSE "block")
      /\ UNCHANGED <<clock, penalty, counters, bans, at, counted, clearing, served,
                     due>>

\* (Mutant of WithoutBan: the ban is not dropped, so it is not renewed.)
WithBan(scope) == bans

\* reset of the ban's key.
WithoutBan(scope) == Without(bans, {scope})

\* The ban under way is dropped, so that the next call starts a whole one.
Unban(r) ==
  /\ pc[r] = "unban"
  /\ bans' = WithoutBan(Scope(r))
  /\ due' = [due EXCEPT ![Scope(r)] = clock + BanSeconds]
  /\ GoTo(r, "ban")
  /\ UNCHANGED <<clock, penalty, counters, violations, at, counted, clearing, served,
                 breaches, missed>>

BanEntry(scope) == Incremented(bans, scope, clock, BanSeconds, 1)

\* The second incr; register_breach returns True.
Ban(r) ==
  /\ pc[r] = "ban"
  /\ BanEntry(Scope(r)).value <= MaxBreaches
  /\ bans' = With(bans, Scope(r), BanEntry(Scope(r)))
  /\ GoTo(r, "block")
  /\ UNCHANGED <<clock, penalty, counters, violations, at, counted, clearing, served,
                 breaches, missed, due>>

\* _raise_block: the callback is awaited and the request answered with 429
\* or, when the callback fails, with 500.
Block(r) ==
  /\ pc[r] = "block"
  /\ End(r)
  /\ UNCHANGED <<clock, penalty, storage, clearing, history>>

\* A storage error, a missing identity, a cancelled task or a worker that
\* dies: the request ends at an await, whatever it counted stays counted.
Fail(r) ==
  /\ Failures
  /\ pc[r] # "block" /\ at[r] # Start
  /\ End(r)
  /\ due' = IF pc[r] = "ban" THEN [due EXCEPT ![Scope(r)] = 0] ELSE due
  /\ UNCHANGED <<clock, penalty, storage, clearing, served, breaches, missed>>

\* clear: the ban is lifted, then the breaches are forgotten.
ClearBan(s) ==
  /\ clock \in ClearTimes[penalty]
  /\ clearing = NoScope
  /\ bans' = WithoutBan(s)
  /\ due' = [due EXCEPT ![s] = 0]
  /\ clearing' = s
  /\ UNCHANGED <<clock, penalty, counters, violations, pc, at, counted, served, breaches,
                 missed>>

\* The scope is banned, or about to be.
AtStake(s) ==
  s \in DOMAIN bans \/ \E r \in Requests : pc[r] \in {"unban", "ban"} /\ Scope(r) = s

\* (Mutant of WithoutBreaches: the breaches are not forgotten.)
WithBreaches(scope) == violations

\* reset of the breach counter's key.
WithoutBreaches(scope) == Without(violations, {scope})

ClearViolations ==
  /\ clearing # NoScope
  /\ violations' = WithoutBreaches(clearing)
  /\ breaches' = {b \in breaches : b.scope # clearing}
  /\ missed' = {s \in missed : s # clearing} \cup {s \in {clearing} : AtStake(s)}
  /\ clearing' = NoScope
  /\ UNCHANGED <<clock, penalty, counters, bans, pc, at, counted, served, due>>

Tick ==
  /\ clock < MaxClock
  /\ clock' = clock + 1
  /\ UNCHANGED <<penalty, storage, pc, at, counted, clearing, history>>

Next ==
  \/ \E r \in Requests :
       \/ Skip(r) \/ (\E cost \in Costs : Check(r, cost))
       \/ HitItem(r) \/ HitPenalty(r)
       \/ RegisterBreach(r) \/ Unban(r) \/ Ban(r) \/ Block(r)
       \/ Fail(r)
  \/ (\E s \in Scopes : ClearBan(s)) \/ ClearViolations
  \/ Tick

Spec == Init /\ [][Next]_vars

-----------------------------------------------------------------------------
(* Properties.                                                             *)

\* What is let through respects every limit: no window of a counter, of a
\* limit (even one that several rules share) or of a penalty, accounts for
\* more units of served requests than its amount.
ServedWithinEveryLimit ==
  \A u \in served :
    Cardinality({v \in served : v.counter = u.counter /\ v.window = u.window})
      <= u.counter.item.amount

\* The breaches of a scope in the TrackSeconds that start with breach b.
Following(b) ==
  {c \in breaches : c.scope = b.scope /\ b.at <= c.at /\ c.at < b.at + TrackSeconds}

Deserved(s) == \E b \in breaches : b.scope = s /\ Cardinality(Following(b)) >= Threshold

\* Nobody is banned, or about to be, without as many breaches as the policy
\* asks for in a time as short as it asks for, however late the ban comes, and
\* all of them registered since the last clear(): what that forgot bans nobody
\* again.  Except for a ban that was there or under way when clear() ended: it
\* began, or its last breach was registered, between clear()'s two calls, or
\* its request was under way before them.
BannedForBreaches ==
  \A s \in Scopes : AtStake(s) => Deserved(s) \/ s \in missed

\* A breach that reaches the threshold while a ban is under way prolongs it:
\* from the drop of the old ban on, and unless the ban is lifted, the scope
\* is banned for BanSeconds except while a request is between the two calls.
BanningIsUnderWay(s) == \E r \in Requests : pc[r] = "ban" /\ Scope(r) = s

BanLasts ==
  \A s \in Scopes :
    due[s] > clock /\ ~BanningIsUnderWay(s) => Live(bans, s, clock) /\ bans[s].reset_at >= due[s]
=============================================================================
