--------------------------- MODULE LimiterProofs ----------------------------
(***************************************************************************)
(* Theorems about what limiter.py does: about modules Enforcement, Service *)
(* and Registry.                                                           *)
(*                                                                         *)
(* First the requests of a client and its bans, for any rules, any policy  *)
(* and any number of overlapping requests.  A unit is a hit that was       *)
(* admitted, with the window and the value its counter then had: units of  *)
(* one window differ in their number and none is above the limit.  A ban   *)
(* that is due is held, or somebody is on the way to writing it; and for   *)
(* every ban there are breaches numbered up to the threshold.              *)
(*                                                                         *)
(* Then Service.  Setting up the storage and running a request's checks    *)
(* touch different variables, so the invariant has a part on who connects  *)
(* and a part on what the checks have noted for their request, and each is *)
(* proved without the other.                                               *)
(*                                                                         *)
(* Then Registry.  A filled cache holds the items of its rule's limit,     *)
(* except between the two assignments of update() and once a late store    *)
(* has overtaken them; a resolution that met no edit works on the limit of *)
(* its rule; and a thread that holds a list other than the one in the      *)
(* dictionary has had its rule removed by name.                            *)
(*                                                                         *)
(* The three modules share no state and no name: each has a specification  *)
(* and an invariant of its own.                                            *)
(***************************************************************************)
EXTENDS Enforcement, Service, Registry, StoreLemmas

-----------------------------------------------------------------------------
(* Types.                                                                  *)

RuleType == [scope : Scopes, items : Seq(Item) \ {<<>>}]
PlaceType == [rule : DOMAIN Rules, item : Nat \ {0}, cost : Nat]

\* The policy, the costs and the bound of the clock.
LEMMA ConstantTypes ==
  /\ Threshold \in Nat /\ Threshold > 0
  /\ TrackSeconds \in Nat /\ TrackSeconds > 0
  /\ BanSeconds \in Nat /\ BanSeconds > 0
  /\ Costs \subseteq Nat /\ MaxClock \in Nat
BY EnforcementAssumption

\* The rules as Enforcement assumes them: a sequence of rules, each with
\* items.
LEMMA RulesType ==
  /\ Len(Rules) \in Nat /\ DOMAIN Rules = 1..Len(Rules) /\ 1 \in DOMAIN Rules
  /\ \A i \in DOMAIN Rules :
       /\ Rules[i].scope \in Scopes
       /\ Rules[i].items \in Seq(Item) /\ 1 \in DOMAIN Rules[i].items
       /\ DOMAIN Rules[i].items = 1..Len(Rules[i].items) /\ Len(Rules[i].items) \in Nat
       /\ \A j \in DOMAIN Rules[i].items :
            Rules[i].items[j] \in Item /\ Rules[i].items[j] \in Items
<1>1. Rules \in Seq(RuleType) /\ Rules # <<>>
  BY EnforcementAssumption DEF RuleType
<1>2. Len(Rules) \in Nat /\ DOMAIN Rules = 1..Len(Rules) /\ 1 \in DOMAIN Rules
  BY <1>1
<1>3. ASSUME NEW i \in DOMAIN Rules
      PROVE  /\ Rules[i].scope \in Scopes
             /\ Rules[i].items \in Seq(Item) /\ Rules[i].items # <<>>
  <2>1. Rules[i] \in RuleType
    BY <1>1
  <2> QED  BY <2>1 DEF RuleType
<1>4. ASSUME NEW i \in DOMAIN Rules
      PROVE  /\ 1 \in DOMAIN Rules[i].items
             /\ DOMAIN Rules[i].items = 1..Len(Rules[i].items)
             /\ Len(Rules[i].items) \in Nat
             /\ \A j \in DOMAIN Rules[i].items : Rules[i].items[j] \in Item
  <2> DEFINE items == Rules[i].items
  <2>1. items \in Seq(Item) /\ items # <<>>
    BY <1>3
  <2> HIDE DEF items
  <2>2. /\ 1 \in DOMAIN items /\ DOMAIN items = 1..Len(items) /\ Len(items) \in Nat
        /\ \A j \in DOMAIN items : items[j] \in Item
    BY <2>1
  <2> QED  BY <2>2 DEF items
<1>5. ASSUME NEW i \in DOMAIN Rules, NEW j \in DOMAIN Rules[i].items
      PROVE  Rules[i].items[j] \in Items
  <2>1. Rules[i].items[j] \in ItemsOf(Rules[i])
    BY DEF ItemsOf
  <2> QED  BY <2>1 DEF Items, RuleItems
<1> QED  BY <1>2, <1>3, <1>4, <1>5

\* The items of the rules are items.
LEMMA ItemsType == Items \subseteq Item
<1> SUFFICES ASSUME NEW item \in Items PROVE item \in Item
  OBVIOUS
<1>1. CASE item \in Penalties \ {NoPenalty}
  BY <1>1, EnforcementAssumption
<1>2. CASE item \in RuleItems
  <2>1. PICK i \in DOMAIN Rules : item \in ItemsOf(Rules[i])
    BY <1>2 DEF RuleItems
  <2> QED  BY <2>1, RulesType DEF ItemsOf
<1> QED  BY <1>1, <1>2 DEF Items

\* Counting up a counter of whole numbers.
LEMMA CountedUp ==
  ASSUME NEW d, NEW Keys, IsDict(d, Keys, CounterEntry), NEW key, NEW t \in Nat,
         NEW expiry \in Nat, NEW amount \in Nat
  PROVE  LET entry == Incremented(d, key, t, expiry, amount)
         IN  /\ entry \in CounterEntry
             /\ entry.value \in Nat /\ entry.reset_at \in Nat
             /\ entry.value >= amount
<1>1. CASE Live(d, key, t)
  <2>1. d[key] \in CounterEntry  BY <1>1, ElementType DEF Live
  <2> QED  BY <1>1, <2>1 DEF Incremented, Value, CounterEntry
<1>2. CASE ~Live(d, key, t)
  BY <1>2 DEF Incremented, Value, CounterEntry
<1> QED  BY <1>1, <1>2

\* Where a request is, and what it counts there.
LEMMA PlaceOf ==
  ASSUME TypeOK, NEW r \in Requests
  PROVE  /\ at[r] \in PlaceType
         /\ Scope(r) \in Scopes
         /\ CurrentItem(r) \in Item /\ CurrentItem(r) \in Items
         /\ at[r].item \in DOMAIN Rule(r).items
         /\ DOMAIN Rule(r).items = 1..Len(Rule(r).items) /\ Len(Rule(r).items) \in Nat
         /\ LimitCounter(r) \in Counter
<1>1. at[r] \in PlaceType /\ at[r].item \in DOMAIN Rules[at[r].rule].items
  BY DEF TypeOK, PlaceType
<1>2. at[r].rule \in DOMAIN Rules
  BY <1>1 DEF PlaceType
<1>3. /\ Scope(r) \in Scopes
      /\ CurrentItem(r) \in Item /\ CurrentItem(r) \in Items
  BY <1>1, <1>2, RulesType DEF Scope, CurrentItem, Rule
<1>4. LimitCounter(r) \in Counter
  BY <1>3 DEF LimitCounter, Counter
<1> QED  BY <1>1, <1>2, <1>3, <1>4, RulesType DEF Rule

\* The part of TypeOK that is about the requests.
RequestsTyped ==
  /\ pc \in [Requests -> Steps]
  /\ at \in [Requests -> PlaceType]
  /\ \A r \in Requests : at[r].item \in DOMAIN Rules[at[r].rule].items
  /\ counted \in [Requests -> SUBSET Unit]

\* A request may be put at any item of any rule.
LEMMA MovedTo ==
  ASSUME TypeOK, NEW r \in Requests, NEW spot \in PlaceType,
         spot.item \in DOMAIN Rules[spot.rule].items,
         at' = [at EXCEPT ![r] = spot]
  PROVE  /\ at' \in [Requests -> PlaceType]
         /\ \A u \in Requests : at'[u].item \in DOMAIN Rules[at'[u].rule].items
<1>1. at \in [Requests -> PlaceType]
  BY DEF TypeOK, PlaceType
<1>2. at' \in [Requests -> PlaceType]
  BY <1>1
<1>3. ASSUME NEW u \in Requests
      PROVE  at'[u].item \in DOMAIN Rules[at'[u].rule].items
  <2>1. CASE u = r
    BY <1>1, <2>1
  <2>2. CASE u # r
    <3>1. at'[u] = at[u]
      BY <1>1, <2>2
    <3> QED  BY <3>1 DEF TypeOK
  <2> QED  BY <2>1, <2>2
<1> QED  BY <1>2, <1>3

\* A request that ends goes back to the start of the rules.
LEMMA EndType ==
  ASSUME TypeOK, NEW r \in Requests, End(r)
  PROVE  RequestsTyped'
<1>1. Start \in PlaceType /\ Start.item \in DOMAIN Rules[Start.rule].items
  BY RulesType DEF Start, PlaceType
<1>2. /\ at' \in [Requests -> PlaceType]
      /\ \A u \in Requests : at'[u].item \in DOMAIN Rules[at'[u].rule].items
  <2>1. at' = [at EXCEPT ![r] = Start]
    BY DEF End
  <2> QED  BY <1>1, <2>1, MovedTo
<1>3. pc' \in [Requests -> Steps]
  BY DEF End, GoTo, TypeOK, Steps
<1>4. counted' \in [Requests -> SUBSET Unit]
  BY DEF End, TypeOK
<1> QED  BY <1>2, <1>3, <1>4 DEF RequestsTyped

\* Going on to the next rule keeps a request's types.
LEMMA NextRuleType ==
  ASSUME TypeOK, NEW r \in Requests, NEW units \in SUBSET Unit, NextRule(r, units)
  PROVE  RequestsTyped' /\ served' \subseteq Unit
<1>1. CASE /\ at[r].rule < Len(Rules)
           /\ GoTo(r, "rule")
           /\ at' = [at EXCEPT ![r] = [Start EXCEPT !.rule = at[r].rule + 1]]
           /\ counted' = [counted EXCEPT ![r] = units]
           /\ UNCHANGED served
  <2> DEFINE spot == [Start EXCEPT !.rule = at[r].rule + 1]
  <2>1. at[r].rule + 1 \in DOMAIN Rules
    <3>1. at[r].rule \in 1..Len(Rules)
      BY PlaceOf, RulesType DEF PlaceType
    <3> QED  BY <1>1, <3>1, RulesType
  <2>2. spot \in PlaceType /\ spot.item = 1 /\ spot.rule = at[r].rule + 1
    BY <2>1 DEF Start, PlaceType
  <2>3. spot.item \in DOMAIN Rules[spot.rule].items
    BY <2>1, <2>2, RulesType
  <2>4. at' = [at EXCEPT ![r] = spot]
    BY <1>1
  <2> HIDE DEF spot
  <2>5. /\ at' \in [Requests -> PlaceType]
        /\ \A u \in Requests : at'[u].item \in DOMAIN Rules[at'[u].rule].items
    BY <2>2, <2>3, <2>4, MovedTo
  <2>6. pc' \in [Requests -> Steps]
    BY <1>1 DEF GoTo, TypeOK, Steps
  <2>7. counted' \in [Requests -> SUBSET Unit]
    BY <1>1 DEF TypeOK
  <2> QED  BY <1>1, <2>5, <2>6, <2>7 DEF RequestsTyped, TypeOK
<1>2. CASE at[r].rule = Len(Rules) /\ End(r) /\ served' = served \cup units
  BY <1>2, EndType DEF TypeOK
<1> QED  BY <1>1, <1>2 DEF NextRule

\* The units a hit counts are units.
LEMMA UnitsType ==
  ASSUME TypeOK, NEW r \in Requests, NEW counter \in Counter, NEW entry \in CounterEntry,
         entry.value >= at[r].cost
  PROVE  Units(r, counter, entry) \subseteq Unit
<1>1. entry.value \in Nat /\ entry.reset_at \in Nat /\ at[r].cost \in Nat
  BY PlaceOf DEF CounterEntry, PlaceType
<1>2. \A n \in (entry.value - at[r].cost + 1)..entry.value : n \in Nat
  BY <1>1
<1> QED  BY <1>1, <1>2 DEF Units, Unit

\* A hit's entry, for any counter.
LEMMA HitType ==
  ASSUME TypeOK, NEW counter \in Counter, NEW cost \in Nat
  PROVE  /\ Hit(counter, cost) \in CounterEntry
         /\ Hit(counter, cost).value >= cost
         /\ IsDict(With(counters, counter, Hit(counter, cost)), Counter, CounterEntry)
<1>1. counter.item.expiry \in Nat
  <2>1. counter.item \in Items
    BY DEF Counter
  <2> QED  BY <2>1, ItemsType DEF Item
<1>2. IsDict(counters, Counter, CounterEntry) /\ clock \in Nat
  BY ConstantTypes DEF TypeOK
<1>3. Hit(counter, cost) \in CounterEntry /\ Hit(counter, cost).value >= cost
  BY <1>1, <1>2, CountedUp DEF Hit
<1> QED  BY <1>2, <1>3, WithType

\* One hit of an item of a rule.
LEMMA HitItemType ==
  ASSUME TypeOK, NEW r \in Requests, HitItem(r)
  PROVE  TypeOK'
<1> DEFINE entry == Hit(LimitCounter(r), at[r].cost)
           units == counted[r] \cup Units(r, LimitCounter(r), entry)
<1>1. at[r].cost \in Nat /\ LimitCounter(r) \in Counter
  BY PlaceOf DEF PlaceType
<1>2. /\ entry \in CounterEntry
      /\ IsDict(With(counters, LimitCounter(r), entry), Counter, CounterEntry)
  BY <1>1, HitType
<1>3. units \in SUBSET Unit
  <2>1. entry.value >= at[r].cost
    BY <1>1, HitType
  <2>2. Units(r, LimitCounter(r), entry) \subseteq Unit
    BY <1>1, <1>2, <2>1, UnitsType
  <2>3. counted[r] \subseteq Unit
    BY DEF TypeOK
  <2> QED  BY <2>2, <2>3
<1>4. /\ counters' = With(counters, LimitCounter(r), entry)
      /\ \/ /\ GoTo(r, "breach")
            /\ UNCHANGED <<at, counted, served>>
         \/ /\ MoreItems(r)
            /\ at' = [at EXCEPT ![r].item = @ + 1]
            /\ counted' = [counted EXCEPT ![r] = units]
            /\ UNCHANGED <<pc, served>>
         \/ NextRule(r, units)
      /\ UNCHANGED <<clock, penalty, violations, bans, clearing, breaches, missed, due>>
  BY DEF HitItem
<1> HIDE DEF entry, units
<1>5. RequestsTyped' /\ served' \subseteq Unit
  <2>1. CASE GoTo(r, "breach") /\ UNCHANGED <<at, counted, served>>
    <3>1. pc' \in [Requests -> Steps]
      BY <2>1 DEF GoTo, TypeOK, Steps
    <3> QED  BY <2>1, <3>1 DEF RequestsTyped, TypeOK, PlaceType
  <2>2. CASE /\ MoreItems(r)
             /\ at' = [at EXCEPT ![r].item = @ + 1]
             /\ counted' = [counted EXCEPT ![r] = units]
             /\ UNCHANGED <<pc, served>>
    <3> DEFINE spot == [at[r] EXCEPT !.item = at[r].item + 1]
    <3>1. at[r] \in PlaceType /\ at[r].item < Len(Rules[at[r].rule].items)
      BY <2>2, PlaceOf DEF MoreItems, Rule
    <3>2. spot \in PlaceType /\ spot.rule = at[r].rule /\ spot.item = at[r].item + 1
      BY <3>1 DEF PlaceType
    <3>3. spot.item \in DOMAIN Rules[spot.rule].items
      <4>1. at[r].item \in Nat /\ at[r].rule \in DOMAIN Rules
        BY <3>1 DEF PlaceType
      <4> QED  BY <3>1, <3>2, <4>1, RulesType
    <3>4. at' = [at EXCEPT ![r] = spot]
      BY <2>2
    <3> HIDE DEF spot
    <3>5. /\ at' \in [Requests -> PlaceType]
          /\ \A u \in Requests : at'[u].item \in DOMAIN Rules[at'[u].rule].items
      BY <3>2, <3>3, <3>4, MovedTo
    <3>6. counted' \in [Requests -> SUBSET Unit]
      BY <1>3, <2>2 DEF TypeOK
    <3> QED  BY <2>2, <3>5, <3>6 DEF RequestsTyped, TypeOK
  <2>3. CASE NextRule(r, units)
    BY <1>3, <2>3, NextRuleType
  <2> QED  BY <1>4, <2>1, <2>2, <2>3
<1> QED  BY <1>2, <1>4, <1>5 DEF TypeOK, RequestsTyped, PlaceType

\* One hit of a penalty.
LEMMA HitPenaltyType ==
  ASSUME TypeOK, NEW r \in Requests, penalty # NoPenalty, HitPenalty(r)
  PROVE  TypeOK'
<1> DEFINE entry == Hit(PenaltyCounter(r), at[r].cost)
           units == counted[r] \cup Units(r, PenaltyCounter(r), entry)
<1>1. at[r].cost \in Nat /\ PenaltyCounter(r) \in Counter
  <2>1. penalty \in Penalties \ {NoPenalty}
    BY DEF TypeOK
  <2>2. penalty \in Items
    BY <2>1 DEF Items
  <2> QED  BY <2>2, PlaceOf DEF PenaltyCounter, Counter, PlaceType
<1>2. /\ entry \in CounterEntry
      /\ IsDict(With(counters, PenaltyCounter(r), entry), Counter, CounterEntry)
  BY <1>1, HitType
<1>3. units \in SUBSET Unit
  <2>1. entry.value >= at[r].cost
    BY <1>1, HitType
  <2>2. Units(r, PenaltyCounter(r), entry) \subseteq Unit
    BY <1>1, <1>2, <2>1, UnitsType
  <2>3. counted[r] \subseteq Unit
    BY DEF TypeOK
  <2> QED  BY <2>2, <2>3
<1>4. /\ counters' = With(counters, PenaltyCounter(r), entry)
      /\ \/ GoTo(r, "block") /\ UNCHANGED <<at, counted, served>>
         \/ NextRule(r, units)
      /\ UNCHANGED <<clock, penalty, violations, bans, clearing, breaches, missed, due>>
  BY DEF HitPenalty
<1> HIDE DEF entry, units
<1>5. RequestsTyped' /\ served' \subseteq Unit
  <2>1. CASE GoTo(r, "block") /\ UNCHANGED <<at, counted, served>>
    <3>1. pc' \in [Requests -> Steps]
      BY <2>1 DEF GoTo, TypeOK, Steps
    <3> QED  BY <2>1, <3>1 DEF RequestsTyped, TypeOK, PlaceType
  <2>2. CASE NextRule(r, units)
    BY <1>3, <2>2, NextRuleType
  <2> QED  BY <1>4, <2>1, <2>2
<1> QED  BY <1>2, <1>4, <1>5 DEF TypeOK, RequestsTyped, PlaceType

\* A request is only judged by a penalty limit the policy has.
PenaltyIsSet == \A r \in Requests : pc[r] = "penalty" => penalty # NoPenalty

\* The types of the parts of TypeOK that most steps leave alone.
LEMMA OtherSteps ==
  ASSUME TypeOK, NEW r \in Requests, NEW step \in Steps, GoTo(r, step),
         UNCHANGED <<clock, penalty, counters, at, counted, clearing, served>>,
         IsDict(violations', Scopes, CounterEntry), IsDict(bans', Scopes, CounterEntry),
         breaches' \subseteq Breach, missed' \subseteq Scopes, due' \in [Scopes -> Nat]
  PROVE  TypeOK'
<1>1. pc' \in [Requests -> Steps]
  BY DEF GoTo, TypeOK
<1> QED  BY <1>1 DEF TypeOK

\* The look at the bans that begins a request.
LEMMA CheckType ==
  ASSUME TypeOK, NEW r \in Requests, NEW cost \in Costs, Check(r, cost)
  PROVE  TypeOK'
<1> DEFINE spot == [at[r] EXCEPT !.cost = cost]
<1>1. at[r] \in PlaceType /\ cost \in Nat
  BY PlaceOf, ConstantTypes
<1>2. spot \in PlaceType /\ spot.rule = at[r].rule /\ spot.item = at[r].item
  BY <1>1 DEF PlaceType
<1>3. spot.item \in DOMAIN Rules[spot.rule].items
  BY <1>2 DEF TypeOK
<1>4. at' = [at EXCEPT ![r] = spot]
  BY DEF Check
<1> HIDE DEF spot
<1>5. /\ at' \in [Requests -> PlaceType]
      /\ \A u \in Requests : at'[u].item \in DOMAIN Rules[at'[u].rule].items
  BY <1>2, <1>3, <1>4, MovedTo
<1>6. pc' \in [Requests -> Steps]
  BY DEF Check, GoTo, TypeOK, Steps
<1> QED  BY <1>5, <1>6 DEF Check, TypeOK, PlaceType, storage, history

\* One count of a breach.
LEMMA RegisterBreachType ==
  ASSUME TypeOK, NEW r \in Requests, RegisterBreach(r)
  PROVE  TypeOK'
<1> DEFINE entry == Incremented(violations, Scope(r), clock, TrackSeconds, 1)
           breach == [scope |-> Scope(r), at |-> clock,
                      window |-> entry.reset_at, number |-> entry.value]
           step == IF ReachesThreshold(entry.value) THEN "unban" ELSE "block"
<1>1. Scope(r) \in Scopes /\ clock \in Nat
  BY PlaceOf, ConstantTypes DEF TypeOK
<1>2. entry \in CounterEntry /\ entry.value \in Nat /\ entry.reset_at \in Nat
  BY <1>1, ConstantTypes, CountedUp DEF TypeOK
<1>3. /\ violations' = With(violations, Scope(r), entry)
      /\ breaches' = breaches \cup {breach}
      /\ GoTo(r, step)
      /\ UNCHANGED <<clock, penalty, counters, bans, at, counted, clearing, served, due>>
  BY DEF RegisterBreach
<1>4. IsDict(violations', Scopes, CounterEntry)
  BY <1>1, <1>2, <1>3, WithType DEF TypeOK
<1>5. breaches' \subseteq Breach
  BY <1>1, <1>2, <1>3 DEF Breach, TypeOK
<1>6. step \in Steps
  BY DEF Steps
<1>7. missed' \subseteq Scopes
  BY DEF RegisterBreach, TypeOK
<1> HIDE DEF entry, breach, step
<1> QED  BY <1>3, <1>4, <1>5, <1>6, <1>7, OtherSteps DEF TypeOK

\* What setting a ban writes.
LEMMA BanEntryType ==
  ASSUME TypeOK, NEW s \in Scopes
  PROVE  BanEntry(s) \in CounterEntry /\ BanEntry(s).value >= 1
BY ConstantTypes, CountedUp DEF BanEntry, TypeOK

\* Every step keeps the types.
LEMMA TypePreserved ==
  ASSUME TypeOK, PenaltyIsSet, [Next]_vars
  PROVE  TypeOK' /\ PenaltyIsSet'
<1> USE DEF storage, history
<1>1. TypeOK'
  <2>1. ASSUME NEW r \in Requests, Skip(r) PROVE TypeOK'
    <3>1. NextRule(r, counted[r]) /\ counted[r] \in SUBSET Unit
      BY <2>1 DEF Skip, TypeOK
    <3>2. RequestsTyped' /\ served' \subseteq Unit
      BY <3>1, NextRuleType
    <3> QED  BY <2>1, <3>2 DEF Skip, TypeOK, RequestsTyped, PlaceType
  <2>2. ASSUME NEW r \in Requests, NEW cost \in Costs, Check(r, cost) PROVE TypeOK'
    BY <2>2, CheckType
  <2>3. ASSUME NEW r \in Requests, HitItem(r) PROVE TypeOK'
    BY <2>3, HitItemType
  <2>4. ASSUME NEW r \in Requests, HitPenalty(r) PROVE TypeOK'
    BY <2>4, HitPenaltyType DEF PenaltyIsSet, HitPenalty
  <2>5. ASSUME NEW r \in Requests, RegisterBreach(r) PROVE TypeOK'
    BY <2>5, RegisterBreachType
  <2>6. ASSUME NEW r \in Requests, Unban(r) PROVE TypeOK'
    <3>1. IsDict(bans', Scopes, CounterEntry)
      BY <2>6, WithoutType DEF Unban, WithoutBan, TypeOK
    <3>2. clock + BanSeconds \in Nat
      BY ConstantTypes DEF TypeOK
    <3>3. due' \in [Scopes -> Nat]
      BY <2>6, <3>2 DEF Unban, TypeOK
    <3>4. "ban" \in Steps
      BY DEF Steps
    <3> QED  BY <2>6, <3>1, <3>3, <3>4, OtherSteps DEF Unban, TypeOK
  <2>7. ASSUME NEW r \in Requests, Ban(r) PROVE TypeOK'
    <3>1. Scope(r) \in Scopes
      BY PlaceOf
    <3>2. IsDict(bans', Scopes, CounterEntry)
      BY <2>7, <3>1, BanEntryType, WithType DEF Ban, TypeOK
    <3>3. "block" \in Steps
      BY DEF Steps
    <3> QED  BY <2>7, <3>2, <3>3, OtherSteps DEF Ban, TypeOK
  <2>8. ASSUME NEW r \in Requests, Block(r) PROVE TypeOK'
    <3>1. RequestsTyped'
      BY <2>8, EndType DEF Block
    <3> QED  BY <2>8, <3>1 DEF Block, TypeOK, RequestsTyped, PlaceType
  <2>9. ASSUME NEW r \in Requests, Fail(r) PROVE TypeOK'
    <3>1. RequestsTyped'
      BY <2>9, EndType DEF Fail
    <3>2. due' \in [Scopes -> Nat]
      BY <2>9 DEF Fail, TypeOK
    <3> QED  BY <2>9, <3>1, <3>2 DEF Fail, TypeOK, RequestsTyped, PlaceType
  <2>10. ASSUME NEW s \in Scopes, ClearBan(s) PROVE TypeOK'
    <3>1. IsDict(bans', Scopes, CounterEntry)
      BY <2>10, WithoutType DEF ClearBan, WithoutBan, TypeOK
    <3> QED  BY <2>10, <3>1 DEF ClearBan, TypeOK
  <2>11. CASE ClearViolations
    <3>1. IsDict(violations', Scopes, CounterEntry)
      BY <2>11, WithoutType DEF ClearViolations, WithoutBreaches, TypeOK
    <3>2. breaches' \subseteq Breach /\ missed' \subseteq Scopes
      BY <2>11 DEF ClearViolations, TypeOK
    <3> QED  BY <2>11, <3>1, <3>2 DEF ClearViolations, TypeOK
  <2>12. CASE Tick
    <3>1. clock' \in 0..MaxClock
      BY <2>12, ConstantTypes DEF Tick, TypeOK
    <3> QED  BY <2>12, <3>1 DEF Tick, TypeOK
  <2>13. CASE UNCHANGED vars
    BY <2>13 DEF vars, TypeOK
  <2> QED  BY <2>1, <2>2, <2>3, <2>4, <2>5, <2>6, <2>7, <2>8, <2>9, <2>10, <2>11, <2>12, <2>13
           DEF Next
<1>2. PenaltyIsSet'
  <2>1. penalty' = penalty
    BY DEF Next, vars, Skip, Check, HitItem, HitPenalty, RegisterBreach, Unban, Ban, Block,
           Fail, ClearBan, ClearViolations, Tick
  <2>2. ASSUME NEW r \in Requests, pc'[r] = "penalty", pc[r] # "penalty"
        PROVE  penalty # NoPenalty
    <3>1. pc \in [Requests -> Steps]
      BY DEF TypeOK
    <3> QED
      BY <2>2, <3>1
      DEF Next, vars, Skip, Check, HitItem, HitPenalty, RegisterBreach, Unban, Ban, Block,
          Fail, ClearBan, ClearViolations, Tick, NextRule, End, GoTo
  <2> QED  BY <2>1, <2>2 DEF PenaltyIsSet
<1> QED  BY <1>1, <1>2

-----------------------------------------------------------------------------
(* Bans last.                                                              *)

\* A ban in the store was begun after the last drop of a ban, so it lasts at
\* least as long as that drop calls for.
BansCoverTheDue ==
  \A s \in Scopes :
    /\ due[s] <= clock + BanSeconds
    /\ s \in DOMAIN bans => bans[s].reset_at >= due[s]

\* What is due and not about to be put is in the store.
DueBansAreHeld ==
  \A s \in Scopes : due[s] > clock /\ ~BanningIsUnderWay(s) => s \in DOMAIN bans

\* A ban that is held has a reset time.
LEMMA HeldBanType ==
  ASSUME TypeOK, NEW s \in DOMAIN bans
  PROVE  bans[s].reset_at \in Nat
<1>1. bans[s] \in CounterEntry
  BY ElementType DEF TypeOK
<1> QED  BY <1>1 DEF CounterEntry

\* A step that leaves alone the bans and the requests about to put one.
LEMMA BanFrame ==
  ASSUME TypeOK, BansCoverTheDue, DueBansAreHeld,
         UNCHANGED <<clock, bans, due>>,
         \A u \in Requests : pc[u] = "ban" => pc'[u] = "ban" /\ at'[u] = at[u]
  PROVE  BansCoverTheDue' /\ DueBansAreHeld'
<1>1. \A s \in Scopes : BanningIsUnderWay(s) => BanningIsUnderWay(s)'
  BY DEF BanningIsUnderWay, Scope, Rule
<1> QED  BY <1>1 DEF BansCoverTheDue, DueBansAreHeld

\* Other requests are where they were.
LEMMA EndElsewhere ==
  ASSUME TypeOK, NEW r \in Requests, End(r), NEW u \in Requests, u # r
  PROVE  pc'[u] = pc[u] /\ at'[u] = at[u]
BY DEF End, GoTo, TypeOK

\* Going on to the next rule leaves the bans and the other requests alone.
LEMMA NextRuleElsewhere ==
  ASSUME TypeOK, NEW r \in Requests, NEW units, NextRule(r, units),
         NEW u \in Requests, u # r
  PROVE  pc'[u] = pc[u] /\ at'[u] = at[u]
BY EndElsewhere DEF NextRule, GoTo, TypeOK

\* The steps of a request that do not touch the bans.
LEMMA RequestElsewhere ==
  ASSUME TypeOK, NEW r \in Requests, NEW u \in Requests, u # r,
         \/ Skip(r) \/ (\E cost \in Costs : Check(r, cost)) \/ HitItem(r) \/ HitPenalty(r)
         \/ RegisterBreach(r) \/ Unban(r) \/ Ban(r) \/ Block(r) \/ Fail(r)
  PROVE  pc'[u] = pc[u] /\ at'[u] = at[u]
<1>1. CASE Skip(r)
  BY <1>1, NextRuleElsewhere DEF Skip
<1>2. CASE \E cost \in Costs : Check(r, cost)
  BY <1>2 DEF Check, GoTo, TypeOK
<1>3. CASE HitItem(r)
  <2>1. \/ GoTo(r, "breach") /\ UNCHANGED at
        \/ at' = [at EXCEPT ![r].item = @ + 1] /\ UNCHANGED pc
        \/ \E units : NextRule(r, units)
    BY <1>3 DEF HitItem
  <2> QED  BY <2>1, NextRuleElsewhere DEF GoTo, TypeOK
<1>4. CASE HitPenalty(r)
  <2>1. \/ GoTo(r, "block") /\ UNCHANGED at
        \/ \E units : NextRule(r, units)
    BY <1>4 DEF HitPenalty
  <2> QED  BY <2>1, NextRuleElsewhere DEF GoTo, TypeOK
<1>5. CASE RegisterBreach(r) \/ Unban(r) \/ Ban(r)
  BY <1>5 DEF RegisterBreach, Unban, Ban, GoTo, TypeOK
<1>6. CASE Block(r) \/ Fail(r)
  BY <1>6, EndElsewhere DEF Block, Fail
<1> QED  BY <1>1, <1>2, <1>3, <1>4, <1>5, <1>6

\* Every step keeps what the invariant says of bans.
LEMMA BansPreserved ==
  ASSUME TypeOK, BansCoverTheDue, DueBansAreHeld, [Next]_vars
  PROVE  BansCoverTheDue' /\ DueBansAreHeld'
<1> USE DEF storage, history
<1>1. /\ clock \in Nat /\ due \in [Scopes -> Nat]
      /\ pc \in [Requests -> Steps]
      /\ BanSeconds \in Nat /\ BanSeconds > 0
  BY ConstantTypes DEF TypeOK
<1>2. ASSUME NEW r \in Requests,
             \/ Skip(r) \/ (\E cost \in Costs : Check(r, cost)) \/ HitItem(r) \/ HitPenalty(r)
             \/ RegisterBreach(r) \/ Block(r)
      PROVE  BansCoverTheDue' /\ DueBansAreHeld'
  <2>1. UNCHANGED <<clock, bans, due>> /\ pc[r] # "ban"
    BY <1>2 DEF Skip, Check, HitItem, HitPenalty, RegisterBreach, Block
  <2> QED  BY <1>2, <2>1, RequestElsewhere, BanFrame
<1>3. ASSUME NEW r \in Requests, Unban(r)
      PROVE  BansCoverTheDue' /\ DueBansAreHeld'
  <2>1. Scope(r) \in Scopes
    BY PlaceOf
  <2>2. /\ due' = [due EXCEPT ![Scope(r)] = clock + BanSeconds]
        /\ bans' = Without(bans, {Scope(r)})
        /\ clock' = clock
        /\ pc'[r] = "ban" /\ at' = at
    BY <1>1, <1>3 DEF Unban, WithoutBan, GoTo
  <2>3. ASSUME NEW s \in Scopes, s = Scope(r) PROVE BanningIsUnderWay(s)'
    BY <2>2, <2>3 DEF BanningIsUnderWay, Scope, Rule
  <2>4. ASSUME NEW s \in Scopes, s # Scope(r)
        PROVE  /\ due'[s] = due[s]
               /\ s \in DOMAIN bans' <=> s \in DOMAIN bans
               /\ s \in DOMAIN bans => bans'[s] = bans[s]
               /\ BanningIsUnderWay(s) => BanningIsUnderWay(s)'
    <3>1. \A u \in Requests : pc[u] = "ban" => pc'[u] = "ban"
      BY <1>1, <1>3 DEF Unban, GoTo
    <3>2. BanningIsUnderWay(s) => BanningIsUnderWay(s)'
      BY <2>2, <3>1 DEF BanningIsUnderWay, Scope, Rule
    <3> QED  BY <1>1, <2>2, <2>4, <3>2 DEF Without
  <2>5. Scope(r) \notin DOMAIN bans' /\ due'[Scope(r)] = clock + BanSeconds
    BY <1>1, <2>1, <2>2 DEF Without
  <2>6. BansCoverTheDue'
    <3> SUFFICES ASSUME NEW s \in Scopes
                 PROVE  /\ due'[s] <= clock + BanSeconds
                        /\ s \in DOMAIN bans' => bans'[s].reset_at >= due'[s]
      BY <2>2 DEF BansCoverTheDue
    <3>1. CASE s = Scope(r)
      BY <1>1, <2>5, <3>1
    <3>2. CASE s # Scope(r)
      BY <2>4, <3>2 DEF BansCoverTheDue
    <3> QED  BY <3>1, <3>2
  <2>7. DueBansAreHeld'
    <3> SUFFICES ASSUME NEW s \in Scopes, due'[s] > clock, ~BanningIsUnderWay(s)'
                 PROVE  s \in DOMAIN bans'
      BY <2>2 DEF DueBansAreHeld
    <3>1. s # Scope(r)
      BY <2>3
    <3> QED  BY <2>4, <3>1 DEF DueBansAreHeld
  <2> QED  BY <2>6, <2>7
<1>4. ASSUME NEW r \in Requests, Ban(r)
      PROVE  BansCoverTheDue' /\ DueBansAreHeld'
  <2>1. Scope(r) \in Scopes
    BY PlaceOf
  <2>2. bans' = With(bans, Scope(r), BanEntry(Scope(r))) /\ UNCHANGED <<clock, due, at>>
    BY <1>4 DEF Ban
  <2>3. BanEntry(Scope(r)).reset_at >= due[Scope(r)]
    <3>1. CASE Live(bans, Scope(r), clock)
      BY <2>1, <3>1 DEF BanEntry, Incremented, Live, BansCoverTheDue
    <3>2. CASE ~Live(bans, Scope(r), clock)
      BY <2>1, <3>2 DEF BanEntry, Incremented, BansCoverTheDue
    <3> QED  BY <3>1, <3>2
  <2>4. Scope(r) \in DOMAIN bans' /\ bans'[Scope(r)] = BanEntry(Scope(r))
    BY <2>2 DEF With
  <2>5. ASSUME NEW s \in Scopes, s # Scope(r)
        PROVE  /\ s \in DOMAIN bans' <=> s \in DOMAIN bans
               /\ s \in DOMAIN bans => bans'[s] = bans[s]
               /\ BanningIsUnderWay(s) => BanningIsUnderWay(s)'
    <3>1. ASSUME NEW u \in Requests, pc[u] = "ban", Scope(u) = s
          PROVE  pc'[u] = "ban"
      BY <1>1, <1>4, <2>5, <3>1 DEF Ban, GoTo
    <3>2. BanningIsUnderWay(s) => BanningIsUnderWay(s)'
      BY <2>2, <3>1 DEF BanningIsUnderWay, Scope, Rule
    <3> QED  BY <2>2, <2>5, <3>2 DEF With
  <2> QED  BY <2>2, <2>3, <2>4, <2>5 DEF BansCoverTheDue, DueBansAreHeld
<1>5. ASSUME NEW r \in Requests, Fail(r)
      PROVE  BansCoverTheDue' /\ DueBansAreHeld'
  <2>1. CASE pc[r] # "ban"
    <3>1. UNCHANGED <<clock, bans, due>>
      BY <1>5, <2>1 DEF Fail
    <3> QED  BY <1>5, <2>1, <3>1, RequestElsewhere, BanFrame
  <2>2. CASE pc[r] = "ban"
    <3>1. due' = [due EXCEPT ![Scope(r)] = 0] /\ UNCHANGED <<clock, bans>>
      BY <1>5, <2>2 DEF Fail
    <3>2. ASSUME NEW s \in Scopes, s # Scope(r), BanningIsUnderWay(s)
          PROVE  BanningIsUnderWay(s)'
      <4>1. PICK u \in Requests : pc[u] = "ban" /\ Scope(u) = s
        BY <3>2 DEF BanningIsUnderWay
      <4>2. pc'[u] = pc[u] /\ at'[u] = at[u]
        BY <1>5, <3>2, <4>1, RequestElsewhere
      <4> QED  BY <4>1, <4>2 DEF BanningIsUnderWay, Scope, Rule
    <3>3. \A s \in Scopes : due'[s] = IF s = Scope(r) THEN 0 ELSE due[s]
      BY <1>1, <3>1
    <3>4. BansCoverTheDue'
      <4> SUFFICES ASSUME NEW s \in Scopes
                   PROVE  /\ due'[s] <= clock + BanSeconds
                          /\ s \in DOMAIN bans => bans[s].reset_at >= due'[s]
        BY <3>1 DEF BansCoverTheDue
      <4>1. CASE s = Scope(r)
        <5>1. s \in DOMAIN bans => bans[s].reset_at \in Nat
          BY HeldBanType
        <5> QED  BY <1>1, <3>3, <4>1, <5>1
      <4>2. CASE s # Scope(r)
        BY <3>3, <4>2 DEF BansCoverTheDue
      <4> QED  BY <4>1, <4>2
    <3>5. DueBansAreHeld'
      BY <1>1, <3>1, <3>2, <3>3 DEF DueBansAreHeld
    <3> QED  BY <3>4, <3>5
  <2> QED  BY <2>1, <2>2
<1>6. ASSUME NEW c \in Scopes, ClearBan(c)
      PROVE  BansCoverTheDue' /\ DueBansAreHeld'
  <2>1. /\ bans' = Without(bans, {c}) /\ due' = [due EXCEPT ![c] = 0]
        /\ UNCHANGED <<clock, pc, at>>
    BY <1>6 DEF ClearBan, WithoutBan
  <2>2. \A s \in Scopes : due'[s] = IF s = c THEN 0 ELSE due[s]
    BY <1>1, <2>1
  <2>3. /\ DOMAIN bans' = DOMAIN bans \ {c}
        /\ \A s \in DOMAIN bans' : bans'[s] = bans[s]
    BY <2>1 DEF Without
  <2>4. \A s \in Scopes : BanningIsUnderWay(s)' <=> BanningIsUnderWay(s)
    BY <2>1 DEF BanningIsUnderWay, Scope, Rule
  <2>5. BansCoverTheDue'
    <3> SUFFICES ASSUME NEW s \in Scopes
                 PROVE  /\ due'[s] <= clock + BanSeconds
                        /\ s \in DOMAIN bans' => bans'[s].reset_at >= due'[s]
      BY <2>1 DEF BansCoverTheDue
    <3>1. CASE s = c
      BY <1>1, <2>2, <2>3, <3>1
    <3>2. CASE s # c
      BY <2>2, <2>3, <3>2 DEF BansCoverTheDue
    <3> QED  BY <3>1, <3>2
  <2>6. DueBansAreHeld'
    <3> SUFFICES ASSUME NEW s \in Scopes, due'[s] > clock, ~BanningIsUnderWay(s)'
                 PROVE  s \in DOMAIN bans'
      BY <2>1 DEF DueBansAreHeld
    <3>1. s # c
      BY <1>1, <2>2
    <3> QED  BY <2>2, <2>3, <2>4, <3>1 DEF DueBansAreHeld
  <2> QED  BY <2>5, <2>6
<1>7. CASE ClearViolations \/ UNCHANGED vars
  <2>1. UNCHANGED <<clock, bans, due, pc, at>>
    BY <1>7 DEF ClearViolations, vars
  <2> QED  BY <2>1, BanFrame
<1>8. CASE Tick
  <2>1. clock' = clock + 1 /\ UNCHANGED <<bans, due, pc, at>>
    BY <1>8 DEF Tick
  <2>2. \A s \in Scopes : BanningIsUnderWay(s)' <=> BanningIsUnderWay(s)
    BY <2>1 DEF BanningIsUnderWay, Scope, Rule
  <2> QED  BY <1>1, <2>1, <2>2 DEF BansCoverTheDue, DueBansAreHeld
<1> QED  BY <1>2, <1>3, <1>4, <1>5, <1>6, <1>7, <1>8 DEF Next

-----------------------------------------------------------------------------
(* Bans are deserved.                                                      *)

\* Every breach was registered in its window.
BreachesInWindows ==
  /\ IsFiniteSet(breaches)
  /\ \A b \in breaches : b.at < b.window /\ b.window <= b.at + TrackSeconds

\* The breach counter of a scope counts breaches of its window.
CountedBreaches ==
  \A s \in DOMAIN violations :
    /\ violations[s].reset_at <= clock + TrackSeconds
    /\ \A n \in 1..violations[s].value :
         \E b \in breaches :
           b.scope = s /\ b.window = violations[s].reset_at /\ b.number = n

\* A breach adds to what follows the breaches before it.
LEMMA FollowingGrows ==
  ASSUME BreachesInWindows, breaches \subseteq breaches', IsFiniteSet(breaches'),
         NEW s \in Scopes, Deserved(s)
  PROVE  Deserved(s)'
<1>1. PICK b \in breaches : b.scope = s /\ Cardinality(Following(b)) >= Threshold
  BY DEF Deserved
<1>2. Cardinality(Following(b)) <= Cardinality(Following(b)')
  <2>1. Following(b) \subseteq Following(b)' /\ Following(b)' \subseteq breaches'
    BY DEF Following
  <2>2. IsFiniteSet(Following(b)')
    BY <2>1, FS_Subset
  <2> QED  BY <2>1, <2>2, FS_Subset
<1>3. IsFiniteSet(Following(b)) /\ IsFiniteSet(Following(b)')
  <2>1. Following(b) \subseteq breaches /\ Following(b)' \subseteq breaches'
    BY DEF Following
  <2> QED  BY <2>1, FS_Subset DEF BreachesInWindows
<1>4. Cardinality(Following(b)) \in Nat /\ Cardinality(Following(b)') \in Nat
  BY <1>3, FS_CardinalityType
<1>5. Cardinality(Following(b)') >= Threshold
  BY <1>1, <1>2, <1>4, ConstantTypes
<1> QED  BY <1>1, <1>5 DEF Deserved

\* Following, among a given set of breaches.
FollowingIn(B, b) ==
  {c \in B : c.scope = b.scope /\ b.at <= c.at /\ c.at < b.at + TrackSeconds}

\* Breaches of one window, numbered up to the threshold, are enough.
LEMMA WindowIsEnough ==
  ASSUME NEW B \in SUBSET Breach, IsFiniteSet(B),
         \A b \in B : b.at < b.window /\ b.window <= b.at + TrackSeconds,
         NEW s \in Scopes, NEW w \in Nat, NEW count \in Nat, count >= Threshold,
         \A n \in 1..count : \E b \in B : b.scope = s /\ b.window = w /\ b.number = n
  PROVE  \E b \in B : b.scope = s /\ Cardinality(FollowingIn(B, b)) >= Threshold
<1> DEFINE same == {b \in B : b.scope = s /\ b.window = w}
           times == {b.at : b \in same}
           numbers == {b.number : b \in same}
           number == [b \in same |-> b.number]
<1>1. \A b \in B : b.at \in Nat /\ b.window \in Nat
  BY DEF Breach
<1>2. same # {} /\ times # {} /\ times \subseteq Nat
  <2>1. 1 \in 1..count
    BY ConstantTypes
  <2>2. same # {}
    BY <2>1
  <2> QED  BY <1>1, <2>2
<1>3. PICK first \in times : \A t \in times : first <= t
  <2> HIDE DEF times
  <2> QED  BY <1>2, HasLeast
<1>4. PICK b \in same : b.at = first
  OBVIOUS
<1>5. same \subseteq FollowingIn(B, b)
  <2> SUFFICES ASSUME NEW c \in same PROVE c \in FollowingIn(B, b)
    OBVIOUS
  <2>1. b.at <= c.at
    BY <1>3, <1>4
  <2>2. c.at < w /\ w <= b.at + TrackSeconds
    OBVIOUS
  <2>3. c.at < b.at + TrackSeconds
    BY <1>1, <2>2, ConstantTypes
  <2> QED  BY <2>1, <2>3 DEF FollowingIn
<1>6. IsFiniteSet(same) /\ IsFiniteSet(FollowingIn(B, b))
  <2>1. same \subseteq B /\ FollowingIn(B, b) \subseteq B
    BY DEF FollowingIn
  <2> QED  BY <2>1, FS_Subset
<1>7. Cardinality(same) <= Cardinality(FollowingIn(B, b))
  BY <1>5, <1>6, FS_Subset
<1>8. Cardinality(same) >= count
  <2>1. number \in Surjection(same, numbers)
    BY DEF Surjection
  <2>2. IsFiniteSet(numbers) /\ Cardinality(numbers) <= Cardinality(same)
    <3> HIDE DEF number, same, numbers
    <3> QED  BY <1>6, <2>1, FS_Surjection
  <2>3. 1..count \subseteq numbers
    OBVIOUS
  <2>4. Cardinality(1..count) = count
    BY FS_Interval
  <2>5. count <= Cardinality(numbers)
    <3> HIDE DEF numbers
    <3> QED  BY <2>2, <2>3, <2>4, FS_Subset
  <2>6. Cardinality(numbers) \in Nat /\ Cardinality(same) \in Nat
    BY <1>6, <2>2, FS_CardinalityType
  <2> QED  BY <2>2, <2>5, <2>6
<1>9. Cardinality(same) \in Nat /\ Cardinality(FollowingIn(B, b)) \in Nat
  BY <1>6, FS_CardinalityType
<1>10. Cardinality(FollowingIn(B, b)) >= Threshold
  BY <1>7, <1>8, <1>9, ConstantTypes
<1> QED  BY <1>10

\* A step that registers no breach, counts none anew and puts no new scope at
\* stake.
LEMMA BreachFrame ==
  ASSUME BreachesInWindows, CountedBreaches, BannedForBreaches,
         breaches' = breaches, missed' = missed, clock' \in Nat, clock \in Nat, clock <= clock',
         DOMAIN violations' \subseteq DOMAIN violations,
         \A s \in DOMAIN violations' :
           violations'[s] = violations[s] /\ violations[s].reset_at \in Nat,
         \A s \in Scopes : AtStake(s)' => AtStake(s)
  PROVE  BreachesInWindows' /\ CountedBreaches' /\ BannedForBreaches'
<1>1. BreachesInWindows'
  BY DEF BreachesInWindows
<1>2. CountedBreaches'
  BY ConstantTypes DEF CountedBreaches
<1>3. BannedForBreaches'
  BY DEF BannedForBreaches, Deserved, Following
<1> QED  BY <1>1, <1>2, <1>3

\* A count of breaches that is held has a value and a reset time.
LEMMA HeldViolationType ==
  ASSUME TypeOK, NEW s \in DOMAIN violations
  PROVE  s \in Scopes /\ violations[s].reset_at \in Nat /\ violations[s].value \in Nat
<1>1. s \in Scopes /\ violations[s] \in CounterEntry
  BY ElementType DEF TypeOK
<1> QED  BY <1>1 DEF CounterEntry

\* Counting a breach keeps what the invariant says of breaches.
LEMMA RegisterBreachPreserves ==
  ASSUME TypeOK, BreachesInWindows, CountedBreaches, BannedForBreaches,
         NEW r \in Requests, RegisterBreach(r)
  PROVE  BreachesInWindows' /\ CountedBreaches' /\ BannedForBreaches'
<1> DEFINE scope == Scope(r)
           entry == Incremented(violations, scope, clock, TrackSeconds, 1)
           breach == [scope |-> scope, at |-> clock,
                      window |-> entry.reset_at, number |-> entry.value]
<1>1. scope \in Scopes /\ clock \in Nat /\ pc[r] = "breach"
  BY PlaceOf, ConstantTypes DEF TypeOK, RegisterBreach
<1>2. /\ violations' = With(violations, scope, entry)
      /\ breaches' = breaches \cup {breach}
      /\ pc' = [pc EXCEPT ![r] = IF ReachesThreshold(entry.value) THEN "unban" ELSE "block"]
      /\ missed' = IF ReachesThreshold(entry.value) THEN missed \ {scope} ELSE missed
      /\ UNCHANGED <<clock, bans, at>>
  BY DEF RegisterBreach, GoTo
<1>3. entry.value \in Nat /\ entry.reset_at \in Nat
  BY <1>1, ConstantTypes, CountedUp DEF TypeOK
\* The window is still open and ends within TrackSeconds; the breaches before
\* this one in it are counted.
<1>4. /\ entry.reset_at > clock /\ entry.reset_at <= clock + TrackSeconds
      /\ \A n \in 1..(entry.value - 1) :
           \E b \in breaches : b.scope = scope /\ b.window = entry.reset_at /\ b.number = n
  <2>1. CASE Live(violations, scope, clock)
    <3>1. scope \in DOMAIN violations /\ violations[scope].reset_at > clock
      BY <2>1 DEF Live
    <3>2. violations[scope].reset_at \in Nat /\ violations[scope].value \in Nat
      BY <3>1, HeldViolationType
    <3>3. /\ entry.reset_at = violations[scope].reset_at
          /\ entry.value = violations[scope].value + 1
      BY <2>1 DEF Incremented, Value
    <3> HIDE DEF entry
    <3>4. entry.value - 1 = violations[scope].value
      BY <3>2, <3>3
    <3> QED  BY <3>1, <3>3, <3>4 DEF CountedBreaches
  <2>2. CASE ~Live(violations, scope, clock)
    <3>1. entry.reset_at = clock + TrackSeconds /\ entry.value = 1
      BY <2>2 DEF Incremented, Value
    <3> HIDE DEF entry
    <3> QED  BY <1>1, <3>1, ConstantTypes
  <2> QED  BY <2>1, <2>2
<1>5. breach.scope = scope /\ breach.at = clock /\ breach.window = entry.reset_at
      /\ breach.number = entry.value
  OBVIOUS
<1> HIDE DEF entry, breach, scope
<1>6. BreachesInWindows'
  <2>1. IsFiniteSet(breaches')
    BY <1>2, FS_AddElement DEF BreachesInWindows
  <2> QED  BY <1>2, <1>4, <1>5, <2>1 DEF BreachesInWindows
<1>7. \A n \in 1..entry.value :
        \E b \in breaches' : b.scope = scope /\ b.window = entry.reset_at /\ b.number = n
  <2> SUFFICES ASSUME NEW n \in 1..entry.value
               PROVE  \E b \in breaches' : b.scope = scope /\ b.window = entry.reset_at
                                             /\ b.number = n
    OBVIOUS
  <2>1. CASE n = entry.value
    BY <1>2, <1>5, <2>1
  <2>2. CASE n # entry.value
    <3>1. n \in 1..(entry.value - 1)
      BY <1>3, <2>2
    <3> QED  BY <1>2, <1>4, <3>1
  <2> QED  BY <2>1, <2>2
<1>8. CountedBreaches'
  <2> SUFFICES ASSUME NEW s \in DOMAIN violations'
               PROVE  /\ violations'[s].reset_at <= clock + TrackSeconds
                      /\ \A n \in 1..violations'[s].value :
                           \E b \in breaches' :
                             b.scope = s /\ b.window = violations'[s].reset_at /\ b.number = n
    BY <1>2 DEF CountedBreaches
  <2>1. CASE s = scope
    <3>1. violations'[s] = entry
      BY <1>2, <2>1 DEF With
    <3> QED  BY <1>4, <1>7, <2>1, <3>1
  <2>2. CASE s # scope
    <3>1. s \in DOMAIN violations /\ violations'[s] = violations[s]
      BY <1>2, <2>2 DEF With
    <3> QED  BY <1>2, <3>1 DEF CountedBreaches
  <2> QED  BY <2>1, <2>2
<1>9. BannedForBreaches'
  <2>1. ASSUME NEW s \in Scopes, AtStake(s), s # scope \/ ~(entry.value >= Threshold)
        PROVE  Deserved(s)' \/ s \in missed'
    <3>1. CASE Deserved(s)
      <4>1. breaches \subseteq breaches' /\ IsFiniteSet(breaches')
        BY <1>2, <1>6 DEF BreachesInWindows
      <4> QED  BY <3>1, <4>1, FollowingGrows
    <3>2. CASE s \in missed
      BY <1>2, <2>1, <3>2 DEF ReachesThreshold
    <3> QED  BY <2>1, <3>1, <3>2 DEF BannedForBreaches
  <2>2. ASSUME NEW s \in Scopes, s = scope, entry.value >= Threshold
        PROVE  Deserved(s)'
    <3>1. breaches' \in SUBSET Breach
      BY RegisterBreachType DEF TypeOK
    <3>2. /\ IsFiniteSet(breaches')
          /\ \A b \in breaches' : b.at < b.window /\ b.window <= b.at + TrackSeconds
      BY <1>6 DEF BreachesInWindows
    <3>3. \E b \in breaches' :
            b.scope = s /\ Cardinality(FollowingIn(breaches', b)) >= Threshold
      BY <1>3, <1>7, <2>2, <3>1, <3>2, WindowIsEnough
    <3> QED  BY <3>3 DEF Deserved, Following, FollowingIn
  <2>3. ASSUME NEW s \in Scopes, AtStake(s)', ~AtStake(s)
        PROVE  s = scope /\ entry.value >= Threshold
    <3>1. PICK u \in Requests : pc'[u] \in {"unban", "ban"} /\ Rules[at[u].rule].scope = s
      BY <1>2, <2>3 DEF AtStake, Scope, Rule
    <3>2. u = r
      BY <1>2, <2>3, <3>1 DEF AtStake, Scope, Rule, TypeOK
    <3>3. s = scope
      BY <3>1, <3>2 DEF scope, Scope, Rule
    <3>4. ReachesThreshold(entry.value)
      BY <1>2, <3>1, <3>2 DEF TypeOK
    <3> QED  BY <3>3, <3>4 DEF ReachesThreshold
  <2>4. \A s \in Scopes : AtStake(s)' => Deserved(s)' \/ s \in missed'
    BY <2>1, <2>2, <2>3
  <2> QED  BY <2>4 DEF BannedForBreaches
<1> QED  BY <1>6, <1>8, <1>9

\* Forgetting breaches keeps it: what is still at stake then is noted.
LEMMA ClearViolationsPreserves ==
  ASSUME BreachesInWindows, CountedBreaches, BannedForBreaches, ClearViolations
  PROVE  BreachesInWindows' /\ CountedBreaches' /\ BannedForBreaches'
<1>1. /\ violations' = Without(violations, {clearing})
      /\ breaches' = {b \in breaches : b.scope # clearing}
      /\ \A s : s \in missed' <=> IF s = clearing THEN AtStake(s) ELSE s \in missed
      /\ UNCHANGED <<clock, bans, pc, at>>
  BY DEF ClearViolations, WithoutBreaches
<1>2. BreachesInWindows'
  <2>1. breaches' \subseteq breaches
    BY <1>1
  <2> QED  BY <2>1, FS_Subset DEF BreachesInWindows
<1>3. CountedBreaches'
  <2>1. \A s \in DOMAIN violations' :
          s \in DOMAIN violations /\ s # clearing /\ violations'[s] = violations[s]
    BY <1>1 DEF Without
  <2>2. \A b \in breaches : b.scope # clearing => b \in breaches'
    BY <1>1
  <2> SUFFICES ASSUME NEW s \in DOMAIN violations'
               PROVE  /\ violations'[s].reset_at <= clock + TrackSeconds
                      /\ \A n \in 1..violations'[s].value :
                           \E b \in breaches' :
                             b.scope = s /\ b.window = violations'[s].reset_at /\ b.number = n
    BY <1>1 DEF CountedBreaches
  <2>3. /\ violations[s].reset_at <= clock + TrackSeconds
        /\ \A n \in 1..violations[s].value :
             \E b \in breaches :
               b.scope = s /\ b.window = violations[s].reset_at /\ b.number = n
    BY <2>1 DEF CountedBreaches
  <2> QED  BY <2>1, <2>2, <2>3
<1>4. BannedForBreaches'
  <2> SUFFICES ASSUME NEW s \in Scopes, AtStake(s)'
               PROVE  Deserved(s)' \/ s \in missed'
    BY DEF BannedForBreaches
  <2>1. AtStake(s)
    BY <1>1 DEF AtStake, Scope, Rule
  <2>2. CASE s = clearing \/ s \in missed
    BY <1>1, <2>1, <2>2
  <2>3. CASE s # clearing /\ s \notin missed
    <3>1. PICK b \in breaches : b.scope = s /\ Cardinality(Following(b)) >= Threshold
      BY <2>1, <2>3 DEF BannedForBreaches, Deserved
    <3>2. b \in breaches' /\ Following(b)' = Following(b)
      BY <1>1, <2>3, <3>1 DEF Following
    <3> QED  BY <3>1, <3>2 DEF Deserved
  <2> QED  BY <2>2, <2>3
<1> QED  BY <1>2, <1>3, <1>4

\* Where a step leaves the request that takes it, unless it registers a
\* breach: only a request that drops a ban goes on to put one.
LEMMA RequestItself ==
  ASSUME TypeOK, NEW r \in Requests, pc'[r] \in {"unban", "ban"},
         \/ Skip(r) \/ (\E cost \in Costs : Check(r, cost)) \/ HitItem(r) \/ HitPenalty(r)
         \/ Unban(r) \/ Ban(r) \/ Block(r) \/ Fail(r)
  PROVE  pc[r] = "unban" /\ at' = at
<1>1. pc \in [Requests -> Steps]
  BY DEF TypeOK
<1>2. ASSUME End(r) PROVE FALSE
  BY <1>1, <1>2 DEF End, GoTo
<1>3. ASSUME NEW units, NextRule(r, units) PROVE FALSE
  BY <1>1, <1>2, <1>3 DEF NextRule, GoTo
<1>4. CASE Unban(r)
  BY <1>4 DEF Unban
<1>5. CASE Skip(r) \/ Block(r) \/ Fail(r)
  BY <1>2, <1>3, <1>5 DEF Skip, Block, Fail
<1>6. CASE (\E cost \in Costs : Check(r, cost)) \/ Ban(r)
  BY <1>1, <1>6 DEF Check, Ban, GoTo
<1>7. CASE HitItem(r)
  <2>1. \/ GoTo(r, "breach")
        \/ pc[r] = "item" /\ UNCHANGED pc
        \/ \E units : NextRule(r, units)
    BY <1>7 DEF HitItem
  <2> QED  BY <1>1, <1>3, <2>1 DEF GoTo
<1>8. CASE HitPenalty(r)
  <2>1. GoTo(r, "block") \/ \E units : NextRule(r, units)
    BY <1>8 DEF HitPenalty
  <2> QED  BY <1>1, <1>3, <2>1 DEF GoTo
<1> QED  BY <1>4, <1>5, <1>6, <1>7, <1>8

\* Every step keeps what the invariant says of breaches.
LEMMA BreachesPreserved ==
  ASSUME TypeOK, BreachesInWindows, CountedBreaches, BannedForBreaches, [Next]_vars
  PROVE  BreachesInWindows' /\ CountedBreaches' /\ BannedForBreaches'
<1> USE DEF storage, history
<1>1. clock \in Nat /\ pc \in [Requests -> Steps]
  BY ConstantTypes DEF TypeOK
<1>2. \A s \in DOMAIN violations : violations[s].reset_at \in Nat
  BY HeldViolationType
<1>3. ASSUME NEW r \in Requests, RegisterBreach(r)
      PROVE  BreachesInWindows' /\ CountedBreaches' /\ BannedForBreaches'
  BY <1>3, RegisterBreachPreserves
<1>4. ASSUME NEW r \in Requests,
             \/ Skip(r) \/ (\E cost \in Costs : Check(r, cost)) \/ HitItem(r) \/ HitPenalty(r)
             \/ Unban(r) \/ Ban(r) \/ Block(r) \/ Fail(r)
      PROVE  BreachesInWindows' /\ CountedBreaches' /\ BannedForBreaches'
  <2>1. UNCHANGED <<clock, violations, breaches, missed>>
    BY <1>4 DEF Skip, Check, HitItem, HitPenalty, Unban, Ban, Block, Fail
  <2>2. ASSUME NEW s \in DOMAIN bans', s \notin DOMAIN bans
        PROVE  pc[r] = "ban" /\ s = Scope(r)
    <3>1. bans' = Without(bans, {Scope(r)}) \/ Ban(r) \/ UNCHANGED bans
      BY <1>4 DEF Skip, Check, HitItem, HitPenalty, Unban, WithoutBan, Block, Fail
    <3>2. Ban(r)
      BY <2>2, <3>1 DEF Without
    <3> QED  BY <2>2, <3>2 DEF Ban, With
  <2>3. ASSUME NEW s \in Scopes, AtStake(s)' PROVE AtStake(s)
    <3>1. CASE s \in DOMAIN bans'
      BY <2>2, <3>1 DEF AtStake
    <3>2. CASE \E u \in Requests : pc'[u] \in {"unban", "ban"} /\ Rules[at'[u].rule].scope = s
      <4>1. PICK u \in Requests : pc'[u] \in {"unban", "ban"} /\ Rules[at'[u].rule].scope = s
        BY <3>2
      <4>2. pc[u] \in {"unban", "ban"} /\ at'[u] = at[u]
        <5>1. CASE u = r
          BY <1>4, <4>1, <5>1, RequestItself
        <5>2. CASE u # r
          BY <1>4, <4>1, <5>2, RequestElsewhere
        <5> QED  BY <5>1, <5>2
      <4> QED  BY <4>1, <4>2 DEF AtStake, Scope, Rule
    <3> QED  BY <2>3, <3>1, <3>2 DEF AtStake, Scope, Rule
  <2> QED  BY <1>1, <1>2, <2>1, <2>3, BreachFrame
<1>5. CASE (\E s \in Scopes : ClearBan(s)) \/ Tick \/ UNCHANGED vars
  <2>1. UNCHANGED <<breaches, missed, pc, at>> /\ clock' \in {clock, clock + 1}
    BY <1>5 DEF ClearBan, Tick, vars
  <2>2. violations' = violations /\ DOMAIN bans' \subseteq DOMAIN bans
    BY <1>5 DEF ClearBan, Tick, vars, Without, WithoutBan
  <2>3. \A s \in Scopes : AtStake(s)' => AtStake(s)
    BY <2>1, <2>2 DEF AtStake, Scope, Rule
  <2>4. clock' \in Nat /\ clock <= clock'
    BY <1>1, <2>1
  <2> QED  BY <1>1, <1>2, <2>1, <2>2, <2>3, <2>4, BreachFrame
<1>6. CASE ClearViolations
  BY <1>6, ClearViolationsPreserves
<1> QED  BY <1>3, <1>4, <1>5, <1>6 DEF Next

-----------------------------------------------------------------------------
(* Limits hold.                                                            *)

\* The units of the requests let through and of those still being judged.
Admitted == served \cup UNION {counted[r] : r \in Requests}

\* Each is within its limit and not ahead of its counter.
UnitsWithinLimits ==
  \A u \in Admitted :
    /\ u \in Unit
    /\ u.number >= 1 /\ u.number <= u.counter.item.amount
    /\ u.counter \in DOMAIN counters
    /\ u.window <= counters[u.counter].reset_at
    /\ u.window = counters[u.counter].reset_at => u.number <= counters[u.counter].value

\* No two of them account for the same value of a counter in a window.
UnitsDiffer ==
  \A u, v \in Admitted :
    u.counter = v.counter /\ u.window = v.window /\ u.number = v.number => u = v

\* A step that changes no counter and admits nothing keeps the limits.
LEMMA UnitsFrame ==
  ASSUME UnitsWithinLimits, UnitsDiffer, UNCHANGED counters, Admitted' \subseteq Admitted
  PROVE  UnitsWithinLimits' /\ UnitsDiffer'
BY DEF UnitsWithinLimits, UnitsDiffer

\* A counter that is held has a value and a reset time.
LEMMA HeldCounterType ==
  ASSUME TypeOK, NEW counter \in DOMAIN counters
  PROVE  counters[counter].reset_at \in Nat /\ counters[counter].value \in Nat
<1>1. counters[counter] \in CounterEntry
  BY ElementType DEF TypeOK
<1> QED  BY <1>1 DEF CounterEntry

\* A hit counts after everything that was counted in its window.
LEMMA HitIsNext ==
  ASSUME TypeOK, NEW counter \in Counter, NEW cost \in Nat
  PROVE  LET entry == Hit(counter, cost)
         IN  counter \in DOMAIN counters =>
               \/ /\ entry.reset_at = counters[counter].reset_at
                  /\ entry.value = counters[counter].value + cost
               \/ entry.reset_at > counters[counter].reset_at
<1> SUFFICES ASSUME counter \in DOMAIN counters
             PROVE  \/ /\ Hit(counter, cost).reset_at = counters[counter].reset_at
                       /\ Hit(counter, cost).value = counters[counter].value + cost
                    \/ Hit(counter, cost).reset_at > counters[counter].reset_at
  OBVIOUS
<1>1. counters[counter].reset_at \in Nat /\ clock \in Nat
  BY HeldCounterType, ConstantTypes DEF TypeOK
<1>2. counter.item.expiry \in Nat /\ counter.item.expiry > 0
  <2>1. counter.item \in Items
    BY DEF Counter
  <2> QED  BY <2>1, ItemsType DEF Item
<1>3. CASE Live(counters, counter, clock)
  BY <1>3 DEF Hit, Incremented, Value
<1>4. CASE ~Live(counters, counter, clock)
  <2>1. counters[counter].reset_at <= clock
    BY <1>1, <1>4 DEF Live
  <2>2. Hit(counter, cost).reset_at = clock + counter.item.expiry
    BY <1>4 DEF Hit, Incremented
  <2> QED  BY <1>1, <1>2, <2>1, <2>2
<1> QED  BY <1>3, <1>4

\* A hit that writes one counter, and admits only what fits, keeps the
\* limits.
LEMMA HitKeepsLimits ==
  ASSUME TypeOK, UnitsWithinLimits, UnitsDiffer,
         NEW r \in Requests, NEW counter \in Counter,
         counters' = With(counters, counter, Hit(counter, at[r].cost)),
         \/ Admitted' \subseteq Admitted
         \/ /\ Within(Hit(counter, at[r].cost).value, counter.item)
            /\ Admitted' \subseteq Admitted \cup Units(r, counter, Hit(counter, at[r].cost))
  PROVE  UnitsWithinLimits' /\ UnitsDiffer'
<1> DEFINE cost == at[r].cost
           entry == Hit(counter, cost)
           new == Units(r, counter, entry)
<1>1. cost \in Nat
  BY PlaceOf DEF PlaceType
<1>2. /\ entry.value \in Nat /\ entry.reset_at \in Nat /\ entry.value >= cost
      /\ entry \in CounterEntry
  BY <1>1, HitType DEF CounterEntry
<1>3. counter \in DOMAIN counters =>
        \/ /\ entry.reset_at = counters[counter].reset_at
           /\ entry.value = counters[counter].value + cost
        \/ entry.reset_at > counters[counter].reset_at
  BY <1>1, HitIsNext
<1>4. \A u \in new :
        /\ u.by = r /\ u.counter = counter /\ u.window = entry.reset_at
        /\ u.number \in Int /\ u.number > entry.value - cost /\ u.number <= entry.value
        /\ u = [by |-> r, counter |-> counter, window |-> entry.reset_at, number |-> u.number]
  BY <1>1, <1>2 DEF Units
<1>5. new \subseteq Unit
  BY <1>2, UnitsType
<1>6. /\ \/ Admitted' \subseteq Admitted
         \/ Within(entry.value, counter.item) /\ Admitted' \subseteq Admitted \cup new
      /\ counters' = With(counters, counter, entry)
  OBVIOUS
<1>7. counter.item.amount \in Nat
  <2>1. counter.item \in Items
    BY DEF Counter
  <2> QED  BY <2>1, ItemsType DEF Item
<1> HIDE DEF entry, new, cost
<1>8. \A u \in Admitted : u.window \in Nat /\ u.number \in Nat
  BY DEF UnitsWithinLimits, Unit
<1>9. /\ counter \in DOMAIN counters' /\ counters'[counter] = entry
      /\ \A c \in DOMAIN counters :
           c \in DOMAIN counters' /\ (c # counter => counters'[c] = counters[c])
  BY <1>6 DEF With
<1>10. ASSUME NEW u \in Admitted
       PROVE  /\ u \in Unit
              /\ u.number >= 1 /\ u.number <= u.counter.item.amount
              /\ u.counter \in DOMAIN counters'
              /\ u.window <= counters'[u.counter].reset_at
              /\ u.window = counters'[u.counter].reset_at =>
                     u.number <= counters'[u.counter].value
  <2>1. /\ u \in Unit
        /\ u.number >= 1 /\ u.number <= u.counter.item.amount
        /\ u.counter \in DOMAIN counters
        /\ u.window <= counters[u.counter].reset_at
        /\ u.window = counters[u.counter].reset_at => u.number <= counters[u.counter].value
    BY DEF UnitsWithinLimits
  <2>2. CASE u.counter = counter
    <3>1. counters[counter].reset_at \in Nat /\ counters[counter].value \in Nat
      BY <2>1, <2>2, HeldCounterType
    <3>2. u.window \in Nat /\ u.number \in Nat
      BY <1>8
    <3>3. u.window <= entry.reset_at /\ (u.window = entry.reset_at => u.number <= entry.value)
      BY <1>1, <1>2, <1>3, <2>1, <2>2, <3>1, <3>2
    <3> QED  BY <1>9, <2>1, <2>2, <3>3
  <2>3. CASE u.counter # counter
    BY <1>9, <2>1, <2>3
  <2> QED  BY <2>2, <2>3
<1>11. ASSUME Within(entry.value, counter.item), NEW u \in new
       PROVE  /\ u \in Unit
              /\ u.number >= 1 /\ u.number <= u.counter.item.amount
              /\ u.counter \in DOMAIN counters'
              /\ u.window <= counters'[u.counter].reset_at
              /\ u.window = counters'[u.counter].reset_at =>
                     u.number <= counters'[u.counter].value
  <2>1. /\ u.counter = counter /\ u.window = entry.reset_at
        /\ u.number \in Int /\ u.number > entry.value - cost /\ u.number <= entry.value
    BY <1>4
  <2>2. entry.value <= counter.item.amount
    BY <1>11 DEF Within
  <2>3. u.number >= 1 /\ u.number <= counter.item.amount
    BY <1>1, <1>2, <1>7, <2>1, <2>2
  <2> QED  BY <1>2, <1>5, <1>9, <2>1, <2>3
<1>12. UnitsWithinLimits'
  BY <1>6, <1>10, <1>11 DEF UnitsWithinLimits
<1>13. ASSUME NEW u \in Admitted, NEW v \in new, u.counter = v.counter, u.window = v.window
       PROVE  u.number < v.number
  <2>1. /\ v.counter = counter /\ v.window = entry.reset_at
        /\ v.number \in Int /\ v.number > entry.value - cost
    BY <1>4
  <2>2. /\ counter \in DOMAIN counters
        /\ u.window <= counters[counter].reset_at
        /\ u.window = counters[counter].reset_at => u.number <= counters[counter].value
    BY <1>13, <2>1 DEF UnitsWithinLimits
  <2>3. counters[counter].reset_at \in Nat /\ counters[counter].value \in Nat
    BY <2>2, HeldCounterType
  <2>4. /\ entry.reset_at = counters[counter].reset_at
        /\ entry.value = counters[counter].value + cost
    BY <1>2, <1>3, <1>13, <2>1, <2>2, <2>3
  <2> QED  BY <1>1, <1>8, <1>13, <2>1, <2>2, <2>3, <2>4
<1>14. UnitsDiffer'
  <2>1. ASSUME NEW u \in Admitted, NEW v \in new, u.counter = v.counter, u.window = v.window
        PROVE  u.number # v.number
    <3>1. u.number < v.number /\ u.number \in Int /\ v.number \in Int
      BY <1>4, <1>8, <1>13, <2>1
    <3> QED  BY <3>1
  <2>2. ASSUME NEW u \in new, NEW v \in new, u.number = v.number
        PROVE  u = v
    BY <1>4, <2>2
  <2> QED  BY <1>6, <2>1, <2>2 DEF UnitsDiffer
<1> QED  BY <1>12, <1>14

\* Ending a request admits nothing.
LEMMA EndAdmits ==
  ASSUME TypeOK, NEW r \in Requests, End(r), served' \subseteq served
  PROVE  Admitted' \subseteq Admitted
<1>1. \A u \in Requests : counted'[u] \subseteq counted[u]
  BY DEF End, TypeOK
<1> QED  BY <1>1 DEF Admitted

\* Going on to the next rule admits nothing.
LEMMA NextRuleAdmits ==
  ASSUME TypeOK, NEW r \in Requests, NEW units, NextRule(r, units)
  PROVE  Admitted' \subseteq Admitted \cup units
<1>1. \A u \in Requests : counted'[u] \subseteq counted[u] \cup units
  BY DEF NextRule, End, TypeOK
<1>2. served' \subseteq served \cup units
  BY DEF NextRule
<1> QED  BY <1>1, <1>2 DEF Admitted

\* Every step keeps what the invariant says of limits.
LEMMA LimitsPreserved ==
  ASSUME TypeOK, PenaltyIsSet, UnitsWithinLimits, UnitsDiffer, [Next]_vars
  PROVE  UnitsWithinLimits' /\ UnitsDiffer'
<1> USE DEF storage, history
<1>1. ASSUME NEW r \in Requests, HitItem(r)
      PROVE  UnitsWithinLimits' /\ UnitsDiffer'
  <2> DEFINE counter == LimitCounter(r)
             entry == Hit(counter, at[r].cost)
             units == counted[r] \cup Units(r, counter, entry)
  <2>1. counter \in Counter /\ counter.item = CurrentItem(r)
    BY PlaceOf DEF LimitCounter
  <2>2. counters' = With(counters, counter, entry)
    BY <1>1 DEF HitItem
  <2>3. \/ UNCHANGED <<counted, served>>
        \/ /\ Within(entry.value, CurrentItem(r))
           /\ counted' = [counted EXCEPT ![r] = units] /\ UNCHANGED served
        \/ Within(entry.value, CurrentItem(r)) /\ NextRule(r, units)
    BY <1>1 DEF HitItem
  <2>4. counted[r] \subseteq Admitted
    BY DEF Admitted
  <2> HIDE DEF entry, counter
  <2>5. \/ Admitted' \subseteq Admitted
        \/ /\ Within(entry.value, counter.item)
           /\ Admitted' \subseteq Admitted \cup Units(r, counter, entry)
    <3>1. CASE UNCHANGED <<counted, served>>
      BY <3>1 DEF Admitted
    <3>2. CASE /\ Within(entry.value, CurrentItem(r))
               /\ counted' = [counted EXCEPT ![r] = units] /\ UNCHANGED served
      <4>1. \A u \in Requests : counted'[u] \subseteq counted[u] \cup units
        BY <3>2 DEF TypeOK
      <4>2. Admitted' \subseteq Admitted \cup units
        BY <3>2, <4>1 DEF Admitted
      <4> QED  BY <2>1, <2>4, <3>2, <4>2
    <3>3. CASE Within(entry.value, CurrentItem(r)) /\ NextRule(r, units)
      <4>1. Admitted' \subseteq Admitted \cup units
        BY <3>3, NextRuleAdmits
      <4> QED  BY <2>1, <2>4, <3>3, <4>1
    <3> QED  BY <2>3, <3>1, <3>2, <3>3
  <2> QED  BY <2>1, <2>2, <2>5, HitKeepsLimits DEF entry
<1>2. ASSUME NEW r \in Requests, HitPenalty(r)
      PROVE  UnitsWithinLimits' /\ UnitsDiffer'
  <2> DEFINE counter == PenaltyCounter(r)
             entry == Hit(counter, at[r].cost)
             units == counted[r] \cup Units(r, counter, entry)
  <2>1. counter \in Counter /\ counter.item = penalty
    <3>1. penalty \in Penalties \ {NoPenalty}
      BY <1>2 DEF HitPenalty, PenaltyIsSet, TypeOK
    <3>2. penalty \in Items
      BY <3>1 DEF Items
    <3> QED  BY <3>2, PlaceOf DEF PenaltyCounter, Counter
  <2>2. counters' = With(counters, counter, entry)
    BY <1>2 DEF HitPenalty
  <2>3. \/ UNCHANGED <<counted, served>>
        \/ Within(entry.value, penalty) /\ NextRule(r, units)
    BY <1>2 DEF HitPenalty
  <2>4. counted[r] \subseteq Admitted
    BY DEF Admitted
  <2> HIDE DEF entry, counter
  <2>5. \/ Admitted' \subseteq Admitted
        \/ /\ Within(entry.value, counter.item)
           /\ Admitted' \subseteq Admitted \cup Units(r, counter, entry)
    <3>1. CASE UNCHANGED <<counted, served>>
      BY <3>1 DEF Admitted
    <3>2. CASE Within(entry.value, penalty) /\ NextRule(r, units)
      <4>1. Admitted' \subseteq Admitted \cup units
        BY <3>2, NextRuleAdmits
      <4> QED  BY <2>1, <2>4, <3>2, <4>1
    <3> QED  BY <2>3, <3>1, <3>2
  <2> QED  BY <2>1, <2>2, <2>5, HitKeepsLimits DEF entry
<1>3. ASSUME NEW r \in Requests, Skip(r)
      PROVE  UnitsWithinLimits' /\ UnitsDiffer'
  <2>1. Admitted' \subseteq Admitted \cup counted[r] /\ counted[r] \subseteq Admitted
    BY <1>3, NextRuleAdmits DEF Skip, Admitted
  <2>2. UNCHANGED counters
    BY <1>3 DEF Skip
  <2> QED  BY <2>1, <2>2, UnitsFrame
<1>4. ASSUME NEW r \in Requests, Block(r) \/ Fail(r)
      PROVE  UnitsWithinLimits' /\ UnitsDiffer'
  <2>1. Admitted' \subseteq Admitted
    BY <1>4, EndAdmits DEF Block, Fail
  <2> QED  BY <1>4, <2>1, UnitsFrame DEF Block, Fail
<1>5. ASSUME UNCHANGED <<counters, counted, served>>
      PROVE  UnitsWithinLimits' /\ UnitsDiffer'
  <2>1. Admitted' \subseteq Admitted
    BY <1>5 DEF Admitted
  <2> QED  BY <1>5, <2>1, UnitsFrame
<1>6. ASSUME NEW r \in Requests,
             (\E cost \in Costs : Check(r, cost)) \/ RegisterBreach(r) \/ Unban(r) \/ Ban(r)
      PROVE  UNCHANGED <<counters, counted, served>>
  BY <1>6 DEF Check, RegisterBreach, Unban, Ban
<1>7. ASSUME \/ (\E s \in Scopes : ClearBan(s)) \/ ClearViolations
             \/ Tick \/ UNCHANGED vars
      PROVE  UNCHANGED <<counters, counted, served>>
  BY <1>7 DEF ClearBan, ClearViolations, Tick, vars
<1> QED  BY <1>1, <1>2, <1>3, <1>4, <1>5, <1>6, <1>7 DEF Next

\* Different units of a window within its limit are at most the limit.
LEMMA FewUnits ==
  ASSUME TypeOK, UnitsWithinLimits, UnitsDiffer
  PROVE  ServedWithinEveryLimit
<1> SUFFICES ASSUME NEW u \in served
             PROVE  Cardinality({v \in served : v.counter = u.counter /\ v.window = u.window})
                      <= u.counter.item.amount
  BY DEF ServedWithinEveryLimit
<1> DEFINE same == {v \in served : v.counter = u.counter /\ v.window = u.window}
           amount == u.counter.item.amount
           number == [v \in same |-> v.number]
<1>1. served \subseteq Admitted
  BY DEF Admitted
<1>2. amount \in Nat
  <2>1. u.counter.item \in Items
    BY DEF TypeOK, Unit, Counter
  <2> QED  BY <2>1, ItemsType DEF Item
<1>3. \A v \in same : v.number \in 1..amount
  <2> SUFFICES ASSUME NEW v \in same PROVE v.number \in 1..amount
    OBVIOUS
  <2>1. v.number >= 1 /\ v.number <= v.counter.item.amount /\ v \in Unit
    BY <1>1 DEF UnitsWithinLimits
  <2>2. v.number \in Nat
    BY <2>1 DEF Unit
  <2> QED  BY <1>2, <2>1, <2>2
<1>4. \A v, w \in same : v.number = w.number => v = w
  BY <1>1 DEF UnitsDiffer
<1>5. number \in Injection(same, 1..amount)
  BY <1>3, <1>4 DEF Injection, IsInjective
<1>6. IsFiniteSet(1..amount) /\ Cardinality(1..amount) = amount
  <2> HIDE DEF amount
  <2>1. Cardinality(1..amount) = IF 1 > amount THEN 0 ELSE amount - 1 + 1
    BY <1>2, FS_Interval
  <2> QED  BY <1>2, <2>1, FS_Interval
<1> HIDE DEF same, number, amount
<1>7. Cardinality(same) <= amount
  BY <1>5, <1>6, FS_Injection
<1> QED  BY <1>7 DEF same, amount

-----------------------------------------------------------------------------
(* The inductive invariant and the theorems.                               *)

IInv ==
  /\ TypeOK
  /\ PenaltyIsSet
  /\ BansCoverTheDue
  /\ DueBansAreHeld
  /\ BreachesInWindows
  /\ CountedBreaches
  /\ BannedForBreaches
  /\ UnitsWithinLimits
  /\ UnitsDiffer

\* The invariant holds initially.
LEMMA InitIInv == Init => IInv
<1> SUFFICES ASSUME Init PROVE IInv
  OBVIOUS
<1>1. TypeOK
  <2>1. /\ IsDict(counters, Counter, CounterEntry)
        /\ IsDict(violations, Scopes, CounterEntry)
        /\ IsDict(bans, Scopes, CounterEntry)
    BY EmptyType DEF Init
  <2>2. at \in [Requests -> PlaceType]
    BY RulesType DEF Init, PlaceType
  <2>3. \A r \in Requests : at[r].item \in DOMAIN Rules[at[r].rule].items
    BY RulesType DEF Init
  <2>4. clock \in 0..MaxClock
    BY EnforcementAssumption DEF Init
  <2> QED  BY <2>1, <2>2, <2>3, <2>4 DEF Init, TypeOK, PlaceType, Steps
<1>2. \A s \in Scopes : s \notin DOMAIN bans /\ due[s] = 0
  BY DEF Init, EmptyDict
<1>3. DOMAIN violations = {} /\ breaches = {} /\ IsFiniteSet(breaches)
  BY FS_EmptySet DEF Init, EmptyDict
<1>4. Admitted = {}
  BY DEF Init, Admitted
<1>5. BansCoverTheDue /\ DueBansAreHeld
  BY <1>2, ConstantTypes DEF Init, BansCoverTheDue, DueBansAreHeld
<1>6. BreachesInWindows /\ CountedBreaches
  BY <1>3 DEF BreachesInWindows, CountedBreaches
<1>7. BannedForBreaches /\ PenaltyIsSet
  BY <1>2 DEF Init, BannedForBreaches, AtStake, PenaltyIsSet
<1>8. UnitsWithinLimits /\ UnitsDiffer
  BY <1>4 DEF UnitsWithinLimits, UnitsDiffer
<1> QED  BY <1>1, <1>5, <1>6, <1>7, <1>8 DEF IInv

\* Every step preserves the invariant.
LEMMA NextIInv == IInv /\ [Next]_vars => IInv'
BY TypePreserved, BansPreserved, BreachesPreserved, LimitsPreserved DEF IInv

\* Every reachable state has the types of TypeOK: in particular a request is
\* always at an item of a rule that is there.
THEOREM TypeCorrect == Spec => []TypeOK
<1>1. IInv => TypeOK
  BY DEF IInv
<1> QED  BY InitIInv, NextIInv, <1>1, PTL DEF Spec

\* Whatever rules share a counter and however requests overlap, fail or are
\* banned, a window never accounts for more than its limit.
THEOREM LimitsHold == Spec => []ServedWithinEveryLimit
<1>1. IInv => ServedWithinEveryLimit
  BY FewUnits DEF IInv
<1> QED  BY InitIInv, NextIInv, <1>1, PTL DEF Spec

\* No client is banned without having breached a limit as often, and in as
\* short a time, as the policy asks for, and since it was last pardoned, but for
\* a ban that clear() came too late or too early for.
THEOREM BansAreDeserved == Spec => []BannedForBreaches
<1>1. IInv => BannedForBreaches
  BY DEF IInv
<1> QED  BY InitIInv, NextIInv, <1>1, PTL DEF Spec

\* A ban that a breach begins or renews lasts BanSeconds, but for the moments
\* in which another breach of the same client renews it.
THEOREM BansLast == Spec => []BanLasts
<1>1. IInv => BanLasts
  <2> SUFFICES ASSUME IInv, NEW s \in Scopes, due[s] > clock, ~BanningIsUnderWay(s)
               PROVE  Live(bans, s, clock) /\ bans[s].reset_at >= due[s]
    BY DEF BanLasts
  <2>1. s \in DOMAIN bans /\ bans[s].reset_at >= due[s]
    BY DEF IInv, BansCoverTheDue, DueBansAreHeld
  <2>2. bans[s].reset_at \in Nat /\ due[s] \in Nat /\ clock \in Nat
    BY <2>1, HeldBanType, ConstantTypes DEF IInv, TypeOK
  <2> QED  BY <2>1, <2>2 DEF Live
<1> QED  BY InitIInv, NextIInv, <1>1, PTL DEF Spec

-----------------------------------------------------------------------------
(* Start-up, shutdown, and the checks on a request's way: module Service.  *)

\* A connection that is open has its tables, or is at them, or was left by a
\* setup that ended half way; nothing is ready while somebody sets up.
ConnectionInv ==
  /\ ready => conn # "none"
  /\ holder # Nobody => ~ready
  /\ \A r \in Callers : phase[r] = "connect" => conn = "none"
  /\ conn = "open" => schema \/ cutShort \/ \E r \in Callers : phase[r] = "schema"

\* The checks that were passed from the last dependency on.
Since(way, p) ==
  {i \in DOMAIN p : \A d \in DOMAIN p : way[p[d].check] = "dependency" => d <= i}

\* The stats shown are the tightest of them.
Shows(way, p, shown) ==
  /\ shown = NoStats <=> Since(way, p) = {}
  /\ Since(way, p) # {} =>
       /\ \E i \in Since(way, p) : shown.left = p[i].left
       /\ \A i \in Since(way, p) : shown.left <= p[i].left

\* A request under way is at a check, and its stats are the tightest so far.
UnderWay(r) ==
  /\ path[r] \in Paths[r]
  /\ place[r] \in DOMAIN path[r]
  /\ response[r].status # 200
  /\ path[r][1] # "websocket" => Shows(path[r], passed[r], stats[r])

RequestsInv ==
  \A r \in Callers :
    /\ phase[r] = "idle" => stats[r] = NoStats
    /\ phase[r] # "idle" => UnderWay(r)
    /\ response[r].status = 200 /\ path[r][1] # "websocket" =>
         Shows(path[r], passed[r], response[r].shown)

ServiceInv == ServiceTypeOK /\ ConnectionInv /\ RequestsInv

-----------------------------------------------------------------------------
(* What a check notes.                                                     *)

\* A request that has passed nothing shows nothing.
LEMMA NothingShown ==
  ASSUME NEW way
  PROVE  Shows(way, <<>>, NoStats)
BY DEF Shows, Since

\* The ways of requests, and the checks on them.
LEMMA Ways ==
  ASSUME NEW r \in Callers, NEW way \in Paths[r]
  PROVE  /\ way \in Seq(Checks) /\ Len(way) \in Nat /\ DOMAIN way = 1..Len(way)
         /\ 1 \in DOMAIN way
         /\ \A i \in DOMAIN way : /\ way[i] \in Checks
                                  /\ way[i] \in {"startup", "websocket"} => Len(way) = 1
<1>1. way \in Seq(Checks) /\ way # <<>>
  BY ServiceAssumption
<1>2. Len(way) \in Nat /\ DOMAIN way = 1..Len(way) /\ 1 \in DOMAIN way
  BY <1>1
<1>3. \A i \in DOMAIN way : way[i] \in Checks
  BY <1>1
<1>4. \A i \in DOMAIN way : way[i] \in {"startup", "websocket"} => Len(way) = 1
  BY ServiceAssumption
<1> QED  BY <1>1, <1>2, <1>3, <1>4

\* Noting the stats of one more check keeps them the tightest.
LEMMA NotedShows ==
  ASSUME NEW way, NEW p \in Seq(Stats), NEW existing \in Stats, MaxLeft \in Nat,
         Shows(way, p, existing),
         NEW i \in Nat \ {0}, NEW left \in 0..MaxLeft, NEW kind, way[i] = kind
  PROVE  LET s == [check |-> i, left |-> left]
         IN  /\ kind = "dependency" => Shows(way, Append(p, s), s)
             /\ kind # "dependency" => Shows(way, Append(p, s), MostRestrictive(existing, s))
<1> DEFINE s == [check |-> i, left |-> left]
           q == Append(p, s)
           n == Len(p) + 1
<1>1. /\ Len(p) \in Nat /\ DOMAIN p = 1..Len(p) /\ DOMAIN q = 1..n
      /\ q[n] = s /\ \A j \in DOMAIN p : q[j] = p[j]
      /\ s \in Stats /\ s # NoStats
  BY DEF Stats, NoStats
<1>2. \A j \in DOMAIN p : p[j] \in Stats /\ p[j].left \in Nat
  <2>1. \A j \in DOMAIN p : p[j] \in Stats
    BY <1>1
  <2> QED  BY <2>1 DEF Stats
<1>3. s.left = left /\ s.check = i /\ left \in Nat /\ existing.left \in Nat
  BY DEF Stats
<1> HIDE DEF s, q
<1>4. CASE kind = "dependency"
  <2>1. Since(way, q) = {n}
    BY <1>1, <1>3, <1>4 DEF Since
  <2>2. Shows(way, q, s)
    BY <1>1, <1>3, <2>1 DEF Shows
  <2> QED  BY <1>4, <2>2 DEF s, q
<1>5. CASE kind # "dependency"
  <2>1. Since(way, q) = Since(way, p) \cup {n}
    BY <1>1, <1>3, <1>5 DEF Since
  <2>2. Since(way, p) \subseteq DOMAIN p
    BY DEF Since
  <2>3. CASE existing = NoStats
    <3>1. MostRestrictive(existing, s) = s /\ Since(way, p) = {}
      BY <2>3 DEF MostRestrictive, Shows
    <3>2. Since(way, q) = {n}
      BY <2>1, <3>1
    <3>3. Shows(way, q, s)
      BY <1>1, <1>3, <3>2 DEF Shows
    <3> QED  BY <1>5, <3>1, <3>3 DEF s, q
  <2>4. CASE existing # NoStats
    <3>1. /\ MostRestrictive(existing, s) = IF s.left < existing.left THEN s ELSE existing
          /\ \E j \in Since(way, p) : existing.left = p[j].left
          /\ \A j \in Since(way, p) : existing.left <= p[j].left
      BY <2>4 DEF MostRestrictive, Shows
    <3>2. \A j \in Since(way, p) : q[j].left = p[j].left /\ p[j].left \in Nat
      BY <1>1, <1>2, <2>2
    <3>3. CASE left < existing.left
      <4>1. MostRestrictive(existing, s) = s
        BY <1>3, <3>1, <3>3
      <4>2. \A j \in Since(way, q) : s.left <= q[j].left
        BY <1>1, <1>3, <2>1, <3>1, <3>2, <3>3
      <4>3. Shows(way, q, s)
        BY <1>1, <2>1, <4>2 DEF Shows
      <4> QED  BY <1>5, <4>1, <4>3 DEF s, q
    <3>4. CASE ~(left < existing.left)
      <4>1. MostRestrictive(existing, s) = existing
        BY <1>3, <3>1, <3>4
      <4>2. \A j \in Since(way, q) : existing.left <= q[j].left
        BY <1>1, <1>3, <2>1, <3>1, <3>2, <3>4
      <4>3. Shows(way, q, existing)
        BY <1>1, <2>1, <2>4, <3>1, <3>2, <4>2 DEF Shows
      <4> QED  BY <1>5, <4>1, <4>3 DEF s, q
    <3> QED  BY <3>3, <3>4
  <2> QED  BY <2>3, <2>4
<1> QED  BY <1>4, <1>5 DEF s, q

-----------------------------------------------------------------------------
(* The steps.                                                              *)

\* The invariant holds at the start.
LEMMA ServiceStarts == ServiceInit => ServiceInv
<1> SUFFICES ASSUME ServiceInit  PROVE ServiceInv
  OBVIOUS
<1> USE ServiceAssumption DEF ServiceInit
<1>1. NoStats \in Stats /\ NoResponse \in Response
  BY DEF Stats, NoStats, Response, NoResponse
<1>2. ServiceTypeOK
  <2>1. /\ path \in [Callers -> Seq(Checks)] /\ passed \in [Callers -> Seq(Stats)]
        /\ \A r \in Callers : path[r] = <<>> /\ place[r] <= Len(path[r])
    OBVIOUS
  <2>2. /\ {stats, verdict} \subseteq [Callers -> Stats]
        /\ response \in [Callers -> Response]
    BY <1>1
  <2> QED  BY <2>1, <2>2 DEF ServiceTypeOK
<1>3. ConnectionInv /\ RequestsInv
  BY DEF ConnectionInv, RequestsInv, NoResponse
<1> QED  BY <1>2, <1>3 DEF ServiceInv

\* An answer has a type, and leaves the request idle.
LEMMA AnsweredType ==
  ASSUME ServiceTypeOK, NEW r \in Callers,
         NEW status \in {0, 200, 401, 429, 500, 1008}, NEW shown \in Stats,
         Answered(r, status, shown), UNCHANGED passed,
         UNCHANGED <<switchedOn, ready, conn, schema>>,
         cutShort' \in BOOLEAN, holder' = Released(r)
  PROVE  ServiceTypeOK'
<1>1. NoStats \in Stats
  BY ServiceAssumption DEF Stats, NoStats
<1>2. [status |-> status, shown |-> shown] \in Response
  BY DEF Response
<1>3. /\ path' = path /\ place' = [place EXCEPT ![r] = 0]
      /\ phase' = [phase EXCEPT ![r] = "idle"]
      /\ stats' = [stats EXCEPT ![r] = NoStats]
      /\ verdict' = [verdict EXCEPT ![r] = NoStats]
      /\ response' = [response EXCEPT ![r] = [status |-> status, shown |-> shown]]
  BY DEF Answered, Awaits
<1>4. \A q \in Callers : Len(path[q]) \in Nat
  BY DEF ServiceTypeOK
<1>5. \A q \in Callers : phase'[q] \in {"connect", "schema"} <=> holder' = q
  BY ServiceAssumption, <1>3 DEF ServiceTypeOK, Released
<1>6. \A q \in Callers : path'[q] \in Paths[q] \cup {<<>>} /\ place'[q] <= Len(path'[q])
  BY <1>3, <1>4 DEF ServiceTypeOK
<1> QED  BY <1>1, <1>2, <1>3, <1>5, <1>6 DEF ServiceTypeOK, Released

\* A request that goes on is at a check of its way, or at its end.
LEMMA GoesOnType ==
  ASSUME ServiceTypeOK, NEW r \in Callers, phase[r] = "apply", GoesOn(r),
         stats' \in [Callers -> Stats], passed' \in [Callers -> Seq(Stats)]
  PROVE  ServiceTypeOK'
<1>1. /\ UNCHANGED <<switchedOn, ready, holder, conn, schema, cutShort>>
      /\ UNCHANGED <<path, verdict, response>>
      /\ \E where \in {"check", "endpoint"} : phase' = [phase EXCEPT ![r] = where]
      /\ \/ place[r] < Len(path[r]) /\ place' = [place EXCEPT ![r] = @ + 1]
         \/ place' = place
  BY DEF GoesOn, Awaits, lifecycle
<1>2. \A q \in Callers : Len(path[q]) \in Nat /\ place[q] \in Nat /\ place[q] <= Len(path[q])
  BY DEF ServiceTypeOK
<1>3. place' \in [Callers -> Nat] /\ \A q \in Callers : place'[q] <= Len(path[q])
  <2>1. place \in [Callers -> Nat]
    BY DEF ServiceTypeOK
  <2>2. CASE place[r] < Len(path[r]) /\ place' = [place EXCEPT ![r] = place[r] + 1]
    <3>1. place[r] + 1 \in Nat /\ place[r] + 1 <= Len(path[r])
      BY <1>2, <2>2
    <3> QED  BY <1>2, <2>1, <2>2, <3>1
  <2>3. CASE place' = place
    BY <1>2, <2>1, <2>3
  <2> QED  BY <1>1, <2>2, <2>3
<1>4. /\ phase' \in [Callers -> {"idle", "check", "waiting", "connect", "schema", "apply",
                                "callback", "endpoint"}]
      /\ \A q \in Callers : phase'[q] \in {"connect", "schema"} <=>
             phase[q] \in {"connect", "schema"}
  BY <1>1 DEF ServiceTypeOK
<1> QED  BY <1>1, <1>3, <1>4 DEF ServiceTypeOK

\* Every step preserves the types.
LEMMA ServiceTypesStep == ServiceTypeOK /\ [ServiceNext]_serviceVars => ServiceTypeOK'
<1> SUFFICES ASSUME ServiceTypeOK, [ServiceNext]_serviceVars  PROVE ServiceTypeOK'
  OBVIOUS
<1>1. /\ NoStats \in Stats /\ NoResponse \in Response /\ MaxLeft \in Nat
      /\ \A r \in Callers : Len(path[r]) \in Nat
  BY ServiceAssumption DEF ServiceTypeOK, Stats, NoStats, NoResponse, Response
<1>2. ASSUME NEW r \in Callers, NEW where, Awaits(r, where),
             where \in {"idle", "check", "waiting", "connect", "schema", "apply",
                        "callback", "endpoint"}
      PROVE  phase' \in [Callers -> {"idle", "check", "waiting", "connect", "schema", "apply",
                                   "callback", "endpoint"}]
  BY <1>2 DEF Awaits, ServiceTypeOK
<1>3. ASSUME NEW r \in Callers, Arrive(r)  PROVE ServiceTypeOK'
  <2>1. PICK way \in Paths[r] : path' = [path EXCEPT ![r] = way]
    BY <1>3 DEF Arrive
  <2>2. way \in Seq(Checks) /\ Len(way) \in Nat /\ 1 <= Len(way)
    BY Ways
  <2>3. /\ place' = [place EXCEPT ![r] = 1] /\ response' = [response EXCEPT ![r] = NoResponse]
        /\ passed' = [passed EXCEPT ![r] = <<>>] /\ phase[r] = "idle"
        /\ phase' = [phase EXCEPT ![r] = "check"]
        /\ UNCHANGED <<switchedOn, ready, holder, conn, schema, cutShort, stats, verdict>>
    BY <1>3 DEF Arrive, Awaits, lifecycle
  <2>4. <<>> \in Seq(Stats)
    OBVIOUS
  <2>5. /\ path' \in [Callers -> Seq(Checks)] /\ place' \in [Callers -> Nat]
        /\ response' \in [Callers -> Response] /\ passed' \in [Callers -> Seq(Stats)]
    BY <1>1, <2>1, <2>2, <2>3, <2>4 DEF ServiceTypeOK
  <2>6. \A q \in Callers : /\ path'[q] \in Paths[q] \cup {<<>>} /\ place'[q] <= Len(path'[q])
                           /\ phase'[q] \in {"connect", "schema"} <=> holder' = q
    BY <2>1, <2>2, <2>3 DEF ServiceTypeOK
  <2> QED  BY <1>2, <2>3, <2>5, <2>6 DEF ServiceTypeOK
<1>4. ASSUME NEW r \in Callers,
             EnsureReady(r) \/ Lock(r) \/ Connect(r) \/ CreateSchema(r)
      PROVE  ServiceTypeOK'
  <2>1. UNCHANGED <<switchedOn, cutShort, path, place, stats, verdict, response, passed>>
    BY <1>4 DEF EnsureReady, Lock, Connect, CreateSchema, lifecycle
  <2>2. /\ phase' \in [Callers -> {"idle", "check", "waiting", "connect", "schema", "apply",
                                   "callback", "endpoint"}]
        /\ \A q \in Callers : phase'[q] \in {"connect", "schema"} <=> holder' = q
        /\ {ready', schema'} \subseteq BOOLEAN /\ conn' \in {"none", "open", "closing"}
        /\ holder' \in Callers \cup {Nobody}
    <3>1. CASE EnsureReady(r)
      BY <3>1 DEF EnsureReady, Awaits, ServiceTypeOK, lifecycle
    <3>2. CASE Lock(r)
      <4>1. CASE ready \/ conn # "none"
        <5>1. /\ phase' = [phase EXCEPT ![r] = "apply"] /\ phase[r] = "waiting"
              /\ ready' = TRUE /\ UNCHANGED <<holder, conn, schema>>
          BY <3>2, <4>1 DEF Lock, Awaits
        <5> QED  BY <5>1 DEF ServiceTypeOK
      <4>2. CASE ~(ready \/ conn # "none")
        <5>1. /\ holder' = r /\ phase' = [phase EXCEPT ![r] = "connect"] /\ holder = Nobody
              /\ UNCHANGED <<ready, conn, schema>>
          BY <3>2, <4>2 DEF Lock, Awaits
        <5>2. \A q \in Callers : phase[q] \notin {"connect", "schema"}
          BY ServiceAssumption, <5>1 DEF ServiceTypeOK
        <5> QED  BY <5>1, <5>2 DEF ServiceTypeOK
      <4> QED  BY <4>1, <4>2
    <3>3. CASE Connect(r)
      BY <3>3 DEF Connect, Awaits, ServiceTypeOK
    <3>4. CASE CreateSchema(r)
      BY ServiceAssumption, <3>4 DEF CreateSchema, Awaits, ServiceTypeOK, Released
    <3> QED  BY <1>4, <3>1, <3>2, <3>3, <3>4
  <2> QED  BY <2>1, <2>2 DEF ServiceTypeOK
<1>5. ASSUME NEW r \in Callers, NEW left \in 0..MaxLeft, Admit(r, left)  PROVE ServiceTypeOK'
  <2> DEFINE s == [check |-> place[r], left |-> left]
  <2>1. s \in Stats /\ Noted(r, s) \in Stats
    <3>1. s \in Stats /\ stats[r] \in Stats
      BY DEF ServiceTypeOK, Stats
    <3> QED  BY <3>1 DEF Noted, MostRestrictive
  <2>2. /\ stats' = [stats EXCEPT ![r] = Noted(r, s)]
        /\ passed' = [passed EXCEPT ![r] = Append(@, s)]
        /\ phase[r] = "apply" /\ GoesOn(r)
    BY <1>5 DEF Admit
  <2> HIDE DEF s
  <2>3. stats' \in [Callers -> Stats] /\ passed' \in [Callers -> Seq(Stats)]
    BY <2>1, <2>2 DEF ServiceTypeOK
  <2> QED  BY <2>2, <2>3, GoesOnType
<1>6. ASSUME NEW r \in Callers, SkipRules(r)  PROVE ServiceTypeOK'
  BY <1>6, GoesOnType DEF SkipRules, ServiceTypeOK
<1>7. ASSUME NEW r \in Callers, BlockRequest(r)  PROVE ServiceTypeOK'
  <2>1. [check |-> place[r], left |-> 0] \in Stats
    BY <1>1 DEF ServiceTypeOK, Stats
  <2> QED  BY <1>7, <2>1 DEF BlockRequest, Awaits, ServiceTypeOK, lifecycle
<1>8. ASSUME NEW r \in Callers, phase[r] \in {"apply", "callback", "endpoint"},
             NEW status \in {401, 429, 500, 1008, 200}, NEW shown \in Stats,
             Answered(r, status, shown), UNCHANGED <<lifecycle, passed>>
      PROVE  ServiceTypeOK'
  <2>1. holder' = Released(r) /\ cutShort' \in BOOLEAN
    <3>1. (phase[r] \in {"connect", "schema"} <=> holder = r) /\ cutShort \in BOOLEAN
      BY DEF ServiceTypeOK
    <3>2. holder # r
      BY <1>8, <3>1
    <3> QED  BY <1>8, <3>1, <3>2 DEF lifecycle, Released
  <2>2. UNCHANGED passed /\ UNCHANGED <<switchedOn, ready, conn, schema>>
    BY <1>8 DEF lifecycle
  <2> QED  BY <1>8, <2>1, <2>2, AnsweredType
<1>9. ASSUME NEW r \in Callers,
             BlockMessage(r) \/ MissIdentity(r) \/ Refuse(r) \/ Respond(r) \/ Raise(r)
      PROVE  ServiceTypeOK'
  <2>1. \A x \in Stats : AfterMiddleware(r, x) \in Stats
    BY DEF AfterMiddleware, ServiceTypeOK
  <2>2. stats[r] \in Stats /\ verdict[r] \in Stats
    BY DEF ServiceTypeOK
  <2>3. CASE BlockMessage(r)
    BY <1>1, <1>8, <2>3 DEF BlockMessage, LimitIsUsedUp
  <2>4. CASE MissIdentity(r)
    BY <1>1, <1>8, <2>1, <2>4 DEF MissIdentity
  <2>5. CASE Refuse(r)
    BY <1>8, <2>1, <2>2, <2>5 DEF Refuse
  <2>6. CASE Respond(r)
    BY <1>8, <2>2, <2>6 DEF Respond
  <2>7. CASE Raise(r)
    BY <1>1, <1>8, <2>7 DEF Raise, Errs
  <2> QED  BY <1>9, <2>3, <2>4, <2>5, <2>6, <2>7
<1>10. ASSUME NEW r \in Callers, SetupFails(r) \/ Cancel(r)  PROVE ServiceTypeOK'
  <2>1. /\ LeavesSetup(r) /\ UNCHANGED passed
        /\ \E status \in {0, 500} : Answered(r, status, NoStats)
    BY <1>10 DEF SetupFails, Cancel, Errs
  <2>2. /\ UNCHANGED <<switchedOn, ready, conn, schema>> /\ holder' = Released(r)
        /\ cutShort' \in BOOLEAN
    BY <2>1 DEF LeavesSetup, ServiceTypeOK
  <2> QED  BY <1>1, <2>1, <2>2, AnsweredType
<1>11. CASE Shutdown \/ Closed \/ ShutdownAtOnce \/ Toggle
  BY <1>11
  DEF Shutdown, Closed, ShutdownAtOnce, Toggle, ReadyWhen, ServiceTypeOK, requests
<1>12. CASE UNCHANGED serviceVars
  BY <1>12 DEF serviceVars, lifecycle, requests, ServiceTypeOK
<1> QED  BY <1>3, <1>4, <1>5, <1>6, <1>7, <1>9, <1>10, <1>11, <1>12 DEF ServiceNext, Proceed

\* Every step keeps the connection and the flag in step.
LEMMA ServiceConnectionStep ==
  ServiceTypeOK /\ ConnectionInv /\ [ServiceNext]_serviceVars => ConnectionInv'
<1> SUFFICES ASSUME ServiceTypeOK, ConnectionInv, [ServiceNext]_serviceVars
             PROVE  ConnectionInv'
  OBVIOUS
<1> USE DEF ConnectionInv
<1>1. ASSUME NEW r \in Callers, EnsureReady(r)  PROVE ConnectionInv'
  BY <1>1 DEF EnsureReady, Awaits, ServiceTypeOK, lifecycle
<1>2. ASSUME NEW r \in Callers, Lock(r)  PROVE ConnectionInv'
  <2>1. \A q \in Callers : phase[q] \notin {"connect", "schema"}
    BY ServiceAssumption, <1>2 DEF Lock, ServiceTypeOK
  <2>2. CASE ready \/ conn # "none"
    BY <1>2, <2>1, <2>2 DEF Lock, Awaits, ServiceTypeOK
  <2>3. CASE ~(ready \/ conn # "none")
    BY <1>2, <2>1, <2>3 DEF Lock, Awaits, ServiceTypeOK
  <2> QED  BY <2>2, <2>3
<1>3. ASSUME NEW r \in Callers, Connect(r)  PROVE ConnectionInv'
  BY ServiceAssumption, <1>3 DEF Connect, Awaits, ServiceTypeOK
<1>4. ASSUME NEW r \in Callers, CreateSchema(r)  PROVE ConnectionInv'
  BY ServiceAssumption, <1>4 DEF CreateSchema, Awaits, ServiceTypeOK, Released
<1>5. ASSUME NEW r \in Callers, SetupFails(r) \/ Cancel(r)  PROVE ConnectionInv'
  <2>1. LeavesSetup(r) /\ phase' = [phase EXCEPT ![r] = "idle"]
    BY <1>5 DEF SetupFails, Cancel, Errs, Answered, Awaits
  <2> QED  BY ServiceAssumption, <2>1 DEF LeavesSetup, Released, ServiceTypeOK
<1>6. ASSUME UNCHANGED lifecycle,
             \A q \in Callers : /\ phase'[q] = "connect" => phase[q] = "connect"
                                /\ phase[q] = "schema" => phase'[q] = "schema"
      PROVE  ConnectionInv'
  BY <1>6 DEF lifecycle
<1>7. ASSUME NEW r \in Callers,
             \/ Arrive(r) \/ SkipRules(r) \/ BlockRequest(r) \/ BlockMessage(r)
             \/ MissIdentity(r)
             \/ Refuse(r) \/ Respond(r) \/ Raise(r)
             \/ \E left \in 0..MaxLeft : Admit(r, left)
      PROVE  ConnectionInv'
  <2>1. UNCHANGED lifecycle
    BY <1>7
    DEF Arrive, SkipRules, BlockRequest, BlockMessage, MissIdentity, Refuse, Respond,
        Raise, Admit, GoesOn, Errs
  <2>2. /\ phase[r] \in {"idle", "apply", "callback", "endpoint"}
        /\ \E where \in {"idle", "check", "callback", "endpoint"} : phase' =
               [phase EXCEPT ![r] = where]
    BY <1>7
    DEF Arrive, SkipRules, BlockRequest, BlockMessage, LimitIsUsedUp, MissIdentity,
        Refuse, Respond, Raise, Admit, GoesOn, Errs, Answered, Awaits
  <2>3. \A q \in Callers : /\ phase'[q] = "connect" => phase[q] = "connect"
                           /\ phase[q] = "schema" => phase'[q] = "schema"
    BY <2>2 DEF ServiceTypeOK
  <2> QED  BY <1>6, <2>1, <2>3
<1>8. CASE Shutdown \/ Closed \/ ShutdownAtOnce \/ Toggle
  <2>1. CASE Shutdown
    BY <2>1 DEF Shutdown, ReadyWhen, requests
  <2>2. CASE Closed
    BY <2>2 DEF Closed, ReadyWhen, requests
  <2>3. CASE ShutdownAtOnce
    BY <2>3 DEF ShutdownAtOnce, requests
  <2>4. CASE Toggle
    BY <2>4 DEF Toggle, requests
  <2> QED  BY <1>8, <2>1, <2>2, <2>3, <2>4
<1>9. CASE UNCHANGED serviceVars
  BY <1>9 DEF serviceVars, lifecycle, requests
<1> QED  BY <1>1, <1>2, <1>3, <1>4, <1>5, <1>7, <1>8, <1>9 DEF ServiceNext, Proceed

\* A request that is answered is idle; if it was answered 200, what it is shown
\* is the tightest of what it passed.
LEMMA AnsweredRequests ==
  ASSUME ServiceTypeOK, RequestsInv, NEW r \in Callers,
         NEW status, NEW shown, Answered(r, status, shown), UNCHANGED passed,
         status = 200 /\ path[r][1] # "websocket" => Shows(path[r], passed[r], shown)
  PROVE  RequestsInv'
<1>1. /\ path' = path /\ place' = [place EXCEPT ![r] = 0]
      /\ phase' = [phase EXCEPT ![r] = "idle"]
      /\ stats' = [stats EXCEPT ![r] = NoStats]
      /\ response' = [response EXCEPT ![r] = [status |-> status, shown |-> shown]]
      /\ passed' = passed
  BY DEF Answered, Awaits
<1>2. /\ r \in DOMAIN place /\ r \in DOMAIN phase /\ r \in DOMAIN stats /\ r \in DOMAIN response
  BY DEF ServiceTypeOK
<1> SUFFICES ASSUME NEW q \in Callers
             PROVE  /\ phase'[q] = "idle" => stats'[q] = NoStats
                    /\ phase'[q] # "idle" => UnderWay(q)'
                    /\ response'[q].status = 200 /\ path'[q][1] # "websocket" =>
                         Shows(path'[q], passed'[q], response'[q].shown)
  BY DEF RequestsInv
<1>3. CASE q = r
  BY <1>1, <1>2, <1>3
<1>4. CASE q # r
  <2>1. /\ phase'[q] = phase[q] /\ place'[q] = place[q] /\ stats'[q] = stats[q]
        /\ response'[q] = response[q] /\ path'[q] = path[q] /\ passed'[q] = passed[q]
    BY <1>1, <1>2, <1>4 DEF ServiceTypeOK
  <2> QED  BY <2>1 DEF RequestsInv, UnderWay
<1> QED  BY <1>3, <1>4

\* A request moves on the same check.
LEMMA MovesRequests ==
  ASSUME ServiceTypeOK, RequestsInv, NEW r \in Callers, phase[r] # "idle",
         NEW where, where # "idle", Awaits(r, where),
         UNCHANGED <<path, place, stats, response, passed>>
  PROVE  RequestsInv'
BY DEF RequestsInv, UnderWay, Awaits, ServiceTypeOK

\* A request goes on to its next check, or to what it came for.
LEMMA GoesOnRequests ==
  ASSUME ServiceTypeOK, RequestsInv, NEW r \in Callers, phase[r] = "apply",
         GoesOn(r),
         \A q \in Callers \ {r} : stats'[q] = stats[q] /\ passed'[q] = passed[q],
         path[r][1] # "websocket" => Shows(path[r], passed'[r], stats'[r])
  PROVE  RequestsInv'
<1>1. /\ UNCHANGED <<path, response>>
      /\ \E where \in {"check", "endpoint"} : phase' = [phase EXCEPT ![r] = where]
      /\ \/ place[r] < Len(path[r]) /\ place' = [place EXCEPT ![r] = @ + 1]
         \/ place' = place
  BY DEF GoesOn, Awaits
<1>2. UnderWay(r)
  BY DEF RequestsInv
<1>3. place'[r] \in DOMAIN path[r] /\ \A q \in Callers \ {r} : place'[q] = place[q]
  <2>1. Len(path[r]) \in Nat /\ DOMAIN path[r] = 1..Len(path[r])
    BY <1>2, Ways DEF UnderWay
  <2> QED  BY <1>1, <1>2, <2>1 DEF UnderWay, ServiceTypeOK
<1>4. UnderWay(r)' /\ phase'[r] # "idle"
  BY <1>1, <1>2, <1>3 DEF UnderWay, ServiceTypeOK
<1>5. response'[r].status # 200
  BY <1>1, <1>2 DEF UnderWay
<1>6. ASSUME NEW q \in Callers \ {r}
      PROVE  /\ phase'[q] = phase[q] /\ place'[q] = place[q] /\ stats'[q] = stats[q]
             /\ response'[q] = response[q] /\ path'[q] = path[q] /\ passed'[q] = passed[q]
  BY <1>1, <1>3 DEF ServiceTypeOK
<1> QED  BY <1>4, <1>5, <1>6 DEF RequestsInv, UnderWay

\* Every step keeps what is shown, or will be, the tightest.
LEMMA ServiceRequestsStep ==
  ServiceTypeOK /\ RequestsInv /\ [ServiceNext]_serviceVars => RequestsInv'
<1> SUFFICES ASSUME ServiceTypeOK, RequestsInv, [ServiceNext]_serviceVars
             PROVE  RequestsInv'
  OBVIOUS
<1>1. ASSUME NEW r \in Callers, Arrive(r)  PROVE RequestsInv'
  <2>1. PICK way \in Paths[r] : path' = [path EXCEPT ![r] = way]
    BY <1>1 DEF Arrive
  <2>2. /\ place' = [place EXCEPT ![r] = 1] /\ response' = [response EXCEPT ![r] = NoResponse]
        /\ passed' = [passed EXCEPT ![r] = <<>>] /\ phase[r] = "idle"
        /\ phase' = [phase EXCEPT ![r] = "check"] /\ stats' = stats
    BY <1>1 DEF Arrive, Awaits
  <2>3. /\ path'[r] = way /\ place'[r] = 1 /\ response'[r] = NoResponse /\ passed'[r] = <<>>
        /\ phase'[r] = "check" /\ stats'[r] = NoStats
    BY <2>1, <2>2 DEF ServiceTypeOK, RequestsInv
  <2>4. UnderWay(r)'
    BY <2>3, Ways, NothingShown DEF UnderWay, NoResponse
  <2>5. ASSUME NEW q \in Callers \ {r}
        PROVE  /\ phase'[q] = phase[q] /\ place'[q] = place[q] /\ stats'[q] = stats[q]
               /\ response'[q] = response[q] /\ path'[q] = path[q] /\ passed'[q] = passed[q]
    BY <2>1, <2>2 DEF ServiceTypeOK
  <2> QED  BY <2>3, <2>4, <2>5 DEF RequestsInv, UnderWay, NoResponse
<1>2. ASSUME NEW r \in Callers,
             EnsureReady(r) \/ Lock(r) \/ Connect(r) \/ CreateSchema(r) \/ BlockRequest(r)
      PROVE  RequestsInv'
  <2>1. /\ phase[r] # "idle" /\ UNCHANGED <<path, place, stats, response, passed>>
        /\ \E where \in {"apply", "waiting", "connect", "schema", "callback"} : Awaits(r, where)
    BY <1>2 DEF EnsureReady, Lock, Connect, CreateSchema, BlockRequest
  <2> QED  BY <2>1, MovesRequests
<1>3. ASSUME NEW r \in Callers, NEW left \in 0..MaxLeft, Admit(r, left)  PROVE RequestsInv'
  <2> DEFINE s == [check |-> place[r], left |-> left]
  <2>1. /\ phase[r] = "apply" /\ GoesOn(r) /\ CurrentCheck(r) # "startup"
        /\ stats' = [stats EXCEPT ![r] = Noted(r, s)]
        /\ passed' = [passed EXCEPT ![r] = Append(@, s)]
    BY <1>3 DEF Admit
  <2>2. UnderWay(r) /\ place[r] \in Nat \ {0} /\ path[r][place[r]] \in Checks /\ MaxLeft \in Nat
    <3>1. UnderWay(r)
      BY <2>1 DEF RequestsInv
    <3>2. place[r] \in DOMAIN path[r] /\ path[r] \in Paths[r]
      BY <3>1 DEF UnderWay
    <3> QED  BY ServiceAssumption, <3>1, <3>2, Ways
  <2>3. passed[r] \in Seq(Stats) /\ stats[r] \in Stats
    BY DEF ServiceTypeOK
  <2>4. ASSUME path[r][1] # "websocket"
        PROVE  Shows(path[r], Append(passed[r], s), Noted(r, s))
    <3>1. CurrentCheck(r) # "websocket"
      <4>1. place[r] \in DOMAIN path[r] /\ path[r] \in Paths[r] /\ place[r] \in Nat
        BY <2>2 DEF UnderWay
      <4>2. path[r][place[r]] = "websocket" => place[r] = 1
        BY <4>1, Ways
      <4> QED  BY <2>4, <4>2 DEF CurrentCheck
    <3>2. CurrentCheck(r) \in {"middleware", "dependency", "decorator"}
      BY <2>1, <2>2, <3>1 DEF CurrentCheck, Checks
    <3>3. Shows(path[r], passed[r], stats[r])
      BY <2>2, <2>4 DEF UnderWay
    <3>4. /\ CurrentCheck(r) = "dependency" => Shows(path[r], Append(passed[r], s), s)
          /\ CurrentCheck(r) # "dependency" =>
               Shows(path[r], Append(passed[r], s), MostRestrictive(stats[r], s))
      BY <2>2, <2>3, <3>3, NotedShows DEF CurrentCheck
    <3> HIDE DEF s
    <3> QED  BY <3>2, <3>4 DEF Noted
  <2> HIDE DEF s
  <2>5. /\ passed'[r] = Append(passed[r], s) /\ stats'[r] = Noted(r, s)
        /\ \A q \in Callers \ {r} : stats'[q] = stats[q] /\ passed'[q] = passed[q]
    BY <2>1 DEF ServiceTypeOK
  <2> QED  BY <2>1, <2>4, <2>5, GoesOnRequests
<1>4. ASSUME NEW r \in Callers, SkipRules(r)  PROVE RequestsInv'
  <2>1. phase[r] = "apply" /\ GoesOn(r) /\ UNCHANGED <<stats, passed>>
    BY <1>4 DEF SkipRules
  <2>2. path[r][1] # "websocket" => Shows(path[r], passed[r], stats[r])
    BY <2>1 DEF RequestsInv, UnderWay
  <2> QED  BY <2>1, <2>2, GoesOnRequests
<1>5. ASSUME NEW r \in Callers,
             \/ BlockMessage(r) \/ MissIdentity(r) \/ Refuse(r) \/ Raise(r)
             \/ SetupFails(r) \/ Cancel(r)
      PROVE  RequestsInv'
  <2>1. UNCHANGED passed
    BY <1>5
    DEF BlockMessage, MissIdentity, Refuse, Raise, SetupFails, Cancel, Errs
  <2>2. \E status \in {0, 401, 429, 500, 1008} : \E shown : Answered(r, status, shown)
    BY <1>5
    DEF BlockMessage, MissIdentity, Refuse, Raise, SetupFails, Cancel, Errs
  <2>3. PICK status \in {0, 401, 429, 500, 1008} : \E shown : Answered(r, status, shown)
    BY <2>2
  <2> QED  BY <2>1, <2>3, AnsweredRequests
<1>6. ASSUME NEW r \in Callers, Respond(r)  PROVE RequestsInv'
  <2>1. phase[r] = "endpoint" /\ Answered(r, 200, stats[r]) /\ UNCHANGED passed
    BY <1>6 DEF Respond
  <2>2. path[r][1] # "websocket" => Shows(path[r], passed[r], stats[r])
    BY <2>1 DEF RequestsInv, UnderWay
  <2> QED  BY <2>1, <2>2, AnsweredRequests
<1>7. CASE UNCHANGED requests
  BY <1>7 DEF requests, RequestsInv, UnderWay
<1>8. CASE UNCHANGED serviceVars
  BY <1>7, <1>8 DEF serviceVars
<1>9. CASE Shutdown \/ Closed \/ ShutdownAtOnce \/ Toggle
  BY <1>7, <1>9 DEF Shutdown, Closed, ShutdownAtOnce, Toggle
<1> QED  BY <1>1, <1>2, <1>3, <1>4, <1>5, <1>6, <1>8, <1>9 DEF ServiceNext, Proceed

\* The invariant holds in every state of every behaviour.
LEMMA ServiceInvariant == ServiceSpec => []ServiceInv
<1>1. ServiceInv /\ [ServiceNext]_serviceVars => ServiceInv'
  BY ServiceTypesStep, ServiceConnectionStep, ServiceRequestsStep DEF ServiceInv
<1> QED  BY <1>1, ServiceStarts, PTL DEF ServiceSpec

-----------------------------------------------------------------------------
(* The theorems.                                                           *)

\* The service's state keeps its types, and the setup lock is held by the
\* request that sets up and by no other.
THEOREM ServiceTypes == ServiceSpec => []ServiceTypeOK
BY ServiceInvariant, PTL DEF ServiceInv

\* limiter.py, _ensure_ready, and sqlite.py, setup and close: the flag stands
\* for a storage that can be used, but while it is being closed and after a
\* setup that ended half way.
THEOREM ServiceReady == ServiceSpec => []ReadyMeansUsable
<1>1. ServiceInv => ReadyMeansUsable
  <2> SUFFICES ASSUME ServiceInv, ready  PROVE Usable \/ conn = "closing" \/ cutShort
    BY DEF ReadyMeansUsable
  <2>1. conn \in {"none", "open", "closing"} /\ conn # "none" /\ holder = Nobody
    BY DEF ServiceInv, ServiceTypeOK, ConnectionInv
  <2>2. \A r \in Callers : phase[r] # "schema"
    BY ServiceAssumption, <2>1 DEF ServiceInv, ServiceTypeOK
  <2> QED  BY <2>1, <2>2 DEF ServiceInv, ConnectionInv, Usable
<1> QED  BY <1>1, ServiceInvariant, PTL

\* Whatever checks a request passes on its way, in whatever order, the headers
\* of its response are those of the tightest limit since its last dependency.
THEOREM ServiceHeaders == ServiceSpec => []HeadersShowTheTightest
<1>1. ServiceInv => HeadersShowTheTightest
  <2> SUFFICES ASSUME ServiceInv, NEW r \in Callers,
                      response[r].status = 200, path[r][1] # "websocket"
               PROVE  LET deps  == {i \in DOMAIN passed[r] :
                                      path[r][passed[r][i].check] = "dependency"}
                          since == {i \in DOMAIN passed[r] : \A d \in deps : d <= i}
                          lefts == {passed[r][i].left : i \in since}
                      IN  /\ (response[r].shown = NoStats) <=> (since = {})
                          /\ since # {} => /\ response[r].shown.left \in lefts
                                           /\ \A left \in lefts : response[r].shown.left <= left
    BY DEF HeadersShowTheTightest
  <2>1. Shows(path[r], passed[r], response[r].shown)
    BY DEF ServiceInv, RequestsInv
  <2> QED  BY <2>1 DEF Shows, Since
<1> QED  BY <1>1, ServiceInvariant, PTL

-----------------------------------------------------------------------------
(* Limits that are registered, edited and removed by name: module Registry.*)

\* The two assignments of update are apart on this rule.
Halfway(rule) == admin.pc = "invalidate" /\ admin.rule = rule

\* A cache that is filled holds the items of the limit, except between the two
\* assignments of update and when an evaluation stored what it parsed before them.
CacheInv ==
  \A rule \in LimitRules :
    late[rule] \/ Halfway(rule) \/ cache[rule] \in {NoCache, ParseMany(limit[rule].parts)}

\* A resolution that was met by no edit works on the limit of its rule.
Undisturbed ==
  /\ eval.value = limit[eval.rule]
  /\ ~Halfway(eval.rule)
  /\ eval.pc = "call" => eval.value.callable
  /\ eval.pc \in {"cached", "parse"} => ~eval.value.callable
  /\ eval.pc = "return" /\ ~late[eval.rule] => cache[eval.rule] = ParseMany(eval.value.parts)
  /\ eval.pc = "done" /\ ~late[eval.rule] => eval.items = ParseMany(eval.value.parts)

EvalInv ==
  eval # Idle =>
    /\ eval.pc = "store" => eval.items = ParseMany(eval.value.parts)
    /\ eval.edited \/ Undisturbed

\* Only the last list is in the dictionary.  A thread that holds another has had
\* its rule's name removed.
Holding(t) ==
  /\ thread[t].pc \in {"look", "list", "append"} => thread[t].rule \in seen
  /\ thread[t].pc = "append" /\ thread[t].list # current => removed[thread[t].rule]

Gone(rule) == ~enabled[rule] \/ crossed[rule]

\* A loop that enables or disables goes over the list of the dictionary.  What a
\* removal is about to pop is disabled, or will be, or was appended in the
\* course of it.
RemovalInv ==
  /\ admin.pc \in {"switch", "remove"} => admin.list \in {0, current}
  /\ admin.pc = "remove" =>
       /\ ~admin.on
       /\ admin.done \subseteq Get
       /\ \A rule \in Get : rule \in Left \/ Gone(rule)
  /\ admin.pc = "pop" => \A rule \in Get : Gone(rule)

\* A rule that was in a list when it was popped is in one no more, or again.
DroppedInv ==
  \A rule \in dropped :
    rule \in seen /\ removed[rule] /\ (rule \in Get => crossed[rule])

ListInv ==
  /\ current \in {0, Len(listed)}
  /\ Get \subseteq seen
  /\ \A t \in Threads : Holding(t)
  /\ RemovalInv
  /\ DroppedInv

\* No thread is at work on the rule.
AtRest(rule) == \A t \in Threads : thread[t] = Idle \/ thread[t].rule # rule

\* A rule that is registered is listed, or its name was removed.
ReachInv == \A rule \in seen : AtRest(rule) => rule \in Get \/ (removed[rule] /\ Gone(rule))

-----------------------------------------------------------------------------
(* Types.                                                                  *)

\* parse_many makes proper items of the parts of a limit.
LEMMA ParsedAreProper ==
  ASSUME NEW parts \in Seq(Parts)
  PROVE  \A i \in DOMAIN ParseMany(parts) : Proper(ParseMany(parts)[i])
<1> SUFFICES ASSUME NEW i \in DOMAIN parts, parts[i].kind # "blank", Parses(parts[i])
             PROVE  Proper(Parsed(parts[i]))
  <2>1. DOMAIN <<>> = {}  OBVIOUS
  <2> QED  BY <2>1 DEF ParseMany
<1>1. parts[i] \in Parts  OBVIOUS
<1>2. CASE parts[i].kind = "item"
  BY <1>1, <1>2 DEF Parts, Parsed, Blank, Junk
<1>3. CASE parts[i].kind # "item"
  <2>1. /\ parts[i].amount \in Nat \ {0} /\ parts[i].multiples \in Nat \ {0}
        /\ parts[i].unit \in DOMAIN Granularity
    BY <1>1, <1>3 DEF Parts, Parses, Blank, Junk
  <2>2. Granularity[parts[i].unit] \in Nat \ {0}
    BY <2>1 DEF Granularity
  <2> QED  BY <1>3, <2>1, <2>2 DEF Parsed, Proper, RateItem
<1> QED  BY <1>2, <1>3

\* All that rules resolve to is proper.
LEMMA ItemsAreProper ==
  ASSUME NEW items \in ParsedItems
  PROVE  \A i \in DOMAIN items : Proper(items[i])
<1>1. CASE items = NoCache
  BY <1>1 DEF NoCache
<1>2. ASSUME NEW l \in Limits, items = ParseMany(l.parts)
      PROVE  \A i \in DOMAIN items : Proper(items[i])
  <2>1. l.parts \in Seq(Parts)  BY RegistryAssumption
  <2> QED  BY <1>2, <2>1, ParsedAreProper
<1> QED  BY <1>1, <1>2 DEF ParsedItems

\* What a limit parses to is among what rules resolve to.
LEMMA LimitItems ==
  ASSUME NEW l \in Limits
  PROVE  ParseMany(l.parts) \in ParsedItems /\ NoCache \in ParsedItems
BY DEF ParsedItems

\* The types that steps may change, without the items' values.
RegistryTyped ==
  /\ limit \in [LimitRules -> Limits]
  /\ cache \in [LimitRules -> ParsedItems]
  /\ enabled \in [LimitRules -> BOOLEAN]
  /\ listed \in Seq(SUBSET LimitRules)
  /\ current \in 0..Len(listed)
  /\ seen \subseteq LimitRules
  /\ dropped \subseteq LimitRules
  /\ thread \in [Threads -> Registrations]
  /\ admin \in Administration
  /\ eval \in Resolutions
  /\ edits \in 0..MaxEdits
  /\ late \in [LimitRules -> BOOLEAN]
  /\ removed \in [LimitRules -> BOOLEAN]
  /\ crossed \in [LimitRules -> BOOLEAN]

\* The types of the invariant are those of TypeOK.
LEMMA TypesSuffice ==
  RegistryTypeOK <=> RegistryTyped
<1>1. ASSUME RegistryTyped  PROVE RegistryTypeOK
  <2>1. \A rule \in LimitRules : \A i \in DOMAIN cache[rule] : Proper(cache[rule][i])
    BY <1>1, ItemsAreProper DEF RegistryTyped
  <2> QED  BY <1>1, <2>1 DEF RegistryTypeOK, RegistryTyped
<1>2. RegistryTypeOK => RegistryTyped
  BY DEF RegistryTypeOK, RegistryTyped
<1> QED  BY <1>1, <1>2

\* The invariant of the registry holds initially.
LEMMA RegistryStarts ==
  ASSUME RegistryInit
  PROVE  RegistryTyped /\ CacheInv /\ EvalInv /\ ListInv
<1>1. listed \in Seq(SUBSET LimitRules) /\ current = Len(listed) /\ Len(listed) \in Nat
  <2>1. Decorated \in SUBSET LimitRules  BY RegistryAssumption
  <2>2. <<Decorated>> \in Seq(SUBSET LimitRules) /\ <<>> \in Seq(SUBSET LimitRules)  BY <2>1
  <2>3. listed \in Seq(SUBSET LimitRules) /\ current = Len(listed)  BY <2>2 DEF RegistryInit
  <2> QED  BY <2>3
<1>2. RegistryTyped
  <2>1. /\ thread \in [Threads -> Registrations]
        /\ admin \in Administration
        /\ eval \in Resolutions
    BY DEF RegistryInit, Registrations, Administration, Resolutions, Idle
  <2>2. cache \in [LimitRules -> ParsedItems]
    BY DEF RegistryInit, ParsedItems
  <2> QED  BY RegistryAssumption, <1>1, <2>1, <2>2 DEF RegistryInit, RegistryTyped
<1>3. CacheInv  BY DEF RegistryInit, CacheInv
<1>4. EvalInv  BY DEF RegistryInit, EvalInv
<1>5. ListInv
  <2>1. Get \subseteq seen
    BY DEF RegistryInit, Get, RulesOf
  <2> QED
    BY <1>1, <2>1 DEF RegistryInit, ListInv, RemovalInv, DroppedInv, Holding, Idle
<1> QED  BY <1>2, <1>3, <1>4, <1>5

\* A step of the threads that register.
Registers(t) ==
  \/ \E rule \in LimitRules : Register(t, rule)
  \/ See(t) \/ Look(t) \/ SetDefault(t) \/ AppendRule(t)

Administers ==
  \/ \E value \in Limits : SetLimit(value)
  \/ Update \/ Invalidate
  \/ \E on \in BOOLEAN : Switch(on)
  \/ Remove \/ SwitchRule \/ LoopEnds \/ Pop

Evaluation ==
  \/ \E rule \in LimitRules : Resolve(rule)
  \/ CallLimit \/ LookInCache \/ Parse \/ Store \/ Return \/ Done

\* A step is one of a thread, of the administrator or of the event loop.
LEMMA RegistrySteps ==
  ASSUME RegistryNext
  PROVE  (\E t \in Threads : Registers(t)) \/ Administers \/ Evaluation
BY DEF RegistryNext, Registers, Administers, Evaluation

\* Threads are in a registration of the kind their step says.
LEMMA ThreadStates ==
  ASSUME RegistryTyped, NEW t \in Threads
  PROVE  /\ thread[t].pc \in {"idle", "see", "look", "list", "append"}
         /\ thread[t].pc = "idle" <=> thread[t] = Idle
         /\ thread[t] # Idle => thread[t].rule \in LimitRules
         /\ thread[t].pc = "append" => thread[t].list \in DOMAIN listed
BY DEF RegistryTyped, Registrations, Idle

\* Lists hold rules.
LEMMA RulesAreRules ==
  ASSUME RegistryTyped, NEW list \in 0..Len(listed)
  PROVE  RulesOf(list) \subseteq LimitRules
<1>1. listed \in Seq(SUBSET LimitRules) /\ DOMAIN listed = 1..Len(listed)
  BY DEF RegistryTyped
<1>2. CASE list = 0
  BY <1>2 DEF RulesOf
<1>3. CASE list # 0
  <2>1. list \in DOMAIN listed  BY <1>1, <1>3
  <2> QED  BY <1>1, <1>3, <2>1 DEF RulesOf
<1> QED  BY <1>2, <1>3

\* The administrator may be at a list that there still is.
LEMMA AdministrationGrows ==
  ASSUME RegistryTyped, admin' = admin, Len(listed') \in Nat, Len(listed) <= Len(listed')
  PROVE  admin' \in Administration'
<1>1. Len(listed) \in Nat /\ admin \in Administration
  BY DEF RegistryTyped
<1>2. 0..Len(listed) \subseteq 0..Len(listed')
  BY <1>1
<1> QED  BY <1>1, <1>2 DEF Administration

\* A thread that registers a rule keeps the types.
LEMMA ThreadTypes ==
  ASSUME RegistryTyped, NEW t \in Threads, Registers(t)
  PROVE  RegistryTyped'
<1> USE DEF RegistryTyped
<1> USE ThreadStates
<1>0. DOMAIN listed = 1..Len(listed) /\ Len(listed) \in Nat
  OBVIOUS
<1>1. ASSUME NEW rule \in LimitRules, Register(t, rule)  PROVE RegistryTyped'
  <2>1. thread' \in [Threads -> Registrations]
    BY <1>1 DEF Register, Registrations, Registering
  <2> QED
    BY <1>1, <2>1
    DEF Register, Registrations, Administration, Resolutions, rules, registry,
        registryHistory
<1>2. CASE See(t)
  <2>0. thread[t].rule \in LimitRules  BY <1>2 DEF See, Idle
  <2>1. thread' \in [Threads -> Registrations]
    BY <1>2, <2>0 DEF See, Registrations, Registering
  <2>2. seen' \subseteq LimitRules /\ removed' \in [LimitRules -> BOOLEAN]
    BY <1>2, <2>0 DEF See
  <2> QED
    BY <1>2, <2>1, <2>2
    DEF See, Registrations, Administration, Resolutions, rules
<1>3. CASE Look(t)
  <2>0. thread[t].rule \in LimitRules  BY <1>3 DEF Look, Idle
  <2>1. thread' \in [Threads -> Registrations]
    BY <1>3, <2>0 DEF Look, Registrations, Registering
  <2> QED
    BY <1>3, <2>1
    DEF Look, Registrations, Administration, Resolutions, rules, registry,
        registryHistory
<1>4. CASE SetDefault(t)
  <2>0. thread[t].rule \in LimitRules  BY <1>4 DEF SetDefault, Idle
  <2>1. /\ listed' \in Seq(SUBSET LimitRules) /\ DOMAIN listed \subseteq DOMAIN listed'
        /\ current' = Len(listed') /\ Len(listed') \in DOMAIN listed'
        /\ Len(listed') \in Nat /\ Len(listed) <= Len(listed')
    BY <1>0, <1>4 DEF SetDefault
  <2>2. thread' \in [Threads -> Registrations']
    BY <1>4, <2>0, <2>1 DEF SetDefault, Registrations, Registering
  <2>3. admin' \in Administration'
    BY <1>4, <2>1, AdministrationGrows DEF SetDefault
  <2> QED
    BY <1>4, <2>1, <2>2, <2>3 DEF SetDefault, Resolutions, rules, registryHistory
<1>5. CASE AppendRule(t)
  <2>0. thread[t].rule \in LimitRules /\ thread[t].list \in DOMAIN listed
    BY <1>5 DEF AppendRule, Idle
  <2>1. /\ listed' \in Seq(SUBSET LimitRules)
        /\ DOMAIN listed' = DOMAIN listed
        /\ Len(listed') = Len(listed)
    BY <1>5, <2>0 DEF AppendRule
  <2>2. thread' \in [Threads -> Registrations']
    BY <1>5, <2>1 DEF AppendRule, Registrations
  <2>3. crossed' \in [LimitRules -> BOOLEAN]
    BY <1>5, <2>0 DEF AppendRule
  <2>4. admin' \in Administration'
    BY <1>0, <1>5, <2>1, AdministrationGrows DEF AppendRule
  <2> QED  BY <1>5, <2>1, <2>2, <2>3, <2>4 DEF AppendRule, Resolutions, rules
<1> QED  BY <1>1, <1>2, <1>3, <1>4, <1>5 DEF Registers

\* What the administrator's thread is doing.
LEMMA AdminStates ==
  ASSUME RegistryTyped
  PROVE  /\ admin.pc \in {"idle", "update", "invalidate", "switch", "remove", "pop"}
         /\ admin.pc = "idle" <=> admin = Idle
         /\ admin.pc \in {"update", "invalidate"} =>
              /\ admin.rule \in LimitRules
              /\ admin.list \in 0..Len(listed)
              /\ admin.done \subseteq LimitRules
              /\ admin.value \in Limits
              /\ admin = Updating(admin.pc, admin.rule, admin.list, admin.done, admin.value)
         /\ admin.pc \in {"switch", "remove"} =>
              /\ admin.on \in BOOLEAN
              /\ admin.list \in 0..Len(listed)
              /\ admin.done \subseteq LimitRules
              /\ admin = Switching(admin.pc, admin.on, admin.list, admin.done)
BY DEF RegistryTyped, Administration, Idle, Updating, Switching

\* What a loop has still to do are rules.
LEMMA LeftAreRules ==
  ASSUME RegistryTyped, admin.pc \in {"update", "invalidate", "switch", "remove"}
  PROVE  Left \subseteq LimitRules
BY AdminStates, RulesAreRules DEF Left

\* A resolution that is noticed is a resolution.
LEMMA NoticedType ==
  ASSUME RegistryTyped, NEW rule
  PROVE  Noticed(rule) \in Resolutions
BY DEF RegistryTyped, Noticed, Resolutions, Idle

\* A call of the manager keeps the types.
LEMMA AdminTypes ==
  ASSUME RegistryTyped, Administers
  PROVE  RegistryTyped'
<1> USE DEF RegistryTyped
<1>0. /\ DOMAIN listed = 1..Len(listed) /\ Len(listed) \in Nat
      /\ Get \subseteq LimitRules
  BY RulesAreRules DEF Get
<1>1. ASSUME NEW value \in Limits, SetLimit(value)  PROVE RegistryTyped'
  <2>1. PICK rule \in LimitRules, list \in {0, current} :
          admin' = Updating("update", rule, list, {rule}, value)
    BY <1>1 DEF SetLimit
  <2>2. admin' \in Administration
    BY <1>0, <2>1 DEF Administration, Updating
  <2>3. edits' \in 0..MaxEdits
    BY RegistryAssumption, <1>1 DEF SetLimit, Edits
  <2> QED
    BY <1>1, <2>2, <2>3
    DEF SetLimit, Registrations, Administration, Resolutions, rules, registry,
        registryHistory
<1>2. CASE Update
  <2>0. /\ admin.rule \in LimitRules
        /\ admin.list \in 0..Len(listed)
        /\ admin.done \in SUBSET LimitRules
        /\ admin.value \in Limits
        /\ admin = Updating("update", admin.rule, admin.list, admin.done, admin.value)
    BY <1>2, AdminStates DEF Update
  <2>1. admin.rule \in LimitRules /\ admin.value \in Limits /\ admin' \in Administration
    <3>1. admin' = Updating("invalidate", admin.rule, admin.list, admin.done, admin.value)
      BY <1>2, <2>0 DEF Update, Updating
    <3> QED  BY <2>0, <3>1 DEF Administration, Updating
  <2>2. eval' \in Resolutions
    BY <1>2, NoticedType DEF Update
  <2>3. limit' \in [LimitRules -> Limits]
    BY <1>2, <2>1 DEF Update, Assigned
  <2> QED
    BY <1>2, <2>1, <2>2, <2>3
    DEF Update, Assigned, Registrations, Administration, Resolutions, registry
<1>3. CASE Invalidate
  <2>1. /\ admin.rule \in LimitRules
        /\ admin.list \in 0..Len(listed)
        /\ admin.done \subseteq LimitRules
        /\ admin.value \in Limits
        /\ Left \subseteq LimitRules
    BY <1>3, AdminStates, LeftAreRules DEF Invalidate
  <2>2. admin' \in Administration
    <3>1. CASE admin' = Idle
      BY <3>1 DEF Administration
    <3>2. ASSUME NEW rule \in Left,
                 admin' = Updating("update", rule, admin.list, admin.done \cup {rule},
                                   admin.value)
          PROVE  admin' \in Administration
      BY <2>1, <3>2 DEF Administration, Updating
    <3> QED  BY <1>3, <3>1, <3>2 DEF Invalidate
  <2>3. eval' \in Resolutions
    BY <1>3, NoticedType DEF Invalidate
  <2>4. cache' \in [LimitRules -> ParsedItems] /\ late' \in [LimitRules -> BOOLEAN]
    BY <1>3, <2>1 DEF Invalidate, Assigned, ParsedItems
  <2> QED
    BY <1>3, <2>1, <2>2, <2>3, <2>4
    DEF Invalidate, Assigned, Registrations, Administration, Resolutions,
        registry
<1>4. ASSUME Remove \/ \E on \in BOOLEAN : Switch(on)  PROVE RegistryTyped'
  <2>1. PICK kind \in {"switch", "remove"}, on \in BOOLEAN :
          admin' = Switching(kind, on, current, {})
    BY <1>4 DEF Switch, Remove
  <2>2. edits' \in 0..MaxEdits
    <3>1. edits < MaxEdits /\ edits' = edits + 1
      BY <1>4 DEF Switch, Remove, Edits
    <3> QED  BY RegistryAssumption, <3>1
  <2>3. admin' \in Administration
    BY <1>0, <2>1 DEF Switching, Administration
  <2> QED
    BY <1>4, <2>2, <2>3
    DEF Switch, Remove, OnlyAdmin, Registrations, Administration, Resolutions, rules,
        registry, registryHistory
<1>5. CASE SwitchRule \/ LoopEnds
  <2>1. /\ admin.pc \in {"switch", "remove"}
        /\ admin.on \in BOOLEAN
        /\ admin.list \in 0..Len(listed)
        /\ admin.done \subseteq LimitRules
        /\ admin = Switching(admin.pc, admin.on, admin.list, admin.done)
        /\ Left \subseteq LimitRules
    BY <1>5, AdminStates, LeftAreRules DEF SwitchRule, LoopEnds
  <2>2. CASE SwitchRule
    <3>1. PICK rule \in Left : /\ enabled' = [enabled EXCEPT ![rule] = admin.on]
                              /\ admin' = [admin EXCEPT !.done = @ \cup {rule}]
      BY <2>2 DEF SwitchRule
    <3>2. admin' = Switching(admin.pc, admin.on, admin.list, admin.done \cup {rule})
      BY <2>1, <3>1 DEF Switching
    <3>3. admin' \in Administration
      BY <2>1, <3>2 DEF Administration, Switching
    <3>4. enabled' \in [LimitRules -> BOOLEAN]
      BY <2>1, <3>1
    <3> QED
      BY <2>2, <3>3, <3>4
      DEF SwitchRule, Registrations, Administration, Resolutions, registry, registryHistory
  <2>3. CASE LoopEnds
    <3>1. admin' \in Administration
      BY <2>3 DEF LoopEnds, Administration
    <3> QED
      BY <2>3, <3>1
      DEF LoopEnds, OnlyAdmin, Registrations, Administration, Resolutions, rules,
          registry, registryHistory
  <2> QED  BY <1>5, <2>2, <2>3
<1>6. CASE Pop
  <2>1. /\ current' \in 0..Len(listed')
        /\ removed' \in [LimitRules -> BOOLEAN]
        /\ dropped' \subseteq LimitRules
        /\ admin' \in Administration
    BY <1>0, <1>6 DEF Pop, Administration
  <2> QED  BY <1>6, <2>1 DEF Pop, Registrations, Administration, Resolutions, rules
<1> QED  BY <1>1, <1>2, <1>3, <1>4, <1>5, <1>6 DEF Administers

\* What the event loop is doing.
LEMMA EvalStates ==
  ASSUME RegistryTyped
  PROVE  /\ eval.pc = "idle" <=> eval = Idle
         /\ eval # Idle => /\ eval.rule \in LimitRules /\ eval.value \in Limits
                           /\ eval.items \in ParsedItems /\ eval.edited \in BOOLEAN
                           /\ eval = Resolving(eval.pc, eval.rule, eval.value,
                                                 eval.items, eval.edited)
BY DEF RegistryTyped, Resolutions, Idle, Resolving

\* A step that only moves the resolution on keeps the types.
LEMMA EvalToType ==
  ASSUME RegistryTyped, eval.pc # "idle",
         NEW step \in {"cached", "parse", "store", "return", "done"},
         NEW value \in Limits, NEW items \in ParsedItems, EvalTo(step, value, items)
  PROVE  /\ eval' \in Resolutions' /\ eval' # Idle
         /\ eval'.pc = step /\ eval'.rule = eval.rule /\ eval'.value = value
         /\ eval'.items = items /\ eval'.edited = eval.edited
<1>1. eval.rule \in LimitRules /\ eval.edited \in BOOLEAN
  BY EvalStates
<1> QED  BY <1>1 DEF EvalTo, Resolutions, Resolving, Idle

\* The resolution alone moves on, and the cache when it is stored.
LEMMA OnlyEvalTypes ==
  ASSUME RegistryTyped, OnlyEval, eval' \in Resolutions'
  PROVE  RegistryTyped'
BY DEF RegistryTyped, OnlyEval, Registrations, Administration, rules, registry,
       registryHistory

\* A step of a resolution keeps the types.
LEMMA EvalTypes ==
  ASSUME RegistryTyped, Evaluation
  PROVE  RegistryTyped'
<1>0. /\ \A rule \in LimitRules : limit[rule] \in Limits /\ cache[rule] \in ParsedItems
      /\ NoCache \in ParsedItems /\ <<>> \in ParsedItems
      /\ \A l \in Limits : ParseMany(l.parts) \in ParsedItems
  BY DEF RegistryTyped, ParsedItems, NoCache
<1>1. ASSUME NEW rule \in LimitRules, Resolve(rule)  PROVE RegistryTyped'
  <2>1. (admin.pc = "invalidate" /\ admin.rule = rule) \in BOOLEAN
    OBVIOUS
  <2>2. eval' \in Resolutions'
    BY <1>0, <1>1, <2>1 DEF Resolve, Resolutions, Resolving
  <2> QED  BY <1>1, <2>2, OnlyEvalTypes DEF Resolve
<1>2. CASE CallLimit
  <2> DEFINE now == limit[eval.rule]
             items == IF now.callable THEN ParseMany(now.parts) ELSE <<>>
  <2>1. eval.pc # "idle" /\ now \in Limits /\ items \in ParsedItems
    BY <1>0, <1>2, EvalStates DEF CallLimit, Evaluates
  <2>2. EvalTo("done", now, items)
    BY <1>2 DEF CallLimit
  <2> HIDE DEF now, items
  <2> QED  BY <1>2, <2>1, <2>2, EvalToType, OnlyEvalTypes DEF CallLimit
<1>3. CASE LookInCache
  <2> DEFINE step == IF cache[eval.rule] = NoCache THEN "parse" ELSE "return"
  <2>1. eval.pc # "idle" /\ step \in {"parse", "return"} /\ eval.value \in Limits
    BY <1>3, EvalStates DEF LookInCache, Evaluates
  <2>2. EvalTo(step, eval.value, <<>>)
    BY <1>3 DEF LookInCache
  <2> HIDE DEF step
  <2> QED  BY <1>0, <1>3, <2>1, <2>2, EvalToType, OnlyEvalTypes DEF LookInCache
<1>4. CASE Parse
  <2> DEFINE now == limit[eval.rule]
             items == IF now.callable THEN <<>> ELSE ParseMany(now.parts)
             step == IF items = <<>> THEN "done" ELSE "store"
  <2>1. /\ eval.pc # "idle" /\ now \in Limits /\ items \in ParsedItems
        /\ step \in {"done", "store"}
    BY <1>0, <1>4, EvalStates DEF Parse, Evaluates
  <2>2. EvalTo(step, now, items)
    BY <1>4 DEF Parse
  <2> HIDE DEF now, items, step
  <2> QED  BY <1>4, <2>1, <2>2, EvalToType, OnlyEvalTypes DEF Parse
<1>5. CASE Store
  <2>1. /\ eval.pc # "idle"
        /\ eval.rule \in LimitRules
        /\ eval.items \in ParsedItems
        /\ eval.value \in Limits
    BY <1>5, EvalStates DEF Store, Evaluates
  <2>2. cache' \in [LimitRules -> ParsedItems] /\ late' \in [LimitRules -> BOOLEAN]
    BY <1>5, <2>1 DEF Store, RegistryTyped
  <2>3. eval' \in Resolutions'
    BY <1>0, <1>5, <2>1, EvalToType DEF Store
  <2> QED
    BY <1>5, <2>2, <2>3
    DEF Store, RegistryTyped, Registrations, Administration, registry
<1>6. CASE Return
  <2>1. eval.pc # "idle" /\ eval.value \in Limits /\ cache[eval.rule] \in ParsedItems
    BY <1>0, <1>6, EvalStates DEF Return, Evaluates
  <2> QED  BY <1>6, <2>1, EvalToType, OnlyEvalTypes DEF Return
<1>7. CASE Done
  <2>1. eval' \in Resolutions'
    BY <1>7 DEF Done, Resolutions
  <2> QED  BY <1>7, <2>1, OnlyEvalTypes DEF Done
<1> QED  BY <1>1, <1>2, <1>3, <1>4, <1>5, <1>6, <1>7 DEF Evaluation

-----------------------------------------------------------------------------
(* Caches and resolutions.                                                 *)

\* The threads that register touch no limit, no cache and no resolution.
LEMMA ThreadCaches ==
  ASSUME CacheInv, EvalInv, NEW t, Registers(t)
  PROVE  CacheInv' /\ EvalInv'
<1>1. UNCHANGED <<limit, cache, admin, eval, late>>
  BY DEF Registers, Register, See, Look, SetDefault, AppendRule, rules, registryHistory
<1> QED  BY <1>1 DEF CacheInv, EvalInv, Undisturbed, Halfway

\* An edit is noticed by the resolution of its rule, and by no other.
LEMMA NoticedIs ==
  ASSUME RegistryTyped, NEW rule, eval' = Noticed(rule)
  PROVE  /\ eval' = Idle <=> eval = Idle
         /\ eval # Idle => /\ eval'.pc = eval.pc /\ eval'.rule = eval.rule
                           /\ eval'.value = eval.value /\ eval'.items = eval.items
                           /\ eval'.edited <=> eval.edited \/ eval.rule = rule
BY DEF RegistryTyped, Noticed, Resolutions, Idle

\* A call of the manager keeps what the invariant says of the cache.
LEMMA AdminCaches ==
  ASSUME RegistryTyped, CacheInv, EvalInv, Administers
  PROVE  CacheInv' /\ EvalInv'
<1>1. ASSUME admin.pc # "invalidate", admin'.pc # "invalidate",
             UNCHANGED <<limit, cache, eval, late>>
      PROVE  CacheInv' /\ EvalInv'
  BY <1>1 DEF CacheInv, EvalInv, Undisturbed, Halfway
<1>2. ASSUME NEW value \in Limits, SetLimit(value)  PROVE CacheInv' /\ EvalInv'
  <2>1. admin.pc = "idle" /\ admin'.pc = "update"
    BY <1>2 DEF SetLimit, Edits, Updating, Idle
  <2> QED  BY <1>1, <1>2, <2>1 DEF SetLimit, rules, registryHistory
<1>3. CASE Update
  <2>1. /\ admin.pc = "update" /\ admin.rule \in LimitRules /\ admin.value \in Limits
        /\ admin'.pc = "invalidate" /\ admin'.rule = admin.rule
    BY <1>3, AdminStates DEF Update, Updating
  <2>2. /\ \A rule \in LimitRules : rule # admin.rule => limit'[rule] = limit[rule]
        /\ UNCHANGED <<cache, late>>
    BY <1>3 DEF Update, Assigned, RegistryTyped
  <2>3. CacheInv'
    BY <2>1, <2>2 DEF CacheInv, Halfway
  <2>4. EvalInv'
    <3> SUFFICES ASSUME eval # Idle
                 PROVE  /\ eval'.pc = "store" => eval'.items = ParseMany(eval'.value.parts)
                        /\ eval'.edited \/ Undisturbed'
      BY <1>3, NoticedIs DEF Update, EvalInv
    <3>1. /\ eval'.pc = eval.pc /\ eval'.rule = eval.rule
          /\ eval'.value = eval.value /\ eval'.items = eval.items
          /\ eval'.edited <=> eval.edited \/ eval.rule = admin.rule
      <4>1. eval' = Noticed(admin.rule)  BY <1>3 DEF Update
      <4> QED  BY <4>1, NoticedIs
    <3>2. eval.rule \in LimitRules  BY EvalStates
    <3> QED  BY <2>1, <2>2, <3>1, <3>2 DEF EvalInv, Undisturbed, Halfway
  <2> QED  BY <2>3, <2>4
<1>4. CASE Invalidate
  <2>1. /\ admin.pc = "invalidate" /\ admin.rule \in LimitRules
        /\ admin'.pc \in {"idle", "update"}
    BY <1>4, AdminStates DEF Invalidate, Updating, Idle
  <2>2. /\ \A rule \in LimitRules : rule # admin.rule =>
             cache'[rule] = cache[rule] /\ late'[rule] = late[rule]
        /\ cache'[admin.rule] = NoCache
        /\ UNCHANGED limit
    BY <1>4, <2>1 DEF Invalidate, Assigned, RegistryTyped
  <2>3. CacheInv'
    BY <2>1, <2>2 DEF CacheInv, Halfway
  <2>4. EvalInv'
    <3> SUFFICES ASSUME eval # Idle
                 PROVE  /\ eval'.pc = "store" => eval'.items = ParseMany(eval'.value.parts)
                        /\ eval'.edited \/ Undisturbed'
      BY <1>4, NoticedIs DEF Invalidate, EvalInv
    <3>1. /\ eval'.pc = eval.pc /\ eval'.rule = eval.rule
          /\ eval'.value = eval.value /\ eval'.items = eval.items
          /\ eval'.edited <=> eval.edited \/ eval.rule = admin.rule
      <4>1. eval' = Noticed(admin.rule)  BY <1>4 DEF Invalidate
      <4> QED  BY <4>1, NoticedIs
    <3>2. eval.rule \in LimitRules  BY EvalStates
    <3> QED  BY <2>1, <2>2, <3>1, <3>2 DEF EvalInv, Undisturbed, Halfway
  <2> QED  BY <2>3, <2>4
<1>5. ASSUME Remove \/ \E on \in BOOLEAN : Switch(on)  PROVE CacheInv' /\ EvalInv'
  <2>1. admin.pc = "idle" /\ admin'.pc \in {"switch", "remove"}
    BY <1>5 DEF Switch, Remove, Edits, Idle, Switching
  <2> QED  BY <1>1, <1>5, <2>1 DEF Switch, Remove, OnlyAdmin, rules, registryHistory
<1>6. CASE SwitchRule \/ LoopEnds
  <2>1. admin.pc # "invalidate" /\ admin'.pc # "invalidate"
    BY <1>6, AdminStates DEF SwitchRule, LoopEnds, Switching, Idle
  <2> QED  BY <1>1, <1>6, <2>1 DEF SwitchRule, LoopEnds, OnlyAdmin, rules, registryHistory
<1>7. CASE Pop
  <2>1. admin.pc = "pop" /\ admin'.pc = "idle"
    BY <1>7 DEF Pop, Idle
  <2> QED  BY <1>1, <1>7, <2>1 DEF Pop, rules
<1> QED  BY <1>2, <1>3, <1>4, <1>5, <1>6, <1>7 DEF Administers

\* A resolution that moves on disturbs nothing but itself.
LEMMA OnlyEvalCaches ==
  ASSUME CacheInv, OnlyEval
  PROVE  /\ CacheInv'
         /\ UNCHANGED <<limit, cache, late, admin>>
BY DEF CacheInv, OnlyEval, Halfway, rules, registryHistory

\* A step of a resolution keeps what the invariant says of the cache.
LEMMA EvalCaches ==
  ASSUME RegistryTyped, CacheInv, EvalInv, Evaluation
  PROVE  CacheInv' /\ EvalInv'
<1>0. /\ \A rule \in LimitRules : limit[rule] \in Limits /\ cache[rule] \in ParsedItems
      /\ \A l \in Limits : ParseMany(l.parts) \in ParsedItems /\ l.callable \in BOOLEAN
      /\ NoCache \in ParsedItems /\ <<>> \in ParsedItems
  BY RegistryAssumption DEF RegistryTyped, ParsedItems, NoCache
<1>1. ASSUME NEW rule \in LimitRules, Resolve(rule)  PROVE CacheInv' /\ EvalInv'
  <2>1. /\ eval'.rule = rule /\ eval'.value = limit[rule]
        /\ eval'.pc = IF limit[rule].callable THEN "call" ELSE "cached"
        /\ eval'.edited <=> Halfway(rule)
    BY <1>1 DEF Resolve, Resolving, Halfway
  <2>2. CacheInv' /\ UNCHANGED <<limit, cache, late, admin>>
    BY <1>1, OnlyEvalCaches DEF Resolve
  <2>3. EvalInv'
    BY <2>1, <2>2 DEF EvalInv, Undisturbed, Halfway
  <2> QED  BY <2>2, <2>3
<1>2. CASE CallLimit
  <2> DEFINE now == limit[eval.rule]
             items == IF now.callable THEN ParseMany(now.parts) ELSE <<>>
  <2>1. /\ eval.pc = "call"
        /\ eval # Idle
        /\ eval.rule \in LimitRules
        /\ now \in Limits
        /\ items \in ParsedItems
    BY <1>0, <1>2, EvalStates DEF CallLimit, Evaluates, Idle
  <2>2. EvalTo("done", now, items)
    BY <1>2 DEF CallLimit
  <2>3. CacheInv' /\ UNCHANGED <<limit, cache, late, admin>>
    BY <1>2, OnlyEvalCaches DEF CallLimit
  <2>4. /\ eval' # Idle /\ eval'.pc = "done" /\ eval'.rule = eval.rule /\ eval'.value = now
        /\ eval'.items = items /\ eval'.edited = eval.edited
    <3> HIDE DEF now, items
    <3> QED  BY <2>1, <2>2, EvalToType
  <2>5. EvalInv'
    BY <2>1, <2>3, <2>4 DEF EvalInv, Undisturbed, Halfway
  <2> QED  BY <2>3, <2>5
<1>3. CASE LookInCache
  <2> DEFINE step == IF cache[eval.rule] = NoCache THEN "parse" ELSE "return"
  <2>1. /\ eval.pc = "cached"
        /\ eval # Idle
        /\ eval.rule \in LimitRules
        /\ eval.value \in Limits
        /\ step \in {"parse", "return"}
    BY <1>3, EvalStates DEF LookInCache, Evaluates, Idle
  <2>2. EvalTo(step, eval.value, <<>>)
    BY <1>3 DEF LookInCache
  <2>3. CacheInv' /\ UNCHANGED <<limit, cache, late, admin>>
    BY <1>3, OnlyEvalCaches DEF LookInCache
  <2>4. /\ eval' # Idle
        /\ eval'.pc = step
        /\ eval'.rule = eval.rule
        /\ eval'.value = eval.value
        /\ eval'.edited = eval.edited
    <3> HIDE DEF step
    <3> QED  BY <1>0, <2>1, <2>2, EvalToType
  <2>5. EvalInv'
    BY <2>1, <2>3, <2>4 DEF EvalInv, CacheInv, Undisturbed, Halfway
  <2> QED  BY <2>3, <2>5
<1>4. CASE Parse
  <2> DEFINE now == limit[eval.rule]
             items == IF now.callable THEN <<>> ELSE ParseMany(now.parts)
             step == IF items = <<>> THEN "done" ELSE "store"
  <2>1. /\ eval.pc = "parse" /\ eval # Idle /\ eval.rule \in LimitRules /\ now \in Limits
        /\ items \in ParsedItems /\ step \in {"done", "store"}
    BY <1>0, <1>4, EvalStates DEF Parse, Evaluates, Idle
  <2>2. EvalTo(step, now, items)
    BY <1>4 DEF Parse
  <2>3. CacheInv' /\ UNCHANGED <<limit, cache, late, admin>>
    BY <1>4, OnlyEvalCaches DEF Parse
  <2>4. /\ eval' # Idle /\ eval'.pc = step /\ eval'.rule = eval.rule /\ eval'.value = now
        /\ eval'.items = items /\ eval'.edited = eval.edited
    <3> HIDE DEF now, items, step
    <3> QED  BY <2>1, <2>2, EvalToType
  <2>5. step = "store" => items = ParseMany(now.parts)
    OBVIOUS
  <2>6. ~now.callable => items = ParseMany(now.parts)
    OBVIOUS
  <2>7. EvalInv'
    BY <2>1, <2>3, <2>4, <2>5, <2>6 DEF EvalInv, Undisturbed, Halfway
  <2> QED  BY <2>3, <2>7
<1>5. CASE Store
  <2>1. /\ eval.pc = "store"
        /\ eval # Idle
        /\ eval.rule \in LimitRules
        /\ eval.value \in Limits
        /\ eval.items = ParseMany(eval.value.parts)
    BY <1>5, EvalStates DEF Store, Evaluates, Idle, EvalInv
  <2>2. /\ eval' # Idle /\ eval'.pc = "return" /\ eval'.rule = eval.rule
        /\ eval'.value = eval.value /\ eval'.edited = eval.edited
    BY <1>0, <1>5, <2>1, EvalToType DEF Store
  <2>3. /\ cache'[eval.rule] = ParseMany(eval.value.parts)
        /\ late'[eval.rule] <=> eval.value # limit[eval.rule]
        /\ \A rule \in LimitRules : rule # eval.rule =>
             cache'[rule] = cache[rule] /\ late'[rule] = late[rule]
        /\ UNCHANGED <<limit, admin>>
    BY <1>5, <2>1 DEF Store, RegistryTyped
  <2>4. CacheInv'
    BY <2>1, <2>3 DEF CacheInv, Halfway
  <2>5. EvalInv'
    BY <2>1, <2>2, <2>3 DEF EvalInv, Undisturbed, Halfway
  <2> QED  BY <2>4, <2>5
<1>6. CASE Return
  <2>1. /\ eval.pc = "return" /\ eval # Idle /\ eval.rule \in LimitRules
        /\ eval.value \in Limits /\ cache[eval.rule] \in ParsedItems
    BY <1>0, <1>6, EvalStates DEF Return, Evaluates, Idle
  <2>2. CacheInv' /\ UNCHANGED <<limit, cache, late, admin>>
    BY <1>6, OnlyEvalCaches DEF Return
  <2>3. /\ eval' # Idle /\ eval'.pc = "done" /\ eval'.rule = eval.rule
        /\ eval'.value = eval.value
        /\ eval'.items = cache[eval.rule]
        /\ eval'.edited = eval.edited
    BY <1>6, <2>1, EvalToType DEF Return
  <2>4. EvalInv'
    BY <2>1, <2>2, <2>3 DEF EvalInv, Undisturbed, Halfway
  <2> QED  BY <2>2, <2>4
<1>7. CASE Done
  <2>1. eval' = Idle /\ CacheInv'
    BY <1>7, OnlyEvalCaches DEF Done
  <2> QED  BY <2>1 DEF EvalInv
<1> QED  BY <1>1, <1>2, <1>3, <1>4, <1>5, <1>6, <1>7 DEF Evaluation

-----------------------------------------------------------------------------
(* Lists.                                                                  *)

\* A thread that registers a rule keeps what the invariant says of the lists.
LEMMA ThreadLists ==
  ASSUME RegistryTyped, ListInv, ReachInv,
         NEW t \in Threads, Registers(t)
  PROVE  ListInv' /\ ReachInv'
<1>0. /\ \A u \in Threads \ {t} : thread'[u] = thread[u]
      /\ \A u \in Threads : Holding(u)
      /\ current \in {0, Len(listed)}
  BY DEF RegistryTyped, ListInv, Registers, Register, See, Look, SetDefault,
         AppendRule
<1>l. /\ DOMAIN listed = 1..Len(listed)
      /\ Len(listed) \in Nat
      /\ listed \in Seq(SUBSET LimitRules)
      /\ current = Len(listed) => current \in Nat
  BY DEF RegistryTyped
<1>m. \A r \in seen : AtRest(r) => r \in Get \/ (removed[r] /\ Gone(r))
  BY DEF ReachInv
<1>d. ASSUME UNCHANGED <<enabled, listed, current, crossed, admin, dropped>>,
             seen \subseteq seen', \A r \in seen : removed'[r] <=> removed[r]
      PROVE  Get' \subseteq seen' /\ RemovalInv' /\ DroppedInv'
  <2>1. Get' = Get /\ Left' = Left
    BY <1>d DEF Get, Left, RulesOf
  <2>2. RemovalInv'
    BY <1>d, <2>1 DEF ListInv, RemovalInv, Gone
  <2>3. DroppedInv'
    BY <1>d, <2>1 DEF ListInv, DroppedInv
  <2> QED  BY <1>d, <2>1, <2>2, <2>3 DEF ListInv
<1>1. ASSUME NEW rule \in LimitRules, Register(t, rule)
      PROVE  ListInv' /\ ReachInv'
  <2>1. thread[t] = Idle /\ thread'[t] = Registering("see", rule, 0) /\ rule \notin seen
    BY <1>1 DEF Register, RegistryTyped
  <2>2. UNCHANGED <<enabled, listed, current, seen, removed, dropped, crossed, admin>>
    BY <1>1 DEF Register, rules, registry, registryHistory
  <2>g. Get' = Get  BY <2>2 DEF Get, RulesOf
  <2>3. \A u \in Threads : Holding(u)'
    BY <1>0, <2>1, <2>2 DEF Holding, Registering
  <2>4. ReachInv'
    <3> SUFFICES ASSUME NEW r \in seen, AtRest(r)'  PROVE r \in Get \/ (removed[r] /\ Gone(r))
      BY <2>2, <2>g DEF ReachInv, Gone
    <3>1. AtRest(r)  BY <1>0, <2>1 DEF AtRest
    <3> QED  BY <1>m, <3>1
  <2> QED  BY <1>0, <1>d, <2>2, <2>g, <2>3, <2>4 DEF ListInv
<1>2. CASE See(t)
  <2> DEFINE rule == thread[t].rule
  <2>1. /\ thread[t].pc = "see" /\ rule \in LimitRules
        /\ thread'[t] = Registering("look", rule, 0) /\ thread'[t] # Idle
        /\ seen' = seen \cup {rule}
    BY <1>2, ThreadStates DEF See, RegistryTyped, Registering, Idle
  <2>2. UNCHANGED <<enabled, listed, current, dropped, crossed, admin>>
    BY <1>2 DEF See, rules
  <2>g. Get' = Get  BY <2>2 DEF Get, RulesOf
  <2>3. \A r \in seen : removed'[r] <=> removed[r]
    BY <1>2, <2>1 DEF See, RegistryTyped
  <2>4. \A u \in Threads : Holding(u)'
    BY <1>0, <2>1, <2>2, <2>3 DEF Holding, Registering
  <2>5. ReachInv'
    <3> SUFFICES ASSUME NEW r \in seen', AtRest(r)'
                 PROVE  r \in Get' \/ (removed'[r] /\ Gone(r)')
      BY DEF ReachInv
    <3>1. r # rule /\ r \in seen
      BY <2>1 DEF AtRest, Registering
    <3>2. AtRest(r)
      BY <1>0, <2>1, <3>1 DEF AtRest
    <3> QED  BY <1>m, <2>2, <2>g, <2>3, <3>1, <3>2 DEF Gone
  <2>6. Get' \subseteq seen' /\ RemovalInv' /\ DroppedInv'
    <3>1. seen \subseteq seen'  BY <2>1
    <3> QED  BY <1>d, <2>2, <2>g, <2>3, <3>1
  <2> QED  BY <1>0, <2>2, <2>4, <2>5, <2>6 DEF ListInv
<1>3. CASE Look(t)
  <2> DEFINE rule == thread[t].rule
  <2>1. /\ thread[t].pc = "look" /\ rule \in LimitRules /\ rule \in seen
        /\ rule \in Get => thread'[t] = Idle
        /\ rule \notin Get =>
               thread'[t] = Registering("list", rule, 0) /\ thread'[t] # Idle
    BY <1>0, <1>3, ThreadStates
    DEF Look, RegistryTyped, Registering, Idle, IsListed, Holding
  <2>2. UNCHANGED <<enabled, listed, current, seen, removed, dropped, crossed, admin>>
    BY <1>3 DEF Look, rules, registry, registryHistory
  <2>g. Get' = Get  BY <2>2 DEF Get, RulesOf
  <2>3. \A u \in Threads : Holding(u)'
    <3>1. /\ thread'[t].pc \in {"idle", "list"}
          /\ thread'[t].pc = "list" => thread'[t].rule \in seen'
      BY <2>1, <2>2 DEF Registering, Idle
    <3>2. Holding(t)'  BY <3>1 DEF Holding
    <3>3. \A u \in Threads \ {t} : Holding(u)'  BY <1>0, <2>2 DEF Holding
    <3> QED  BY <3>2, <3>3
  <2>4. ReachInv'
    <3> SUFFICES ASSUME NEW r \in seen, AtRest(r)', r \notin Get
                 PROVE  removed[r] /\ Gone(r)
      BY <2>2, <2>g DEF ReachInv, Gone
    <3>1. r # rule
      BY <2>1 DEF AtRest, Registering
    <3>2. AtRest(r)
      BY <1>0, <2>1, <3>1 DEF AtRest
    <3> QED  BY <1>m, <3>2
  <2> QED  BY <1>0, <1>d, <2>2, <2>g, <2>3, <2>4 DEF ListInv
<1>4. CASE SetDefault(t)
  <2> DEFINE rule == thread[t].rule
  <2>1. /\ thread[t].pc = "list" /\ rule \in LimitRules /\ rule \in seen
        /\ thread'[t] = Registering("append", rule, current') /\ thread'[t] # Idle
    BY <1>0, <1>4, ThreadStates DEF SetDefault, RegistryTyped, Registering, Idle, Holding
  <2>2. UNCHANGED <<enabled, seen, removed, dropped, crossed, admin>>
    BY <1>4 DEF SetDefault, rules, registryHistory
  <2>3. /\ current' = Len(listed')
        /\ current # 0 => current' = current /\ listed' = listed /\ Get' = Get
        /\ current = 0 => current' = Len(listed) + 1 /\ Get' = {} /\ Get = {}
    <3>1. /\ listed' = IF current = 0 THEN Append(listed, {}) ELSE listed
          /\ current' = Len(listed')
      BY <1>4 DEF SetDefault
    <3>2. CASE current # 0
      <4>1. listed' = listed /\ current' = current
        BY <1>0, <3>1, <3>2
      <4> QED  BY <3>1, <3>2, <4>1 DEF Get, RulesOf
    <3>3. CASE current = 0
      <4>1. Len(listed') = Len(listed) + 1 /\ listed'[Len(listed) + 1] = {}
        BY <1>l, <3>1, <3>3
      <4>2. current' = Len(listed) + 1 /\ current' # 0
        BY <1>l, <3>1, <4>1
      <4> QED  BY <3>1, <3>3, <4>1, <4>2 DEF Get, RulesOf
    <3> QED  BY <3>2, <3>3
  <2>4. \A u \in Threads : Holding(u)'
    <3> SUFFICES ASSUME NEW u \in Threads \ {t}, thread[u].pc = "append",
                        thread[u].list # current'
                 PROVE  removed[thread[u].rule]
      <4>1. Holding(t)'
        BY <2>1, <2>2 DEF Holding, Registering
      <4> QED  BY <1>0, <2>2, <4>1 DEF Holding
    <3>1. thread[u].list # current
      <4>1. thread[u].list \in 1..Len(listed)
        BY <1>l, ThreadStates
      <4>2. CASE current = 0
        BY <4>1, <4>2
      <4>3. CASE current # 0
        BY <2>3, <4>3
      <4> QED  BY <4>2, <4>3
    <3> QED  BY <1>0, <3>1 DEF Holding
  <2>5. ReachInv'
    <3> SUFFICES ASSUME NEW r \in seen, AtRest(r)'
                 PROVE  r \in Get' \/ (removed[r] /\ Gone(r))
      BY <2>2 DEF ReachInv, Gone
    <3>1. r # rule
      BY <2>1 DEF AtRest, Registering
    <3>2. AtRest(r)
      BY <1>0, <2>1, <3>1 DEF AtRest
    <3> QED  BY <1>m, <2>3, <3>2
  <2>6. Get' \subseteq seen' /\ RemovalInv' /\ DroppedInv'
    <3>1. CASE current # 0
      BY <1>d, <2>2, <2>3, <3>1
    <3>2. CASE current = 0
      <4>1. Get = {} /\ Get' = {}
        BY <2>3, <3>2
      <4>2. admin.pc = "remove" => ~admin.on /\ admin.done = {}
        BY <4>1 DEF ListInv, RemovalInv
      <4>3. admin.pc \in {"switch", "remove"} => admin.list = 0
        BY <3>2 DEF ListInv, RemovalInv
      <4> QED  BY <2>2, <4>1, <4>2, <4>3 DEF ListInv, RemovalInv, DroppedInv
    <3> QED  BY <3>1, <3>2
  <2> QED  BY <2>2, <2>3, <2>4, <2>5, <2>6 DEF ListInv
<1>5. CASE AppendRule(t)
  <2> DEFINE rule == thread[t].rule
             list == thread[t].list
  <2>1. /\ thread[t].pc = "append"
        /\ rule \in LimitRules
        /\ rule \in seen
        /\ list \in DOMAIN listed
        /\ thread'[t] = Idle
        /\ list # current => removed[rule]
    BY <1>0, <1>5, ThreadStates DEF AppendRule, RegistryTyped, Idle, Holding
  <2>2. UNCHANGED <<enabled, seen, removed, dropped, admin, current>> /\ Len(listed') = Len(listed)
    BY <1>0, <1>l, <1>5, <2>1 DEF AppendRule, rules
  <2>3. /\ list = current => Get' = Get \cup {rule}
        /\ list # current => Get' = Get
    BY <1>l, <1>5, <2>1 DEF AppendRule, Get, RulesOf
  <2>4. /\ \A r \in LimitRules : crossed[r] => crossed'[r]
        /\ list # current \/ Missed(list) \/ rule \in dropped => crossed'[rule]
    BY <1>5, <2>1 DEF AppendRule, RegistryTyped
  <2>5. \A u \in Threads : Holding(u)'
    <3>1. Holding(t)'  BY <2>1 DEF Holding, Idle
    <3>2. \A u \in Threads \ {t} : Holding(u)'  BY <1>0, <2>2 DEF Holding
    <3> QED  BY <3>1, <3>2
  <2>6. Get' \subseteq seen' /\ RemovalInv' /\ DroppedInv'
    <3>1. Get \subseteq LimitRules /\ dropped \subseteq LimitRules
      <4>1. current \in 0..Len(listed)  BY DEF RegistryTyped
      <4> QED  BY <4>1, RulesAreRules DEF Get, RegistryTyped
    <3>2. \A r \in LimitRules : Gone(r) => Gone(r)'
      BY <2>2, <2>4 DEF Gone
    <3>3. Get' \subseteq Get \cup {rule} /\ Get \subseteq Get'
      BY <2>3
    <3>4. Get' \subseteq seen'
      BY <2>1, <2>2, <3>3 DEF ListInv
    <3>5. DroppedInv'
      <4> SUFFICES ASSUME NEW r \in dropped, r \in Get'  PROVE crossed'[r]
        BY <2>2 DEF ListInv, DroppedInv
      <4>1. CASE r \in Get
        BY <2>4, <3>1, <4>1 DEF ListInv, DroppedInv
      <4>2. CASE r = rule
        BY <2>4, <4>2
      <4> QED  BY <3>3, <4>1, <4>2
    <3>6. ASSUME admin.pc = "pop", NEW r \in Get'  PROVE Gone(r)'
      <4>1. CASE r \in Get
        BY <3>1, <3>2, <3>6, <4>1 DEF ListInv, RemovalInv
      <4>2. CASE r = rule
        BY <2>4, <3>6, <4>2 DEF Missed, Gone
      <4> QED  BY <3>3, <3>6, <4>1, <4>2
    <3>7. ASSUME admin.pc = "remove", NEW r \in Get'  PROVE r \in Left' \/ Gone(r)'
      <4>0. /\ admin.list \in {0, current} /\ admin.done \subseteq Get
            /\ \A q \in Get : q \in Left \/ Gone(q)
        BY <3>7 DEF ListInv, RemovalInv
      <4>1. CASE r \in Get
        <5>1. r \in Left => r \in Left'
          BY <2>2, <3>3, <4>0 DEF Left, Get, RulesOf
        <5> QED  BY <3>1, <3>2, <4>0, <4>1, <5>1
      <4>2. CASE r = rule /\ r \notin Get
        <5>1. CASE admin.list = list
          <6>1. list = current /\ list # 0
            <7>1. list = current  BY <2>3, <3>7, <4>2
            <7>2. list # 0  BY <1>l, <2>1
            <7> QED  BY <7>1, <7>2
          <6>2. r \notin admin.done
            BY <4>0, <4>2
          <6> QED  BY <2>2, <3>7, <5>1, <6>1, <6>2 DEF Left, Get
        <5>2. CASE admin.list # list
          BY <2>4, <3>7, <4>2, <5>2 DEF Missed, Gone
        <5> QED  BY <5>1, <5>2
      <4> QED  BY <3>3, <3>7, <4>1, <4>2
    <3>8. RemovalInv'
      <4>1. admin.pc = "remove" => ~admin.on /\ admin.done \subseteq Get'
        BY <3>3 DEF ListInv, RemovalInv
      <4>2. admin.pc \in {"switch", "remove"} => admin.list \in {0, current}
        BY DEF ListInv, RemovalInv
      <4> QED  BY <2>2, <3>6, <3>7, <4>1, <4>2 DEF RemovalInv
    <3> QED  BY <3>4, <3>5, <3>8
  <2>7. ReachInv'
    <3> SUFFICES ASSUME NEW r \in seen, AtRest(r)', r \notin Get'
                 PROVE  removed[r] /\ Gone(r)'
      BY <2>2 DEF ReachInv
    <3>1. CASE r = rule
      BY <2>1, <2>3, <2>4, <3>1 DEF Gone
    <3>2. CASE r # rule
      <4>1. AtRest(r) /\ r \notin Get
        BY <1>0, <2>1, <2>3, <3>2 DEF AtRest
      <4>2. r \in LimitRules  BY DEF RegistryTyped
      <4> QED  BY <1>m, <2>2, <2>4, <4>1, <4>2 DEF Gone
    <3> QED  BY <3>1, <3>2
  <2> QED  BY <1>0, <2>2, <2>5, <2>6, <2>7 DEF ListInv
<1> QED  BY <1>1, <1>2, <1>3, <1>4, <1>5 DEF Registers

\* A call of the manager keeps what the invariant says of the lists.
LEMMA AdminLists ==
  ASSUME RegistryTyped, ListInv, ReachInv, Administers
  PROVE  ListInv' /\ ReachInv'
<1>0. ASSUME UNCHANGED <<enabled, registry, thread, removed, dropped, crossed>>, RemovalInv'
      PROVE  ListInv' /\ ReachInv'
  <2>1. Get' = Get  BY <1>0 DEF Get, RulesOf, registry
  <2> QED
    BY <1>0, <2>1 DEF ListInv, Holding, DroppedInv, ReachInv, AtRest, Gone, registry
<1>1. ASSUME NEW value \in Limits, SetLimit(value)  PROVE ListInv' /\ ReachInv'
  <2>1. admin'.pc = "update"
    BY <1>1 DEF SetLimit, Updating
  <2>2. RemovalInv'  BY <2>1 DEF RemovalInv
  <2> QED  BY <1>0, <1>1, <2>2 DEF SetLimit, rules, registryHistory
<1>2. CASE Update
  <2>1. admin'.pc = "invalidate"
    BY <1>2, AdminStates DEF Update, Updating
  <2>2. RemovalInv'  BY <2>1 DEF RemovalInv
  <2> QED  BY <1>0, <1>2, <2>2 DEF Update
<1>3. CASE Invalidate
  <2>1. admin'.pc \in {"idle", "update"}
    BY <1>3 DEF Invalidate, Updating, Idle
  <2>2. RemovalInv'  BY <2>1 DEF RemovalInv
  <2> QED  BY <1>0, <1>3, <2>2 DEF Invalidate
<1>4. ASSUME Remove \/ \E on \in BOOLEAN : Switch(on)  PROVE ListInv' /\ ReachInv'
  <2>1. UNCHANGED <<enabled, registry, thread, removed, dropped, crossed, listed, current>>
    BY <1>4 DEF Switch, Remove, OnlyAdmin, rules, registry, registryHistory
  <2>2. /\ admin'.list = current
        /\ admin'.pc = "remove" => ~admin'.on /\ admin'.done = {}
        /\ admin'.pc # "pop"
    BY <1>4 DEF Switch, Remove, Switching
  <2>3. RemovalInv'
    BY <2>1, <2>2 DEF RemovalInv, Left, Get, RulesOf
  <2> QED  BY <1>0, <2>1, <2>3
<1>5. CASE SwitchRule
  <2>1. PICK rule \in Left : /\ enabled' = [enabled EXCEPT ![rule] = admin.on]
                            /\ admin' = [admin EXCEPT !.done = @ \cup {rule}]
    BY <1>5 DEF SwitchRule
  <2>2. /\ admin.pc \in {"switch", "remove"}
        /\ UNCHANGED <<listed, current, seen, thread, removed, dropped, crossed>>
        /\ Get' = Get
    BY <1>5 DEF SwitchRule, registry, registryHistory, Get, RulesOf
  <2>3. admin = Switching(admin.pc, admin.on, admin.list, admin.done) /\ admin.on \in BOOLEAN
    BY <2>2, AdminStates
  <2>4. admin' = Switching(admin.pc, admin.on, admin.list, admin.done \cup {rule})
    BY <2>1, <2>3 DEF Switching
  <2>5. /\ admin'.pc = admin.pc /\ admin'.on = admin.on /\ admin'.list = admin.list
        /\ admin'.done = admin.done \cup {rule}
    BY <2>4 DEF Switching
  <2>6. rule \in Get /\ rule \in LimitRules
    <3>1. admin.list \in {0, current}
      BY <2>2 DEF ListInv, RemovalInv
    <3>2. Left \subseteq LimitRules
      BY <2>2, LeftAreRules
    <3> QED  BY <3>1, <3>2 DEF Left, Get, RulesOf
  <2>7. /\ enabled'[rule] = admin.on
        /\ \A r \in LimitRules \ {rule} : enabled'[r] = enabled[r]
    BY <2>1, <2>6 DEF RegistryTyped
  <2>8. seen \subseteq LimitRules /\ Get \subseteq LimitRules
    BY RulesAreRules DEF RegistryTyped, Get
  <2>9. RemovalInv'
    <3>1. admin'.pc # "pop" /\ admin'.list \in {0, current'}
      BY <2>2, <2>5 DEF ListInv, RemovalInv
    <3>2. ASSUME admin.pc = "remove"
          PROVE  /\ ~admin'.on
                 /\ admin'.done \subseteq Get'
                 /\ \A r \in Get' : r \in Left' \/ Gone(r)'
      <4>1. ~admin.on /\ admin.done \subseteq Get /\ \A r \in Get : r \in Left \/ Gone(r)
        BY <3>2 DEF ListInv, RemovalInv
      <4>2. Left' = Left \ {rule}
        BY <2>2, <2>5 DEF Left, RulesOf
      <4>3. Gone(rule)'
        BY <2>7, <4>1, <2>5 DEF Gone
      <4>4. \A r \in Get : Gone(r) => Gone(r)'
        BY <2>2, <2>7, <2>8, <4>3 DEF Gone
      <4> QED  BY <2>2, <2>5, <2>6, <4>1, <4>2, <4>3, <4>4
    <3> QED  BY <2>5, <3>1, <3>2 DEF RemovalInv
  <2>10. ListInv'
    BY <2>2, <2>9 DEF ListInv, Holding, DroppedInv
  <2>11. ReachInv'
    <3> SUFFICES ASSUME NEW r \in seen, AtRest(r), r \notin Get
                 PROVE  removed[r] /\ Gone(r)'
      BY <2>2 DEF ReachInv, AtRest
    <3>1. removed[r] /\ Gone(r)
      BY DEF ReachInv
    <3> QED  BY <2>2, <2>6, <2>7, <2>8, <3>1 DEF Gone
  <2> QED  BY <2>10, <2>11
<1>6. CASE LoopEnds
  <2>1. /\ UNCHANGED <<enabled, registry, thread, removed, dropped, crossed, listed, current>>
        /\ Left = {}
        /\ admin'.pc \in {"idle", "pop"}
        /\ admin'.pc = "pop" => admin.pc = "remove"
    BY <1>6 DEF LoopEnds, OnlyAdmin, rules, registry, registryHistory, Idle
  <2>2. RemovalInv'
    BY <2>1 DEF ListInv, RemovalInv, Get, RulesOf, Gone
  <2> QED  BY <1>0, <2>1, <2>2
<1>7. CASE Pop
  <2>1. /\ admin.pc = "pop" /\ admin'.pc = "idle" /\ current' = 0
        /\ Get' = {}
        /\ dropped' = dropped \cup Get
    BY <1>7 DEF Pop, Idle, Get, RulesOf
  <2>2. UNCHANGED <<enabled, listed, seen, thread, crossed>>
    BY <1>7 DEF Pop, rules
  <2>3. seen \subseteq LimitRules /\ \A rule \in seen : removed'[rule]
    BY <1>7 DEF Pop, RegistryTyped
  <2>4. \A t \in Threads : Holding(t)'
    BY <2>2, <2>3 DEF ListInv, Holding
  <2>5. RemovalInv' /\ DroppedInv'
    BY <2>1, <2>2, <2>3 DEF ListInv, RemovalInv, DroppedInv
  <2>6. ReachInv'
    BY <2>1, <2>2, <2>3 DEF ListInv, RemovalInv, ReachInv, AtRest, Gone
  <2> QED  BY <2>1, <2>4, <2>5, <2>6 DEF ListInv
<1> QED  BY <1>1, <1>2, <1>3, <1>4, <1>5, <1>6, <1>7 DEF Administers

\* Resolutions touch no list and enable nothing.
LEMMA EvalLists ==
  ASSUME ListInv, ReachInv, Evaluation
  PROVE  ListInv' /\ ReachInv'
<1>1. UNCHANGED <<enabled, listed, current, seen, thread, admin, removed, dropped, crossed>>
  BY DEF Evaluation, Resolve, CallLimit, LookInCache, Parse, Store, Return,
         Done, OnlyEval, rules, registry, registryHistory
<1>2. Get' = Get  BY <1>1 DEF Get, RulesOf
<1> QED
  BY <1>1, <1>2
  DEF ListInv, Holding, RemovalInv, DroppedInv, ReachInv, AtRest, Gone, Left, RulesOf

-----------------------------------------------------------------------------

RegistryInv == RegistryTyped /\ CacheInv /\ EvalInv /\ ListInv /\ ReachInv

\* The invariant of the registry holds in every reachable state.
LEMMA RegistryInvariant ==
  RegistrySpec => []RegistryInv
<1>1. RegistryInit => RegistryInv
  <2> SUFFICES ASSUME RegistryInit  PROVE ReachInv
    BY RegistryStarts DEF RegistryInv
  <2>1. Decorated # {} => Get = Decorated
    BY DEF RegistryInit, Get, RulesOf
  <2> QED  BY <2>1 DEF RegistryInit, ReachInv
<1>2. RegistryInv /\ [RegistryNext]_registryVars => RegistryInv'
  <2> SUFFICES ASSUME RegistryInv, [RegistryNext]_registryVars  PROVE RegistryInv'
    OBVIOUS
  <2>1. ASSUME NEW t \in Threads, Registers(t)  PROVE RegistryInv'
    BY <2>1, ThreadTypes, ThreadCaches, ThreadLists DEF RegistryInv
  <2>2. CASE Administers
    BY <2>2, AdminTypes, AdminCaches, AdminLists DEF RegistryInv
  <2>3. CASE Evaluation
    BY <2>3, EvalTypes, EvalCaches, EvalLists DEF RegistryInv
  <2>4. CASE UNCHANGED registryVars
    <3>1. UNCHANGED <<limit, cache, enabled, listed, current, seen, thread, admin, eval, edits,
                      late, removed, dropped, crossed>>
      BY <2>4 DEF registryVars, rules, registry, registryHistory
    <3>2. RegistryTyped'
      BY <3>1 DEF RegistryInv, RegistryTyped, Registrations, Administration, Resolutions
    <3>3. Get' = Get  BY <3>1 DEF Get, RulesOf
    <3>4. CacheInv' /\ EvalInv'
      BY <3>1 DEF RegistryInv, CacheInv, EvalInv, Undisturbed, Halfway
    <3>5. ListInv' /\ ReachInv'
      BY <3>1, <3>3
      DEF RegistryInv, ListInv, Holding, RemovalInv, DroppedInv, ReachInv, AtRest, Gone,
          Left, RulesOf
    <3> QED  BY <3>2, <3>4, <3>5 DEF RegistryInv
  <2> QED  BY <2>1, <2>2, <2>3, <2>4, RegistrySteps
<1> QED  BY <1>1, <1>2, PTL DEF RegistrySpec

\* The fields of the rules, the lists of the registry and what the threads, the
\* administrator and the event loop do keep their types, and every item that
\* resolve_items caches has a positive amount and window.
THEOREM RegistryTypes ==
  RegistrySpec => []RegistryTypeOK
<1>1. RegistryInv => RegistryTypeOK
  BY TypesSuffice DEF RegistryInv
<1> QED  BY <1>1, RegistryInvariant, PTL

\* resolve_items gives the items of the rule's limit, unless the rule was edited
\* in the course of it or an evaluation stored what it had parsed before an edit.
THEOREM RegistryAnswers ==
  RegistrySpec => []AnswersTheLimit
<1>1. RegistryInv => AnswersTheLimit
  <2> SUFFICES ASSUME RegistryInv, eval.pc = "done", ~eval.edited, ~late[eval.rule]
               PROVE  eval.items = ParseMany(limit[eval.rule].parts)
    BY DEF AnswersTheLimit, Evaluates
  <2>1. eval # Idle  BY DEF Idle
  <2> QED  BY <2>1 DEF RegistryInv, EvalInv, Undisturbed
<1> QED  BY <1>1, RegistryInvariant, PTL

\* A rule that is registered stays reachable by its name until the name is
\* removed, and is then disabled and in no list, unless it was appended in the
\* course of that or again after it.
THEOREM RegistryManages ==
  RegistrySpec => []ManagedUntilRemoved
<1>1. RegistryInv => ManagedUntilRemoved
  BY DEF RegistryInv, ReachInv, AtRest, ListInv, DroppedInv, Gone, ManagedUntilRemoved
<1> QED  BY <1>1, RegistryInvariant, PTL
=============================================================================
