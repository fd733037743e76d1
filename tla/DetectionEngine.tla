-------------------------- MODULE DetectionEngine --------------------------
(***************************************************************************)
(* PulsarEngine::process (rules-engine/src/engine.rs) driven by the event  *)
(* bus.  Sensors publish observed events on the bus; engine callers take   *)
(* events off the bus one at a time and run process() on them; every      *)
(* matching rule makes process() publish one derived threat event on the   *)
(* same bus, where it is delivered back to the engine like any other      *)
(* event.  The compiled rulesets are immutable after PulsarEngine::new, so *)
(* they are set in Init and no action writes them.                        *)
(*                                                                         *)
(* The bus is kept as a history (an immutable queue with the read cursor   *)
(* next), so that properties can relate a derived event to its trigger.   *)
(***************************************************************************)
EXTENDS Naturals, Sequences, FiniteSets

CONSTANTS
  Keys,          \* PayloadDiscriminant values
  Payloads,      \* abstract event payloads
  Discriminant,  \* PayloadDiscriminant::from, a total function Payloads -> Keys
  Rules,         \* compiled rules (validatron::Rule), by identity
  Names,         \* rule names (UserRule.name, copied into Rule.name)
  Name,          \* Name[r]: the name of rule r; names need not be unique
  Rulesets,      \* the HashMap<PayloadDiscriminant, Ruleset> new() built
  Condition,     \* Condition[r]: the payloads rule r's predicate accepts
  Workers,       \* concurrent callers of process()
  MaxObserved,   \* bound on events the sensors publish
  NoThreat       \* header.threat = None

ASSUME Discriminant \in [Payloads -> Keys]
ASSUME /\ DOMAIN Rulesets \subseteq Keys
       /\ \A k \in DOMAIN Rulesets : Rulesets[k] \in Seq(Rules) \ {<<>>}
ASSUME Condition \in [Rules -> SUBSET Payloads]
ASSUME Name \in [Rules -> Names]
ASSUME NoThreat \notin Names /\ Workers # {} /\ MaxObserved \in Nat \ {0}

\* Every event is either observed or derived from one earlier event; an
\* event derives at most one threat per rule.
BusBound == MaxObserved * (1 + Cardinality(Rules))

\* An event: its payload, header.threat (the name of the rule that raised
\* it, or NoThreat) and, for a derived event, the bus index of its trigger (0 for
\* an observed event).
Event == [payload : Payloads, threat : Names \cup {NoThreat}, trigger : 0..BusBound]

VARIABLES
  rulesets,  \* internal.rulesets, read-only once PulsarEngine::new returned
  bus,       \* every event published so far, in publication order
  next,      \* index of the next bus event to hand to process()
  cur,       \* cur[w]: bus index of the event worker w is matching, 0 if idle
  idx,       \* idx[w]: position in the ruleset of the rule w evaluates next
  observed,  \* number of events the sensors have published
  done       \* bus indices whose process() call has returned

vars == <<rulesets, bus, next, cur, idx, observed, done>>

-----------------------------------------------------------------------------
(* The environment: a sensor publishes an observed (non-threat) event.     *)
Observe(p) ==
  /\ observed < MaxObserved
  /\ bus' = Append(bus, [payload |-> p, threat |-> NoThreat, trigger |-> 0])
  /\ observed' = observed + 1
  /\ UNCHANGED <<rulesets, next, cur, idx, done>>

(* The check at the top of process(): only non-threat events whose         *)
(* discriminant has a ruleset are matched.                                 *)
AcceptsAnyHeader(e) == Discriminant[e.payload] \in DOMAIN rulesets

Accepts(e) ==
  /\ e.threat = NoThreat
  /\ Discriminant[e.payload] \in DOMAIN rulesets

RulesetFor(e) == rulesets[Discriminant[e.payload]]

(* process(event) begins: a threat event, or one with no ruleset, returns  *)
(* at once; otherwise the worker starts iterating ruleset.matches(event).  *)
ProcessStart(w) ==
  /\ cur[w] = 0
  /\ next <= Len(bus)
  /\ next' = next + 1
  /\ \/ /\ Accepts(bus[next])
        /\ cur' = [cur EXCEPT ![w] = next]
        /\ idx' = [idx EXCEPT ![w] = 1]
        /\ UNCHANGED done
     \/ /\ ~Accepts(bus[next])
        /\ done' = done \cup {next}
        /\ UNCHANGED <<cur, idx>>
  /\ UNCHANGED <<rulesets, bus, observed>>

\* Mutant helper: the loop leaves before the last rule of the ruleset.
LoopEndsEarly(w) == idx[w] >= Len(RulesetFor(bus[cur[w]])) - 1

LoopEnds(w) == idx[w] = Len(RulesetFor(bus[cur[w]]))

(* Move past the rule just evaluated; after the last one process() returns.*)
Advance(w) ==
  \/ /\ LoopEnds(w)
     /\ cur' = [cur EXCEPT ![w] = 0]
     /\ idx' = [idx EXCEPT ![w] = 0]
     /\ done' = done \cup {cur[w]}
  \/ /\ ~LoopEnds(w)
     /\ idx' = [idx EXCEPT ![w] = @ + 1]
     /\ UNCHANGED <<cur, done>>

CurrentRule(w) == RulesetFor(bus[cur[w]])[idx[w]]

(* The current rule matches: send_threat_derived(event, rule.name.clone(), *)
(* None) publishes a copy of the event whose header carries the rule name. *)
Emit(w) ==
  LET e == bus[cur[w]] IN
  /\ cur[w] # 0
  /\ e.payload \in Condition[CurrentRule(w)]
  /\ bus' = Append(bus, [payload |-> e.payload, threat |-> Name[CurrentRule(w)],
                         trigger |-> cur[w]])
  /\ Advance(w)
  /\ UNCHANGED <<rulesets, next, observed>>

\* Mutant helper: a non-matching rule does not move the iterator on.
PassStuck(w) ==
  /\ cur[w] # 0
  /\ bus[cur[w]].payload \notin Condition[CurrentRule(w)]
  /\ UNCHANGED vars

(* The current rule does not match: nothing is sent.                       *)
Pass(w) ==
  /\ cur[w] # 0
  /\ bus[cur[w]].payload \notin Condition[CurrentRule(w)]
  /\ Advance(w)
  /\ UNCHANGED <<rulesets, bus, next, observed>>

Init ==
  /\ rulesets = Rulesets
  /\ bus = <<>>
  /\ next = 1
  /\ cur = [w \in Workers |-> 0]
  /\ idx = [w \in Workers |-> 0]
  /\ observed = 0
  /\ done = {}

Next ==
  \/ \E p \in Payloads : Observe(p)
  \/ \E w \in Workers : ProcessStart(w) \/ Emit(w) \/ Pass(w)

(* The engine callers are tasks that the runtime keeps scheduling while    *)
(* events wait on the bus, and process() is synchronous and never blocks:  *)
(* weak fairness for every worker.  The sensors get no fairness.           *)
Fairness == \A w \in Workers : WF_vars(ProcessStart(w) \/ Emit(w) \/ Pass(w))

Spec == Init /\ [][Next]_vars /\ Fairness

-----------------------------------------------------------------------------
TypeOK ==
  /\ DOMAIN rulesets \subseteq Keys
  /\ bus \in Seq(Event)
  /\ Len(bus) <= BusBound
  /\ next \in 1..Len(bus) + 1
  /\ cur \in [Workers -> 0..Len(bus)]
  /\ idx \in [Workers -> Nat]
  /\ observed \in 0..MaxObserved
  /\ done \subseteq 1..Len(bus)

DerivedOf(i) == {j \in 1..Len(bus) : bus[j].trigger = i}

RuleSet(s) == {s[i] : i \in DOMAIN s}

\* The rules whose predicate holds for e, among those process() evaluates.
MatchingRules(e) ==
  IF Accepts(e) THEN {r \in RuleSet(RulesetFor(e)) : e.payload \in Condition[r]}
                ELSE {}

(* Loop prevention (engine.rs process, "Run the engine only on non threat  *)
(* events to avoid creating loops"): a derived threat event is never the   *)
(* trigger of another derived event, however the derived events are fed    *)
(* back through the bus and interleaved between callers.                   *)
NoRederivation ==
  \A j \in 1..Len(bus) :
    bus[j].threat # NoThreat => bus[bus[j].trigger].threat = NoThreat

\* How many derived events of event i carry name n, and how many rules of
\* e's ruleset named n match e.
ThreatsNamed(i, n) == Cardinality({j \in DerivedOf(i) : bus[j].threat = n})
MatchesNamed(e, n) == Cardinality({r \in MatchingRules(e) : Name[r] = n})

(* Multiplicity (spec 4.3, 8): once process() has returned for an event    *)
(* matching K rules, it has exactly K derived events, as many with each   *)
(* name as there are matching rules of that name (two rules may share a   *)
(* name); before that, never more than that, whatever the other callers   *)
(* are doing meanwhile.                                                    *)
ThreatPerMatch ==
  \A i \in 1..Len(bus), n \in Names :
    /\ ThreatsNamed(i, n) <= MatchesNamed(bus[i], n)
    /\ i \in done => ThreatsNamed(i, n) = MatchesNamed(bus[i], n)

(* Spec 8: "an event matching K rules within its type group produces       *)
(* exactly K derived-threat emissions, each naming a distinct matched      *)
(* rule": no two derived events of one event carry the same rule name.     *)
(* Neither parse_rules nor process() makes names unique.                   *)
DistinctThreatNames ==
  \A i \in 1..Len(bus) :
    \A j, k \in DerivedOf(i) : j # k => bus[j].threat # bus[k].threat

(* Every event published on the bus, observed or derived, is eventually    *)
(* handed to process() and process() returns for it: the feedback of       *)
(* derived events through the bus terminates.                              *)
EveryEventHandled ==
  \A i \in 1..BusBound : (Len(bus) >= i) ~> (i \in done)

=============================================================================
