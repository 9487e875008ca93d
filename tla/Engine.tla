------------------------------- MODULE Engine -------------------------------
(***************************************************************************)
(* The policy engine (guardrail_core): what it derives from the arguments  *)
(* of a call, when a rule applies, which effect wins, and what becomes of  *)
(* facts that could not be determined.                                     *)
(*                                                                         *)
(* A value is a tagged tuple.  How patterns read texts and which domains   *)
(* an address field names are given; a list is the set of its elements.    *)
(***************************************************************************)
EXTENDS Naturals, Sequences, FiniteSets

CONSTANTS
    Tools,
    Readings,   \* << operator, pattern, text >>: the pattern is found in the text
    DomainsIn   \* for each text of an address field, the domains that parse

(* Effects, from the most permissive to the most restrictive. *)
Strictness == [allow |-> 0, log_and_allow |-> 1, require_hitl |-> 2, block |-> 3]

Effects == DOMAIN Strictness

MostRestrictive(effects) ==
    CHOOSE e \in effects : \A f \in effects : Strictness[f] <= Strictness[e]

AllowsExecution(effect) == effect \in {"allow", "log_and_allow"}

-----------------------------------------------------------------------------
(* Values.  A flag is the number 0 or 1 to equality, and to nothing else.   *)

Unknown == << "unknown" >>
Absent == << "absent" >>
Num(n) == << "number", n >>
Flag(n) == << "flag", n >>
Text(t) == << "text", t >>
Many(values) == << "list", values >>

Kind(v) == v[1]
Same(a, b) == LET Plain(v) == IF Kind(v) = "flag" THEN Num(v[2]) ELSE v IN Plain(a) = Plain(b)
Elements(v) == IF Kind(v) = "list" THEN v[2] ELSE {v}
Truthy(v) ==
    CASE Kind(v) \in {"number", "flag"} -> v[2] # 0
      [] Kind(v) = "list"               -> v[2] # {}
      [] OTHER                          -> Kind(v) # "absent"

OneOf(v, values) == \E w \in Elements(values) : Same(v, w)
Reads(op, actual, expected) ==
    Kind(actual) = "text" /\ Kind(expected) = "text" /\ << op, expected[2], actual[2] >> \in Readings

NumericOps == {"gt", "gte", "lt", "lte"}
TextOps == {"icontains", "matches", "glob"}
Operators == NumericOps \cup TextOps
    \cup {"eq", "ne", "in", "not_in", "any_in", "any_not_in", "contains", "exists"}

(* Numbers only are compared with numbers: a flag is not a count. *)
NumericCompare(op, actual, expected) ==
    /\ Kind(actual) = "number" /\ Kind(expected) = "number"
    /\ CASE op = "gt"  -> actual[2] > expected[2]
         [] op = "gte" -> actual[2] >= expected[2]
         [] op = "lt"  -> actual[2] < expected[2]
         [] op = "lte" -> actual[2] <= expected[2]

Compare(op, actual, expected) ==
    CASE op \in NumericOps  -> NumericCompare(op, actual, expected)
      [] op \in TextOps     -> Reads(op, actual, expected)
      [] op = "eq"          -> Same(actual, expected)
      [] op = "ne"          -> ~Same(actual, expected)
      [] op = "in"          -> OneOf(actual, expected)
      [] op = "not_in"      -> ~OneOf(actual, expected)
      [] op = "any_in"      -> \E v \in Elements(actual) : OneOf(v, expected)
      [] op = "any_not_in"  -> \E v \in Elements(actual) : ~OneOf(v, expected)
      [] op = "contains"    -> IF Kind(actual) = "text" /\ Kind(expected) = "text"
                               THEN Reads(op, actual, expected)
                               ELSE OneOf(expected, actual)
      [] op = "exists"      -> (Kind(actual) # "absent") = Truthy(expected)

-----------------------------------------------------------------------------
(* Facts, addressed by paths: << root, name >>, or << root >>.  The keys of   *)
(* the arguments stand for the groups of keys an extractor looks under.      *)

ArgumentKeys == {"count", "ids", "to", "cc", "path"}
DerivedFacts == {"record_count", "recipient_domains", "recipient_count", "path"}

RecordCount(arguments) ==
    CASE Kind(arguments["count"]) = "number" -> arguments["count"]
      [] Kind(arguments["count"]) # "number" /\ Kind(arguments["ids"]) = "list" ->
             Num(Cardinality(arguments["ids"][2]))
      [] OTHER -> Unknown

(* The texts of every address field. *)
Recipients(arguments) ==
    {r \in {"to", "cc"} \X DOMAIN DomainsIn : Text(r[2]) \in Elements(arguments[r[1]])}

Addresses(arguments) ==
    UNION {{<< r, d >> : d \in DomainsIn[r[2]]} : r \in Recipients(arguments)}

RecipientDomains(arguments) ==
    IF Addresses(arguments) = {} /\ Recipients(arguments) # {}
    THEN Unknown
    ELSE Many({Text(a[2]) : a \in Addresses(arguments)})

DeriveFacts(arguments) ==
    [record_count      |-> RecordCount(arguments),
     recipient_domains |-> RecipientDomains(arguments),
     recipient_count   |-> Num(Cardinality(Addresses(arguments))),
     path              |-> IF Kind(arguments["path"]) = "text" THEN arguments["path"] ELSE Unknown]

Paths == ({"args"} \X ArgumentKeys) \cup ({"derived"} \X DerivedFacts)
         \cup {<< "context", "environment" >>, << "tenant_id" >>}

BuildFacts(envelope) ==
    [p \in Paths |->
        CASE p[1] = "args"      -> envelope.arguments[p[2]]
          [] p[1] = "derived"   -> DeriveFacts(envelope.arguments)[p[2]]
          [] p[1] = "context"   -> envelope.environment
          [] p[1] = "tenant_id" -> Text(envelope.tenant)]

ResolvePath(path, facts) == IF path \in DOMAIN facts THEN facts[path] ELSE Absent

-----------------------------------------------------------------------------
(* Bundles.  A rule is [id, enabled, tools, all, any, effect, hitl]: tools is  *)
(* the set of tools its pattern names, hitl whether it has review options.    *)

Predicates(rule) == {rule.all[i] : i \in DOMAIN rule.all} \cup {rule.any[i] : i \in DOMAIN rule.any}

ValidPredicate(p) ==
    /\ p.op \in Operators
    /\ p.path[1] \in {"args", "derived", "context", "principal", "tool", "tenant_id", "agent_id"}
    /\ p.path[1] = "derived" => Len(p.path) > 1 /\ p.path[2] \in DerivedFacts

ValidRule(rule) ==
    /\ rule.tools # Tools \/ Predicates(rule) # {}
    /\ rule.hitl => rule.effect = "require_hitl"
    /\ \A p \in Predicates(rule) : ValidPredicate(p)

(* load_bundle: what does not pass never gets to be evaluated. *)
ValidBundle(bundle) ==
    /\ \A i \in DOMAIN bundle.rules : ValidRule(bundle.rules[i])
    /\ \A i, j \in DOMAIN bundle.rules : bundle.rules[i].id = bundle.rules[j].id => i = j

(* Mutation: what is unknown matches nothing. *)
UnknownMatchesNothing(effect) == FALSE

(* An unknown value matches a rule that restricts, and no rule that permits. *)
ResolveUnknown(effect) == Strictness[effect] >= Strictness["require_hitl"]

Holds(predicate, facts, effect) ==
    LET actual == ResolvePath(predicate.path, facts)
    IN  IF actual = Unknown
        THEN ResolveUnknown(effect)
        ELSE Compare(predicate.op, actual, predicate.value)

AllHold(rule, facts) == \A i \in DOMAIN rule.all : Holds(rule.all[i], facts, rule.effect)
AnyHolds(rule, facts) == \E i \in DOMAIN rule.any : Holds(rule.any[i], facts, rule.effect)

MatchApplies(rule, facts, tool) ==
    /\ tool \in rule.tools
    /\ AllHold(rule, facts)
    /\ rule.any # << >> => AnyHolds(rule, facts)

(* What the lazy all and any look at before they have their answer. *)
Examined(rule, facts, tool) ==
    LET Met(p) == Holds(p, facts, rule.effect)
        InAll == {rule.all[i] : i \in {k \in DOMAIN rule.all :
                                          \A j \in 1 .. k - 1 : Met(rule.all[j])}}
        InAny == {rule.any[i] : i \in {k \in DOMAIN rule.any :
                                          \A j \in 1 .. k - 1 : ~Met(rule.any[j])}}
    IN  IF tool \notin rule.tools THEN {}
        ELSE IF AllHold(rule, facts) THEN InAll \cup InAny ELSE InAll

-----------------------------------------------------------------------------
(* evaluate: every enabled rule is looked at, and the strictest effect wins. *)

Active(bundle) == {i \in DOMAIN bundle.rules : bundle.rules[i].enabled}

MatchedRules(bundle, facts, tool) ==
    {i \in Active(bundle) : MatchApplies(bundle.rules[i], facts, tool)}

(* Mutation: only what the rules that applied did not know is recorded. *)
UnknownPathsOfMatches(bundle, facts, tool) ==
    {p \in DOMAIN facts :
        /\ facts[p] = Unknown
        /\ \E i \in MatchedRules(bundle, facts, tool) :
              \E q \in Examined(bundle.rules[i], facts, tool) : q.path = p}

UnknownPaths(bundle, facts, tool) ==
    {p \in DOMAIN facts :
        /\ facts[p] = Unknown
        /\ \E i \in Active(bundle) :
              \E q \in Examined(bundle.rules[i], facts, tool) : q.path = p}

EffectOf(bundle, facts, tool) ==
    LET matched == MatchedRules(bundle, facts, tool)
    IN  IF matched = {} THEN bundle.default
        ELSE MostRestrictive({bundle.rules[i].effect : i \in matched})

(* The rule that explains the outcome, and gives a review its options: the
   first of those with the winning effect; 0 if no rule matched.          *)
WinningRule(bundle, facts, tool) ==
    LET winners == {i \in MatchedRules(bundle, facts, tool) :
                       bundle.rules[i].effect = EffectOf(bundle, facts, tool)}
    IN  IF winners = {} THEN 0 ELSE CHOOSE i \in winners : \A j \in winners : i <= j

(* A bundle in shadow mode decides without stopping anything. *)
Effective(bundle, effect) ==
    IF bundle.shadow /\ ~AllowsExecution(effect) THEN "log_and_allow" ELSE effect

(* What the evaluate endpoint, the simulate endpoint and the offline target
   all answer for an action under a bundle.                               *)
Decide(bundle, facts, tool) ==
    [decision |-> Effective(bundle, EffectOf(bundle, facts, tool)),
     winner   |-> WinningRule(bundle, facts, tool),
     rules    |-> {bundle.rules[i].id : i \in MatchedRules(bundle, facts, tool)},
     unknown  |-> UnknownPaths(bundle, facts, tool)]

-----------------------------------------------------------------------------
(* The ways things may be where the facts do not tell. *)
Determinations(facts, values) ==
    LET open == {p \in DOMAIN facts : facts[p] = Unknown}
    IN  {[p \in DOMAIN facts |-> IF p \in open THEN f[p] ELSE facts[p]] : f \in [open -> values]}

(* A call that may run although facts are unknown might run whatever they   *)
(* turn out to be ("permission is never granted on the strength of          *)
(* something we failed to determine", operators.py).                        *)
NoGuessPermits(bundle, facts, tool, values) ==
    AllowsExecution(EffectOf(bundle, facts, tool)) =>
       \A f \in Determinations(facts, values) : AllowsExecution(EffectOf(bundle, f, tool))

(* A decision that some way things may be would have changed reports an     *)
(* unknown path, however soon the lazy conditions had their answer.         *)
NoSilentGuess(bundle, facts, tool, values) ==
    UnknownPaths(bundle, facts, tool) = {} =>
       \A f \in Determinations(facts, values) :
          Decide(bundle, f, tool) = Decide(bundle, facts, tool)
=============================================================================
