---------------------------- MODULE EngineProofs ----------------------------
(***************************************************************************)
(* Proofs about Engine for every bundle, every set of facts, every tool    *)
(* and everything an unknown fact might turn out to be.  What an operator  *)
(* finds in a text, Readings, is left open.                                *)
(***************************************************************************)
EXTENDS Engine, FiniteSetTheorems, WellFoundedInduction, TLAPS

-----------------------------------------------------------------------------
(***************************************************************************)
(* What load_bundle sees to, as far as it matters here: conditions are     *)
(* lists, and every effect is one of the four.                             *)
(***************************************************************************)
IsList(conditions) == \E n \in Nat : DOMAIN conditions = 1 .. n

WellFormed(bundle) ==
    /\ bundle.default \in Effects
    /\ \A i \in DOMAIN bundle.rules :
          /\ bundle.rules[i].effect \in Effects
          /\ IsList(bundle.rules[i].all) /\ IsList(bundle.rules[i].any)

(* The effects, in order of strictness. *)
LEMMA EffectOrder ==
    /\ Effects = {"allow", "log_and_allow", "require_hitl", "block"}
    /\ Strictness["allow"] = 0 /\ Strictness["log_and_allow"] = 1
    /\ Strictness["require_hitl"] = 2 /\ Strictness["block"] = 3
  BY DEF Effects, Strictness

(* An unknown value matches exactly the rules whose effect restricts. *)
LEMMA UnknownRestricts ==
    ASSUME NEW effect \in Effects
    PROVE  ResolveUnknown(effect) <=> ~AllowsExecution(effect)
  BY EffectOrder DEF ResolveUnknown, AllowsExecution

(* The most restrictive of some effects is one of them, and none is stricter. *)
LEMMA MostRestrictiveIsStrictest ==
    ASSUME NEW effects \in SUBSET Effects, effects # {}
    PROVE  /\ MostRestrictive(effects) \in effects
           /\ \A f \in effects : Strictness[f] <= Strictness[MostRestrictive(effects)]
  <1>1. \E e \in effects : \A f \in effects : Strictness[f] <= Strictness[e]
    <2>1. \A f \in effects : f \in {"allow", "log_and_allow", "require_hitl", "block"}
      BY EffectOrder
    <2>2. CASE "block" \in effects
      BY <2>1, <2>2, EffectOrder
    <2>3. CASE "block" \notin effects /\ "require_hitl" \in effects
      BY <2>1, <2>3, EffectOrder
    <2>4. CASE "block" \notin effects /\ "require_hitl" \notin effects /\ "log_and_allow" \in effects
      BY <2>1, <2>4, EffectOrder
    <2>5. CASE effects = {"allow"}
      BY <2>5, EffectOrder
    <2>6. QED
      BY <2>1, <2>2, <2>3, <2>4, <2>5
  <1>2. QED
    BY <1>1 DEF MostRestrictive

(* Permission is lost as soon as one of the effects restricts. *)
LEMMA OneRestrictionDecides ==
    ASSUME NEW effects \in SUBSET Effects, effects # {}
    PROVE  AllowsExecution(MostRestrictive(effects)) <=> \A f \in effects : AllowsExecution(f)
  <1> DEFINE strictest == MostRestrictive(effects)
  <1>1. strictest \in effects /\ \A f \in effects : Strictness[f] <= Strictness[strictest]
    BY MostRestrictiveIsStrictest
  <1> HIDE DEF strictest
  <1>2. ASSUME AllowsExecution(strictest), NEW f \in effects
        PROVE  AllowsExecution(f)
    <2>1. f \in Effects /\ Strictness[f] <= Strictness[strictest]
      BY <1>1
    <2>2. QED
      BY <1>2, <2>1, EffectOrder DEF AllowsExecution
  <1>3. QED
    BY <1>1, <1>2 DEF strictest

-----------------------------------------------------------------------------
(***************************************************************************)
(* What may be behind the unknown facts.                                   *)
(***************************************************************************)

(* A determination agrees with the facts wherever they tell. *)
LEMMA DeterminationIs ==
    ASSUME NEW facts, NEW values, NEW f \in Determinations(facts, values)
    PROVE  /\ DOMAIN f = DOMAIN facts
           /\ \A p \in DOMAIN facts : facts[p] # Unknown => f[p] = facts[p]
           /\ \A p \in DOMAIN facts : facts[p] = Unknown => f[p] \in values
  BY DEF Determinations

(* A condition on what is known, or not addressed at all, reads the same.  *)
LEMMA KnownReadsTheSame ==
    ASSUME NEW facts, NEW values, Unknown \notin values,
           NEW f \in Determinations(facts, values),
           NEW predicate, NEW effect
    PROVE  /\ ResolvePath(predicate.path, f) # Unknown
           /\ ResolvePath(predicate.path, facts) # Unknown =>
                 (Holds(predicate, f, effect) <=> Holds(predicate, facts, effect))
           /\ ResolvePath(predicate.path, facts) = Unknown =>
                 (Holds(predicate, facts, effect) <=> ResolveUnknown(effect))
  <1>1. Absent # Unknown
    BY DEF Absent, Unknown
  <1>2. ResolvePath(predicate.path, f) # Unknown
    BY <1>1, DeterminationIs DEF ResolvePath
  <1>3. ResolvePath(predicate.path, facts) # Unknown =>
            ResolvePath(predicate.path, f) = ResolvePath(predicate.path, facts)
    BY DeterminationIs DEF ResolvePath
  <1>4. QED
    BY <1>2, <1>3 DEF Holds

(* A rule that restricts, and would match, matches already. *)
LEMMA RestrictionsMatchAlready ==
    ASSUME NEW facts, NEW values, Unknown \notin values,
           NEW f \in Determinations(facts, values), NEW tool,
           NEW rule, rule.effect \in Effects, ~AllowsExecution(rule.effect),
           MatchApplies(rule, f, tool)
    PROVE  MatchApplies(rule, facts, tool)
  <1>1. \A predicate : Holds(predicate, f, rule.effect) => Holds(predicate, facts, rule.effect)
    BY KnownReadsTheSame, UnknownRestricts
  <1>2. QED
    BY <1>1 DEF MatchApplies, AllHold, AnyHolds

(* A rule that permits, and matches, matches whatever is unknown. *)
LEMMA PermissionsMatchStill ==
    ASSUME NEW facts, NEW values, Unknown \notin values,
           NEW f \in Determinations(facts, values), NEW tool,
           NEW rule, rule.effect \in Effects, AllowsExecution(rule.effect),
           MatchApplies(rule, facts, tool)
    PROVE  MatchApplies(rule, f, tool)
  <1>1. \A predicate : Holds(predicate, facts, rule.effect) => Holds(predicate, f, rule.effect)
    BY KnownReadsTheSame, UnknownRestricts
  <1>2. QED
    BY <1>1 DEF MatchApplies, AllHold, AnyHolds

(* A bundle permits a call if its default does, where no rule matches, and *)
(* if every rule that matches does.                                        *)
LEMMA PermittedWhen ==
    ASSUME NEW bundle, WellFormed(bundle), NEW facts, NEW tool
    PROVE  AllowsExecution(EffectOf(bundle, facts, tool)) <=>
              IF MatchedRules(bundle, facts, tool) = {}
              THEN AllowsExecution(bundle.default)
              ELSE \A i \in MatchedRules(bundle, facts, tool) :
                      AllowsExecution(bundle.rules[i].effect)
  <1> DEFINE matched == MatchedRules(bundle, facts, tool)
             effects == {bundle.rules[i].effect : i \in matched}
  <1>1. matched \subseteq DOMAIN bundle.rules
    BY DEF MatchedRules, Active
  <1>2. effects \in SUBSET Effects
    BY <1>1 DEF WellFormed
  <1>3. CASE matched = {}
    BY <1>3 DEF EffectOf
  <1>4. CASE matched # {}
    <2>1. EffectOf(bundle, facts, tool) = MostRestrictive(effects) /\ effects # {}
      BY <1>4 DEF EffectOf
    <2>2. AllowsExecution(MostRestrictive(effects)) <=> \A e \in effects : AllowsExecution(e)
      BY <1>2, <2>1, OneRestrictionDecides
    <2>3. QED
      BY <1>4, <2>1, <2>2
  <1>5. QED
    BY <1>3, <1>4

(* Permission is never granted on the strength of something that could not *)
(* be determined: a call that may run although facts are unknown might run *)
(* whatever they turn out to be.  It holds of every bundle: a rule that    *)
(* restricts matches what is unknown, and a rule that permits does not.    *)
THEOREM NoBundleGuesses ==
    ASSUME NEW bundle, WellFormed(bundle), NEW facts, NEW tool,
           NEW values, Unknown \notin values
    PROVE  NoGuessPermits(bundle, facts, tool, values)
  <1> SUFFICES ASSUME AllowsExecution(EffectOf(bundle, facts, tool)),
                      NEW f \in Determinations(facts, values)
               PROVE  AllowsExecution(EffectOf(bundle, f, tool))
    BY DEF NoGuessPermits
  <1> DEFINE before == MatchedRules(bundle, facts, tool)
             after == MatchedRules(bundle, f, tool)
  <1>1. \A i \in DOMAIN bundle.rules : bundle.rules[i].effect \in Effects
    BY DEF WellFormed
  <1>2. \A i \in after : ~AllowsExecution(bundle.rules[i].effect) => i \in before
    BY <1>1, RestrictionsMatchAlready DEF MatchedRules, Active
  <1>3. \A i \in before : AllowsExecution(bundle.rules[i].effect) => i \in after
    BY <1>1, PermissionsMatchStill DEF MatchedRules, Active
  <1> HIDE DEF before, after
  <1>4. IF before = {} THEN AllowsExecution(bundle.default)
        ELSE \A i \in before : AllowsExecution(bundle.rules[i].effect)
    BY PermittedWhen DEF before
  <1>5. IF after = {} THEN AllowsExecution(bundle.default)
        ELSE \A i \in after : AllowsExecution(bundle.rules[i].effect)
    BY <1>2, <1>3, <1>4
  <1>6. QED
    BY <1>5, PermittedWhen DEF after

-----------------------------------------------------------------------------
(***************************************************************************)
(* How far the lazy conditions look.                                       *)
(***************************************************************************)

(* Of some positions of a list, one comes first. *)
LEMMA OneComesFirst ==
    ASSUME NEW n \in Nat, NEW places \in SUBSET (1 .. n), places # {}
    PROVE  \E k \in places : \A j \in 1 .. k - 1 : j \notin places
  <1> DEFINE Heads == {1 .. k : k \in places}
             All == 1 .. n
  <1>1. IsFiniteSet(All)
    BY FS_Interval
  <1>2. IsWellFoundedOn(StrictSubsetOrdering(All), FiniteSubsetsOf(All))
    BY <1>1, FS_StrictSubsetOrderingWellFounded
  <1>3. Heads \subseteq FiniteSubsetsOf(All) /\ Heads # {}
    <2>1. \A k \in places : 1 .. k \in SUBSET All
      OBVIOUS
    <2>2. FiniteSubsetsOf(All) = SUBSET All
      BY <1>1, FS_FiniteSubsetsOfFinite
    <2>3. Heads \subseteq SUBSET All
      BY <2>1
    <2>4. Heads # {}
      OBVIOUS
    <2>5. QED
      BY <2>2, <2>3, <2>4
  <1>4. PICK h \in Heads : \A g \in Heads : ~ (<< g, h >> \in StrictSubsetOrdering(All))
    BY <1>2, <1>3, WFMin
  <1>5. PICK k \in places : h = 1 .. k
    BY <1>4
  <1>6. ASSUME NEW j \in 1 .. k - 1, j \in places
        PROVE  FALSE
    <2>1. 1 .. j \in Heads /\ 1 .. j \in SUBSET All /\ 1 .. k \in SUBSET All
      BY <1>5, <1>6
    <2>2. 1 .. j \subseteq 1 .. k /\ k \in 1 .. k /\ k \notin 1 .. j
      BY <1>5, <1>6
    <2>3. << 1 .. j, 1 .. k >> \in StrictSubsetOrdering(All)
      BY <2>1, <2>2 DEF StrictSubsetOrdering
    <2>4. QED
      BY <1>4, <1>5, <2>1, <2>3
  <1>7. QED
    BY <1>6

(* An unknown path is reported for every unknown fact that is looked at. *)
LEMMA WhatIsExaminedIsKnown ==
    ASSUME NEW bundle, NEW facts, NEW tool, UnknownPaths(bundle, facts, tool) = {},
           NEW i \in Active(bundle), NEW q \in Examined(bundle.rules[i], facts, tool)
    PROVE  ResolvePath(q.path, facts) # Unknown
  BY DEF UnknownPaths, ResolvePath, Absent, Unknown

(* Where the conditions that are looked at are all known, the lazy all and   *)
(* any have seen what decides them: whatever the facts turn out to be, the   *)
(* rule matches as it did.                                                   *)
LEMMA TheLazySeeEnough ==
    ASSUME NEW facts, NEW values, Unknown \notin values,
           NEW f \in Determinations(facts, values), NEW tool,
           NEW rule, IsList(rule.all), IsList(rule.any),
           \A q \in Examined(rule, facts, tool) : ResolvePath(q.path, facts) # Unknown
    PROVE  MatchApplies(rule, f, tool) <=> MatchApplies(rule, facts, tool)
  <1> DEFINE Was(p) == Holds(p, facts, rule.effect)
             Will(p) == Holds(p, f, rule.effect)
             inAll == {rule.all[i] : i \in {k \in DOMAIN rule.all :
                                               \A j \in 1 .. k - 1 : Was(rule.all[j])}}
             inAny == {rule.any[i] : i \in {k \in DOMAIN rule.any :
                                               \A j \in 1 .. k - 1 : ~Was(rule.any[j])}}
  <1>1. CASE tool \notin rule.tools
    BY <1>1 DEF MatchApplies
  <1>2. CASE tool \in rule.tools
    <2>1. \A p \in inAll : Will(p) <=> Was(p)
      <3>1. inAll \subseteq Examined(rule, facts, tool)
        BY <1>2 DEF Examined
      <3>2. QED
        BY <3>1, KnownReadsTheSame
    <2>2. AllHold(rule, facts) => \A p \in inAny : Will(p) <=> Was(p)
      <3>1. AllHold(rule, facts) => inAny \subseteq Examined(rule, facts, tool)
        BY <1>2 DEF Examined
      <3>2. QED
        BY <3>1, KnownReadsTheSame
    <2> HIDE DEF Was, Will
    <2>3. AllHold(rule, f) <=> AllHold(rule, facts)
      <3>1. PICK n \in Nat : DOMAIN rule.all = 1 .. n
        BY DEF IsList
      <3>2. CASE \A i \in 1 .. n : Was(rule.all[i])
        <4>1. \A i \in 1 .. n : rule.all[i] \in inAll
          BY <3>1, <3>2
        <4>2. \A i \in 1 .. n : Will(rule.all[i])
          BY <2>1, <3>2, <4>1
        <4>3. QED
          BY <3>1, <3>2, <4>2 DEF AllHold, Was, Will
      <3>3. CASE ~ \A i \in 1 .. n : Was(rule.all[i])
        <4> DEFINE fails == {i \in 1 .. n : ~Was(rule.all[i])}
        <4>1. PICK k \in fails : \A j \in 1 .. k - 1 : j \notin fails
          BY <3>3, OneComesFirst
        <4>2. \A j \in 1 .. k - 1 : Was(rule.all[j])
          BY <4>1
        <4>3. rule.all[k] \in inAll
          BY <3>1, <4>2
        <4>4. ~Will(rule.all[k])
          BY <2>1, <4>3
        <4>5. QED
          BY <3>1, <3>3, <4>4 DEF AllHold, Was, Will
      <3>4. QED
        BY <3>2, <3>3
    <2>4. AllHold(rule, facts) => (AnyHolds(rule, f) <=> AnyHolds(rule, facts))
      <3>1. PICK n \in Nat : DOMAIN rule.any = 1 .. n
        BY DEF IsList
      <3> SUFFICES ASSUME \A p \in inAny : Will(p) <=> Was(p)
                   PROVE  AnyHolds(rule, f) <=> AnyHolds(rule, facts)
        BY <2>2
      <3>2. CASE \A i \in 1 .. n : ~Was(rule.any[i])
        <4>1. \A i \in 1 .. n : rule.any[i] \in inAny
          BY <3>1, <3>2
        <4>2. \A i \in 1 .. n : ~Will(rule.any[i])
          BY <3>2, <4>1
        <4>3. QED
          BY <3>1, <3>2, <4>2 DEF AnyHolds, Was, Will
      <3>3. CASE ~ \A i \in 1 .. n : ~Was(rule.any[i])
        <4> DEFINE holds == {i \in 1 .. n : Was(rule.any[i])}
        <4>1. PICK k \in holds : \A j \in 1 .. k - 1 : j \notin holds
          BY <3>3, OneComesFirst
        <4>2. \A j \in 1 .. k - 1 : ~Was(rule.any[j])
          BY <4>1
        <4>3. rule.any[k] \in inAny
          BY <3>1, <4>2
        <4>4. Will(rule.any[k])
          BY <4>1, <4>3
        <4>5. QED
          BY <3>1, <3>3, <4>4 DEF AnyHolds, Was, Will
      <3>4. QED
        BY <3>2, <3>3
    <2>5. QED
      BY <2>3, <2>4 DEF MatchApplies
  <1>3. QED
    BY <1>1, <1>2

(* A decision that some way things may be would have changed reports an      *)
(* unknown path, in every bundle and however many conditions were skipped:   *)
(* no audit record of a decision is silent about a guess it rests on.        *)
THEOREM NoGuessIsSilent ==
    ASSUME NEW bundle, WellFormed(bundle), NEW facts, NEW tool,
           NEW values, Unknown \notin values
    PROVE  NoSilentGuess(bundle, facts, tool, values)
  <1> SUFFICES ASSUME UnknownPaths(bundle, facts, tool) = {},
                      NEW f \in Determinations(facts, values)
               PROVE  Decide(bundle, f, tool) = Decide(bundle, facts, tool)
    BY DEF NoSilentGuess
  <1>1. ASSUME NEW i \in Active(bundle)
        PROVE  MatchApplies(bundle.rules[i], f, tool) <=> MatchApplies(bundle.rules[i], facts, tool)
    <2>1. \A q \in Examined(bundle.rules[i], facts, tool) : ResolvePath(q.path, facts) # Unknown
      BY WhatIsExaminedIsKnown
    <2>2. IsList(bundle.rules[i].all) /\ IsList(bundle.rules[i].any)
      BY DEF WellFormed, Active
    <2>3. QED
      BY <2>1, <2>2, TheLazySeeEnough
  <1>2. MatchedRules(bundle, f, tool) = MatchedRules(bundle, facts, tool)
    BY <1>1 DEF MatchedRules
  <1>3. EffectOf(bundle, f, tool) = EffectOf(bundle, facts, tool)
    BY <1>2 DEF EffectOf
  <1>4. WinningRule(bundle, f, tool) = WinningRule(bundle, facts, tool)
    BY <1>2, <1>3 DEF WinningRule
  <1>5. UnknownPaths(bundle, f, tool) = {}
    <2>1. \A p \in DOMAIN f : f[p] # Unknown
      BY DeterminationIs
    <2>2. QED
      BY <2>1 DEF UnknownPaths
  <1>6. QED
    BY <1>2, <1>3, <1>4, <1>5 DEF Decide
=============================================================================
