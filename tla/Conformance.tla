---------------------------- MODULE Conformance ----------------------------
(***************************************************************************)
(* The simulator (guardrail_sim): scenario suites, how they are run        *)
(* against a target, and the verdicts of its commands as exit codes.       *)
(*                                                                         *)
(* A suite is a sequence of scenarios [id, enabled, expect].  The targets  *)
(* are given by what they answer: for each pass over the suites and each   *)
(* enabled scenario, a decision as Engine's Decide has it, or Failed where *)
(* the target raised a TargetError.                                        *)
(***************************************************************************)
EXTENDS Engine

Failed == [decision |-> "failed", winner |-> 0, rules |-> {}, unknown |-> {}]

(* An expectation asserts what it names; "any" and {} assert nothing. *)
Anything == [decision |-> "any", allowed |-> "any", rules |-> {}, absent |-> {}, unknown |-> {}]

Check(expect, observed) ==
    {a \in DOMAIN Anything :
        CASE a = "decision" -> expect.decision \notin {"any", observed.decision}
          [] a = "allowed"  -> expect.allowed = (IF AllowsExecution(observed.decision) THEN "no" ELSE "yes")
          [] a = "rules"    -> ~(expect.rules \subseteq observed.rules)
          [] a = "absent"   -> expect.absent \cap observed.rules # {}
          [] a = "unknown"  -> ~(expect.unknown \subseteq observed.unknown)}

-----------------------------------------------------------------------------
(* Suites.  A case is << number of the suite, number in the suite >>. *)

Cases(suites) == UNION {{s} \X DOMAIN suites[s] : s \in DOMAIN suites}
ScenarioOf(suites, c) == suites[c[1]][c[2]]
ActiveCases(suites) == {c \in Cases(suites) : ScenarioOf(suites, c).enabled}

Later(c, d) == c[1] > d[1] \/ (c[1] = d[1] /\ c[2] >= d[2])

(* load_suites: ids are unique in each file, a scenario asserts something,
   and a run of no scenarios at all is refused.                           *)
Loads(suites) ==
    /\ \A s \in DOMAIN suites : \A i, j \in DOMAIN suites[s] :
          suites[s][i].id = suites[s][j].id => i = j
    /\ \A c \in Cases(suites) : ScenarioOf(suites, c).expect # Anything
    /\ ActiveCases(suites) # {}

(* validate: every rule that is named is one of the policy. *)
ExitOfValidate(suites, known) ==
    CASE ~Loads(suites) -> 2
      [] Loads(suites) /\ (\A c \in Cases(suites) :
             LET expect == ScenarioOf(suites, c).expect
             IN  (expect.rules \cup expect.absent) \subseteq known) -> 0
      [] OTHER -> 1

-----------------------------------------------------------------------------
(* run: a target that fails is an error of its case, and the rest goes on. *)

ErroredCases(suites, said) == {c \in ActiveCases(suites) : said[c] = Failed}

FailedCases(suites, said) ==
    {c \in ActiveCases(suites) \ ErroredCases(suites, said) :
        Check(ScenarioOf(suites, c).expect, said[c]) # {}}

(* Mutation: only failures count. *)
ReportOkDespiteErrors(suites, said) == FailedCases(suites, said) = {}

ReportOk(suites, said) ==
    FailedCases(suites, said) = {} /\ ErroredCases(suites, said) = {}

ExitOfRun(suites, said) ==
    CASE ~Loads(suites) -> 2
      [] Loads(suites) /\ ReportOk(suites, said) -> 0
      [] OTHER -> 1

(* parity: both passes, and the decisions of the cases of each id compared;
   an id stands for the last case that has it.                            *)
LastOf(suites, id) ==
    LET same == {c \in ActiveCases(suites) : ScenarioOf(suites, c).id = id}
    IN  CHOOSE c \in same : \A d \in same : Later(c, d)

Differ(one, other) == one # Failed /\ other # Failed /\ one.decision # other.decision

ParityFindings(suites, enforced, dry) ==
    {c \in ActiveCases(suites) :
        Differ(enforced[c], dry[LastOf(suites, ScenarioOf(suites, c).id)])}

ExitOfParity(suites, enforced, dry) ==
    CASE ~Loads(suites) -> 2
      [] /\ Loads(suites)
         /\ ParityFindings(suites, enforced, dry) = {}
         /\ ReportOk(suites, enforced) /\ ReportOk(suites, dry) -> 0
      [] OTHER -> 1

-----------------------------------------------------------------------------
(* diff: the policy in force against a candidate, which the simulate endpoint *)
(* looks up for each action.  The first target that fails ends it.            *)

(* A request names a candidate bundle, a published version, or the active
   policy, each as it may turn out.                                       *)
SimulateRequests == [bundle : {"none", "valid", "invalid"}, version : {"none", "known", "missing", "storeless"}]

SimulateStatus(request) ==
    CASE request.bundle # "none" /\ request.version # "none" -> 422
      [] request.bundle = "invalid" /\ request.version = "none" -> 422
      [] request.bundle = "none" /\ request.version = "missing" -> 404
      [] request.bundle = "none" /\ request.version = "storeless" -> 503
      [] OTHER -> 200

Simulated(request, said) ==
    [c \in DOMAIN said |-> IF SimulateStatus(request) >= 400 THEN Failed ELSE said[c]]

Changed(suites, baseline, candidate) ==
    {c \in ActiveCases(suites) : Differ(baseline[c], candidate[c])}

(* With --fail-on-change. *)
ExitOfDiff(suites, baseline, candidate) ==
    CASE \/ ~Loads(suites)
         \/ ErroredCases(suites, baseline) # {} \/ ErroredCases(suites, candidate) # {} -> 2
      [] /\ Loads(suites)
         /\ ErroredCases(suites, baseline) = {} /\ ErroredCases(suites, candidate) = {}
         /\ Changed(suites, baseline, candidate) = {} -> 0
      [] OTHER -> 1

-----------------------------------------------------------------------------
(* What an exit code of 0 stands for, target errors and disabled scenarios   *)
(* included.  Parity can vouch for ids that are unique across suites only;   *)
(* a run that is green over a policy which lacks a named rule asserted that   *)
(* rule's absence, and it takes validate to tell.                             *)
GreenIsChecked(suites, enforced, dry, request, known) ==
    LET active == ActiveCases(suites)
        candidate == Simulated(request, dry)
        Expected(c) == ScenarioOf(suites, c).expect
        Met(c, said) == said[c] # Failed /\ Check(Expected(c), said[c]) = {}
    IN  /\ ExitOfRun(suites, enforced) = 0 =>
              active # {} /\ \A c \in active : Met(c, enforced)
        /\ (/\ ExitOfRun(suites, enforced) = 0 /\ ExitOfValidate(suites, known) = 1
            /\ active = Cases(suites) /\ \A c \in active : enforced[c].rules \subseteq known)
           => \E c \in active : ~(Expected(c).absent \subseteq known)
        /\ (/\ ExitOfParity(suites, enforced, dry) = 0
            /\ \A c, d \in active : ScenarioOf(suites, c).id = ScenarioOf(suites, d).id => c = d)
           => \A c \in active : /\ Met(c, enforced) /\ Met(c, dry)
                                /\ enforced[c].decision = dry[c].decision
        /\ ExitOfDiff(suites, enforced, candidate) = 0 =>
              /\ SimulateStatus(request) = 200
              /\ \A c \in active : enforced[c].decision = candidate[c].decision
=============================================================================
