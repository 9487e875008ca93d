------------------------------- MODULE MCCases -------------------------------
(* The pure algorithms over all of a bounded set of inputs, and two small    *)
(* sequential components.  A behaviour takes one case: a bundle that judges a *)
(* call, scenario suites, a reviewers' queue, or the rate limiter or the demo *)
(* agent at work.                                                            *)
EXTENDS Conformance, ReviewQueue, RateLimiter, DemoAgent

VARIABLE subject

caseVars == << subject, limiterVars, agentVars >>

-----------------------------------------------------------------------------
(* A call of send_mail under a bundle of one or two rules. *)

MCTools == {"send_mail", "read_file"}
MCDomainsIn == [nobody |-> {}, ann |-> {"acme"}, eve |-> {"evil"}, both |-> {"acme", "evil"}]
MCReadings == {<< "matches", "pass", "passwd" >>, << "glob", "p*", "passwd" >>,
               << "icontains", "PASS", "passwd" >>, << "contains", "pass", "passwd" >>}

At(path, op, value) == [path |-> path, op |-> op, value |-> value]
count == << "derived", "record_count" >>
domains == << "derived", "recipient_domains" >>
file == << "derived", "path" >>
Few == At(count, "lte", Num(2))
Outside == At(domains, "any_not_in", Many({Text("acme")}))

FirstPredicates ==
    {At(count, op, Num(3)) : op \in NumericOps}
    \cup {At(file, "matches", Text("pass")), At(file, "glob", Text("p*")),
          At(file, "icontains", Text("PASS")), At(file, "contains", Text("pass")),
          At(count, "eq", Num(1)), At(count, "ne", Num(1)), At(count, "exists", Flag(0)),
          At(domains, "any_in", Many({Text("evil")})), Outside,
          At(domains, "contains", Text("acme")),
          At(<< "context", "environment" >>, "in", Many({Text("prod")})),
          At(<< "tenant_id" >>, "not_in", Many({Text("acme")})),
          At(<< "derived", "mood" >>, "eq", Num(1))}

Conditions(p) ==
    {<< << p >>, << >> >>, << << Few, p >>, << >> >>, << << >>, << p, Outside >> >>,
     << << Few >>, << p, Outside >> >>}

FirstRules ==
    {[id |-> "r1", enabled |-> TRUE, tools |-> {"send_mail"}, all |-> c[1], any |-> c[2],
      effect |-> e, hitl |-> e = "require_hitl"] :
        c \in UNION {Conditions(p) : p \in FirstPredicates}, e \in Effects}

SecondRules ==
    {<< >>} \cup
    {<< [id |-> "r2", enabled |-> on, tools |-> Tools, all |-> << Outside >>, any |-> << >>,
         effect |-> e, hitl |-> FALSE] >> : on \in BOOLEAN, e \in {"allow", "block"}}

Bundle(rules, default) ==
    [rules |-> rules, default |-> default, shadow |-> default = "log_and_allow"]

Bundles ==
    {Bundle(<< one >> \o other, d) :
        one \in FirstRules, other \in SecondRules, d \in {"allow", "log_and_allow", "block"}}

Arguments(n, to, cc, path) ==
    [count |-> n, ids |-> Absent, to |-> to, cc |-> cc, path |-> path]

Envelopes ==
    {[arguments |-> a, environment |-> Text("prod"), tenant |-> "acme"] :
        a \in {Arguments(Num(1), Text("ann"), Absent, Text("passwd")),
               Arguments(Text("all"), Text("eve"), Absent, Text("passwd")),
               Arguments(Num(3), Text("nobody"), Absent, Absent),
               Arguments(Flag(1), Text("nobody"), Text("both"), Num(7)),
               [Arguments(Absent, Many({Text("ann"), Text("eve")}), Absent, Absent)
                   EXCEPT !.ids = Many({Num(1), Num(2)})],
               Arguments(Absent, Absent, Absent, Absent)}}

Guesses ==
    {Num(0), Num(3), Text("passwd"), Many({}), Many({Text("acme")}), Many({Text("evil")})}

IsJudged ==
    \E bundle \in {b \in Bundles : ValidBundle(b)}, envelope \in Envelopes :
       subject = [kind |-> "judged", bundle |-> bundle, facts |-> BuildFacts(envelope)]

-----------------------------------------------------------------------------
(* One or two suites of two scenarios, and what two passes over them heard. *)

Expectations ==
    {[Anything EXCEPT !.decision = "block"],
     [Anything EXCEPT !.allowed = "yes", !.absent = {"r9"}],
     [Anything EXCEPT !.rules = {"r1"}, !.unknown = {file}]}

Answers ==
    {Failed,
     [decision |-> "allow", winner |-> 1, rules |-> {"r1"}, unknown |-> {file}],
     [decision |-> "block", winner |-> 1, rules |-> {"r2"}, unknown |-> {}]}

Scenarios == [id : {"one", "two"}, enabled : BOOLEAN, expect : Expectations]

Layouts ==
    {<< << s, t >> >> : s, t \in Scenarios} \cup {<< << s >>, << t >> >> : s, t \in Scenarios}

IsRun ==
    \E suites \in {l \in Layouts : l[1][1].id = "one" /\ l[1][1].enabled} :
       \E enforced, dry \in [ActiveCases(suites) -> Answers],
          request \in {r \in SimulateRequests : r.bundle = "none" \/ r.version = "none"} :
          subject = [kind |-> "run", suites |-> suites, enforced |-> enforced, dry |-> dry,
                     request |-> request]

-----------------------------------------------------------------------------
(* Queues of up to five decisions. *)
IsQueue ==
    \E n \in 0 .. 5 : \E index \in [1 .. n -> 1 .. 3], limit \in 1 .. 3, asked, answered \in 0 .. 3 :
       /\ asked <= answered
       /\ subject = [kind |-> "queue", index |-> index, limit |-> limit,
                     asked |-> asked, answered |-> answered]

-----------------------------------------------------------------------------
(* The limiter: a burst of two tokens, one of 45 sixtieths, and no limit. *)
MCKeys == {"k1", "k2", "k3", "stolen"}
MCTenantOf == [k1 |-> "acme", k2 |-> "globex", k3 |-> "initech"]
MCSettings == {[perMinute |-> 30, burst |-> 120], [perMinute |-> 60, burst |-> 45],
               [perMinute |-> 0, burst |-> 0]}

CasesInit ==
    /\ LimiterInit /\ AgentInit
    /\ IsJudged \/ IsRun \/ IsQueue \/ subject = [kind |-> "limiter"] \/ subject = [kind |-> "agent"]
    /\ subject.kind # "limiter" => setting.perMinute = 0

InLimiter(A) == subject.kind = "limiter" /\ A /\ UNCHANGED << subject, agentVars >>
InAgent(A) == subject.kind = "agent" /\ A /\ UNCHANGED << subject, limiterVars >>

CasesNext == InLimiter(LimiterNext) \/ InAgent(AgentNext)

CasesSpec == CasesInit /\ [][CasesNext]_caseVars

-----------------------------------------------------------------------------
(* "Permission is never granted on the strength of something we failed to   *)
(* determine" (operators.py): a call that may run although facts are unknown *)
(* might run whatever they turn out to be.  Over rules that permit and rules *)
(* that restrict, defaults either way, conditions joined by all and by any.  *)
UnknownNeverPermits ==
    subject.kind = "judged" =>
       NoGuessPermits(subject.bundle, subject.facts, "send_mail", Guesses)

(* A decision that depends on what is not known says so in unknown_paths,   *)
(* although the lazy conditions of the rules look no further than they must. *)
UnknownsSurface ==
    subject.kind = "judged" =>
       NoSilentGuess(subject.bundle, subject.facts, "send_mail", Guesses)

(* An exit code of 0 of the simulator means what a pipeline takes it for:   *)
(* run has seen every expectation met, parity the same decision in both      *)
(* modes if no id occurs in two files, diff no decision changed; none of     *)
(* them over no scenario at all, or over a target that failed, or a          *)
(* candidate the simulate endpoint refused.                                  *)
GreenMeansChecked ==
    subject.kind = "run" =>
       GreenIsChecked(subject.suites, subject.enforced, subject.dry, subject.request, {"r1", "r2"})

(* Within the pages that may be read, expired decisions in front in the index *)
(* hide no live one: a reviewer sees the oldest that can still be answered,   *)
(* none that cannot, and, if the index fits those pages, the same ones        *)
(* whichever repository is behind the endpoint.  Beyond the ceiling of pages  *)
(* (decisions.py:55-67) a live decision may be missed.                        *)
QueueShowsOldest ==
    subject.kind = "queue" =>
       ShowsOldest(subject.index, subject.limit, subject.asked, subject.answered)
=============================================================================
