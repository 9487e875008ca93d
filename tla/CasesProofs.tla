---------------------------- MODULE CasesProofs ----------------------------
(***************************************************************************)
(* Proofs about the simulator's verdicts, for all suites and all answers   *)
(* of its targets, and about the reviewers' queue, for every index, every  *)
(* limit and every size of a page; last, what they and the proofs about    *)
(* the engine and the rate limiter say of the cases that MCCases takes.    *)
(***************************************************************************)
EXTENDS MCCases, EngineProofs, RateLimiterProofs

-----------------------------------------------------------------------------
(***************************************************************************)
(* The simulator: what an exit code of 0 says.  Suites are lists of lists. *)
(***************************************************************************)
AreSuites(suites) == \A s \in DOMAIN suites : s \in Nat /\ DOMAIN suites[s] \subseteq Nat

(* A run is green over suites that load and a report without a blemish. *)
LEMMA GreenRun ==
    ASSUME NEW suites, NEW said, ExitOfRun(suites, said) = 0
    PROVE  Loads(suites) /\ ReportOk(suites, said)
  <1>1. ~Loads(suites) => ExitOfRun(suites, said) = 2
    BY Zenon DEF ExitOfRun
  <1>2. Loads(suites) /\ ~ReportOk(suites, said) => ExitOfRun(suites, said) = 1
    BY Zenon DEF ExitOfRun
  <1>3. QED
    BY <1>1, <1>2

(* Parity is green if both reports are, and no finding is left. *)
LEMMA GreenParity ==
    ASSUME NEW suites, NEW enforced, NEW dry, ExitOfParity(suites, enforced, dry) = 0
    PROVE  /\ ParityFindings(suites, enforced, dry) = {}
           /\ ReportOk(suites, enforced) /\ ReportOk(suites, dry)
  <1> DEFINE agree == /\ ParityFindings(suites, enforced, dry) = {}
                      /\ ReportOk(suites, enforced) /\ ReportOk(suites, dry)
  <1>1. ~Loads(suites) => ExitOfParity(suites, enforced, dry) = 2
    BY Zenon DEF ExitOfParity
  <1>2. Loads(suites) /\ ~agree => ExitOfParity(suites, enforced, dry) = 1
    BY Zenon DEF ExitOfParity
  <1>3. QED
    BY <1>1, <1>2

(* A diff is green if no target failed and no decision changed. *)
LEMMA GreenDiff ==
    ASSUME NEW suites, NEW baseline, NEW candidate, ExitOfDiff(suites, baseline, candidate) = 0
    PROVE  /\ Loads(suites) /\ Changed(suites, baseline, candidate) = {}
           /\ ErroredCases(suites, baseline) = {} /\ ErroredCases(suites, candidate) = {}
  <1> DEFINE errors == ErroredCases(suites, baseline) # {} \/ ErroredCases(suites, candidate) # {}
  <1>1. ~Loads(suites) \/ errors => ExitOfDiff(suites, baseline, candidate) = 2
    BY Zenon DEF ExitOfDiff
  <1>2. Loads(suites) /\ ~errors /\ Changed(suites, baseline, candidate) # {} =>
           ExitOfDiff(suites, baseline, candidate) = 1
    BY Zenon DEF ExitOfDiff
  <1>3. QED
    BY <1>1, <1>2

(* What validate complains about is a rule nobody knows. *)
LEMMA Invalid ==
    ASSUME NEW suites, NEW known, ExitOfValidate(suites, known) = 1
    PROVE  \E c \in Cases(suites) :
              LET expect == ScenarioOf(suites, c).expect
              IN  ~((expect.rules \cup expect.absent) \subseteq known)
  <1> DEFINE sound == \A c \in Cases(suites) :
                         LET expect == ScenarioOf(suites, c).expect
                         IN  (expect.rules \cup expect.absent) \subseteq known
  <1>1. ~Loads(suites) => ExitOfValidate(suites, known) = 2
    BY Zenon DEF ExitOfValidate
  <1>2. Loads(suites) /\ sound => ExitOfValidate(suites, known) = 0
    BY Zenon DEF ExitOfValidate
  <1>3. QED
    BY <1>1, <1>2

(* A refused candidate is one of the statuses from 400 on. *)
LEMMA StatusIs ==
    ASSUME NEW request
    PROVE  SimulateStatus(request) \in {200, 404, 422, 503}
  <1> DEFINE both == request.bundle # "none" /\ request.version # "none"
             invalid == request.bundle = "invalid" /\ request.version = "none"
             missing == request.bundle = "none" /\ request.version = "missing"
             storeless == request.bundle = "none" /\ request.version = "storeless"
  <1>1. both => SimulateStatus(request) = 422
    BY Zenon DEF SimulateStatus
  <1>2. ~both /\ invalid => SimulateStatus(request) = 422
    BY Zenon DEF SimulateStatus
  <1>3. ~both /\ ~invalid /\ missing => SimulateStatus(request) = 404
    BY Zenon DEF SimulateStatus
  <1>4. ~both /\ ~invalid /\ ~missing /\ storeless => SimulateStatus(request) = 503
    BY Zenon DEF SimulateStatus
  <1>5. ~both /\ ~invalid /\ ~missing /\ ~storeless => SimulateStatus(request) = 200
    BY Zenon DEF SimulateStatus
  <1> HIDE DEF both, invalid, missing, storeless
  <1>6. QED
    BY <1>1, <1>2, <1>3, <1>4, <1>5

(* An expectation that is met had its rules among those that applied. *)
LEMMA MetNamesTheRules ==
    ASSUME NEW expect, NEW observed, Check(expect, observed) = {}
    PROVE  expect.rules \subseteq observed.rules
  <1>1. "rules" \in DOMAIN Anything
    BY DEF Anything
  <1>2. ~(expect.rules \subseteq observed.rules) => "rules" \in Check(expect, observed)
    BY <1>1, Zenon DEF Check
  <1>3. QED
    BY <1>2

(* A report without a blemish: every case was answered, as it expects. *)
LEMMA OkMeansMet ==
    ASSUME NEW suites, NEW said, ReportOk(suites, said), NEW c \in ActiveCases(suites)
    PROVE  said[c] # Failed /\ Check(ScenarioOf(suites, c).expect, said[c]) = {}
  BY DEF ReportOk, FailedCases, ErroredCases

(* An id that is unique stands for its own case. *)
LEMMA UniqueIsLast ==
    ASSUME NEW suites, AreSuites(suites), NEW c \in ActiveCases(suites),
           \A d \in ActiveCases(suites) :
              ScenarioOf(suites, c).id = ScenarioOf(suites, d).id => c = d
    PROVE  LastOf(suites, ScenarioOf(suites, c).id) = c
  <1> DEFINE same == {d \in ActiveCases(suites) : ScenarioOf(suites, d).id = ScenarioOf(suites, c).id}
  <1>1. same = {c}
    OBVIOUS
  <1>2. Later(c, c)
    <2>1. PICK s \in DOMAIN suites : c \in {s} \X DOMAIN suites[s]
      BY DEF ActiveCases, Cases
    <2>2. c[1] \in Nat /\ c[2] \in Nat
      BY <2>1 DEF AreSuites
    <2>3. QED
      BY <2>2 DEF Later
  <1>3. LastOf(suites, ScenarioOf(suites, c).id) = CHOOSE d \in same : \A x \in same : Later(d, x)
    BY DEF LastOf
  <1> HIDE DEF same
  <1>4. QED
    BY <1>1, <1>2, <1>3

(* An exit code of 0 of the simulator means what a pipeline takes it for,   *)
(* whatever the suites and whatever its targets answered: no exit code is    *)
(* green over no scenario, a target that failed, an expectation that was not *)
(* met, or a candidate that was refused.                                     *)
THEOREM NoGreenUnchecked ==
    ASSUME NEW suites, AreSuites(suites), NEW Said,
           NEW enforced \in [ActiveCases(suites) -> Said],
           NEW dry \in [ActiveCases(suites) -> Said],
           NEW request, NEW known
    PROVE  GreenIsChecked(suites, enforced, dry, request, known)
  <1> DEFINE active == ActiveCases(suites)
             candidate == Simulated(request, dry)
             Expected(c) == ScenarioOf(suites, c).expect
             Met(c, said) == said[c] # Failed /\ Check(Expected(c), said[c]) = {}
  <1>1. ASSUME ExitOfRun(suites, enforced) = 0
        PROVE  active # {} /\ \A c \in active : Met(c, enforced)
    BY <1>1, GreenRun, OkMeansMet DEF Loads
  <1>2. ASSUME ExitOfRun(suites, enforced) = 0, ExitOfValidate(suites, known) = 1,
               active = Cases(suites), \A c \in active : enforced[c].rules \subseteq known
        PROVE  \E c \in active : ~(Expected(c).absent \subseteq known)
    <2>1. PICK c \in active : ~((Expected(c).rules \cup Expected(c).absent) \subseteq known)
      BY <1>2, Invalid
    <2>2. Expected(c).rules \subseteq enforced[c].rules
      BY <1>1, <1>2, MetNamesTheRules
    <2>3. QED
      BY <1>2, <2>1, <2>2
  <1>3. ASSUME ExitOfParity(suites, enforced, dry) = 0,
               \A c, d \in active : ScenarioOf(suites, c).id = ScenarioOf(suites, d).id => c = d,
               NEW c \in active
        PROVE  Met(c, enforced) /\ Met(c, dry) /\ enforced[c].decision = dry[c].decision
    <2>1. Met(c, enforced) /\ Met(c, dry)
      BY <1>3, GreenParity, OkMeansMet
    <2>2. LastOf(suites, ScenarioOf(suites, c).id) = c
      BY <1>3, UniqueIsLast
    <2>3. ~Differ(enforced[c], dry[c])
      BY <1>3, <2>2, GreenParity DEF ParityFindings
    <2>4. QED
      BY <2>1, <2>3 DEF Differ
  <1>4. ASSUME ExitOfDiff(suites, enforced, candidate) = 0
        PROVE  /\ SimulateStatus(request) = 200
               /\ \A c \in active : enforced[c].decision = candidate[c].decision
    <2>1. /\ active # {} /\ Changed(suites, enforced, candidate) = {}
          /\ ErroredCases(suites, enforced) = {} /\ ErroredCases(suites, candidate) = {}
      BY <1>4, GreenDiff DEF Loads
    <2>2. \A c \in active : enforced[c] # Failed /\ candidate[c] # Failed
      BY <2>1 DEF ErroredCases
    <2>3. ~(SimulateStatus(request) >= 400)
      BY <2>1, <2>2 DEF Simulated
    <2>4. \A c \in active : ~Differ(enforced[c], candidate[c])
      BY <2>1 DEF Changed
    <2>5. QED
      BY <2>2, <2>3, <2>4, StatusIs DEF Differ
  <1>5. QED
    BY <1>1, <1>2, <1>3, <1>4 DEF GreenIsChecked

-----------------------------------------------------------------------------
(***************************************************************************)
(* The reviewers' queue.                                                   *)
(***************************************************************************)
Before(places, i) == {j \in places : j < i}

(* Places in an index are finitely many, and so are those before a place. *)
LEMMA PlacesAreFinite ==
    ASSUME NEW m \in Nat, NEW places \in SUBSET (1 .. m)
    PROVE  /\ IsFiniteSet(places) /\ Cardinality(places) \in Nat
           /\ \A part \in SUBSET places : /\ IsFiniteSet(part) /\ Cardinality(part) \in Nat
                                         /\ Cardinality(part) <= Cardinality(places)
  <1>1. IsFiniteSet(1 .. m)
    BY FS_Interval
  <1>2. IsFiniteSet(places)
    BY <1>1, FS_Subset
  <1>3. QED
    BY <1>2, FS_Subset, FS_CardinalityType

(* Of some places, one comes last. *)
LEMMA OneComesLast ==
    ASSUME NEW m \in Nat, NEW places \in SUBSET (1 .. m), places # {}
    PROVE  \E last \in places : \A i \in places : i <= last
  <1> DEFINE mirrored == {k \in 1 .. m : (m + 1) - k \in places}
  <1>1. mirrored \in SUBSET (1 .. m) /\ mirrored # {}
    <2>1. PICK i \in places : TRUE
      OBVIOUS
    <2>2. (m + 1) - i \in 1 .. m /\ (m + 1) - ((m + 1) - i) = i
      BY <2>1
    <2>3. (m + 1) - i \in mirrored
      BY <2>1, <2>2
    <2>4. QED
      BY <2>3
  <1>2. PICK k \in mirrored : \A j \in 1 .. k - 1 : j \notin mirrored
    BY <1>1, OneComesFirst
  <1>3. ASSUME NEW i \in places, i > (m + 1) - k
        PROVE  FALSE
    <2>1. (m + 1) - i \in 1 .. k - 1 /\ (m + 1) - i \in 1 .. m /\ (m + 1) - ((m + 1) - i) = i
      BY <1>3
    <2>2. (m + 1) - i \in mirrored
      BY <2>1
    <2>3. QED
      BY <1>2, <2>1, <2>2
  <1>4. \A i \in places : i <= (m + 1) - k
    BY <1>3
  <1>5. QED
    BY <1>4

(* The first n of some places are no more than n. *)
LEMMA FirstAreFew ==
    ASSUME NEW m \in Nat, NEW places \in SUBSET (1 .. m), NEW n \in Nat
    PROVE  Cardinality(First(n, places)) <= n
  <1> DEFINE few == First(n, places)
  <1>1. few \in SUBSET places /\ few \in SUBSET (1 .. m)
    BY DEF First
  <1>2. CASE few = {}
    BY <1>2, FS_EmptySet
  <1>3. CASE few # {}
    <2>1. PICK last \in few : \A i \in few : i <= last
      BY <1>1, <1>3, OneComesLast
    <2> DEFINE rest == few \ {last}
    <2>2. Cardinality(Before(places, last)) < n
      BY <2>1 DEF First, Before
    <2>3. rest \in SUBSET Before(places, last) /\ Before(places, last) \in SUBSET (1 .. m)
      <3>1. ASSUME NEW i \in rest
            PROVE  i \in places /\ i < last
        <4>1. i \in 1 .. m /\ last \in 1 .. m /\ i <= last /\ i # last /\ i \in places
          BY <1>1, <2>1
        <4>2. QED
          BY <4>1
      <3>2. QED
        BY <3>1 DEF Before
    <2>4. /\ IsFiniteSet(rest) /\ Cardinality(rest) \in Nat
          /\ Cardinality(Before(places, last)) \in Nat
          /\ Cardinality(rest) <= Cardinality(Before(places, last))
      BY <2>3, PlacesAreFinite
    <2>5. Cardinality(rest \cup {last}) = Cardinality(rest) + 1
      BY <2>4, FS_AddElement
    <2>6. rest \cup {last} = few
      BY <2>1
    <2> HIDE DEF few, rest
    <2>7. Cardinality(few) = Cardinality(rest) + 1
      BY <2>5, <2>6
    <2>8. Cardinality(few) <= n
      BY <2>2, <2>4, <2>7
    <2>9. QED
      BY <2>8 DEF few
  <1>4. QED
    BY <1>2, <1>3

(* The walk ends, and has read no page in vain. *)
LEMMA PagesReadIs ==
    ASSUME NEW index, NEW limit, NEW now
    PROVE  /\ PagesRead(index, limit, now) \in 1 .. MaxQueuePages
           /\ Enough(index, PagesRead(index, limit, now), limit, now)
  <1> DEFINE ends == {k \in 1 .. MaxQueuePages : Enough(index, k, limit, now)}
  <1>1. MaxQueuePages \in Nat /\ MaxQueuePages \in ends /\ ends \in SUBSET (1 .. MaxQueuePages)
    BY QueueAssumption DEF Enough
  <1>2. \E k \in ends : \A j \in 1 .. k - 1 : j \notin ends
    <2>1. ends # {}
      BY <1>1
    <2> HIDE DEF ends
    <2>2. QED
      BY <1>1, <2>1, OneComesFirst
  <1>3. \E k \in 1 .. MaxQueuePages :
           /\ Enough(index, k, limit, now)
           /\ \A j \in 1 .. k - 1 : ~Enough(index, j, limit, now)
    <2>1. PICK k \in ends : \A j \in 1 .. k - 1 : j \notin ends
      BY <1>2
    <2>2. \A j \in 1 .. k - 1 : j \in 1 .. MaxQueuePages
      BY <1>1
    <2>3. QED
      BY <2>1, <2>2
  <1>4. QED
    BY <1>3 DEF PagesRead

(* Whoever is live and was not collected has enough in front. *)
LEMMA BehindThePages ==
    ASSUME NEW m \in Nat, NEW index \in [1 .. m -> Nat], NEW limit \in Nat, NEW now \in Nat,
           NEW i \in Live(index, now),
           i \notin Collected(index, PagesRead(index, limit, now), now)
    PROVE  \/ i > QueuePageSize * MaxQueuePages
           \/ Cardinality(Before(Live(index, now), i)) >= limit
  <1> DEFINE k == PagesRead(index, limit, now)
             read == k * QueuePageSize
  <1>1. Len(index) = m /\ Live(index, now) \in SUBSET (1 .. m)
    BY DEF Live
  <1>2. k \in 1 .. MaxQueuePages /\ Enough(index, k, limit, now)
    BY PagesReadIs
  <1>3. i \in 1 .. m /\ i > read /\ read \in Nat
    <2>1. k * QueuePageSize \in Nat
      BY <1>2, QueueAssumption
    <2>2. QED
      BY <1>1, <2>1 DEF Collected
  <1>4. CASE read >= Len(index)
    BY <1>1, <1>3, <1>4
  <1>5. CASE Cardinality(Collected(index, k, now)) >= limit
    <2>1. Collected(index, k, now) \in SUBSET Before(Live(index, now), i)
      BY <1>1, <1>3 DEF Collected, Before
    <2>2. Before(Live(index, now), i) \in SUBSET (1 .. m)
      BY <1>1 DEF Before
    <2>3. /\ Cardinality(Collected(index, k, now)) \in Nat
          /\ Cardinality(Before(Live(index, now), i)) \in Nat
          /\ Cardinality(Collected(index, k, now)) <= Cardinality(Before(Live(index, now), i))
      BY <2>1, <2>2, PlacesAreFinite
    <2>4. QED
      BY <1>5, <2>3
  <1>6. CASE k = MaxQueuePages
    <2>1. QueuePageSize * MaxQueuePages = read
      BY <1>6, QueueAssumption
    <2>2. QED
      BY <1>3, <2>1
  <1>7. QED
    BY <1>2, <1>4, <1>5, <1>6 DEF Enough

(* However many expired decisions lie in front within the pages that may be  *)
(* read, and whatever their size: a reviewer sees the oldest of the live     *)
(* decisions there, and the same ones from either repository if the index    *)
(* fits them.                                                                *)
THEOREM OldestAreShown ==
    ASSUME NEW m \in Nat, NEW index \in [1 .. m -> Nat], NEW limit \in Nat,
           NEW asked \in Nat, NEW answered \in Nat, asked <= answered
    PROVE  ShowsOldest(index, limit, asked, answered)
  <1> DEFINE collected == Collected(index, PagesRead(index, limit, asked), asked)
             places == Live(index, answered) \cap collected
             shown == First(limit, places)
  <1>1. /\ Len(index) = m
        /\ Live(index, asked) \in SUBSET (1 .. m) /\ Live(index, answered) \in SUBSET (1 .. m)
        /\ Live(index, answered) \subseteq Live(index, asked)
        /\ collected \subseteq Live(index, asked)
    BY DEF Live, Collected
  <1>2. shown = ListPending(index, limit, asked, answered)
    BY DEF ListPending
  <1>3. \A i \in 1 .. m : Cardinality(Before(Live(index, asked), i)) \in Nat
    <2>1. \A i \in 1 .. m : Before(Live(index, asked), i) \in SUBSET (1 .. m)
      BY <1>1 DEF Before
    <2>2. QED
      BY <2>1, PlacesAreFinite
  <1>4. shown \subseteq Live(index, answered)
    BY DEF First
  <1>5. Cardinality(shown) <= limit
    BY <1>1, FirstAreFew
  <1> HIDE DEF collected
  <1>6. ASSUME NEW i \in Live(index, answered) \ shown
        PROVE  \/ i > QueuePageSize * MaxQueuePages
               \/ Cardinality(Before(Live(index, asked), i)) >= limit
    <2>1. CASE i \in collected
      <3>1. ~(Cardinality(Before(places, i)) < limit)
        BY <1>6, <2>1 DEF First, Before
      <3>2. Before(places, i) \in SUBSET Before(Live(index, asked), i)
        BY <1>1 DEF Before
      <3>3. Before(Live(index, asked), i) \in SUBSET (1 .. m)
        BY <1>1 DEF Before
      <3>4. /\ Cardinality(Before(places, i)) \in Nat
            /\ Cardinality(Before(Live(index, asked), i)) \in Nat
            /\ Cardinality(Before(places, i)) <= Cardinality(Before(Live(index, asked), i))
        BY <3>2, <3>3, PlacesAreFinite
      <3>5. QED
        BY <3>1, <3>4
    <2>2. CASE i \notin collected
      BY <1>1, <1>6, <2>2, BehindThePages DEF collected
    <2>3. QED
      BY <2>1, <2>2
  <1>7. ASSUME asked = answered, Len(index) <= QueuePageSize * MaxQueuePages
        PROVE  shown = ListPendingInMemory(index, limit, asked)
    <2>1. places = collected
      BY <1>1, <1>7
    <2>2. \A i \in Live(index, asked) : i \in 1 .. m /\ ~(i > QueuePageSize * MaxQueuePages)
      BY <1>1, <1>7, QueueAssumption
    <2>3. \A i \in collected : Before(Live(index, asked), i) = Before(collected, i)
      <3>1. PagesRead(index, limit, asked) * QueuePageSize \in Nat
        BY PagesReadIs, QueueAssumption
      <3>2. \A i \in collected, j \in Live(index, asked) : j < i => j \in collected
        BY <1>1, <3>1 DEF collected, Collected
      <3>3. QED
        BY <1>1, <3>2 DEF Before
    <2>4. \A i \in Live(index, asked) \ collected : Cardinality(Before(Live(index, asked), i)) >= limit
      BY <2>2, BehindThePages DEF collected
    <2>5. ASSUME NEW i
          PROVE  i \in shown <=> i \in ListPendingInMemory(index, limit, asked)
      <3>1. i \in shown <=> i \in collected /\ Cardinality(Before(collected, i)) < limit
        BY <2>1 DEF First, Before
      <3>2. i \in ListPendingInMemory(index, limit, asked) <=>
               i \in Live(index, asked) /\ Cardinality(Before(Live(index, asked), i)) < limit
        BY DEF ListPendingInMemory, First, Before
      <3>3. CASE i \in collected
        BY <1>1, <2>3, <3>1, <3>2, <3>3
      <3>4. CASE i \in Live(index, asked) \ collected
        BY <1>3, <2>2, <2>4, <3>1, <3>2, <3>4
      <3>5. CASE i \notin Live(index, asked)
        BY <1>1, <3>1, <3>2, <3>5
      <3>6. QED
        BY <3>3, <3>4, <3>5
    <2>6. QED
      BY <2>5
  <1> HIDE DEF shown
  <1>8. QED
    BY <1>2, <1>4, <1>5, <1>6, <1>7 DEF ShowsOldest, Before

-----------------------------------------------------------------------------
(***************************************************************************)
(* The demo agent.  The inductive invariant: the ledger is what has been   *)
(* done last and all that this invocation has done, one for every call     *)
(* listed as executed; nothing was done by an invocation still to come.    *)
(***************************************************************************)
AgentSpec == AgentInit /\ [][AgentNext]_agentVars

SideEffects == [invocation : Nat, turn : Nat]

AgentTypeOK ==
    /\ agent.invocation \in Nat /\ agent.turn \in Nat
    /\ outcomes \in Seq(Statuses)
    /\ done \in Seq(SideEffects)
    /\ dryRun \in BOOLEAN

LedgerIsOwn ==
    \E before \in 0 .. Len(done) :
       /\ ledger = SubSeq(done, before + 1, Len(done))
       /\ \A i \in DOMAIN done : done[i].invocation = agent.invocation <=> i > before

NothingIsAhead == \A i \in DOMAIN done : done[i].invocation <= agent.invocation

Ran(tools) == {i \in DOMAIN tools : tools[i] = "executed"}

EffectsAreListed == ~dryRun => Len(ledger) = Cardinality(Ran(outcomes))

ToldAsItIs ==
    agent.step = "idle" /\ response.status = 200 =>
       response.effects = ledger /\ response.tools = outcomes

AgentInv ==
    AgentTypeOK /\ LedgerIsOwn /\ NothingIsAhead /\ EffectsAreListed /\ ToldAsItIs

(* One more call is listed, and counts if it was executed. *)
LEMMA OneMoreListed ==
    ASSUME NEW tools \in Seq(Statuses), NEW status \in Statuses
    PROVE  /\ Append(tools, status) \in Seq(Statuses)
           /\ Cardinality(Ran(tools)) \in Nat
           /\ status = "executed" => Cardinality(Ran(Append(tools, status))) = Cardinality(Ran(tools)) + 1
           /\ status # "executed" => Cardinality(Ran(Append(tools, status))) = Cardinality(Ran(tools))
  <1> DEFINE n == Len(tools) + 1
             more == Append(tools, status)
  <1>1. /\ Len(tools) \in Nat /\ DOMAIN tools = 1 .. Len(tools)
        /\ more \in Seq(Statuses) /\ Len(more) = n /\ more[n] = status
        /\ \A i \in 1 .. Len(tools) : more[i] = tools[i]
    BY LenProperties, AppendProperties
  <1>2. DOMAIN more = 1 .. n
    BY <1>1, LenProperties
  <1>3. IsFiniteSet(Ran(tools)) /\ Cardinality(Ran(tools)) \in Nat /\ n \notin Ran(tools)
    <2>1. Ran(tools) \in SUBSET (1 .. Len(tools))
      BY <1>1 DEF Ran
    <2>2. IsFiniteSet(Ran(tools)) /\ Cardinality(Ran(tools)) \in Nat
      BY <1>1, <2>1, PlacesAreFinite
    <2>3. n \notin 1 .. Len(tools)
      BY <1>1
    <2>4. QED
      BY <2>1, <2>2, <2>3
  <1>4. Ran(more) = IF status = "executed" THEN Ran(tools) \cup {n} ELSE Ran(tools)
    BY <1>1, <1>2 DEF Ran
  <1>5. Cardinality(Ran(tools) \cup {n}) = Cardinality(Ran(tools)) + 1
    BY <1>3, FS_AddElement
  <1>6. QED
    BY <1>1, <1>3, <1>4, <1>5

(* What is done next is the last of what has been done. *)
LEMMA TheLastGrow ==
    ASSUME NEW S, NEW seq \in Seq(S), NEW e \in S, NEW n \in 0 .. Len(seq)
    PROVE  SubSeq(seq, n + 1, Len(seq)) \o << e >> = SubSeq(seq \o << e >>, n + 1, Len(seq) + 1)
  <1> DEFINE m == Len(seq)
             grown == seq \o << e >>
  <1>1. m \in Nat /\ << e >> \in Seq(S) /\ Len(<< e >>) = 1 /\ << e >>[1] = e
    BY LenProperties
  <1>2. grown \in Seq(S) /\ Len(grown) = m + 1 /\ grown[m + 1] = e
    <2>1. /\ grown \in Seq(S) /\ Len(grown) = m + 1
          /\ \A i \in 1 .. m + 1 : grown[i] = IF i <= m THEN seq[i] ELSE << e >>[i - m]
      BY <1>1, ConcatProperties
    <2>2. QED
      BY <1>1, <2>1
  <1>3. SubSeq(grown, n + 1, m + 1) = SubSeq(grown, n + 1, m) \o << e >>
    <2>1. n + 1 \in 1 .. Len(grown) /\ m + 1 \in (n + 1) .. Len(grown) /\ (m + 1) - 1 = m
      BY <1>1, <1>2
    <2> HIDE DEF m, grown
    <2>2. SubSeq(grown, n + 1, m + 1) = SubSeq(grown, n + 1, (m + 1) - 1) \o << grown[m + 1] >>
      BY <1>2, <2>1, SubSeqRecursiveSecond
    <2>3. QED
      BY <1>2, <2>1, <2>2
  <1>4. SubSeq(grown, n + 1, m) = SubSeq(seq, n + 1, m)
    <2>1. CASE n = m
      <3>1. m < n + 1 /\ n + 1 \in Int /\ m \in Int
        BY <1>1, <2>1
      <3>2. SubSeq(grown, n + 1, m) = << >> /\ SubSeq(seq, n + 1, m) = << >>
        BY <3>1, SubSeqEmpty
      <3>3. QED
        BY <3>2
    <2>2. CASE n # m
      <3>1. n + 1 \in 1 .. Len(seq) /\ m \in 1 .. Len(seq)
        BY <1>1, <2>2
      <3>2. QED
        BY <1>1, <3>1, SubSeqOfConcat1
    <2>3. QED
      BY <2>1, <2>2
  <1>5. QED
    BY <1>3, <1>4

(* A tool call, however it ends, leaves the ledger in step with what was done. *)
LEMMA InvokeToolKeepsInv ==
    ASSUME AgentInv, InvokeTool
    PROVE  AgentInv'
  <1> DEFINE effect == [invocation |-> agent.invocation, turn |-> agent.turn]
  <1>1. AgentTypeOK /\ LedgerIsOwn /\ NothingIsAhead /\ EffectsAreListed
    BY DEF AgentInv
  <1>2. /\ Len(done) \in Nat /\ DOMAIN done = 1 .. Len(done)
        /\ effect \in SideEffects /\ effect.invocation = agent.invocation
    BY <1>1, LenProperties DEF AgentTypeOK, SideEffects
  <1> DEFINE effects(status) == IF status = "executed" /\ ~dryRun THEN << effect >> ELSE << >>
  <1>3. PICK status \in Statuses :
           /\ outcomes' = Append(outcomes, status)
           /\ ledger' = ledger \o effects(status) /\ done' = done \o effects(status)
           /\ \/ Proceed("tools", agent.turn, agent.calls - 1)
              \/ Proceed("model", agent.turn + 1, 0)
              \/ Finish(200, outcomes', ledger')
    BY DEF InvokeTool
  <1>4. /\ agent'.invocation = agent.invocation /\ agent'.turn \in Nat
        /\ dryRun' = dryRun
        /\ agent'.step = "idle" => response' = Answer(200, outcomes', ledger')
    <2>1. dryRun' = dryRun
      BY DEF InvokeTool
    <2>2. QED
      BY <1>1, <1>3, <2>1 DEF Proceed, Finish, AgentTypeOK
  <1>5. /\ outcomes' \in Seq(Statuses) /\ Cardinality(Ran(outcomes)) \in Nat
        /\ status = "executed" => Cardinality(Ran(outcomes')) = Cardinality(Ran(outcomes)) + 1
        /\ status # "executed" => Cardinality(Ran(outcomes')) = Cardinality(Ran(outcomes))
    BY <1>1, <1>3, OneMoreListed DEF AgentTypeOK
  <1>6. ToldAsItIs'
    BY <1>4 DEF ToldAsItIs, Answer
  <1>7. PICK n \in 0 .. Len(done) :
           /\ ledger = SubSeq(done, n + 1, Len(done))
           /\ \A i \in DOMAIN done : done[i].invocation = agent.invocation <=> i > n
    BY <1>1 DEF LedgerIsOwn
  <1>8. ledger \in Seq(SideEffects) /\ Len(ledger) \in Nat
    <2>1. n + 1 \in Int /\ Len(done) \in Int /\ \A i \in (n + 1) .. Len(done) : done[i] \in SideEffects
      BY <1>1, <1>2, ElementOfSeq DEF AgentTypeOK
    <2>2. QED
      BY <1>7, <2>1, SubSeqProperties, LenProperties
  <1> HIDE DEF effect
  <1>9. CASE status = "executed" /\ ~dryRun
    <2>1. done' = done \o << effect >> /\ ledger' = ledger \o << effect >>
      BY <1>3, <1>9
    <2>2. << effect >> \in Seq(SideEffects) /\ Len(<< effect >>) = 1 /\ << effect >>[1] = effect
      BY <1>2
    <2>3. /\ done' \in Seq(SideEffects) /\ Len(done') = Len(done) + 1
          /\ \A i \in 1 .. Len(done) + 1 :
                done'[i] = IF i <= Len(done) THEN done[i] ELSE << effect >>[i - Len(done)]
      BY <1>1, <2>1, <2>2, ConcatProperties DEF AgentTypeOK
    <2>4. /\ DOMAIN done' = 1 .. Len(done) + 1
          /\ \A i \in 1 .. Len(done) : done'[i] = done[i]
          /\ done'[Len(done) + 1] = effect
      BY <1>2, <2>2, <2>3, LenProperties
    <2>5. ledger' = SubSeq(done', n + 1, Len(done'))
      BY <1>1, <1>2, <1>7, <2>1, <2>3, TheLastGrow DEF AgentTypeOK
    <2>6. \A i \in DOMAIN done' : done'[i].invocation = agent.invocation <=> i > n
      BY <1>2, <1>7, <2>4
    <2>7. LedgerIsOwn'
      <3>1. n \in 0 .. Len(done')
        BY <1>2, <2>3
      <3>2. \A i \in DOMAIN done' : done'[i].invocation = agent'.invocation <=> i > n
        BY <1>4, <2>6
      <3>3. QED
        BY <2>5, <3>1, <3>2 DEF LedgerIsOwn
    <2>8. NothingIsAhead'
      BY <1>1, <1>2, <1>4, <2>4 DEF NothingIsAhead, AgentTypeOK
    <2>9. Len(ledger') = Len(ledger) + 1
      BY <1>8, <2>1, <2>2, ConcatProperties
    <2>10. EffectsAreListed'
      BY <1>1, <1>4, <1>5, <1>9, <2>9 DEF EffectsAreListed
    <2>11. AgentTypeOK'
      BY <1>1, <1>4, <1>5, <2>3 DEF AgentTypeOK
    <2>12. QED
      BY <1>6, <2>7, <2>8, <2>10, <2>11 DEF AgentInv
  <1>10. CASE ~(status = "executed" /\ ~dryRun)
    <2>1. done' = done /\ ledger' = ledger
      <3>1. done' = done \o << >> /\ ledger' = ledger \o << >>
        BY <1>3, <1>10
      <3>2. QED
        BY <1>1, <1>8, <3>1, ConcatEmptySeq DEF AgentTypeOK
    <2>2. LedgerIsOwn' /\ NothingIsAhead'
      BY <1>1, <1>4, <2>1 DEF LedgerIsOwn, NothingIsAhead
    <2>3. EffectsAreListed'
      BY <1>1, <1>4, <1>5, <1>10, <2>1 DEF EffectsAreListed
    <2>4. AgentTypeOK'
      BY <1>1, <1>4, <1>5, <2>1 DEF AgentTypeOK
    <2>5. QED
      BY <1>6, <2>2, <2>3, <2>4 DEF AgentInv
  <1>11. QED
    BY <1>9, <1>10

(* An invocation begins with a ledger of its own, and owns nothing yet. *)
LEMMA InvokeKeepsInv ==
    ASSUME AgentInv, Invoke
    PROVE  AgentInv'
  <1>1. AgentTypeOK /\ NothingIsAhead
    BY DEF AgentInv
  <1>2. /\ agent'.invocation = agent.invocation + 1 /\ agent'.turn = 1 /\ agent'.step = "model"
        /\ ledger' = << >> /\ outcomes' = << >> /\ done' = done /\ dryRun' \in BOOLEAN
    BY DEF Invoke, ResetSideEffects
  <1>3. Len(done) \in Nat /\ DOMAIN done = 1 .. Len(done)
        /\ \A i \in DOMAIN done : done[i].invocation \in Nat
    <2>1. /\ done \in Seq(SideEffects) /\ Len(done) \in Nat /\ DOMAIN done = 1 .. Len(done)
          /\ \A i \in DOMAIN done : done[i] \in SideEffects
      BY <1>1, LenProperties, ElementOfSeq DEF AgentTypeOK
    <2>2. QED
      BY <2>1 DEF SideEffects
  <1>4. AgentTypeOK'
    BY <1>1, <1>2, EmptySeq DEF AgentTypeOK
  <1>5. LedgerIsOwn'
    <2>1. Len(done) + 1 \in Int /\ Len(done) \in Int /\ Len(done) < Len(done) + 1
      BY <1>3
    <2>2. ledger' = SubSeq(done', Len(done) + 1, Len(done'))
      BY <1>2, <2>1, SubSeqEmpty
    <2>3. \A i \in DOMAIN done' : done'[i].invocation = agent'.invocation <=> i > Len(done)
      BY <1>1, <1>2, <1>3 DEF NothingIsAhead, AgentTypeOK
    <2>4. QED
      BY <1>2, <1>3, <2>2, <2>3 DEF LedgerIsOwn
  <1>6. NothingIsAhead'
    BY <1>1, <1>2, <1>3 DEF NothingIsAhead, AgentTypeOK
  <1>7. EffectsAreListed'
    <2>1. Ran(outcomes') = {} /\ Len(ledger') = 0
      BY <1>2 DEF Ran
    <2>2. QED
      BY <2>1, FS_EmptySet DEF EffectsAreListed
  <1>8. ToldAsItIs'
    BY <1>2 DEF ToldAsItIs
  <1>9. QED
    BY <1>4, <1>5, <1>6, <1>7, <1>8 DEF AgentInv

(* Nothing has been done at first. *)
LEMMA AgentInvInit == AgentInit => AgentInv
  <1> SUFFICES ASSUME AgentInit
               PROVE  AgentInv
    OBVIOUS
  <1>1. /\ agent.invocation = 0 /\ agent.turn = 0 /\ response.status = 0 /\ dryRun = FALSE
        /\ ledger = << >> /\ outcomes = << >> /\ done = << >>
    BY DEF AgentInit, Answer
  <1>2. AgentTypeOK
    <2>1. << >> \in Seq(Statuses) /\ << >> \in Seq(SideEffects)
      BY EmptySeq
    <2>2. dryRun \in BOOLEAN
      BY <1>1
    <2>3. QED
      BY <1>1, <2>1, <2>2 DEF AgentTypeOK
  <1>3. LedgerIsOwn
    <2>1. Len(done) = 0 /\ DOMAIN done = {} /\ SubSeq(done, 0 + 1, 0) = << >>
      BY <1>1, SubSeqEmpty
    <2>2. QED
      BY <1>1, <2>1 DEF LedgerIsOwn
  <1>4. NothingIsAhead
    BY <1>1 DEF NothingIsAhead
  <1>5. EffectsAreListed
    <2>1. Ran(outcomes) = {} /\ Len(ledger) = 0
      BY <1>1 DEF Ran
    <2>2. QED
      BY <2>1, FS_EmptySet DEF EffectsAreListed
  <1>6. ToldAsItIs
    BY <1>1 DEF ToldAsItIs
  <1>7. QED
    BY <1>2, <1>3, <1>4, <1>5, <1>6 DEF AgentInv

(* Every step of the agent. *)
LEMMA AgentInvStep == AgentInv /\ [AgentNext]_agentVars => AgentInv'
  <1> SUFFICES ASSUME AgentInv, [AgentNext]_agentVars
               PROVE  AgentInv'
    OBVIOUS
  <1>1. ASSUME UNCHANGED << dryRun, ledger, outcomes, done >>,
               agent'.invocation = agent.invocation, agent'.turn = agent.turn
        PROVE  AgentTypeOK' /\ LedgerIsOwn' /\ NothingIsAhead' /\ EffectsAreListed'
    BY <1>1 DEF AgentInv, AgentTypeOK, LedgerIsOwn, NothingIsAhead, EffectsAreListed
  <1>2. CASE TurnAway
    <2>1. response'.status \in {400, 401, 500} /\ UNCHANGED << dryRun, ledger, agent, outcomes, done >>
      BY <1>2 DEF TurnAway, Answer
    <2>2. QED
      BY <1>1, <2>1 DEF AgentInv, ToldAsItIs
  <1>3. CASE Conclude \/ AgentFails
    <2>1. /\ agent'.invocation = agent.invocation /\ agent'.turn = agent.turn
          /\ response'.status = 200 => response'.effects = ledger /\ response'.tools = outcomes
          /\ UNCHANGED << dryRun, ledger, outcomes, done >>
      BY <1>3 DEF Conclude, AgentFails, Finish, Proceed, Answer
    <2>2. QED
      BY <1>1, <2>1 DEF AgentInv, ToldAsItIs
  <1>4. CASE ModelCallsTools
    <2>1. /\ agent'.invocation = agent.invocation /\ agent'.turn = agent.turn /\ agent'.step = "tools"
          /\ UNCHANGED << dryRun, ledger, outcomes, done >>
      BY <1>4 DEF ModelCallsTools, Proceed
    <2>2. QED
      BY <1>1, <2>1 DEF AgentInv, ToldAsItIs
  <1>5. CASE UNCHANGED agentVars
    <2>1. UNCHANGED << dryRun, ledger, agent, outcomes, response, done >>
      BY <1>5 DEF agentVars
    <2>2. QED
      BY <1>1, <2>1 DEF AgentInv, ToldAsItIs
  <1>6. QED
    BY <1>2, <1>3, <1>4, <1>5, InvokeToolKeepsInv, InvokeKeepsInv DEF AgentNext

(* What is answered is the ledger, and the ledger is the invocation's own. *)
LEMMA AgentInvTells == AgentInv => TranscriptIsOwn
  BY DEF AgentInv, LedgerIsOwn, EffectsAreListed, ToldAsItIs, TranscriptIsOwn, Ran

(* However many invocations a warm container serves, and wherever they fail: *)
(* a transcript tells exactly what its own invocation did.                    *)
THEOREM TranscriptsAreOwn == AgentSpec => []TranscriptIsOwn
  BY AgentInvInit, AgentInvStep, AgentInvTells, PTL DEF AgentSpec

-----------------------------------------------------------------------------
(***************************************************************************)
(* The cases.  A behaviour judges one subject; what holds of every subject *)
(* it may have taken holds of it for good.                                 *)
(***************************************************************************)

(* No guess is that a fact is still unknown. *)
LEMMA GuessesAreKnown == Unknown \notin Guesses
  BY DEF Guesses, Unknown, Num, Text, Many

(* The bundles of the cases are ones the engine's theorems are about. *)
LEMMA BundlesAreWellFormed ==
    ASSUME NEW bundle \in Bundles
    PROVE  WellFormed(bundle)
  <1>1. PICK one \in FirstRules, other \in SecondRules, d \in {"allow", "log_and_allow", "block"} :
           bundle = Bundle(<< one >> \o other, d)
    BY DEF Bundles
  <1>2. bundle.rules = << one >> \o other /\ bundle.default = d
    BY <1>1 DEF Bundle
  <1> DEFINE Fine(rule) == rule.effect \in Effects /\ IsList(rule.all) /\ IsList(rule.any)
  <1>3. Fine(one)
    <2>1. PICK c \in UNION {Conditions(p) : p \in FirstPredicates}, e \in Effects :
             one = [id |-> "r1", enabled |-> TRUE, tools |-> {"send_mail"}, all |-> c[1], any |-> c[2],
                    effect |-> e, hitl |-> e = "require_hitl"]
      BY DEF FirstRules
    <2>2. IsList(c[1]) /\ IsList(c[2])
      <3> PICK p \in FirstPredicates : c \in Conditions(p)
        OBVIOUS
      <3>1. /\ DOMAIN << p >> = 1 .. 1 /\ DOMAIN << Few >> = 1 .. 1 /\ DOMAIN << >> = 1 .. 0
            /\ DOMAIN << Few, p >> = 1 .. 2 /\ DOMAIN << p, Outside >> = 1 .. 2
        OBVIOUS
      <3>2. /\ IsList(<< p >>) /\ IsList(<< Few >>) /\ IsList(<< >>)
            /\ IsList(<< Few, p >>) /\ IsList(<< p, Outside >>)
        BY <3>1 DEF IsList
      <3>3. QED
        BY <3>2 DEF Conditions
    <2>3. QED
      BY <2>1, <2>2
  <1>4. other = << >> \/ \E rule : other = << rule >> /\ Fine(rule)
    <2>1. CASE other = << >>
      BY <2>1
    <2>2. CASE other # << >>
      <3>1. PICK on \in BOOLEAN, e \in {"allow", "block"} :
               other = << [id |-> "r2", enabled |-> on, tools |-> Tools, all |-> << Outside >>,
                           any |-> << >>, effect |-> e, hitl |-> FALSE] >>
        BY <2>2 DEF SecondRules
      <3>2. DOMAIN << Outside >> = 1 .. 1 /\ DOMAIN << >> = 1 .. 0
        OBVIOUS
      <3>3. IsList(<< Outside >>) /\ IsList(<< >>)
        BY <3>2 DEF IsList
      <3>4. QED
        BY <3>1, <3>3, EffectOrder
    <2>3. QED
      BY <2>1, <2>2
  <1> HIDE DEF Fine
  <1>5. \A i \in DOMAIN bundle.rules : Fine(bundle.rules[i])
    <2>1. CASE other = << >>
      <3>1. bundle.rules = << one >>
        BY <1>2, <2>1
      <3>2. QED
        BY <1>3, <3>1
    <2>2. CASE \E rule : other = << rule >> /\ Fine(rule)
      <3>1. PICK rule : other = << rule >> /\ Fine(rule)
        BY <2>2
      <3> DEFINE S == {one, rule}
      <3>2. << one >> \in Seq(S) /\ << rule >> \in Seq(S)
        OBVIOUS
      <3>3. << one >> \o << rule >> \in Seq(S)
        BY <3>2, ConcatProperties
      <3>4. \A i \in DOMAIN (<< one >> \o << rule >>) : (<< one >> \o << rule >>)[i] \in S
        BY <3>3, LenProperties, ElementOfSeq
      <3>5. bundle.rules = << one >> \o << rule >>
        BY <1>2, <3>1
      <3>6. QED
        BY <1>3, <3>1, <3>4, <3>5
    <2>3. QED
      BY <1>4, <2>1, <2>2
  <1>6. bundle.default \in Effects
    BY <1>2, EffectOrder
  <1>7. QED
    BY <1>5, <1>6 DEF WellFormed, Fine

(* The suites of the cases are ones the simulator's theorem is about. *)
LEMMA LayoutsAreSuites ==
    ASSUME NEW suites \in Layouts
    PROVE  AreSuites(suites)
  <1>1. CASE \E s, t \in Scenarios : suites = << << s, t >> >>
    BY <1>1 DEF AreSuites
  <1>2. CASE \E s, t \in Scenarios : suites = << << s >>, << t >> >>
    BY <1>2 DEF AreSuites
  <1>3. QED
    BY <1>1, <1>2 DEF Layouts

(* Whatever subject a behaviour begins with, these hold of it. *)
SubjectIsRight == UnknownNeverPermits /\ UnknownsSurface /\ GreenMeansChecked /\ QueueShowsOldest

(* They hold of each kind of subject at the start. *)
LEMMA SubjectsAreRight == CasesInit => SubjectIsRight
  <1> SUFFICES ASSUME CasesInit
               PROVE  SubjectIsRight
    OBVIOUS
  <1>1. CASE IsJudged
    <2>1. PICK bundle \in Bundles, envelope \in Envelopes :
             subject = [kind |-> "judged", bundle |-> bundle, facts |-> BuildFacts(envelope)]
      BY <1>1 DEF IsJudged
    <2>2. subject.kind = "judged" /\ WellFormed(subject.bundle)
      BY <2>1, BundlesAreWellFormed
    <2>3. /\ NoGuessPermits(subject.bundle, subject.facts, "send_mail", Guesses)
          /\ NoSilentGuess(subject.bundle, subject.facts, "send_mail", Guesses)
      BY <2>2, GuessesAreKnown, NoBundleGuesses, NoGuessIsSilent
    <2>4. QED
      BY <2>2, <2>3
         DEF SubjectIsRight, UnknownNeverPermits, UnknownsSurface, GreenMeansChecked, QueueShowsOldest
  <1>2. CASE IsRun
    <2>1. PICK suites \in Layouts :
             \E enforced, dry \in [ActiveCases(suites) -> Answers], request \in SimulateRequests :
                subject = [kind |-> "run", suites |-> suites, enforced |-> enforced, dry |-> dry,
                           request |-> request]
      BY <1>2 DEF IsRun
    <2>2. PICK enforced \in [ActiveCases(suites) -> Answers], dry \in [ActiveCases(suites) -> Answers],
               request \in SimulateRequests :
             subject = [kind |-> "run", suites |-> suites, enforced |-> enforced, dry |-> dry,
                        request |-> request]
      BY <2>1
    <2>3. GreenIsChecked(suites, enforced, dry, request, {"r1", "r2"})
      BY LayoutsAreSuites, NoGreenUnchecked
    <2>4. QED
      BY <2>2, <2>3
         DEF SubjectIsRight, UnknownNeverPermits, UnknownsSurface, GreenMeansChecked, QueueShowsOldest
  <1>3. CASE IsQueue
    <2>1. PICK n \in 0 .. 5 :
             \E index \in [1 .. n -> 1 .. 3], limit \in 1 .. 3, asked, answered \in 0 .. 3 :
                /\ asked <= answered
                /\ subject = [kind |-> "queue", index |-> index, limit |-> limit,
                              asked |-> asked, answered |-> answered]
      BY <1>3 DEF IsQueue
    <2>2. PICK index \in [1 .. n -> 1 .. 3], limit \in 1 .. 3, asked \in 0 .. 3, answered \in 0 .. 3 :
             /\ asked <= answered
             /\ subject = [kind |-> "queue", index |-> index, limit |-> limit,
                           asked |-> asked, answered |-> answered]
      BY <2>1
    <2>3. /\ n \in Nat /\ index \in [1 .. n -> Nat] /\ limit \in Nat
          /\ asked \in Nat /\ answered \in Nat
      OBVIOUS
    <2>4. ShowsOldest(index, limit, asked, answered)
      BY <2>2, <2>3, OldestAreShown
    <2>5. QED
      BY <2>2, <2>4
         DEF SubjectIsRight, UnknownNeverPermits, UnknownsSurface, GreenMeansChecked, QueueShowsOldest
  <1>4. CASE subject = [kind |-> "limiter"] \/ subject = [kind |-> "agent"]
    BY <1>4
       DEF SubjectIsRight, UnknownNeverPermits, UnknownsSurface, GreenMeansChecked, QueueShowsOldest
  <1>5. QED
    BY <1>1, <1>2, <1>3, <1>4 DEF CasesInit

(* The subject of a behaviour does not change. *)
LEMMA SubjectsStay == SubjectIsRight /\ [CasesNext]_caseVars => SubjectIsRight'
  <1>1. [CasesNext]_caseVars => subject' = subject
    BY DEF CasesNext, InLimiter, InAgent, caseVars
  <1>2. subject' = subject /\ SubjectIsRight => SubjectIsRight'
    BY DEF SubjectIsRight, UnknownNeverPermits, UnknownsSurface, GreenMeansChecked, QueueShowsOldest
  <1>3. QED
    BY <1>1, <1>2

(* No step changes the subject, so they always hold. *)
LEMMA SubjectInvariant == CasesSpec => []SubjectIsRight
  BY SubjectsAreRight, SubjectsStay, PTL DEF CasesSpec

(* No bundle of the cases permits a call on the strength of a guess, however *)
(* texts are read and whatever tools there are.                              *)
THEOREM CasesNeverGuess == CasesSpec => []UnknownNeverPermits
  <1>1. SubjectIsRight => UnknownNeverPermits
    BY DEF SubjectIsRight
  <1>2. QED
    BY <1>1, SubjectInvariant, PTL

(* Nor is one silent about a guess. *)
THEOREM CasesTellTheirGuesses == CasesSpec => []UnknownsSurface
  <1>1. SubjectIsRight => UnknownsSurface
    BY DEF SubjectIsRight
  <1>2. QED
    BY <1>1, SubjectInvariant, PTL

(* No exit code of the simulator is green over what was not checked; parity *)
(* promises this of ids that occur once.                                    *)
THEOREM CasesAreGreenWhenChecked == CasesSpec => []GreenMeansChecked
  <1>1. SubjectIsRight => GreenMeansChecked
    BY DEF SubjectIsRight
  <1>2. QED
    BY <1>1, SubjectInvariant, PTL

(* Every queue of the cases shows its oldest, within its ceiling of pages. *)
THEOREM CasesShowTheOldest == CasesSpec => []QueueShowsOldest
  <1>1. SubjectIsRight => QueueShowsOldest
    BY DEF SubjectIsRight
  <1>2. QED
    BY <1>1, SubjectInvariant, PTL

(* In the cases, as everywhere, a transcript is its invocation's own ... *)
THEOREM CasesTellTheirOwn == CasesSpec => []TranscriptIsOwn
  <1>1. [CasesNext]_caseVars => [AgentNext]_agentVars
    BY DEF CasesNext, InLimiter, InAgent, caseVars
  <1>2. CasesInit => AgentInv
    BY AgentInvInit DEF CasesInit
  <1>3. QED
    BY <1>1, <1>2, AgentInvStep, AgentInvTells, PTL DEF CasesSpec

(* ... and admissions are bounded. *)
THEOREM CasesBoundAdmissions == CasesSpec => []AdmissionBounded
  <1>1. [CasesNext]_caseVars => [LimiterNext]_limiterVars
    BY DEF CasesNext, InLimiter, InAgent, caseVars
  <1>2. LimiterInv => AdmissionBounded
    BY InvBoundsAdmission
  <1>3. CasesInit => LimiterInv
    BY LimiterInvInit DEF CasesInit
  <1>4. QED
    BY <1>1, <1>2, <1>3, LimiterInvStep, PTL DEF CasesSpec
=============================================================================
