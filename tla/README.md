# VanguardRail: models, checks and proofs

This directory holds TLA+ models of the VanguardRail control plane and its SDK,
the configurations under which TLC checks them, and proofs that TLAPS checks.
Paths below are relative to `src/`; `svc/` is short for
`packages/guardrail-service/src/guardrail_service/`, `sdk/` for
`packages/guardrail-sdk/src/guardrail_sdk/`, `core/` for
`packages/guardrail-core/src/guardrail_core/`, `sim/` for
`packages/guardrail-sim/src/guardrail_sim/` and `agent/` for
`apps/demo-agent/src/demo_agent/`.

    tlc -workers 2 -config audit_chain_faults.cfg MCAuditChain.tla
    tlapm EvaluateProofs.tla

## The system

An agent's tool call is wrapped by the SDK, which posts it to `/v1/evaluate`.
The service runs as any number of Lambda containers with no memory in common.
All of them share DynamoDB tables, and nothing else. A container evaluates the
call against the active policy, appends the decision to a hash chain, and only
then replies: allow, log and allow, block, or hold for a human reviewer.

| Component | State | Operations | Talks to |
|---|---|---|---|
| Audit chain, `svc/storage/audit.py` | per tenant: numbered records, each with the digest of its predecessor; remembered answers by idempotency key | `append`, `verify_chain`, `find_idempotent`, `store_idempotent` | called by the evaluate and the decisions router |
| Evaluate endpoint, `svc/routers/evaluate.py` | none of its own | one handler | auth, rate limiter, provider, engine, audit chain, decision store |
| SDK client and decorator, `sdk/client.py`, `sdk/decorator.py` | retries of a call; a circuit breaker shared by threads | `evaluate`, `wait_for_decision`, the governed call | the two endpoints |
| Human review, `svc/storage/decisions.py`, `svc/routers/decisions.py` | one record per held action: status, expiry, reviewer | `create`, `get`, `list_pending`, `resolve` | audit chain; polled by the SDK |
| Policy store, `svc/storage/policies.py`, `svc/routers/policies.py` | numbered immutable versions, one active pointer | `publish`, `activate` (also rollback), reads | provider |
| Policy provider, `svc/policy_provider.py`, `svc/routers/health.py` | per container: the cached bundle, when it was checked, whether degraded | `get`/`state`, `invalidate`; read by `/readyz` | policy store; read by evaluate |
| Policy engine, `core/` | none | deriving facts, rule matching, effect precedence | called by evaluate, simulate, the simulator |
| Rate limiter, `svc/ratelimit.py` | per container: a token bucket per tenant, in an LRU | `check` | runs before evaluate |
| Authentication, `svc/auth.py` | parsed keys | key lookup, roles | runs before every route |
| MCP proxy, `sdk/mcp.py` | two pump threads, a child server, the streams between them | forward, refuse, relay | SDK client, an MCP server |
| Framework adapters, `sdk/adapters.py` | none | wrap tools | decorator, client |
| Simulator, `sim/`, `svc/routers/simulate.py` | none | `run`, `parity`, `diff`, `validate` | engine, the two endpoints |
| Demo agent, `agent/` | the ledger of side effects of a warm container | one invocation | decorator, a model |
| Console, `apps/console-ui/` | a session, in memory and in the browser's storage | connect, disconnect | the API |
| Infrastructure, scripts | | | |

What is hard here, and what would make each part correct:

- **Audit chain.** Every container writes to the end of one chain. Reads and
  writes are separate requests; replies get lost; a container may stop at any
  point; the table throttles. Correct means: no slot skipped, no fork, nothing
  replaced; a returned record is in the table for good; a failed append has
  written nothing unless a reply was lost; retrying ends.
- **Evaluate and the client.** A client that stops waiting posts again while
  the first handler runs on. Correct means: nobody acts on an unrecorded
  decision; a replay repeats the first stored answer; an agent told to wait has
  something to poll; a refusal fails closed; every call ends.
- **Human review.** Several reviewers, expiry by the clock, and a polling agent
  race each other. Correct means: one judgement wins and stands, silence is not
  consent, the audit chain never contradicts the record.
- **Policy store and provider.** Publishers race for version numbers, the
  pointer is read with eventual consistency, every container caches, and a
  store outage must not weaken the policy. Correct means: an active pointer
  names a stored version, containers converge on it, a bundle once served is
  not silently replaced by a weaker one.
- **Engine.** Facts may be unknown, conditions are lazy, and rules join them two
  ways. Correct means: no permission rests on a guess, and no guess is silent.
- **Breaker and wrappers.** Threads share counters, and five ways of wrapping
  a tool turn the same answer into different outcomes. Correct means: a tool
  runs only when it may, a service that is down is left alone and found again.
- **MCP proxy.** Two pumps write to one stream, and three parties wait for each
  other to end, and either end may be gone. Correct means: every message is
  answered exactly once, what was refused does not go upstream, and a hang-up
  ends the session.
- **Rate limiter, queue, simulator, demo agent.** Sequential, but with a bound
  at which each could go wrong: an evicted bucket, a full page, a target that
  fails, a warm container.

The hazards list of `PROJECT.json` gives each of these at its line, with the
property that covers it or the reason why none does.

## The modules

    AuditRecords          digests, records, verify_records      (operators)
      AuditChain          append by many containers
        AuditChainProofs
    AuditLog              what an audit log promises            (abstract)
      implemented by AuditChain, used by Evaluate and HumanReview
    Evaluate              client and handlers of POST /v1/evaluate
      EvaluateProofs
    HumanReview           one held action, its reviewers, its agent
      HumanReviewProofs
    PolicyRegister        what the policy store promises        (abstract)
    PolicyStore           the table, its replicas, outages
      PolicyService       containers that serve and administer; implements
                          PolicyRegister
        PolicyProofs
    GovernedCalls         threads, the breaker, every way to wrap a tool
    McpSession            a session of the MCP proxy
      GuardsProofs        theorems about both, and about MCGuards
    Engine                facts, rules, effects                 (operators)
      EngineProofs
      Conformance         scenario suites, verdicts, simulate   (operators)
    ReviewQueue           list_pending                          (operators)
    RateLimiter           buckets in a table of tenants
      RateLimiterProofs
    DemoAgent             invocations of a warm container
      CasesProofs         theorems about the simulator, the queue, the demo
                          agent, and MCCases
    MC*                   the instances TLC runs

`MCGuards` and `MCCases` each hold several systems that do not interact: a
behaviour picks one of them, and the others stay as they began.

The composition goes through `AuditLog`: `AuditChain` is shown to implement it,
and the two endpoints are modelled over it rather than over the table, which
keeps them small. Both instantiate it with their own calls, and take the steps
`Commit`, `Refuse` and `CommitUnseen` of it.

### AuditRecords and AuditChain

`items` is the table, `wire` the puts that nobody waits for any more. A call
goes through `pc`: *read* (`ReadLatest`, the consistent query and the building
of the successor) and *put* (`PutSucceeds`, `PutConflicts`, `PutThrottled`,
`PutDenied`, `PutTimesOut`), and comes back as *recorded*, *raised* or, with its
container, *killed*. The read is outside the code's `try`; `ReadFails` therefore
raises what the store raised. `RetryOrGiveUp` is the rest of the loop body.

A digest is the pair of what is hashed, so two digests are equal only if their
inputs are: SHA-256 is taken to be free of collisions. Back-off sleeps change
only the interleaving. The 5 second deadline is the fault `slow`.

### Evaluate

A request is an action and the number of its post. The server's side is
`stage[r]`: *arrived*, *append*, *hold*, *store*, *replied*. A handler never
looks at whether its client still waits. The client's side is `state[a]`, with
`posts[a]` counting. `Decide` leaves open which effect the policy yields and
whether the bundle is in shadow mode, since the active policy may change between
two posts. `FailOpenActions` are the calls of clients with `fail_open` set.
Requests without an idempotency key are left out, because the SDK always sends
one; so is the client's breaker, which only ever withholds a post. `result` keeps
two values apart: under a shadow bundle the audit record holds the effect the
policy yields, and the response the decision it is softened to. A dry run is
decided and recorded like any other action and its tool is not run; it adds no
step of its own.

### HumanReview

One pending record. `terms` are its expiry and `on_timeout` and the waiting
tool's `wait_timeout`, fixed at the start; `status` and `reviewer` are what the
conditional update sets. A resolve request goes through `pc`: *read* (the record
and its expiry), *capture* (`now`, another reading of the clock), *update* and
*audit*. `wire` holds the clicks with an update whose reply was lost; it may land
at any time, and once or twice is the same. Who sends such an update again is
told 409 by its own first one: `ConflictIsReal` allows a 409 to the winner in
that case and in no other. The agent polls through `effective_status` and
`allows_execution`. All machines read one clock of whole seconds, as the code's
stored times are; skew between them is not modelled.

### PolicyStore, PolicyService and PolicyRegister

`versions[n]` is the request that published version *n*, `pointers` every
activation so far, the last one in force; `settled` says how much of either
every replica has. `_latest_version` reads consistently and sees everything;
`get_active` and `get_version` read with eventual consistency, so `PointersSeen`
holds any pointer since `settled`, and `MayFind` and `MayMiss` may both be true.

`PolicyService` gives each container a cache and a loop on which its
asynchronous handlers run, one at a time; they await nothing, so between two
steps of one handler no other handler of that loop runs. `readyz` is not
asynchronous: a server with threads runs it beside the loop on the same cache,
which is the probe. `Deployments` lists which threads exist: Lambda has loops
only. A refresh is `LookUp` and, if there is a new version, `Fetch`; either may
fail (`LookUpFails`, `FetchFails`), and then `FallBack` is `_degrade`. Time is
left out: a refresh interval may have ended whenever a thread looks, and a look
at a fresh cache changes nothing. An administrator's request goes through
*number*, *put*, *activate* and *drop*, which is `invalidate`. `PutUnheard` and
`PointerMovesUnheard` are writes whose reply is lost and which the client
library sends again. `Restart` kills a container with what it was doing.

`PolicyRegister` is the promise: documents get numbers in order and keep them,
only a published version is put in force, and what an operator is told is true.
`PolicyService` implements it with the refinement `published <- versions`,
`activated <- pointers`, `answer <- reply`.

### GovernedCalls

`failures`, `opened` and `age` are the breaker, `age` being the time since
`_opened_at`. A thread is *idle*, *posting* or *waiting* for a review;
*overtaken* is a post under way while the breaker forgot its failures, as it
does after any answer and at the first look after the cooldown. The retries of
one call are one post, since `evaluate` counts a success or a failure once per
call; `Evaluate` has them one by one. `Count` is what a reply does to the
breaker: a 401 neither resets nor fails it, any other refusal is a failure.
`Result` and `Reviewed` say how a call ends for the wrapper at hand: whether
the tool ran, and what its caller was told.

### McpSession

Reader and writer pump, main thread, and the child. `inbox` is what the server
has got and not answered, `pipe` what it wrote and the writer has not relayed:
`PipeSize` messages, and the server waits. Judging a message ends in one of
`Causes`; `Passes` says which are handed on, and the rest is for `Refuse`.
`client.open` is the client's end, `client.reads` whether it reads the proxy's
stdout: it may close its end and read on (`ClientHangsUp`), or exit
(`ClientGoes`), after which every write to it fails. A relay that fails ends the
writer (`WriterBreaks`), and nobody drains the server any more; a refusal that
fails (`AnswerFails`) raises in the handling of the message, and what raises
there is passed on. The properties say what then still holds: `AnsweredOnce`
lets a refused call be underway only if the client was gone, and `SessionEnds`
lets only a server stay that has more to write than its pipe takes
(`ServerBlocked`).

A hang-up travels from the client to the reader, to the server's stdin, to the
main thread, which joins the writer and leaves. Pumps are daemon threads and
take no step when the main thread has left. `mishap` is the fault of a session:
the server dies with work undone, or the join runs into its timeout.

### Engine and Conformance

Values are tagged tuples, a list is the set of its elements, and what a pattern
finds in a text (`Readings`) and which domains an address field holds
(`DomainsIn`) are constants: reading texts is Python's `re`, `fnmatch` and
string methods. `Compare` is the operators, `Holds` one predicate with its
UNKNOWN rule, `MatchApplies` a rule, `Decide` the whole answer. `Examined` is
what the lazy `all` and `any` look at, from which `UnknownPaths` follows.

`Conformance` takes what a target answered for each case and models what the
commands make of it: `Check`, the report, parity by scenario id, the diff of
two targets, and exit codes 0, 1 and 2. `SimulateStatus` is the choice of the
bundle on the simulate endpoint.

### ReviewQueue, RateLimiter, DemoAgent

`ListPending` is the walk over pages of the pending index, with the query's
time and the later time of the final filter apart. `RateLimiter` counts tokens
in sixtieths, so that a rate per minute is a whole number per second; `log`
remembers what was admitted, for `AdmissionBounded`. `DemoAgent` keeps the
module's ledger and, beside it, everything ever done, to compare a transcript
with: the side effects a transcript tells are the tail of what was ever done,
and nothing before that tail is of the same invocation.

## The runs

| Run | Instance | Shows |
|---|---|---|
| `audit_chain_faults` | 3 calls, 2 attempts, 2 sends, lost replies, permanent errors and stopped containers; calls symmetric | `TypeOK`, `NoFalseAlarm`, `AcknowledgedIsRecorded`, `ImplementsAuditLog` |
| `audit_chain_contention` | 3 calls, 3 attempts, throttling and stopped containers; fair | `ContentionAloneNeverRefuses`, `AppendReturns` |
| `evaluate_faults` | 1 action, 3 posts, held by policy, every loss and failure | `TypeOK`, `ActedOnRecordedDecision`, `HeldIsPollable`, `ReplayStands` |
| `evaluate_retries` | 2 actions, one failing open, 2 posts, refusals and throttling but no lost answer; fair | `OneRecordPerAction`, `FailsClosed`, `ActionSettles` |
| `review_faults` | 2 reviewers, windows 1 and 4, waits 0 and 2, clock to 2; fair | `OneWinner`, `ConflictIsReal`, `SilenceIsNotConsent`, `AuditTellsTheTruth`, `JudgementStands`, `ApprovalReachesAgent`, `AgentReturns`, `TypeOK` |
| `policy_rollout` | 2 requests, 2 containers with a loop each or 1 with a loop and a probe, 2 attempts, 1 lost reply, lagging replicas, restarts, outages; fair | `TypeOK`, `ServesOnlyActivated`, `ContentionNeedsRivals`, `ImplementsRegister`, `OutageKeepsPolicy`, `ContainersConverge` |
| `guards` | 3 threads, threshold 2, cooldown 2, every wrapper; or 3 messages, every judgement, each mishap, a client that hangs up or goes, a pipe of 1 message; fair | `TypeOK`, `RanOnlyIfPermitted`, `SparesTheService`, `BreakerRecovers`; `AnsweredOnce`, `EveryMessageAnswered`, `SessionEnds` |
| `cases` | the inputs below | `UnknownNeverPermits`, `UnknownsSurface`, `GreenMeansChecked`, `QueueShowsOldest`, `AdmissionBounded`, `TranscriptIsOwn` |

Four runs show that the code does not do what its own text says:

| Run | Violates | What happens |
|---|---|---|
| `evaluate_duplicate` | `OneRecordPerAction` | a retry finds no stored answer while the first handler is still at work, and appends a second record (`svc/routers/evaluate.py:96-98`) |
| `review_late` | `SettledStays` | an update whose time was captured before the window closed lands after it, when the agent has seen *expired* (`sdk/models.py:100`, `tests/unit/test_hitl.py:300-302`) |
| `policy_outage` | `LastKnownGoodSurvives` | an activation empties the cache of the container it went through; the store goes out, and the container falls back to the packaged bundle although it is warm (`svc/policy_provider.py:17-24`) |
| `guards_client_gone` | `RefusedStaysHere` | a client exits while its call is judged; writing the refusal fails, and the pump passes the refused call on to the server (`sdk/mcp.py:28`, `434-435`) |

### Bounds

- Three calls are enough for a writer to be overtaken twice, and for a put of a
  failed call to land among two live ones. The properties of the chain that
  matter are proved for any number.
- `MaxWriteAttempts` is 2 or 3 and `MaxSends` 1 or 2 where the code has more;
  the proofs hold for every value. The contention run needs as many attempts as
  calls, since the property is about just that boundary.
- Three posts are the client's real number (`max_retries` = 2). With one action
  they already give three handlers of one key at work at once; two actions are
  only needed where one must not be mixed up with the other.
- The clock of `HumanReview` runs to 2, past the shorter window and both waits
  and not past the longer window: so an action can expire before, during and
  after the wait, or not at all.
- Two requests of administrators suffice for a race for a number, for a rollback
  and for a pointer that moves while a refresh is under way; a second attempt of
  `publish` is then always the winning one unless a reply is lost. Two
  containers show one that converges without being invalidated. `MaxUnheard` = 1
  lets the first put of a version and the first activation lose their replies.
- Three threads pass the threshold of two while a third post is under way, which
  is what lets posts be overtaken. Three messages let one be judged, one be
  with the server and one be on its way back. `PipeSize` = 1 stands for the
  operating system's buffer: with three messages the server can have one more to
  write than the pipe takes when the writer has lost one and ended.
- `cases`: bundles of one or two rules over sixteen first predicates in four
  joins, all effects, three defaults and six calls, some with no fact known;
  unknown facts are replaced by six values, some that satisfy and some that
  violate each predicate. One or two suites with two scenarios in all, and three
  answers each for two passes. Queues of up to five decisions, one more than the
  two pages of two. A limiter with a table of two for three tenants, five
  requests, and a burst of two tokens, or of less than one, or none. Two
  invocations of the agent, of two turns with up to two calls.
- Faults are a parameter: each run says which it allows, and a property that
  needs a fault to be absent is checked in a run without it
  (`OneRecordPerAction`) or says so itself (`ContentionAloneNeverRefuses`).

### Fairness

- `AuditChain!FairSpec`: a container that runs takes its next step. Every call
  of the store's client has a timeout, so `append` never waits without bound.
- `Evaluate!FairSpec`: clients and handlers that can take a step do. That a
  store call fails every time is not excluded; a call then ends as unavailable.
- `HumanReview!FairSpec`: time passes, and the agent polls on. Nothing makes a
  reviewer click or a resolve request finish, and `AgentReturns` holds without.
- `PolicyService!FairSpec`: requests keep coming to every container, so each
  refreshes; handlers under way go on; replicas catch up. Outages and restarts
  need not happen or end: `ContainersConverge` assumes that outages cease, and
  holds through restarts, however many.
- `GuardsSpec`: time passes while the breaker is open, and every thread goes on
  calling. Every thread of the proxy and the server go on, since `evaluate` and
  `wait_for_decision` return (`ActionSettles`, `AgentReturns`). The server works
  only while its pipe has room: that it is drained is for the writer to do, and
  not assumed. A client need neither write, hang up nor go; while its end is
  open it reads.

Deadlock is checked in the runs of `Evaluate`, whose resting states are the
`Done` steps, and in those of `PolicyService`, whose containers never rest. The
other systems do come to rest, and say so in their configurations.

## The proofs

Every safety property and every action property of a passing run is the
statement of a theorem, which holds for every value of the constants that the
assumptions below allow. The names on the right are those of the runs.

| Module | Theorem | States, over the module's specification |
|---|---|---|
| `AuditChainProofs` | `TypeCorrect` | `TypeOK` |
| | `AcknowledgedStays` | `AcknowledgedIsRecorded` |
| | `NoFalseAlarmEver` | `NoFalseAlarm` |
| | `ChainImplementsLog` | `ImplementsAuditLog`, the refinement of `AuditLog` |
| | `ContentionIsHarmless` | `ContentionAloneNeverRefuses`, for finite sets of calls |
| `EvaluateProofs` | `TypeCorrect` | `TypeOK` |
| | `ActsOnRecordedDecisions` | `ActedOnRecordedDecision` |
| | `HeldActionsArePollable` | `HeldIsPollable` |
| | `ReplaysStand` | `ReplayStands` |
| | `FailsOpenOnlyByChoice` | `FailsClosed`, if no client stops waiting |
| | `OneRecordWhereNothingIsLost` | `OneRecordPerAction`, if moreover no container stops and no store call errs or times out |
| `HumanReviewProofs` | `TypeCorrect` | `TypeOK` |
| | `AtMostOneWinner` | `OneWinner` |
| | `ConflictsAreReal` | `ConflictIsReal` |
| | `SilenceNeverConsents` | `SilenceIsNotConsent` |
| | `AuditIsTrue` | `AuditTellsTheTruth` |
| | `JudgementsStand` | `JudgementStands` |
| `PolicyProofs` | `TypeCorrect` | `TypeOK` |
| | `OnlyActivatedIsServed` | `ServesOnlyActivated` |
| | `ContentionHasRivals` | `ContentionNeedsRivals` |
| | `OutagesKeepThePolicy` | `OutageKeepsPolicy` |
| | `ServiceImplementsRegister` | `ImplementsRegister`, the refinement of `PolicyRegister` |
| `GuardsProofs` | `CallsTypeCorrect`, `SessionTypeCorrect`, `GuardsTypeCorrect` | the types of each system, and `TypeOK` of both |
| | `ToolsRunOnlyIfPermitted` | `RanOnlyIfPermitted` |
| | `BreakerSparesTheService` | `SparesTheService` |
| | `EachMessageIsAnsweredOnce` | `AnsweredOnce` |
| | `NoMessageIsLeft` | what `EveryMessageAnswered` says of a session that is over |
| `EngineProofs` | `NoBundleGuesses` | `NoGuessPermits` for every well-formed bundle |
| | `NoGuessIsSilent` | `NoSilentGuess` for every well-formed bundle |
| `RateLimiterProofs` | `AdmissionsAreBounded` | `AdmissionBounded` |
| `CasesProofs` | `NoGreenUnchecked` | `GreenIsChecked` for all suites and answers |
| | `OldestAreShown` | `ShowsOldest` for every queue, limit and size of page |
| | `TranscriptsAreOwn` | `TranscriptIsOwn` |
| | `CasesNeverGuess`, `CasesTellTheirGuesses`, `CasesAreGreenWhenChecked`, `CasesShowTheOldest`, `CasesTellTheirOwn`, `CasesBoundAdmissions` | the six properties of the run `cases`, from the theorems above |

### The arguments

**Audit chain.** A record is *anchored* when it carries its own digest and its
predecessor is in the table. `ChainInv` says that the table has no gaps and that
every record is anchored: those stored, those being put, and those on the wire.
None of the properties is inductive without this, because a put that lands says
nothing by itself of what it was built on. Since nothing in the table changes,
an anchored record stays anchored however old it gets; and an anchored record
that finds its slot vacant can only be the next one (`VacantIsNext`,
`PutKeepsChain`). Verification then follows because a linked run of records
passes every test of `verify_records` (`LinkedRunVerifies`). The refinement
needs `OnceInv` as well: where no reply is lost, an entry is in the table only
if its call returned it or was stopped. `ContentionInv` counts: a call that was
never throttled has failed at most as often as there are records in the table,
and its own entry is not among them.

**Evaluate.** A decision is *made* when it can be given to a client: it is in
the log, its effect is fixed, and if it holds the action its pending record
exists. `EvalInv` says that whatever is on file, was told or was acted on is
made and of the right action. A made decision stays made, so it does not matter
how late an answer is read. The two theorems with hypotheses need more.
`AnsweredLast` says that a client that does not wait has had the answer to its
last post, which is what a client that stops waiting breaks; without it, the
answer that refuses a key may come after the call has failed open. `OnceInv`
adds that the earlier posts of an action were refused before they were logged.
The hypotheses are the negation of what the runs `evaluate_duplicate` and
`evaluate_faults` show to go wrong.

**Human review.** `ReviewInv` says that everything ever said of a click (its
200, its entry in the log, the audit step it is at) is said of the click that
took effect. Nothing writes a resolved status again, so it keeps having taken
effect; an update that lands late finds the record open or does nothing. That
`CapturedInThePast` is needed shows where the code is delicate: a conflict is
real because the clock has passed whatever `now` the click was judged by.
`WinnerIsTold` says what the stored reviewer hears: while no reply of its was
lost, that it won, or of an error. So a 409 to it is always of a lost reply.

**Policy service.** `PolicyInv` has three parts. What can be served: a version
in a cache *or on its way into one* was put in force once, since a refresh that
was overtaken may install an old one. What a fallback falls back on: without a
probe nothing changes a cache between the look-up and its failure. What a
handler knows: its request has no other handler and no answer yet, its number is
vacant or taken by a rival, and each attempt it lost was lost to a further
version. The refinement needs the third: without a lost reply a number that is
taken is a rival's, and with one the service may find its own version in the way
and publish the request twice, which the register allows in that case only.

**Governed calls.** `CallsInv` counts posts: one that went out since the breaker
last forgot its failures is still on its way, or has become a failure, or was
taken out again. While the breaker is closed this bounds the posts, and a thread
about to post is not among those on their way; while it is open none goes out.

**MCP session.** `SessionInv` says that a message is in one place: ahead of the
reader, in its hand, with the server, in the pipe, or done with; and that unless
the server dies or the client is gone nothing is lost, since each party ends
only behind the one it reads from. A message whose refusal could not be written
goes on like one that was passed, with no answer yet.

**Engine.** For one condition: an unknown value matches exactly the rules that
restrict (`UnknownRestricts`), so determining it can only turn matches of
restricting rules off and matches of permitting rules on; for a rule the same
holds through both joins, and for the bundle the strictest effect can therefore
only be relaxed. `NoGuessIsSilent` looks at what the lazy `all` and `any`
examined: up to the first condition that settles the join nothing was unknown,
so every determination examines the same conditions and finds the same.
`OneComesFirst` gets that first condition from the well-founded order of the
naturals.

**Rate limiter.** A potential: what was admitted since a moment, and what the
bucket still holds, are paid for by the bursts handed out since, one at the
start and one for each eviction, and by the rate. `RetrySuffices` is arithmetic
on the header: rounded up by 0.999 and at least a second, it leads to a time at
which the bucket holds a token.

**Simulator, queue, demo agent.** `NoGreenUnchecked` unfolds exit codes; its one
subtle step is that a scenario id, if unique, pairs a case with itself
(`UniqueIsLast`). `OldestAreShown` is counting of positions. `AgentInv` says that
the ledger is the tail of all that was done from the start of this invocation.

### Assumptions

- Bounds are natural numbers, positive where the code has a positive constant,
  and faults are known ones: the ASSUMEs of each module. TLC evaluates them.
- `PolicyService!ThreadsAssumption`: one loop per container, since a container
  runs one server process (`Dockerfile:74`); probes are any number.
- `GovernedCalls!ThreadsAssumption`: finitely many threads, to count them.
- `RateLimiter!SettingsAssumption`: rates and bursts are natural numbers, as the
  key table parses them.
- `WellFormed`, in the engine's theorems: conditions are lists and effects are of
  the four, as `load_bundle` enforces. Facts, tools, values and what a pattern
  finds in a text are arbitrary.
- `asked <= answered`, in `OldestAreShown`: the clock does not run backwards
  between the query and the filter.
- Digests are collision-free and clocks agree, as said of the models above.

### Only model-checked

- Liveness: `AppendReturns`, `ActionSettles`, `AgentReturns`,
  `ApprovalReachesAgent`, `ContainersConverge`, `BreakerRecovers`,
  `EveryMessageAnswered`, `SessionEnds`. They need fairness, and so ENABLED,
  which the prover does not treat.
- The four properties that a run refutes have nothing to be proved.
- `FailsClosed` and `OneRecordPerAction` without their hypotheses: the second is
  false then, and the first can fail when a late answer refuses the key of a
  call that failed open before.
- No module declares a RECURSIVE operator; nothing is said about what one computes.

## Not modelled

- The in-memory repositories: the same interfaces under one lock, for tests.
  (`ReviewQueue` compares the two queues.)
- `list_records`, the audit router's pages, the routes that list, get and
  validate policies, the direction an activation reports: they only read.
- Roles and capabilities, and `/v1/me`: a comparison on each route, no state.
- The formatting of messages and reports, logging, metrics, statistics.
- The GET of the demo agent, and the wire format of its model.
- The console: pages present what the API answers. Its session has one race, a
  connect that is answered after a disconnect (`lib/store.tsx:55`), which is
  listed as a hazard.
- Infrastructure, scripts, service wiring.
- Tenants, outside the rate limiter: every key of every table and cache starts
  with the tenant, and no operation touches two, so one tenant stands for each.
- A write to the policy store that lands after its request has failed: a lost
  reply there is of a write that was applied at once.
- A client of the proxy that closes its reading end and keeps writing; a server
  that stops reading its stdin while it works.
- TTL deletion of remembered answers and old decisions, a day or more later.

## Met on the way

Choices of the code that the models contain, that a reader of the code may want
to know, and that no run is about:

- `_record_resolution` swallows a failed append (`svc/routers/decisions.py:258`),
  where the head of that file says every resolution is appended.
- A read of the latest record that is throttled stands outside the `try` of
  `append` (`svc/storage/audit.py:493`), and leaves it as a raw client error: a
  500, where ADR-013 (`docs/decisions.md:174-188`) promises a 503. `ReadFails`
  models it.
- A reviewer whose update was applied but whose reply was lost is told 409 when
  the client library sends the update again, as if another reviewer had been
  first (`svc/routers/decisions.py:161`), and the judgement, though stored, gets
  no record in the audit chain.
- After a client has exited, the writer pump ends at its next write, and nobody
  drains the server (`sdk/mcp.py:312-316`): a server with more left to write
  than a pipe takes never exits, nor does the proxy that waits for it without a
  timeout (`sdk/mcp.py:461`).
- After the cooldown the breaker lets every thread through, not just "the next
  call" (`sdk/client.py:70`); `SparesTheService` bounds how many. A 4xx other
  than 401 counts as a failure of the service.
- The proxy's `--fail-open` covers a rejected key (`sdk/mcp.py:151-158`), which
  the client alone does not, and a message whose handling raises is passed
  through (`sdk/mcp.py:308-310`).
- Publish with activation answers 500 when a lagging replica misses the version
  it has just stored, although the version is published (`svc/routers/policies.py:406`).
- With a probe beside the loop, a refresh that read an old pointer and then
  fails puts an older activated bundle back, marked as degraded.
- Parity pairs scenarios by id, which is unique per file only; of two of one id
  the last is compared (`sim/runner.py:449`).
- `list_pending` hides live decisions beyond its page ceiling, and its second
  filter may leave fewer than asked for.
- `config.py:57` says a burst of 0 stands for one second's worth; the limiter
  takes five, and ten at least. A burst of less than one token refuses everyone.
- Of an address field with some readable and some unreadable recipients only the
  readable ones count.
- The demo agent lists a dry run as executed, and its 502 carries no transcript
  of what had been done.

## The plan

What is modelled is what the code has in the way of protocols, and every safety
property of it is proved. What is left:

1. Safety halves of the liveness properties, as `NoMessageIsLeft` is one of
   `EveryMessageAnswered`: that a retry loop has a measure that falls with each
   step (`append`, `evaluate`, `wait_for_decision`), and that a container
   whose refresh succeeds after the last activation serves the active version.
2. That `Evaluate` and `HumanReview` take only steps of the `AuditLog` they
   share, stated as the refinement it is.
3. The structural lemmas of `Conformance`: that parity and the diff of two
   targets agree on what differs.
