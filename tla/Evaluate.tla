------------------------------ MODULE Evaluate ------------------------------
(***************************************************************************)
(* POST /v1/evaluate (guardrail_service/routers/evaluate.py), called by    *)
(* the SDK's client (guardrail_sdk/client.py), which posts the same action *)
(* again when an answer is lost or transient.  Each post is handled by a   *)
(* container of its own: look the idempotency key up, evaluate, append to  *)
(* the audit chain, create the pending decision, remember the answer under *)
(* the key, reply.  A container goes on when its client has stopped        *)
(* waiting, so several handlers of one action can be at work at once.      *)
(*                                                                         *)
(* The audit log is the abstract one: AuditChain implements it.  Which     *)
(* policy a handler sees is left open, since an activation may fall        *)
(* between two posts of one action.  A decision is named after the request *)
(* that made it; the code draws a fresh uuid.                              *)
(***************************************************************************)
EXTENDS Integers, Sequences, FiniteSets

CONSTANTS
    Actions,          \* tool calls, each with an idempotency key of its own
    FailOpenActions,  \* those made through a client with fail_open set
    MaxPosts,         \* max_retries + 1
    Effects,          \* what the policies of this instance can decide
    Faults            \* the failures that can happen in this instance

AllEffects == {"allow", "log_and_allow", "block", "require_hitl"}

Refusals  == {"unauthenticated",  \* 401
              "invalid",          \* any other 4xx but 429
              "busy"}             \* 429, from the rate limiter
AllFaults == Refusals \cup
             {"client_timeout",   \* the client stops waiting for an answer
              "killed",           \* a container stops
              "error",            \* a call of the store raises
              "throttled",        \* the table throttles store_idempotent
              "store_timeout"}    \* a call of the store raises, and lands

ASSUME FailOpenAssumption == FailOpenActions \subseteq Actions
ASSUME PostsAssumption == MaxPosts \in Nat \ {0}
ASSUME EffectsAssumption == Effects \subseteq AllEffects
ASSUME FaultsAssumption == Faults \subseteq AllFaults

VARIABLES
    log, answer,  \* the audit log
    held,         \* decisions with a pending record to poll
    stored,       \* idempotency key -> the decision remembered under it
    stage,        \* how far the handler of each request is
    result,       \* what each request's handler has decided: the effect, which
                  \* is recorded, and the decision, which is returned
    reply,        \* its response, when it has one
    posts,        \* requests the client has made for each action
    state,        \* what has become of each action at the client
    decision      \* the decision the client acts on

server == << log, answer, held, stored, stage, result, reply >>
client == << posts, state, decision >>
vars == << log, answer, held, stored, stage, result, reply,
           posts, state, decision >>

Requests == Actions \X (1 .. MaxPosts)
Key(r) == r[1]
NoDecision == << >>
NoResult == [effect |-> "none", decision |-> "none"]

Handling == {"arrived", "append", "hold", "store"}
Settled  == {"executed", "failed_open", "blocked", "held", "unavailable"}
Statuses == {"none", "ok", "error"} \cup Refusals

Audit == INSTANCE AuditLog WITH Calls  <- Requests,
                                Unsure <- "store_timeout" \in Faults
-----------------------------------------------------------------------------
Init ==
    /\ Audit!LogInit
    /\ held = {}
    /\ stored = [a \in Actions |-> NoDecision]
    /\ stage = [r \in Requests |-> "unsent"]
    /\ result = [r \in Requests |-> NoResult]
    /\ reply = [r \in Requests |-> [status |-> "none", decision |-> NoDecision]]
    /\ posts = [a \in Actions |-> 0]
    /\ state = [a \in Actions |-> "ready"]
    /\ decision = [a \in Actions |-> NoDecision]

-----------------------------------------------------------------------------
(* The handler.                                                            *)

Reply(r, status, d) ==
    /\ stage' = [stage EXCEPT ![r] = "replied"]
    /\ reply' = [reply EXCEPT ![r] = [status |-> status, decision |-> d]]

Fail(r) == Reply(r, "error", NoDecision)

(* Authentication, validation and the rate limiter come before the body. *)
TurnAway(r) ==
    /\ stage[r] = "arrived"
    /\ \E status \in Refusals \cap Faults : Reply(r, status, NoDecision)
    /\ UNCHANGED << log, answer, held, stored, result, client >>

(* A decision is on file for the key: return it and do nothing else. *)
Replay(r) ==
    /\ stage[r] = "arrived"
    /\ stored[Key(r)] # NoDecision
    /\ Reply(r, "ok", stored[Key(r)])
    /\ UNCHANGED << log, answer, held, stored, result, client >>

(* A shadow bundle decides but restrains nobody. *)
Effective(effect, isShadow) ==
    IF isShadow /\ effect \in {"block", "require_hitl"} THEN "log_and_allow"
    ELSE effect

(* Nothing on file: evaluate under whatever bundle is active now. *)
Decide(r) ==
    /\ stage[r] = "arrived"
    /\ stored[Key(r)] = NoDecision
    /\ \E effect \in Effects, isShadow \in BOOLEAN :
          result' = [result EXCEPT ![r] =
                        [effect   |-> effect,
                         decision |-> Effective(effect, isShadow)]]
    /\ stage' = [stage EXCEPT ![r] = "append"]
    /\ UNCHANGED << log, answer, held, stored, reply, client >>

LookupFails(r) ==
    /\ stage[r] = "arrived"
    /\ "error" \in Faults
    /\ Fail(r)
    /\ UNCHANGED << log, answer, held, stored, result, client >>

(* Mutation: the pending record is not created before the response. *)
AfterAppendNoHold(r) == "store"

AfterAppend(r) == IF result[r].decision = "require_hitl" THEN "hold" ELSE "store"

Persist(r) ==
    /\ stage[r] = "append"
    /\ Audit!Commit(r)
    /\ stage' = [stage EXCEPT ![r] = AfterAppend(r)]
    /\ UNCHANGED << held, stored, result, reply, client >>

(* Mutation: a decision that could not be recorded is returned all the same. *)
PersistFailsOpen(r) ==
    /\ stage[r] = "append"
    /\ Audit!Refuse(r)
    /\ stage' = [stage EXCEPT ![r] = AfterAppend(r)]
    /\ UNCHANGED << held, stored, result, reply, client >>

(* append raised: a 503 for AuditWriteError, a 500 for anything else. *)
PersistFails(r) ==
    /\ stage[r] = "append"
    /\ Audit!Refuse(r)
    /\ Fail(r)
    /\ UNCHANGED << held, stored, result, client >>

(* A record put by a handler that does not learn of it: the append has yet
   to return or has raised for want of a reply, or the container is gone.
   Bound: this happens before the request has logged anything, so once; an
   append that goes on can still log its entry a second time.              *)
PutLandsUnseen(r) ==
    /\ result[r] # NoResult
    /\ ~Audit!Logged(r)
    /\ stage[r] = "append" => "store_timeout" \in Faults
    /\ Audit!CommitUnseen(r)
    /\ UNCHANGED << held, stored, stage, result, reply, client >>

CreatePending(r) ==
    /\ stage[r] = "hold"
    /\ held' = held \cup {r}
    /\ stage' = [stage EXCEPT ![r] = "store"]
    /\ UNCHANGED << log, answer, stored, result, reply, client >>

CreateFails(r) ==
    /\ stage[r] = "hold"
    /\ \/ "error" \in Faults /\ UNCHANGED held
       \/ "store_timeout" \in Faults /\ held' = held \cup {r}
    /\ Fail(r)
    /\ UNCHANGED << log, answer, stored, result, client >>

(* Mutation: the answer is put under the key without the condition. *)
RememberLast(r) == stored' = [stored EXCEPT ![Key(r)] = r]

(* The conditional put of store_idempotent: the first answer stands, and a
   later one is dropped without a word.                                   *)
Remember(r) ==
    stored' = IF stored[Key(r)] = NoDecision
              THEN [stored EXCEPT ![Key(r)] = r] ELSE stored

StoreIdempotent(r) ==
    /\ stage[r] = "store"
    /\ Remember(r)
    /\ Reply(r, "ok", r)
    /\ UNCHANGED << log, answer, held, result, client >>

(* Mutation: throttling of the idempotency put fails the request. *)
StoreThrottledFails(r) ==
    /\ stage[r] = "store"
    /\ "throttled" \in Faults
    /\ Fail(r)
    /\ UNCHANGED << log, answer, held, stored, result, client >>

StoreThrottled(r) ==
    /\ stage[r] = "store"
    /\ "throttled" \in Faults
    /\ Reply(r, "ok", r)
    /\ UNCHANGED << log, answer, held, stored, result, client >>

StoreFails(r) ==
    /\ stage[r] = "store"
    /\ \/ "error" \in Faults /\ UNCHANGED stored
       \/ "store_timeout" \in Faults /\ Remember(r)
    /\ Fail(r)
    /\ UNCHANGED << log, answer, held, result, client >>

Kill(r) ==
    /\ stage[r] \in Handling
    /\ "killed" \in Faults
    /\ Fail(r)
    /\ UNCHANGED << log, answer, held, stored, result, client >>

Handle(r) ==
    \/ TurnAway(r) \/ Replay(r) \/ Decide(r) \/ LookupFails(r)
    \/ Persist(r) \/ PersistFails(r)
    \/ CreatePending(r) \/ CreateFails(r)
    \/ StoreIdempotent(r) \/ StoreThrottled(r) \/ StoreFails(r)

-----------------------------------------------------------------------------
(* The client.                                                             *)

Current(a) == << a, posts[a] >>

Post(a) ==
    /\ state[a] = "ready"
    /\ posts' = [posts EXCEPT ![a] = @ + 1]
    /\ state' = [state EXCEPT ![a] = "waiting"]
    /\ stage' = [stage EXCEPT ![<< a, posts[a] + 1 >>] = "arrived"]
    /\ UNCHANGED << log, answer, held, stored, result, reply, decision >>

(* What an evaluation that cannot be had means for the action. *)
Unavailable(a) == IF a \in FailOpenActions THEN "failed_open" ELSE "unavailable"

(* Mutation: the client ignores a transient refusal and goes on waiting. *)
KeepWaiting(a) == state' = [state EXCEPT ![a] = "waiting"]

(* Mutation: one retry too many. *)
RetryOnceTooOften(a) ==
    state' = [state EXCEPT ![a] =
                 IF posts[a] <= MaxPosts THEN "ready" ELSE Unavailable(a)]

(* Back off and post again, until the retries are used up. *)
RetryOrGiveUp(a) ==
    state' = [state EXCEPT ![a] =
                 IF posts[a] < MaxPosts THEN "ready" ELSE Unavailable(a)]

(* How the governed tool goes on: run, raise ActionBlocked, or be held. *)
Outcome(d) ==
    CASE result[d].decision \in {"allow", "log_and_allow"} -> "executed"
      [] result[d].decision = "block" -> "blocked"
      [] result[d].decision = "require_hitl" -> "held"

TakeAnswer(a) ==
    /\ state[a] = "waiting"
    /\ reply[Current(a)].status = "ok"
    /\ decision' = [decision EXCEPT ![a] = reply[Current(a)].decision]
    /\ state' = [state EXCEPT ![a] = Outcome(reply[Current(a)].decision)]
    /\ UNCHANGED << server, posts >>

(* A 429 or 5xx: worth another try. *)
TransientRefusal(a) ==
    /\ state[a] = "waiting"
    /\ reply[Current(a)].status \in {"error", "busy"}
    /\ RetryOrGiveUp(a)
    /\ UNCHANGED << server, posts, decision >>

(* Mutation: an invalid key is an outage like any other. *)
RefusalFailsOpen(a) ==
    /\ state[a] = "waiting"
    /\ reply[Current(a)].status \in {"invalid", "unauthenticated"}
    /\ state' = [state EXCEPT ![a] = Unavailable(a)]
    /\ UNCHANGED << server, posts, decision >>

(* Another 4xx is not retried; a 401 refuses even when failing open. *)
PermanentRefusal(a) ==
    /\ state[a] = "waiting"
    /\ \/ /\ reply[Current(a)].status = "invalid"
          /\ state' = [state EXCEPT ![a] = Unavailable(a)]
       \/ /\ reply[Current(a)].status = "unauthenticated"
          /\ state' = [state EXCEPT ![a] = "unavailable"]
    /\ UNCHANGED << server, posts, decision >>

(* No answer within the timeout.  The handler knows nothing of it. *)
StopWaiting(a) ==
    /\ state[a] = "waiting"
    /\ "client_timeout" \in Faults
    /\ RetryOrGiveUp(a)
    /\ UNCHANGED << server, posts, decision >>

ClientStep(a) ==
    \/ Post(a) \/ TakeAnswer(a)
    \/ TransientRefusal(a) \/ PermanentRefusal(a) \/ StopWaiting(a)

(* The system rests when every action is settled and every handler done;
   only a put still on its way can then change anything.                  *)
Done ==
    /\ \A a \in Actions : state[a] \in Settled
    /\ \A r \in Requests : stage[r] \in {"unsent", "replied"}
    /\ UNCHANGED vars

Next ==
    \/ \E a \in Actions : ClientStep(a)
    \/ \E r \in Requests : Handle(r) \/ PutLandsUnseen(r) \/ Kill(r)
    \/ Done

Spec == Init /\ [][Next]_vars

(* Clients and handlers that can take a step do: every wait of either has a
   timeout.  That a store call fails for ever is not excluded.             *)
FairSpec ==
    /\ Spec
    /\ \A a \in Actions : WF_vars(ClientStep(a))
    /\ \A r \in Requests : WF_vars(Handle(r))
-----------------------------------------------------------------------------
TypeOK ==
    /\ log \in Seq(Requests)
    /\ answer \in [Requests -> Audit!Answers]
    /\ held \subseteq Requests
    /\ stored \in [Actions -> Requests \cup {NoDecision}]
    /\ stage \in [Requests -> Handling \cup {"unsent", "replied"}]
    /\ result \in [Requests -> [effect   : AllEffects \cup {"none"},
                                decision : AllEffects \cup {"none"}]]
    /\ reply \in [Requests -> [status   : Statuses,
                               decision : Requests \cup {NoDecision}]]
    /\ posts \in [Actions -> 0 .. MaxPosts]
    /\ state \in [Actions -> Settled \cup {"ready", "waiting"}]
    /\ decision \in [Actions -> Requests \cup {NoDecision}]

(* Evaluate, then record, then respond (evaluate.py:6-11): whatever a client
   acts on, be it fresh or replayed, is a decision about its own action that
   is in the audit log, and the tool ran only if that decision permits it.  *)
ActedOnRecordedDecision ==
    \A a \in Actions :
        state[a] \in {"executed", "blocked", "held"} =>
            /\ Key(decision[a]) = a
            /\ Audit!Logged(decision[a])
            /\ state[a] = Outcome(decision[a])

(* The tool runs unrecorded only where someone chose to fail open, and then
   never for want of a valid key.                                          *)
FailsClosed ==
    \A a \in Actions :
        state[a] = "failed_open" =>
            /\ a \in FailOpenActions
            /\ reply[Current(a)].status # "unauthenticated"

(* An agent told to wait for a review polls an id that exists, also when it
   was told so by a replay of an earlier answer (evaluate.py:145-147).     *)
HeldIsPollable ==
    \A a \in Actions : state[a] = "held" => decision[a] \in held

(* A replayed answer is the one on file, and stays it: no slower handler of
   the same action puts its own answer in its place.                       *)
ReplayStands ==
    \A r \in Requests :
        (reply[r].status = "ok" /\ reply[r].decision # r)
            => stored[Key(r)] = reply[r].decision

(* One logical action, one audit record, whatever the retries
   (evaluate.py:96-98, client.py:11-14).                                   *)
OneRecordPerAction ==
    \A i, j \in DOMAIN log : Key(log[i]) = Key(log[j]) => i = j

(* A governed call ends: run, refused, held or unavailable. *)
ActionSettles == \A a \in Actions : <>(state[a] \in Settled)
=============================================================================
