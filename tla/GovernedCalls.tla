--------------------------- MODULE GovernedCalls ---------------------------
(***************************************************************************)
(* Threads of one process that make governed calls through one             *)
(* GuardrailClient (guardrail_sdk/client.py) and its circuit breaker, and  *)
(* what each way of wrapping a tool makes of the client's answer: the      *)
(* decorator (decorator.py), the framework adapters (adapters.py) and the  *)
(* demo agent's loop around decorated tools (demo_agent/agent.py).         *)
(*                                                                         *)
(* The retries of one call are one post here: what a post can come back    *)
(* with is what the last try came back with.  A process wraps its tools in *)
(* one way.                                                                *)
(***************************************************************************)
EXTENDS Naturals, FiniteSets

CONSTANTS
    Threads,
    FailureThreshold,
    Cooldown          \* cooldown_seconds, in ticks

ASSUME BreakerAssumption ==
    FailureThreshold \in Nat \ {0} /\ Cooldown \in Nat \ {0}
ASSUME ThreadsAssumption == IsFiniteSet(Threads)

VARIABLES
    failOpen, wrapper,  \* how the client and the tools were set up
    well,      \* whether the service answers with decisions
    failures, opened, age,  \* the breaker; age is the time since _opened_at
    thread,    \* what each thread is doing
    last,      \* the call that ended last
    sent       \* history: posts since the breaker last forgot its failures

setup == << failOpen, wrapper >>
callVars == << setup, well, failures, opened, age, thread, last, sent >>

-----------------------------------------------------------------------------
(* The ways to wrap a tool.  pending is on_pending; of the callback handler, *)
(* which only announces a call, it says whether raise_on_block is set.      *)
Wrap(by, pending, dry) == [by |-> by, pending |-> pending, dry |-> dry]

Wrappers ==
    {Wrap("decorator", p, d) : p \in {"raise", "wait", "block"}, d \in BOOLEAN}
    \cup {Wrap("dispatcher", p, FALSE) : p \in {"wait", "block"}}
    \cup {Wrap("agent", "raise", d) : d \in BOOLEAN}
    \cup {Wrap("callback", p, FALSE) : p \in {"raise", "ignore"}}
    \cup {Wrap("langchain", "block", FALSE)}

Decisions == {"allow", "log_and_allow", "block", "require_hitl"}

(* What comes back of a post.  "unreadable" is a 200 that is no decision,
   "rejected" a 401, "invalid" any other refusal of the request itself.   *)
Replies == Decisions \cup {"unreadable", "rejected", "invalid", "outage"}

(* What evaluate returns, or raises. *)
Unavailable == IF failOpen THEN "fail_open" ELSE "unavailable"

(* Mutation: a rejected key is an outage like any other. *)
AnswerIfRejectedIsOutage(reply) ==
    IF reply \in {"outage", "invalid", "breaker", "rejected"} THEN Unavailable ELSE reply

AnswerOf(reply) ==
    CASE reply \in {"outage", "invalid", "breaker"} -> Unavailable
      [] reply = "rejected"                         -> "unavailable"
      [] OTHER                                      -> reply

Permitting == {"allow", "log_and_allow", "fail_open"}

(* on_pending = "wait" holds the call until a human decides. *)
Waits(reply) == reply = "require_hitl" /\ wrapper.pending = "wait"

-----------------------------------------------------------------------------
(* How a call ends: did the tool run, and what was its caller told?        *)

Ended(reply, review, ran, told) ==
    [reply |-> reply, review |-> review, ran |-> ran, told |-> told]

(* A permitted call, or one a human has approved.  A dry run returns None,
   which the demo agent lists as executed.                                *)
Executed(reply, review) ==
    IF wrapper.dry
    THEN Ended(reply, review, FALSE, IF wrapper.by = "agent" THEN "executed" ELSE "none")
    ELSE Ended(reply, review, TRUE, "executed")

(* The adapters answer with a text where the decorator raises, and so does
   the demo agent; but what none of them expects escapes them all.        *)
Refusal(reply) ==
    CASE wrapper.by = "decorator" \/ reply = "unreadable" -> "raised"
      [] reply = "require_hitl" -> "held"
      [] OTHER                  -> "refused"

(* The callback handler cannot stop the tool, save by raising. *)
Announced(reply) ==
    LET aborts == \/ reply = "unreadable"
                  \/ wrapper.pending = "raise" /\ AnswerOf(reply) \in {"block", "unavailable"}
    IN  Ended(reply, "none", ~aborts, IF aborts THEN "raised" ELSE "executed")

Result(reply) ==
    CASE wrapper.by = "callback" -> Announced(reply)
      [] wrapper.by # "callback" /\ AnswerOf(reply) \in Permitting -> Executed(reply, "none")
      [] OTHER -> Ended(reply, "none", FALSE, Refusal(reply))

(* wait_for_decision returned, or raised: its last poll is not caught. *)
Reviewed(review) ==
    CASE review = "allowed" -> Executed("require_hitl", review)
      [] review = "refused" -> Ended("require_hitl", review, FALSE,
                                     IF wrapper.by = "decorator" THEN "raised" ELSE "refused")
      [] OTHER              -> Ended("require_hitl", review, FALSE, "raised")

NoCall == Ended("block", "none", FALSE, "raised")

-----------------------------------------------------------------------------
(* The breaker.  A post is overtaken when the breaker forgets its failures  *)
(* while the post is under way.                                            *)

CallsInit ==
    /\ failOpen \in BOOLEAN /\ wrapper \in Wrappers
    /\ well = TRUE
    /\ failures = 0 /\ opened = FALSE /\ age = 0
    /\ thread = [t \in Threads |-> "idle"]
    /\ last = NoCall
    /\ sent = 0

(* Mutation: the cooldown never ends. *)
OpenForEver == opened

IsOpen == opened /\ age < Cooldown

Forget ==
    /\ failures' = 0 /\ opened' = FALSE /\ age' = 0

Overtake(rest) == [t \in Threads |-> IF rest[t] = "posting" THEN "overtaken" ELSE rest[t]]

(* Mutation: opens one failure late. *)
RecordFailureLate ==
    /\ failures' = IF failures > FailureThreshold THEN failures ELSE failures + 1
    /\ IF failures + 1 > FailureThreshold
       THEN opened' = TRUE /\ age' = 0
       ELSE UNCHANGED << opened, age >>

(* record_failure; failures beyond the threshold need not be told apart. *)
RecordFailure ==
    /\ failures' = IF failures = FailureThreshold THEN failures ELSE failures + 1
    /\ IF failures' = FailureThreshold
       THEN opened' = TRUE /\ age' = 0
       ELSE UNCHANGED << opened, age >>

(* A call meets the open breaker and ends at once. *)
CallRefused(t) ==
    /\ thread[t] = "idle"
    /\ IsOpen
    /\ last' = Result("breaker")
    /\ UNCHANGED << setup, well, failures, opened, age, thread, sent >>

(* A call goes out; the first look after the cooldown forgets the failures. *)
CallPosts(t) ==
    /\ thread[t] = "idle"
    /\ ~IsOpen
    /\ IF opened
       THEN /\ Forget
            /\ thread' = [Overtake(thread) EXCEPT ![t] = "posting"]
            /\ sent' = 1
       ELSE /\ UNCHANGED << failures, opened, age >>
            /\ thread' = [thread EXCEPT ![t] = "posting"]
            /\ sent' = sent + 1
    /\ UNCHANGED << setup, well, last >>

(* What the reply does to the breaker: a 401 is neither success nor failure. *)
Count(t, reply, rest) ==
    CASE reply \in Decisions \cup {"unreadable"} ->
            Forget /\ sent' = 0 /\ thread' = Overtake(rest)
      [] reply = "rejected" ->
            /\ sent' = IF thread[t] = "posting" THEN sent - 1 ELSE sent
            /\ thread' = rest
            /\ UNCHANGED << failures, opened, age >>
      [] OTHER ->
            RecordFailure /\ thread' = rest /\ UNCHANGED sent

CallAnswered(t) ==
    /\ thread[t] \in {"posting", "overtaken"}
    /\ \E reply \in IF well THEN Decisions ELSE Replies :
          IF Waits(reply)
          THEN /\ Count(t, reply, [thread EXCEPT ![t] = "waiting"])
               /\ UNCHANGED last
          ELSE /\ Count(t, reply, [thread EXCEPT ![t] = "idle"])
               /\ last' = Result(reply)
    /\ UNCHANGED << setup, well >>

WaitEnds(t) ==
    /\ thread[t] = "waiting"
    /\ \E review \in {"allowed", "refused", "failed"} :
          last' = Reviewed(review)
    /\ thread' = [thread EXCEPT ![t] = "idle"]
    /\ UNCHANGED << setup, well, failures, opened, age, sent >>

Tick ==
    /\ opened
    /\ age < Cooldown
    /\ age' = age + 1
    /\ UNCHANGED << setup, well, failures, opened, thread, last, sent >>

Weather ==
    /\ well' = ~well
    /\ UNCHANGED << setup, failures, opened, age, thread, last, sent >>

Call(t) == CallRefused(t) \/ CallPosts(t) \/ CallAnswered(t) \/ WaitEnds(t)

(* A thread goes on with its next tool call, as guard_openai_tool_calls does
   with the calls of a message.                                           *)
CallsNext == (\E t \in Threads : Call(t)) \/ Tick \/ Weather

(* Every thread goes on calling and the clock goes on; the service need not
   ever be well.                                                          *)
CallsFairness == WF_callVars(Tick) /\ \A t \in Threads : WF_callVars(Call(t))

CallsSpec == CallsInit /\ [][CallsNext]_callVars /\ CallsFairness

-----------------------------------------------------------------------------
CallsTypeOK ==
    /\ failOpen \in BOOLEAN /\ well \in BOOLEAN /\ wrapper \in Wrappers
    /\ failures \in 0 .. FailureThreshold
    /\ opened \in BOOLEAN
    /\ age \in 0 .. Cooldown
    /\ thread \in [Threads -> {"idle", "posting", "overtaken", "waiting"}]
    /\ sent \in Nat

(* A tool runs only when policy permitted the call, a human approved it, or *)
(* the team chose to fail open and the guardrail could not be asked; never  *)
(* on a rejected key, and never in a dry run.  Whatever stands between: the *)
(* breaker, the wait, any wrapper, any mode.  The callback handler only     *)
(* announces calls and promises less, as its documentation says.            *)
RanOnlyIfPermitted ==
    last.ran =>
       \/ /\ ~wrapper.dry
          /\ \/ last.reply \in {"allow", "log_and_allow"}
             \/ last.review = "allowed"
             \/ failOpen /\ last.reply \in {"outage", "invalid", "breaker"}
       \/ wrapper = Wrap("callback", "ignore", FALSE)
       \/ wrapper = Wrap("callback", "raise", FALSE) /\ last.reply # "block"

(* "Stops calling a service that is clearly down": since the breaker last   *)
(* forgot its failures, no more posts went out, of those that were not      *)
(* rejected for their key, than it takes to open it and one more of each    *)
(* other thread.                                                            *)
SparesTheService ==
    sent <= FailureThreshold - 1 + Cardinality(Threads)

(* Once the service is well for good, the breaker closes for good. *)
BreakerRecovers == <>[]well => <>[]~opened
=============================================================================
