---------------------------- MODULE HumanReview ----------------------------
(***************************************************************************)
(* One action held for human review: the decision record with its          *)
(* conditional update (guardrail_service/storage/decisions.py), reviewers  *)
(* that resolve it through POST /v1/decisions/{id}/resolve                 *)
(* (routers/decisions.py), each resolution appended to the audit log, and  *)
(* the agent's SDK that polls until it may go on (guardrail_sdk/client.py, *)
(* decorator.py with on_pending="wait").                                   *)
(*                                                                         *)
(* One clock, in whole seconds, serves every process: expires_at and the   *)
(* now of the update are truncated to seconds in the code too.  The clocks *)
(* of different machines are taken to agree.                               *)
(***************************************************************************)
EXTENDS Integers, Sequences, FiniteSets

CONSTANTS
    Clicks,     \* resolve requests: each is one reviewer's approve or deny
    Windows,    \* possible timeout_seconds of the rule that held the action
    Waits,      \* possible wait_timeout of the governed tool
    MaxTime,    \* bound: the clock stops here
    Faults      \* the failures that can happen in this instance

AllFaults == {"lost_reply",     \* the store applies a write, or will, unheard
              "error",          \* a call of the store raises
              "audit_refused",  \* the resolution cannot be appended
              "killed"}         \* the container of a resolve request stops

ASSUME WindowsAssumption == Windows \subseteq Nat
ASSUME WaitsAssumption == Waits \subseteq 0 .. MaxTime
ASSUME MaxTimeAssumption == MaxTime \in Nat
ASSUME FaultsAssumption == Faults \subseteq AllFaults

NoClick == "nobody"

ASSUME ClicksAssumption == NoClick \notin Clicks

VARIABLES
    clock,
    terms,        \* expires_at, on_timeout and wait_timeout: fixed at the start
    status,       \* of the stored record
    reviewer,     \* the click that resolved it
    wire,         \* the clicks with an update whose reply was lost: it may
                  \* land at any time
    log, answer,  \* the audit log: the resolutions in it
    pc,           \* where each resolve request is
    wish,         \* approve or deny
    now,          \* the time resolve captured for its update
    response,     \* what each reviewer was told
    agent,        \* the waiting agent
    seen          \* the status it acted on

record   == << terms, status, reviewer >>
auditlog == << log, answer >>
requests == << pc, wish, now, response >>
vars == << clock, terms, status, reviewer, wire, log, answer, pc, wish, now,
           response, agent, seen >>

Verdicts == {"approved", "denied"}

Audit == INSTANCE AuditLog WITH Calls <- Clicks, Unsure <- "lost_reply" \in Faults

-----------------------------------------------------------------------------
(* The record.                                                             *)

IsExpired == status = "pending" /\ clock >= terms.expires_at

(* Mutation: a status the API does not have. *)
StatusTimedOut == IF IsExpired THEN "timed_out" ELSE status

EffectiveStatus == IF IsExpired THEN "expired" ELSE status

(* Mutation: a window that closes in silence lets the action go on. *)
SilenceAllows ==
    \/ EffectiveStatus = "approved"
    \/ EffectiveStatus = "expired"

AllowsExecution ==
    \/ EffectiveStatus = "approved"
    \/ EffectiveStatus = "expired" /\ terms.on_timeout = "allow"

(* Mutation: the update only checks the expiry. *)
StillUnexpired(c) == terms.expires_at > now[c]

(* The condition of the update, on the time its sender has captured. *)
StillOpen(c) == status = "pending" /\ terms.expires_at > now[c]

(* UpdateItem: all of it or nothing. *)
ApplyUpdate(c) ==
    IF StillOpen(c)
    THEN status' = wish[c] /\ reviewer' = c
    ELSE UNCHANGED << status, reviewer >>

-----------------------------------------------------------------------------
Init ==
    /\ clock = 0
    /\ terms \in [expires_at   : Windows,
                  on_timeout   : {"deny", "allow"},
                  wait_timeout : Waits]
    /\ status = "pending"
    /\ reviewer = NoClick
    /\ wire = {}
    /\ Audit!LogInit
    /\ pc = [c \in Clicks |-> "idle"]
    /\ wish = [c \in Clicks |-> "denied"]
    /\ now = [c \in Clicks |-> 0]
    /\ response = [c \in Clicks |-> "none"]
    /\ agent = "waiting"
    /\ seen = "none"

Tick ==
    /\ clock < MaxTime
    /\ clock' = clock + 1
    /\ UNCHANGED << record, wire, auditlog, requests, agent, seen >>

-----------------------------------------------------------------------------
(* A resolve request.                                                      *)

Respond(c, what) ==
    /\ pc' = [pc EXCEPT ![c] = "done"]
    /\ response' = [response EXCEPT ![c] = what]

Click(c) ==
    /\ pc[c] = "idle"
    /\ \E verdict \in Verdicts : wish' = [wish EXCEPT ![c] = verdict]
    /\ pc' = [pc EXCEPT ![c] = "read"]
    /\ UNCHANGED << clock, record, wire, auditlog, now, response, agent, seen >>

(* The read before the update: expired is a 409 at once.  Anything else
   goes on to the update.                                                 *)
ReadOpen(c) ==
    /\ pc[c] = "read"
    /\ ~IsExpired
    /\ pc' = [pc EXCEPT ![c] = "capture"]
    /\ UNCHANGED << clock, record, wire, auditlog, wish, now, response, agent, seen >>

ReadExpired(c) ==
    /\ pc[c] = "read"
    /\ IsExpired
    /\ Respond(c, "conflict")
    /\ UNCHANGED << clock, record, wire, auditlog, wish, now, agent, seen >>

(* The time the update will carry is another reading of the clock. *)
Capture(c) ==
    /\ pc[c] = "capture"
    /\ now' = [now EXCEPT ![c] = clock]
    /\ pc' = [pc EXCEPT ![c] = "update"]
    /\ UNCHANGED << clock, record, wire, auditlog, wish, response, agent, seen >>

(* Mutation: the record is read again after the update, and found resolved. *)
UpdateThenLook(c) ==
    /\ pc[c] = "update"
    /\ StillOpen(c)
    /\ ApplyUpdate(c)
    /\ Respond(c, "conflict")
    /\ UNCHANGED << clock, terms, wire, auditlog, wish, now, agent, seen >>

UpdateSucceeds(c) ==
    /\ pc[c] = "update"
    /\ StillOpen(c)
    /\ ApplyUpdate(c)
    /\ pc' = [pc EXCEPT ![c] = "audit"]
    /\ UNCHANGED << clock, terms, wire, auditlog, wish, now, response, agent, seen >>

(* Mutation: a lost race is recorded like a resolution. *)
ConflictIsRecorded(c) ==
    /\ pc[c] = "update"
    /\ ~StillOpen(c)
    /\ pc' = [pc EXCEPT ![c] = "audit"]
    /\ UNCHANGED << clock, record, wire, auditlog, wish, now, response, agent, seen >>

(* The condition fails: 409, whoever or whatever closed the decision.  That
   may be this request's own update, when it was sent again.               *)
UpdateConflicts(c) ==
    /\ pc[c] = "update"
    /\ ~StillOpen(c)
    /\ Respond(c, "conflict")
    /\ UNCHANGED << clock, record, wire, auditlog, wish, now, agent, seen >>

(* No reply: the update may land at any time.  The store's client sends it
   again, or has done so often enough and raises.                          *)
UpdateUnheard(c) ==
    /\ pc[c] = "update"
    /\ "lost_reply" \in Faults
    /\ wire' = wire \cup {c}
    /\ \/ UNCHANGED << pc, response >>
       \/ Respond(c, "error")
    /\ UNCHANGED << clock, record, auditlog, wish, now, agent, seen >>

(* The read, the update or the read after a conflict raises. *)
StoreFails(c) ==
    /\ pc[c] \in {"read", "update"}
    /\ "error" \in Faults
    /\ Respond(c, "error")
    /\ UNCHANGED << clock, record, wire, auditlog, wish, now, agent, seen >>

RecordResolution(c) ==
    /\ pc[c] = "audit"
    /\ Audit!Commit(c)
    /\ Respond(c, "ok")
    /\ UNCHANGED << clock, record, wire, wish, now, agent, seen >>

(* The append raised: logged and swallowed, the reviewer gets a 200. *)
RecordResolutionFails(c) ==
    /\ pc[c] = "audit"
    /\ "audit_refused" \in Faults
    /\ Audit!Refuse(c)
    /\ Respond(c, "ok")
    /\ UNCHANGED << clock, record, wire, wish, now, agent, seen >>

(* A resolution's record put by a request that does not learn of it.
   Bound: only before it has logged anything, as in Evaluate.             *)
RecordLandsUnseen(c) ==
    /\ "lost_reply" \in Faults
    /\ pc[c] = "audit" \/ answer[c] = "refused"
    /\ ~Audit!Logged(c)
    /\ Audit!CommitUnseen(c)
    /\ UNCHANGED << clock, record, wire, requests, agent, seen >>

(* The container stops; a write it has sent may be applied all the same. *)
Kill(c) ==
    /\ pc[c] \in {"read", "capture", "update", "audit"}
    /\ "killed" \in Faults
    /\ wire' = IF pc[c] = "update" THEN wire \cup {c} ELSE wire
    /\ \/ UNCHANGED auditlog
       \/ pc[c] = "audit" /\ ~Audit!Logged(c) /\ Audit!CommitUnseen(c)
    /\ Respond(c, "error")
    /\ UNCHANGED << clock, record, wish, now, agent, seen >>

(* An update lands unheard, once or again: what did not find the record open
   once does not do so later.                                              *)
Land(c) ==
    /\ c \in wire
    /\ ApplyUpdate(c)
    /\ UNCHANGED << clock, terms, wire, auditlog, requests, agent, seen >>

Resolve(c) ==
    \/ ReadOpen(c) \/ ReadExpired(c) \/ Capture(c)
    \/ UpdateSucceeds(c) \/ UpdateConflicts(c) \/ UpdateUnheard(c)
    \/ StoreFails(c) \/ RecordResolution(c) \/ RecordResolutionFails(c)

-----------------------------------------------------------------------------
(* The waiting agent.                                                      *)

(* Run the tool or raise ActionBlocked, as the service says. *)
Resume ==
    /\ agent' = IF AllowsExecution THEN "executed" ELSE "blocked"
    /\ seen' = EffectiveStatus
    /\ UNCHANGED << clock, record, wire, auditlog, requests >>

(* A poll that finds the decision settled ends the wait.  One that finds it
   pending, or fails, changes nothing.                                      *)
Poll ==
    /\ agent = "waiting"
    /\ clock < terms.wait_timeout
    /\ EffectiveStatus # "pending"
    /\ Resume

(* Mutation: a wait that has run out is a refusal without another look. *)
RefuseUnseen ==
    /\ agent = "waiting"
    /\ clock >= terms.wait_timeout
    /\ agent' = "blocked"
    /\ seen' = "pending"
    /\ UNCHANGED << clock, record, wire, auditlog, requests >>

(* The wait has run out: one more look, and whatever it says counts. *)
LastPoll ==
    /\ agent = "waiting"
    /\ clock >= terms.wait_timeout
    /\ Resume

(* The last look is not retried: its failure leaves wait_for_decision. *)
LastPollFails ==
    /\ agent = "waiting"
    /\ clock >= terms.wait_timeout
    /\ "error" \in Faults
    /\ agent' = "failed"
    /\ UNCHANGED << clock, record, wire, auditlog, requests, seen >>

(* Mutation: nothing but a settled status ends the wait. *)
PollForever ==
    /\ agent = "waiting"
    /\ EffectiveStatus # "pending"
    /\ Resume

Agent == Poll \/ LastPoll \/ LastPollFails

Next ==
    \/ Tick
    \/ Agent
    \/ \E c \in Clicks :
          Click(c) \/ Resolve(c) \/ Kill(c) \/ Land(c) \/ RecordLandsUnseen(c)

Spec == Init /\ [][Next]_vars

(* Time passes, and the agent polls on.  Reviewers owe nobody a click. *)
FairSpec == Spec /\ WF_vars(Tick) /\ WF_vars(Agent)
-----------------------------------------------------------------------------
TypeOK ==
    /\ clock \in 0 .. MaxTime
    /\ terms \in [expires_at   : Windows,
                  on_timeout   : {"deny", "allow"},
                  wait_timeout : Waits]
    /\ status \in Verdicts \cup {"pending"}
    /\ reviewer \in Clicks \cup {NoClick}
    /\ wire \subseteq Clicks
    /\ log \in Seq(Clicks)
    /\ answer \in [Clicks -> Audit!Answers]
    /\ pc \in [Clicks -> {"idle", "read", "capture", "update", "audit", "done"}]
    /\ wish \in [Clicks -> Verdicts]
    /\ now \in [Clicks -> 0 .. MaxTime]
    /\ response \in [Clicks -> {"none", "ok", "conflict", "error"}]
    /\ agent \in {"waiting", "executed", "blocked", "failed"}
    /\ seen \in Verdicts \cup {"none", "pending", "expired"}

(* Exactly one winner (decisions.py:8-10): a reviewer who was told 200 is
   the one whose judgement is stored, now and later, so no second reviewer
   is told the same; and it was judged before the window closed.           *)
OneWinner ==
    \A c \in Clicks :
        response[c] = "ok" =>
            reviewer = c /\ status = wish[c] /\ now[c] < terms.expires_at

(* A 409 is only told when the decision is resolved or its window closed,
   and to the reviewer whose own judgement is the stored one only if the
   reply to an update of it was lost: sent again, the update finds the
   record resolved by itself, and resolve (decisions.py:484-491) cannot tell
   that from a colleague's judgement.  Every other 409 is a click that lost
   to another reviewer or to the clock.                                     *)
ConflictIsReal ==
    \A c \in Clicks :
        response[c] = "conflict" =>
            /\ status # "pending" \/ clock >= terms.expires_at
            /\ reviewer = c => c \in wire

(* Silence is never consent (decisions.py:12-14): the agent runs the tool
   only after an approval, or after a window that closed under a rule that
   says so.  A wait that runs out earlier refuses.                          *)
SilenceIsNotConsent ==
    agent = "executed" =>
        \/ status = "approved"
        \/ terms.on_timeout = "allow" /\ clock >= terms.expires_at

(* Each resolution in the audit log took effect and still stands: an entry
   never tells of a judgement that lost the race or was overwritten.       *)
AuditTellsTheTruth ==
    \A i \in DOMAIN log : log[i] = reviewer /\ wish[log[i]] = status

(* A judgement the agent has acted on is not replaced by another. *)
JudgementStands == seen \in Verdicts => status = seen

(* An approval given while the agent waits is not lost on it, unless the
   very last poll fails.                                                   *)
ApprovalReachesAgent ==
    (status = "approved" /\ agent = "waiting") ~> agent \in {"executed", "failed"}

(* The agent does not wait for ever: wait_timeout bounds it. *)
AgentReturns == <>(agent # "waiting")

-----------------------------------------------------------------------------
(* What comments and tests say and the code does not do.                   *)

(* A settled status is one that waiting longer could not change
   (guardrail_sdk/models.py:100), and an expired decision cannot be approved
   late (tests/unit/test_hitl.py:300).  The update's condition uses a time
   captured before it lands.                                                *)
SettledStays == seen \in Verdicts \cup {"expired"} => EffectiveStatus = seen
=============================================================================
