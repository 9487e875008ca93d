------------------------------ MODULE DemoAgent ------------------------------
(***************************************************************************)
(* The agent that runs on Lambda (apps/demo-agent): invocations of one warm *)
(* container, each a loop of model turns and governed tool calls, and the   *)
(* ledger of side effects that outlives an invocation in the module.  What  *)
(* becomes of a single governed call is in GovernedCalls; here it is how    *)
(* the call ended.                                                          *)
(***************************************************************************)
EXTENDS Naturals, Sequences, FiniteSets

CONSTANTS
    MaxTurns,
    MaxCalls,         \* bounds of the model: calls of a turn, and invocations
    MaxInvocations

VARIABLES
    dryRun,    \* whether the invocation at work is a dry run
    ledger,    \* SIDE_EFFECTS: the invocation and turn of each
    agent,     \* the invocation at work: its step, turn, and calls to make
    outcomes,  \* its ToolOutcomes
    response,  \* what the last invocation answered
    done       \* history: every side effect there ever was

agentVars == << dryRun, ledger, agent, outcomes, response, done >>

Statuses == {"executed", "blocked", "pending_approval", "guardrail_unavailable", "error"}

Answer(status, tools, effects) == [status |-> status, tools |-> tools, effects |-> effects]

AgentInit ==
    /\ dryRun = FALSE
    /\ ledger = << >>
    /\ agent = [step |-> "idle", invocation |-> 0, turn |-> 0, calls |-> 0]
    /\ outcomes = << >>
    /\ response = Answer(0, << >>, << >>)
    /\ done = << >>

(* An unauthorised, malformed or misconfigured request ends before any work.
   (A GET changes nothing, and its answer describes the deployment.)         *)
TurnAway ==
    /\ agent.step = "idle"
    /\ \E status \in {400, 401, 500} : response' = Answer(status, << >>, << >>)
    /\ UNCHANGED << dryRun, ledger, agent, outcomes, done >>

(* Mutation: the ledger of the invocation before is left as it is. *)
KeptLedger == ledger

ResetSideEffects == << >>

Invoke ==
    /\ agent.step = "idle"
    /\ agent.invocation < MaxInvocations
    /\ dryRun' \in BOOLEAN
    /\ ledger' = ResetSideEffects
    /\ outcomes' = << >>
    /\ agent' = [step |-> "model", invocation |-> agent.invocation + 1, turn |-> 1, calls |-> 0]
    /\ UNCHANGED << response, done >>

Proceed(step, turn, calls) ==
    agent' = [step |-> step, invocation |-> agent.invocation, turn |-> turn, calls |-> calls]

Finish(status, tools, effects) ==
    /\ Proceed("idle", agent.turn, agent.calls)
    /\ response' = Answer(status, tools, effects)

(* The model has its last word. *)
Conclude ==
    /\ agent.step = "model"
    /\ Finish(200, outcomes, ledger)
    /\ UNCHANGED << dryRun, ledger, outcomes, done >>

ModelCallsTools ==
    /\ agent.step = "model"
    /\ \E n \in 1 .. MaxCalls : Proceed("tools", agent.turn, n)
    /\ UNCHANGED << dryRun, ledger, outcomes, response, done >>

(* The model cannot be reached, or a call raises what the loop does not
   expect: the transcript so far is lost.                              *)
AgentFails ==
    /\ agent.step \in {"model", "tools"}
    /\ Finish(502, << >>, << >>)
    /\ UNCHANGED << dryRun, ledger, outcomes, done >>

(* One tool call.  A dry run is listed as executed and does nothing. *)
InvokeTool ==
    /\ agent.step = "tools"
    /\ \E status \in Statuses :
          LET effect == [invocation |-> agent.invocation, turn |-> agent.turn]
              effects == IF status = "executed" /\ ~dryRun THEN << effect >> ELSE << >>
          IN  /\ outcomes' = Append(outcomes, status)
              /\ ledger' = ledger \o effects
              /\ done' = done \o effects
              /\ \/ /\ agent.calls > 1
                    /\ Proceed("tools", agent.turn, agent.calls - 1)
                    /\ UNCHANGED response
                 \/ /\ agent.calls = 1 /\ agent.turn < MaxTurns
                    /\ Proceed("model", agent.turn + 1, 0)
                    /\ UNCHANGED response
                 \/ /\ agent.calls = 1 /\ agent.turn >= MaxTurns
                    /\ Finish(200, outcomes', ledger')
    /\ UNCHANGED dryRun

AgentNext ==
    TurnAway \/ Invoke \/ Conclude \/ ModelCallsTools \/ AgentFails \/ InvokeTool

-----------------------------------------------------------------------------
(* A transcript tells what its own invocation did: its side effects are all *)
(* there in order, the last there were, none is of another invocation of the *)
(* warm container, and there is one for every call listed as executed, unless *)
(* in a dry run.  An answer of 502 carries no transcript, whatever had been   *)
(* done by then.                                                             *)
TranscriptIsOwn ==
    agent.step = "idle" /\ response.status = 200 =>
       /\ \E before \in 0 .. Len(done) :
             /\ response.effects = SubSeq(done, before + 1, Len(done))
             /\ \A i \in DOMAIN done : done[i].invocation = agent.invocation <=> i > before
       /\ ~dryRun => Len(response.effects) =
                        Cardinality({i \in DOMAIN response.tools : response.tools[i] = "executed"})
=============================================================================
