------------------------------ MODULE MCGuards ------------------------------
(* Both ways to put a guard before a tool, checked side by side: a behaviour *)
(* is one of governed calls or one of a proxy session, and the other system  *)
(* stays as it began.                                                        *)
EXTENDS GovernedCalls, McpSession

CONSTANTS t1, t2, t3

MCThreads == {t1, t2, t3}

VARIABLE running

guardVars == << callVars, sessionVars, running >>

GuardsInit ==
    /\ CallsInit /\ SessionInit
    /\ running \in {"calls", "session"}
    /\ running = "calls" => flags = [failOpen |-> FALSE, wait |-> FALSE] /\ mishap = "none"
    /\ running = "session" => ~failOpen /\ wrapper = Wrap("langchain", "block", FALSE)

InCalls(A) == running = "calls" /\ A /\ UNCHANGED << sessionVars, running >>
InSession(A) == running = "session" /\ A /\ UNCHANGED << callVars, running >>

GuardsNext == InCalls(CallsNext) \/ InSession(SessionNext)

GuardsSpec ==
    /\ GuardsInit /\ [][GuardsNext]_guardVars
    /\ WF_guardVars(InCalls(Tick))
    /\ \A t \in Threads : WF_guardVars(InCalls(Call(t)))
    /\ WF_guardVars(InSession(Reader)) /\ WF_guardVars(InSession(Server))
    /\ WF_guardVars(InSession(Writer)) /\ WF_guardVars(InSession(Main))

-----------------------------------------------------------------------------
(* The types of the variables of both systems: the breaker's failures stop   *)
(* at its threshold, and a session's threads have no steps but these.        *)
TypeOK == CallsTypeOK /\ SessionTypeOK
=============================================================================
