--------------------------- MODULE MCPolicyOutage ---------------------------
(* PolicyService with a record of what each container last confirmed. *)
EXTENDS MCPolicy

VARIABLE good

Confirmed(c) == cache[c].known /\ ~cache[c].degraded

GoodSpec ==
    /\ Init /\ good = [c \in Containers |-> Packaged]
    /\ [][/\ Next
          /\ good' = [c \in Containers |->
                         IF Confirmed(c)' THEN cache'[c].version ELSE good[c]]
         ]_<< vars, good >>

(* What the documentation of policy_provider.py (lines 17-24) says of an    *)
(* unreachable store: the last known good bundle is served on, indefinitely, *)
(* and only a cold start has none.                                          *)
LastKnownGoodSurvives ==
    \A c \in Containers : cache[c].degraded => cache[c].version = good[c]
=============================================================================
