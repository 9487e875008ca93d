------------------------------ MODULE MCPolicy ------------------------------
(* Instances of PolicyService for TLC. *)
EXTENDS PolicyService

CONSTANTS A, B, loopA, probeA, loopB

HomeOf(t) == IF t = loopB THEN B ELSE A

(* Lambda serves a request at a time per container; a server has threads. *)
OneLambda == {{loopA}}
TwoLambdasOrServer == {{loopA, loopB}, {loopA, probeA}}
=============================================================================
