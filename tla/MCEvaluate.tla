----------------------------- MODULE MCEvaluate -----------------------------
(* Instances of Evaluate for TLC. *)
EXTENDS Evaluate

CONSTANTS a1, a2

OneAction  == {a1}
TwoActions == {a1, a2}
=============================================================================
