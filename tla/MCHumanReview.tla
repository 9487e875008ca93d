--------------------------- MODULE MCHumanReview ---------------------------
(* Instances of HumanReview for TLC. *)
EXTENDS HumanReview

CONSTANTS r1, r2

TwoClicks == {r1, r2}
=============================================================================
