---------------------------- MODULE MCAuditChain ----------------------------
(***************************************************************************)
(* AuditChain on small sets of calls.                                      *)
(***************************************************************************)
EXTENDS AuditChain, TLC

CONSTANTS c1, c2, c3

TwoCalls   == {c1, c2}
ThreeCalls == {c1, c2, c3}

(* Calls are interchangeable: nothing orders them but the slots they get.  *)
CallSymmetry == Permutations(Calls)
=============================================================================
