--------------------------- MODULE PolicyRegister ---------------------------
(***************************************************************************)
(* What the policy store promises an operator: published versions are      *)
(* numbered in order and never change, only a published version is ever    *)
(* put in force, and what a request is told is true.  No table, no lagging *)
(* replica and no retry is in sight.                                       *)
(***************************************************************************)
EXTENDS Naturals, Sequences

CONSTANTS
    Requests,  \* publications and activations; a publication is one document
    Unsure     \* TRUE where a reply of the store can be lost, so that a
               \* document may be stored twice, or stored and not reported

VARIABLES published,  \* the documents, by version number
          activated,  \* every version that was put in force, in order
          answer      \* what each request was told

registerVars == << published, activated, answer >>

Published(r) == \E n \in DOMAIN published : published[n] = r

Answers == [told   : {"none", "published", "activated", "refused", "contended", "failed"},
            number : Nat]

Unanswered == [told |-> "none", number |-> 0]

Tell(r, told, n) ==
    answer' = [answer EXCEPT ![r] = [told |-> told, number |-> n]]

RegisterInit ==
    /\ published = << >>
    /\ activated = << >>
    /\ answer = [r \in Requests |-> Unanswered]

(* A document gets the next number; its request may hear of it at once. *)
Publish(r) ==
    /\ answer[r].told = "none"
    /\ Published(r) => Unsure
    /\ published' = Append(published, r)
    /\ \/ UNCHANGED answer
       \/ Tell(r, "published", Len(published) + 1)
    /\ UNCHANGED activated

(* A stored version comes into force; rolling back is no different. *)
Activate(n) ==
    /\ n \in DOMAIN published
    /\ activated' = Append(activated, n)
    /\ UNCHANGED << published, answer >>

ConfirmActive(r, n) ==
    /\ answer[r].told = "none"
    /\ \E i \in DOMAIN activated : activated[i] = n
    /\ Tell(r, "activated", n)
    /\ UNCHANGED << published, activated >>

(* Refused: nothing of the request was stored.  Failed: it may have been.
   Contended: it has not been, unless a reply was lost.                   *)
Refuse(r) ==
    /\ answer[r].told = "none"
    /\ ~Published(r)
    /\ Tell(r, "refused", 0)
    /\ UNCHANGED << published, activated >>

Fail(r) ==
    /\ answer[r].told = "none"
    /\ \/ Tell(r, "failed", 0)
       \/ Tell(r, "contended", 0) /\ (Published(r) => Unsure)
    /\ UNCHANGED << published, activated >>

RegisterNext ==
    \/ \E r \in Requests : Publish(r) \/ Refuse(r) \/ Fail(r)
    \/ \E n \in DOMAIN published : Activate(n)
    \/ \E r \in Requests, n \in DOMAIN published : ConfirmActive(r, n)

RegisterSpec == RegisterInit /\ [][RegisterNext]_registerVars
=============================================================================
