----------------------------- MODULE ReviewQueue -----------------------------
(***************************************************************************)
(* list_pending (storage/decisions.py): the reviewers' queue, read page by  *)
(* page from an index that expired decisions do not leave.  The index is a  *)
(* sequence of expiry times, oldest decision first; an answer is a set of   *)
(* places in it, and is given in their order.                               *)
(***************************************************************************)
EXTENDS Naturals, Sequences, FiniteSets

CONSTANTS
    QueuePageSize,   \* QUEUE_PAGE_SIZE, MAX_QUEUE_PAGES
    MaxQueuePages

ASSUME QueueAssumption == QueuePageSize \in Nat \ {0} /\ MaxQueuePages \in Nat \ {0}

Live(index, now) == {i \in DOMAIN index : index[i] > now}

First(n, places) == {i \in places : Cardinality({j \in places : j < i}) < n}

(* What the filtered query returns of the first k pages. *)
Collected(index, k, now) == {i \in Live(index, now) : i <= k * QueuePageSize}

(* The walk ends with the index, with enough collected, or at its ceiling. *)
Enough(index, k, limit, now) ==
    \/ k * QueuePageSize >= Len(index)
    \/ Cardinality(Collected(index, k, now)) >= limit
    \/ k = MaxQueuePages

PagesRead(index, limit, now) ==
    CHOOSE k \in 1 .. MaxQueuePages :
       /\ Enough(index, k, limit, now)
       /\ \A j \in 1 .. k - 1 : ~Enough(index, j, limit, now)

(* Mutation, as the code once was: one page of limit items, filtered after. *)
ListPendingOnePage(index, limit, asked, answered) ==
    {i \in Live(index, answered) : i <= limit}

(* The query filters by the time it was asked at, the answer by its own. *)
ListPending(index, limit, asked, answered) ==
    First(limit, Live(index, answered)
                 \cap Collected(index, PagesRead(index, limit, asked), asked))

(* The in-memory repository. *)
ListPendingInMemory(index, limit, now) == First(limit, Live(index, now))

(* Shown are live decisions, no more than asked for, and the oldest: one     *)
(* within the pages that may be read is left out only behind limit others    *)
(* that were live when the queue was asked for.  While no time passes and    *)
(* the index fits, both repositories give one answer.                        *)
ShowsOldest(index, limit, asked, answered) ==
    LET shown == ListPending(index, limit, asked, answered)
    IN  /\ shown \subseteq Live(index, answered)
        /\ Cardinality(shown) <= limit
        /\ \A i \in Live(index, answered) \ shown :
              \/ i > QueuePageSize * MaxQueuePages
              \/ Cardinality({j \in Live(index, asked) : j < i}) >= limit
        /\ asked = answered /\ Len(index) <= QueuePageSize * MaxQueuePages =>
              shown = ListPendingInMemory(index, limit, asked)
=============================================================================
