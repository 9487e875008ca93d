----------------------------- MODULE AuditChain -----------------------------
(***************************************************************************)
(* DynamoDBAuditRepository.append (guardrail_service/storage/audit.py) run *)
(* by many containers at once on the chain of one tenant: read the latest  *)
(* record, build the successor, put it where no item is yet, and retry     *)
(* when another writer took the slot or the table throttles.               *)
(*                                                                         *)
(* Time appears only as the fault "slow": the call's 5 second deadline is  *)
(* found to have passed after a failed put.  Back-off sleeps change        *)
(* nothing but the interleaving, which is free here anyway.                *)
(***************************************************************************)
EXTENDS AuditRecords, FiniteSets

CONSTANTS
    Calls,             \* append calls; each writes the entry it is named after
    MaxWriteAttempts,  \* MAX_WRITE_ATTEMPTS
    MaxSends,          \* requests the store's client makes for one put
    Faults             \* the failures that can happen in this instance

AllFaults == {"throttled",  \* the table is at its provisioned capacity
              "timeout",    \* a reply does not arrive in time
              "slow",       \* the deadline passes
              "denied",     \* a permanent error: missing table, permission
              "killed"}     \* the container stops in the middle of a call

ASSUME AttemptsAssumption == MaxWriteAttempts \in Nat \ {0}
ASSUME SendsAssumption == MaxSends \in Nat \ {0}
ASSUME FaultsAssumption == Faults \subseteq AllFaults

VARIABLES
    items,    \* the table: sequence number -> record
    wire,     \* puts that are on their way and that nobody waits for
    pc,       \* where each call is
    attempt,  \* the loop variable of append
    sends,    \* requests made so far for the current put
    record,   \* the record built in this attempt
    causes,   \* why puts of this call have failed: append's contended, throttled
    error     \* the exception that left append

vars == << items, wire, pc, attempt, sends, record, causes, error >>

Working  == {"read", "put"}
Returned == {"recorded", "raised", "killed"}
Errors   == {"none", "AuditWriteError", "throttled", "timeout", "denied"}

-----------------------------------------------------------------------------
(* The table.                                                              *)

(* Mutation: the condition expression is left off the put. *)
VacantUnchecked(seq) == TRUE

Vacant(seq) == seq \notin DOMAIN items

(* PutItem with attribute_not_exists(sk): an occupied slot is left alone. *)
PutIfVacant(r) ==
    items' = IF Vacant(r.seq)
             THEN [i \in DOMAIN items \cup {r.seq} |->
                     IF i = r.seq THEN r ELSE items[i]]
             ELSE items

(* Mutation: the digest is taken from the first record instead of the last. *)
SuccessorOfWrongRecord(c) ==
    IF DOMAIN items = {}
    THEN BuildRecord(1, GENESIS_HASH, c)
    ELSE BuildRecord(Cardinality(DOMAIN items) + 1, items[1].hash, c)

(* The consistent query of one item, highest key first. *)
Latest == items[CHOOSE i \in DOMAIN items : \A j \in DOMAIN items : j <= i]

(* The successor of the latest record, as append builds it. *)
Successor(c) ==
    IF DOMAIN items = {}
    THEN BuildRecord(1, GENESIS_HASH, c)
    ELSE BuildRecord(Latest.seq + 1, Latest.hash, c)

-----------------------------------------------------------------------------
Init ==
    /\ items = << >>
    /\ wire = {}
    /\ pc = [c \in Calls |-> "read"]
    /\ attempt = [c \in Calls |-> 0]
    /\ sends = [c \in Calls |-> 0]
    /\ record = [c \in Calls |-> BuildRecord(1, GENESIS_HASH, c)]
    /\ causes = [c \in Calls |-> {}]
    /\ error = [c \in Calls |-> "none"]

Raise(c, e) ==
    /\ pc' = [pc EXCEPT ![c] = "raised"]
    /\ error' = [error EXCEPT ![c] = e]

(* The consistent query for the latest record, and the record built on it. *)
ReadLatest(c) ==
    /\ pc[c] = "read"
    /\ record' = [record EXCEPT ![c] = Successor(c)]
    /\ sends' = [sends EXCEPT ![c] = 0]
    /\ pc' = [pc EXCEPT ![c] = "put"]
    /\ UNCHANGED << items, wire, attempt, causes, error >>

(* The query is outside the try block: whatever it raises leaves append.  *)
ReadFails(c) ==
    /\ pc[c] = "read"
    /\ \E e \in Faults \cap {"throttled", "timeout", "denied"} : Raise(c, e)
    /\ UNCHANGED << items, wire, attempt, sends, record, causes >>

PutSucceeds(c) ==
    /\ pc[c] = "put"
    /\ Vacant(record[c].seq)
    /\ PutIfVacant(record[c])
    /\ pc' = [pc EXCEPT ![c] = "recorded"]
    /\ UNCHANGED << wire, attempt, sends, record, causes, error >>

(* Mutation: the attempts are not counted. *)
RetryForever(c, cause) ==
    /\ causes' = [causes EXCEPT ![c] = @ \cup {cause}]
    /\ pc' = [pc EXCEPT ![c] = "read"]
    /\ UNCHANGED << attempt, error >>

(* Mutation: the loop gives up one attempt early. *)
RetryOnceTooFew(c, cause) ==
    /\ causes' = [causes EXCEPT ![c] = @ \cup {cause}]
    /\ \/ /\ attempt[c] + 2 < MaxWriteAttempts
          /\ attempt' = [attempt EXCEPT ![c] = @ + 1]
          /\ pc' = [pc EXCEPT ![c] = "read"]
          /\ UNCHANGED error
       \/ /\ attempt[c] + 2 >= MaxWriteAttempts
          /\ Raise(c, "AuditWriteError")
          /\ UNCHANGED attempt

(* Mutation: the loop runs once too often. *)
RetryOnceTooOften(c, cause) ==
    /\ causes' = [causes EXCEPT ![c] = @ \cup {cause}]
    /\ \/ /\ attempt[c] < MaxWriteAttempts
          /\ attempt' = [attempt EXCEPT ![c] = @ + 1]
          /\ pc' = [pc EXCEPT ![c] = "read"]
          /\ UNCHANGED error
       \/ /\ attempt[c] = MaxWriteAttempts
          /\ Raise(c, "AuditWriteError")
          /\ UNCHANGED attempt

(* What the loop does after a failure it retries: go round again, unless
   this was the last attempt or the deadline has passed.                  *)
RetryOrGiveUp(c, cause) ==
    /\ causes' = [causes EXCEPT ![c] = @ \cup {cause}]
    /\ \/ /\ attempt[c] + 1 < MaxWriteAttempts
          /\ attempt' = [attempt EXCEPT ![c] = @ + 1]
          /\ pc' = [pc EXCEPT ![c] = "read"]
          /\ UNCHANGED error
       \/ /\ attempt[c] + 1 = MaxWriteAttempts \/ "slow" \in Faults
          /\ Raise(c, "AuditWriteError")
          /\ UNCHANGED attempt

(* Mutation: an occupied slot is taken for one's own earlier write. *)
PutConflictIsSuccess(c) ==
    /\ pc[c] = "put"
    /\ ~Vacant(record[c].seq)
    /\ pc' = [pc EXCEPT ![c] = "recorded"]
    /\ UNCHANGED << items, wire, attempt, sends, record, causes, error >>

PutConflicts(c) ==
    /\ pc[c] = "put"
    /\ ~Vacant(record[c].seq)
    /\ RetryOrGiveUp(c, "contended")
    /\ UNCHANGED << items, wire, sends, record >>

PutThrottled(c) ==
    /\ pc[c] = "put"
    /\ "throttled" \in Faults
    /\ RetryOrGiveUp(c, "throttled")
    /\ UNCHANGED << items, wire, sends, record >>

PutDenied(c) ==
    /\ pc[c] = "put"
    /\ "denied" \in Faults
    /\ Raise(c, "denied")
    /\ UNCHANGED << items, wire, attempt, sends, record, causes >>

(* No reply in time.  The request may still be applied; the store's client
   sends the same put again, and raises when it has done so often enough. *)
PutTimesOut(c) ==
    /\ pc[c] = "put"
    /\ "timeout" \in Faults
    /\ wire' = wire \cup {record[c]}
    /\ IF sends[c] + 1 < MaxSends
       THEN sends' = [sends EXCEPT ![c] = @ + 1] /\ UNCHANGED << pc, error >>
       ELSE Raise(c, "timeout") /\ UNCHANGED sends
    /\ UNCHANGED << items, attempt, record, causes >>

(* The container stops; a put it has sent is on its way. *)
Kill(c) ==
    /\ pc[c] \in Working
    /\ "killed" \in Faults
    /\ pc' = [pc EXCEPT ![c] = "killed"]
    /\ wire' = IF pc[c] = "put" THEN wire \cup {record[c]} ELSE wire
    /\ UNCHANGED << items, attempt, sends, record, causes, error >>

(* A put nobody waits for reaches the table. *)
Land ==
    \E r \in wire :
        /\ PutIfVacant(r)
        /\ wire' = wire \ {r}
        /\ UNCHANGED << pc, attempt, sends, record, causes, error >>

Step(c) ==
    \/ ReadLatest(c) \/ ReadFails(c)
    \/ PutSucceeds(c) \/ PutConflicts(c) \/ PutThrottled(c)
    \/ PutDenied(c) \/ PutTimesOut(c)

Next == Land \/ \E c \in Calls : Step(c) \/ Kill(c)

Spec == Init /\ [][Next]_vars

(* A container that runs takes its next step: append has no unbounded wait,
   every call of the store's client has a timeout.                        *)
FairSpec == Spec /\ \A c \in Calls : WF_vars(Step(c))
-----------------------------------------------------------------------------
(* Every variable has its type: a table of records in slots of their own
   number, calls in one of their five places, counters below their bounds. *)
IsRecord(r) ==
    /\ DOMAIN r = {"seq", "payload", "prev_hash", "hash"}
    /\ r.seq \in Nat \ {0}
    /\ r.payload \in Calls

TypeOK ==
    /\ DOMAIN items \subseteq Nat \ {0}
    /\ \A i \in DOMAIN items : IsRecord(items[i]) /\ items[i].seq = i
    /\ \A r \in wire : IsRecord(r)
    /\ pc \in [Calls -> Working \cup Returned]
    /\ attempt \in [Calls -> 0 .. MaxWriteAttempts - 1]
    /\ sends \in [Calls -> 0 .. MaxSends - 1]
    /\ DOMAIN record = Calls
    /\ \A c \in Calls : IsRecord(record[c])
    /\ causes \in [Calls -> SUBSET {"contended", "throttled"}]
    /\ error \in [Calls -> Errors]

(* The items as the verifying query returns them: oldest first. *)
OldestFirst ==
    [k \in 1 .. Cardinality(DOMAIN items) |->
        items[CHOOSE i \in DOMAIN items :
                  Cardinality({j \in DOMAIN items : j < i}) = k - 1]]

VerifyChain(limit) == VerifyRecords(SubSeq(OldestFirst, 1, limit))

(* verify_chain never raises a false tamper alarm: however the writers race,
   lose replies, stop or have old puts land late, no slot is skipped, no
   record is replaced under its successor and no two writers fork the chain,
   so the walk finds every stored prefix intact.                           *)
NoFalseAlarm ==
    \A limit \in 1 .. Cardinality(DOMAIN items) : VerifyChain(limit).chain_valid

(* A call that returned a record told the truth, and for ever: the table
   holds exactly that record, digest included, in the slot it named.  The
   response of /v1/evaluate quotes both.                                   *)
AcknowledgedIsRecorded ==
    \A c \in Calls :
        pc[c] = "recorded" =>
            /\ ~Vacant(record[c].seq)
            /\ items[record[c].seq] = record[c]

(* Contention alone never costs a decision.  Each time a call loses a slot,
   another call's entry has taken it for good; so with no more calls than
   attempts, a call that gives up was throttled at least once.  A lost
   reply, which lets one call take two slots, or a deadline that passes
   early can break this.                                                   *)
ContentionAloneNeverRefuses ==
    (/\ Faults \cap {"timeout", "slow"} = {}
     /\ Cardinality(Calls) <= MaxWriteAttempts)
        => \A c \in Calls :
              error[c] = "AuditWriteError" => "throttled" \in causes[c]

(* Every call comes back (or its container stops), under any mix of
   contention, throttling and lost replies: the retry loop has no livelock. *)
AppendReturns == \A c \in Calls : <>(pc[c] \in Returned)

(* The log as its callers see it.  A call that failed has not logged its
   entry unless a reply was lost; nothing logged ever changes or moves; and
   without lost replies no entry is logged twice.                           *)
Log == INSTANCE AuditLog WITH
    Unsure <- "timeout" \in Faults,
    log    <- [i \in DOMAIN items |-> items[i].payload],
    answer <- [c \in Calls |-> CASE pc[c] = "recorded" -> "recorded"
                                 [] pc[c] = "raised"   -> "refused"
                                 [] OTHER              -> "none"]

ImplementsAuditLog == Log!LogSpec
=============================================================================
