-------------------------- MODULE AuditChainProofs --------------------------
(***************************************************************************)
(* Proofs about AuditChain for every number of calls, attempts and sends,  *)
(* and every combination of faults.                                        *)
(***************************************************************************)
EXTENDS AuditChain, FiniteSetTheorems, SequenceTheorems, TLAPS

-----------------------------------------------------------------------------
(***************************************************************************)
(* The inductive invariant.  A record is anchored when it carries its own  *)
(* digest and its predecessor is in the table, so that putting it into a   *)
(* vacant slot extends the chain at the end.  Anchored records stay        *)
(* anchored because nothing in the table changes; hence it does not matter *)
(* how old a put is when it lands.                                         *)
(***************************************************************************)
Anchored(r) ==
    /\ r.hash = ComputeHash(r.prev_hash, r.payload)
    /\ \/ r.seq = 1 /\ r.prev_hash = GENESIS_HASH
       \/ r.seq - 1 \in DOMAIN items /\ r.prev_hash = items[r.seq - 1].hash

NoGaps == \E n \in Nat : DOMAIN items = 1 .. n

ChainInv ==
    /\ TypeOK
    /\ NoGaps
    /\ \A i \in DOMAIN items : Anchored(items[i])
    /\ \A r \in wire : Anchored(r)
    /\ \A c \in Calls : pc[c] = "put" => Anchored(record[c])
    /\ \A c \in Calls : record[c].payload = c
    /\ AcknowledgedIsRecorded

-----------------------------------------------------------------------------
(* What AuditRecord.build returns is a record. *)
LEMMA BuildRecordType ==
    ASSUME NEW seq \in Nat \ {0}, NEW prev, NEW c \in Calls
    PROVE  LET r == BuildRecord(seq, prev, c)
           IN  /\ IsRecord(r)
               /\ r.seq = seq
               /\ r.payload = c
               /\ r.prev_hash = prev
               /\ r.hash = ComputeHash(prev, c)
  BY DEF BuildRecord, IsRecord

(* The record append builds on what it has just read: anchored, and meant
   for the first free slot.                                               *)
LEMMA SuccessorAnchored ==
    ASSUME ChainInv, NEW c \in Calls
    PROVE  /\ IsRecord(Successor(c))
           /\ Successor(c).payload = c
           /\ Anchored(Successor(c))
           /\ Vacant(Successor(c).seq)
  <1>1. PICK n \in Nat : DOMAIN items = 1 .. n
    BY DEF ChainInv, NoGaps
  <1>2. CASE n = 0
    <2>1. Successor(c) = BuildRecord(1, GENESIS_HASH, c)
      BY <1>1, <1>2 DEF Successor
    <2>2. QED
      BY <1>1, <1>2, <2>1, BuildRecordType DEF Anchored, Vacant
  <1>3. CASE n # 0
    <2> DEFINE latest == CHOOSE i \in DOMAIN items : \A j \in DOMAIN items : j <= i
    <2>1. n \in DOMAIN items /\ \A j \in DOMAIN items : j <= n
      BY <1>1, <1>3
    <2>2. latest \in DOMAIN items /\ \A j \in DOMAIN items : j <= latest
      BY <2>1
    <2>3. latest = n
      BY <1>1, <2>1, <2>2
    <2>4. Latest = items[n] /\ items[n].seq = n
      BY <2>1, <2>3 DEF Latest, ChainInv, TypeOK
    <2>5. Successor(c) = BuildRecord(n + 1, items[n].hash, c)
      BY <2>1, <2>4 DEF Successor
    <2>6. QED
      BY <1>1, <2>1, <2>5, BuildRecordType DEF Anchored, Vacant
  <1>4. QED
    BY <1>2, <1>3

(* An anchored record that finds its slot vacant extends the chain by one. *)
LEMMA VacantIsNext ==
    ASSUME ChainInv, NEW r, IsRecord(r), Anchored(r), Vacant(r.seq),
           NEW n \in Nat, DOMAIN items = 1 .. n
    PROVE  r.seq = n + 1
  BY DEF IsRecord, Anchored, Vacant

(* Storing an anchored record keeps the table a chain, keeps what is in it,
   and keeps every anchored record anchored.                               *)
LEMMA PutKeepsChain ==
    ASSUME ChainInv, NEW r, IsRecord(r), Anchored(r), PutIfVacant(r)
    PROVE  /\ NoGaps'
           /\ DOMAIN items' \subseteq Nat \ {0}
           /\ \A i \in DOMAIN items' : IsRecord(items'[i]) /\ items'[i].seq = i
           /\ \A i \in DOMAIN items : i \in DOMAIN items' /\ items'[i] = items[i]
           /\ Vacant(r.seq) => r.seq \in DOMAIN items' /\ items'[r.seq] = r
           /\ \A q : Anchored(q) => Anchored(q)'
           /\ \A i \in DOMAIN items' : Anchored(items[i])'
  <1>1. PICK n \in Nat : DOMAIN items = 1 .. n
    BY DEF ChainInv, NoGaps
  <1>2. CASE ~Vacant(r.seq)
    <2>1. items' = items
      BY <1>2 DEF PutIfVacant
    <2>2. \A q : Anchored(q) => Anchored(q)'
      BY <2>1 DEF Anchored
    <2>3. \A i \in DOMAIN items' : Anchored(items[i])'
      BY <2>1, <2>2 DEF ChainInv
    <2>4. NoGaps'
      BY <2>1 DEF ChainInv, NoGaps
    <2>5. QED
      BY <1>2, <2>1, <2>2, <2>3, <2>4 DEF ChainInv, TypeOK
  <1>3. CASE Vacant(r.seq)
    <2>1. r.seq = n + 1
      BY <1>1, <1>3, VacantIsNext
    <2>2. items' = [i \in 1 .. n + 1 |-> IF i = n + 1 THEN r ELSE items[i]]
      <3>1. DOMAIN items \cup {r.seq} = 1 .. n + 1
        BY <1>1, <2>1
      <3>2. QED
        BY <1>3, <2>1, <3>1 DEF PutIfVacant
    <2>3. DOMAIN items' = 1 .. n + 1
      BY <2>2
    <2>4. \A i \in DOMAIN items : i \in DOMAIN items' /\ items'[i] = items[i]
      BY <1>1, <2>2
    <2>5. r.seq \in DOMAIN items' /\ items'[r.seq] = r
      BY <2>1, <2>2
    <2>6. \A q : Anchored(q) => Anchored(q)'
      BY <2>4 DEF Anchored
    <2>7. \A i \in DOMAIN items' : i \in DOMAIN items \/ i = r.seq
      BY <1>1, <2>1, <2>3
    <2>8. \A i \in DOMAIN items' : IsRecord(items'[i]) /\ items'[i].seq = i
      BY <2>4, <2>5, <2>7 DEF ChainInv, TypeOK
    <2>9. \A i \in DOMAIN items' : Anchored(items[i])'
      <3>1. TAKE i \in DOMAIN items'
      <3>2. CASE i \in DOMAIN items
        <4>1. Anchored(items[i])
          BY <3>2 DEF ChainInv
        <4>2. Anchored(items[i])'
          BY <2>4, <3>2, <4>1 DEF Anchored
        <4>3. QED
          BY <2>4, <3>2, <4>1 DEF Anchored
      <3>3. CASE i = r.seq
        BY <2>4, <2>5, <3>3 DEF Anchored
      <3>4. QED
        BY <2>7, <3>2, <3>3
    <2>10. DOMAIN items' \subseteq Nat \ {0}
      BY <2>3
    <2>11. NoGaps'
      BY <2>3 DEF NoGaps
    <2>12. QED
      BY <2>4, <2>5, <2>6, <2>8, <2>9, <2>10, <2>11
  <1>4. QED
    BY <1>2, <1>3

-----------------------------------------------------------------------------
(* The invariant holds initially. *)
LEMMA ChainInvInit == Init => ChainInv
  <1> SUFFICES ASSUME Init PROVE ChainInv
    OBVIOUS
  <1>1. \A c \in Calls : /\ IsRecord(record[c])
                         /\ record[c].payload = c
    BY BuildRecordType DEF Init
  <1>2. DOMAIN items = {}
    BY DEF Init
  <1>3. TypeOK
    BY <1>1, <1>2, AttemptsAssumption, SendsAssumption
    DEF Init, TypeOK, Working, Returned, Errors
  <1>4. NoGaps
    <2>1. DOMAIN items = 1 .. 0
      BY <1>2
    <2>2. QED
      BY <2>1 DEF NoGaps
  <1>5. QED
    BY <1>1, <1>2, <1>3, <1>4 DEF Init, ChainInv, AcknowledgedIsRecorded

(* The invariant but for the bookkeeping of the calls, after a step that
   leaves the table alone.                                                *)
LEMMA TableUntouched ==
    ASSUME ChainInv, UNCHANGED items
    PROVE  /\ NoGaps'
           /\ \A i \in DOMAIN items' : Anchored(items[i])'
           /\ \A q : Anchored(q) => Anchored(q)'
  <1>1. \A q : Anchored(q) => Anchored(q)'
    BY DEF Anchored
  <1>2. QED
    BY <1>1 DEF ChainInv, NoGaps, Anchored

(* A query adds only an anchored record to those being put. *)
LEMMA ReadLatestKeepsInv ==
    ASSUME ChainInv, NEW c \in Calls, ReadLatest(c)
    PROVE  ChainInv'
  <1>1. /\ IsRecord(Successor(c))
        /\ Successor(c).payload = c
        /\ Anchored(Successor(c))
    BY SuccessorAnchored
  <1>2. TypeOK'
    BY <1>1, SendsAssumption DEF ChainInv, TypeOK, ReadLatest, Working
  <1>3. /\ \A i \in DOMAIN items' : Anchored(items[i])'
        /\ \A q : Anchored(q) => Anchored(q)'
        /\ NoGaps'
    BY TableUntouched DEF ReadLatest
  <1>4. \A d \in Calls : pc'[d] = "put" => Anchored(record'[d])
    BY <1>1 DEF ChainInv, TypeOK, ReadLatest
  <1>5. \A d \in Calls : pc'[d] = "put" => Anchored(record[d])'
    BY <1>4 DEF ReadLatest, Anchored
  <1>6. \A d \in Calls : record'[d].payload = d
    BY <1>1 DEF ChainInv, TypeOK, ReadLatest
  <1>7. AcknowledgedIsRecorded'
    BY DEF ChainInv, TypeOK, ReadLatest, AcknowledgedIsRecorded, Vacant
  <1>8. \A r \in wire' : Anchored(r)'
    BY <1>3 DEF ChainInv, ReadLatest
  <1>9. QED
    BY <1>2, <1>3, <1>5, <1>6, <1>7, <1>8 DEF ChainInv

(* Steps that change neither the table nor a record: a call fails, retries,
   waits longer or stops.                                                  *)
LEMMA FailureKeepsInv ==
    ASSUME ChainInv, UNCHANGED << items, record >>, TypeOK',
           \A r \in wire' : r \in wire \/ \E c \in Calls : pc[c] = "put" /\ r = record[c],
           \A c \in Calls : pc'[c] \in {"put", "recorded"} => pc'[c] = pc[c]
    PROVE  ChainInv'
  <1>1. /\ \A i \in DOMAIN items' : Anchored(items[i])'
        /\ \A q : Anchored(q) => Anchored(q)'
        /\ NoGaps'
    BY TableUntouched
  <1>2. \A r \in wire' : Anchored(r)'
    BY <1>1 DEF ChainInv
  <1>3. \A c \in Calls : pc'[c] = "put" => Anchored(record[c])'
    <2>1. \A c \in Calls : pc'[c] = "put" => Anchored(record[c])
      BY DEF ChainInv
    <2>2. QED
      BY <2>1 DEF Anchored
  <1>4. AcknowledgedIsRecorded'
    BY DEF ChainInv, AcknowledgedIsRecorded, Vacant
  <1>5. QED
    BY <1>1, <1>2, <1>3, <1>4 DEF ChainInv

(* What a failing call changes keeps its type, and nobody else starts a *)
(* put.                                                                 *)
LEMMA RaiseType ==
    ASSUME TypeOK, NEW c \in Calls, NEW e \in Errors, Raise(c, e)
    PROVE  /\ pc' \in [Calls -> Working \cup Returned]
           /\ error' \in [Calls -> Errors]
           /\ \A d \in Calls : pc'[d] \in {"put", "recorded"} => pc'[d] = pc[d]
  BY DEF TypeOK, Raise, Returned

(* So does what a call changes that tries again or gives up; its attempts *)
(* stay within the bound.                                                 *)
LEMMA RetryType ==
    ASSUME TypeOK, NEW c \in Calls, NEW cause \in {"contended", "throttled"},
           RetryOrGiveUp(c, cause)
    PROVE  /\ pc' \in [Calls -> Working \cup Returned]
           /\ attempt' \in [Calls -> 0 .. MaxWriteAttempts - 1]
           /\ causes' \in [Calls -> SUBSET {"contended", "throttled"}]
           /\ error' \in [Calls -> Errors]
           /\ \A d \in Calls : pc'[d] \in {"put", "recorded"} => pc'[d] = pc[d]
  <1>1. causes' \in [Calls -> SUBSET {"contended", "throttled"}]
    BY DEF TypeOK, RetryOrGiveUp
  <1>2. CASE Raise(c, "AuditWriteError") /\ UNCHANGED attempt
    BY <1>1, <1>2, RaiseType DEF TypeOK, Errors
  <1>3. CASE /\ attempt[c] + 1 < MaxWriteAttempts
             /\ attempt' = [attempt EXCEPT ![c] = @ + 1]
             /\ pc' = [pc EXCEPT ![c] = "read"]
             /\ UNCHANGED error
    <2>1. attempt' \in [Calls -> 0 .. MaxWriteAttempts - 1]
      BY <1>3, AttemptsAssumption DEF TypeOK
    <2>2. QED
      BY <1>1, <1>3, <2>1 DEF TypeOK, Working
  <1>4. QED
    BY <1>2, <1>3 DEF RetryOrGiveUp

(* A put that reaches the table, whether its caller waits for it or not. *)
LEMMA PutKeepsInv ==
    ASSUME ChainInv, NEW r, IsRecord(r), Anchored(r), PutIfVacant(r),
           UNCHANGED << attempt, sends, record, causes, error >>,
           wire' \subseteq wire,
           \/ UNCHANGED pc
           \/ \E c \in Calls : /\ r = record[c]
                              /\ Vacant(r.seq)
                              /\ pc' = [pc EXCEPT ![c] = "recorded"]
    PROVE  ChainInv'
  <1>1. /\ NoGaps'
        /\ DOMAIN items' \subseteq Nat \ {0}
        /\ \A i \in DOMAIN items' : IsRecord(items'[i]) /\ items'[i].seq = i
        /\ \A i \in DOMAIN items : i \in DOMAIN items' /\ items'[i] = items[i]
        /\ Vacant(r.seq) => r.seq \in DOMAIN items' /\ items'[r.seq] = r
        /\ \A q : Anchored(q) => Anchored(q)'
        /\ \A i \in DOMAIN items' : Anchored(items[i])'
    BY PutKeepsChain
  <1>2. pc' \in [Calls -> Working \cup Returned]
    BY DEF ChainInv, TypeOK, Returned
  <1>3. TypeOK'
    BY <1>1, <1>2 DEF ChainInv, TypeOK, IsRecord
  <1>4. \A q \in wire' : Anchored(q)'
    BY <1>1 DEF ChainInv
  <1>5. \A c \in Calls : pc'[c] = "put" => Anchored(record[c])'
    <2>1. \A c \in Calls : pc'[c] = "put" => pc[c] = "put"
      BY DEF ChainInv, TypeOK
    <2>2. \A c \in Calls : pc'[c] = "put" => Anchored(record[c])
      BY <2>1 DEF ChainInv
    <2>3. QED
      BY <2>2, <1>1 DEF Anchored
  <1>6. AcknowledgedIsRecorded'
    <2>1. \A c \in Calls : pc'[c] = "recorded" =>
              \/ pc[c] = "recorded"
              \/ r = record[c] /\ Vacant(r.seq)
      BY DEF ChainInv, TypeOK
    <2>2. QED
      BY <1>1, <2>1 DEF ChainInv, AcknowledgedIsRecorded, Vacant
  <1>7. \A c \in Calls : record'[c].payload = c
    BY DEF ChainInv
  <1>8. QED
    BY <1>1, <1>3, <1>4, <1>5, <1>6, <1>7 DEF ChainInv

(* Every step keeps the invariant. *)
LEMMA ChainInvStep == ChainInv /\ [Next]_vars => ChainInv'
  <1> SUFFICES ASSUME ChainInv, [Next]_vars PROVE ChainInv'
    OBVIOUS
  <1> USE DEF ChainInv
  <1>1. ASSUME NEW c \in Calls, ReadLatest(c) PROVE ChainInv'
    BY <1>1, ReadLatestKeepsInv
  <1>2. ASSUME NEW c \in Calls, ReadFails(c) PROVE ChainInv'
    <2>1. PICK e \in {"throttled", "timeout", "denied"} : Raise(c, e)
      BY <1>2 DEF ReadFails
    <2>2. TypeOK'
      BY <1>2, <2>1, RaiseType DEF ReadFails, TypeOK, Errors
    <2>3. QED
      BY <1>2, <2>1, <2>2, RaiseType, FailureKeepsInv DEF ReadFails, Errors
  <1>3. ASSUME NEW c \in Calls, PutSucceeds(c) PROVE ChainInv'
    <2>1. IsRecord(record[c]) /\ Anchored(record[c])
      BY <1>3 DEF PutSucceeds, TypeOK
    <2>2. QED
      BY <1>3, <2>1, PutKeepsInv DEF PutSucceeds
  <1>4. ASSUME NEW c \in Calls, PutConflicts(c) PROVE ChainInv'
    <2>1. TypeOK'
      BY <1>4, RetryType DEF PutConflicts, TypeOK
    <2>2. QED
      BY <1>4, <2>1, RetryType, FailureKeepsInv DEF PutConflicts
  <1>5. ASSUME NEW c \in Calls, PutThrottled(c) PROVE ChainInv'
    <2>1. TypeOK'
      BY <1>5, RetryType DEF PutThrottled, TypeOK
    <2>2. QED
      BY <1>5, <2>1, RetryType, FailureKeepsInv DEF PutThrottled
  <1>6. ASSUME NEW c \in Calls, PutDenied(c) PROVE ChainInv'
    <2>1. TypeOK'
      BY <1>6, RaiseType DEF PutDenied, TypeOK, Errors
    <2>2. QED
      BY <1>6, <2>1, RaiseType, FailureKeepsInv DEF PutDenied, Errors
  <1>7. ASSUME NEW c \in Calls, PutTimesOut(c) PROVE ChainInv'
    <2>1. CASE sends[c] + 1 < MaxSends
      <3>1. sends' \in [Calls -> 0 .. MaxSends - 1]
        BY <1>7, <2>1, SendsAssumption DEF PutTimesOut, TypeOK
      <3>2. TypeOK'
        BY <1>7, <2>1, <3>1 DEF PutTimesOut, TypeOK
      <3>3. QED
        BY <1>7, <2>1, <3>2, FailureKeepsInv DEF PutTimesOut
    <2>2. CASE ~(sends[c] + 1 < MaxSends)
      <3>1. TypeOK'
        BY <1>7, <2>2, RaiseType DEF PutTimesOut, TypeOK, Errors
      <3>2. QED
        BY <1>7, <2>2, <3>1, RaiseType, FailureKeepsInv DEF PutTimesOut, Errors
    <2>3. QED
      BY <2>1, <2>2
  <1>8. ASSUME NEW c \in Calls, Kill(c) PROVE ChainInv'
    <2>1. TypeOK'
      BY <1>8 DEF Kill, TypeOK, Returned
    <2>2. \A d \in Calls : pc'[d] \in {"put", "recorded"} => pc'[d] = pc[d]
      BY <1>8 DEF Kill, TypeOK
    <2>3. QED
      BY <1>8, <2>1, <2>2, FailureKeepsInv DEF Kill
  <1>9. ASSUME Land PROVE ChainInv'
    <2>1. PICK r \in wire : /\ PutIfVacant(r)
                            /\ wire' = wire \ {r}
                            /\ UNCHANGED << pc, attempt, sends, record, causes, error >>
      BY <1>9 DEF Land
    <2>2. IsRecord(r) /\ Anchored(r)
      BY DEF TypeOK
    <2>3. QED
      BY <2>1, <2>2, PutKeepsInv
  <1>10. CASE UNCHANGED vars
    BY <1>10 DEF vars, TypeOK, NoGaps, Anchored, IsRecord, AcknowledgedIsRecorded, Vacant
  <1>11. QED
    BY <1>1, <1>2, <1>3, <1>4, <1>5, <1>6, <1>7, <1>8, <1>9, <1>10 DEF Next, Step

-----------------------------------------------------------------------------
(* So it holds of every reachable state. *)
LEMMA ChainInvariant == Spec => []ChainInv
  BY ChainInvInit, ChainInvStep, PTL DEF Spec

(* The variables of append and of the table keep their types, whatever the
   number of concurrent calls and whichever faults occur.                  *)
THEOREM TypeCorrect == Spec => []TypeOK
  <1>1. ChainInv => TypeOK
    BY DEF ChainInv
  <1>2. QED
    BY <1>1, ChainInvariant, PTL

(* A record that append returned to the router is in the table for ever, in
   the slot and with the digest the router hands to the agent.             *)
THEOREM AcknowledgedStays == Spec => []AcknowledgedIsRecorded
  <1>1. ChainInv => AcknowledgedIsRecorded
    BY DEF ChainInv
  <1>2. QED
    BY <1>1, ChainInvariant, PTL

-----------------------------------------------------------------------------
(***************************************************************************)
(* The verifying walk.                                                     *)
(***************************************************************************)

(* With no gaps, reading the items oldest first is reading them by slot. *)
LEMMA OldestFirstBySlot ==
    ASSUME NEW n \in Nat, DOMAIN items = 1 .. n
    PROVE  /\ Cardinality(DOMAIN items) = n
           /\ \A k \in 1 .. n : OldestFirst[k] = items[k]
  <1>1. Cardinality(DOMAIN items) = n
    BY FS_Interval
  <1>2. \A i \in 1 .. n : Cardinality({j \in DOMAIN items : j < i}) = i - 1
    <2>1. TAKE i \in 1 .. n
    <2>2. {j \in DOMAIN items : j < i} = 1 .. i - 1
      OBVIOUS
    <2>3. Cardinality(1 .. i - 1) = i - 1
      BY FS_Interval
    <2>4. QED
      BY <2>2, <2>3
  <1>3. ASSUME NEW k \in 1 .. n PROVE OldestFirst[k] = items[k]
    <2> DEFINE At(i) == Cardinality({j \in DOMAIN items : j < i}) = k - 1
    <2>1. OldestFirst[k] = items[CHOOSE i \in DOMAIN items : At(i)]
      BY <1>1 DEF OldestFirst
    <2>2. k \in DOMAIN items /\ At(k)
      BY <1>2
    <2>3. \A i \in DOMAIN items : At(i) => i = k
      BY <1>2
    <2> HIDE DEF At
    <2>4. (CHOOSE i \in DOMAIN items : At(i)) = k
      BY <2>2, <2>3
    <2>5. QED
      BY <2>1, <2>4
  <1>4. QED
    BY <1>1, <1>3

(* A run of records that starts at the first one, each in its slot, with its
   own digest and with its predecessor's, passes verify_records.           *)
LEMMA LinkedRunVerifies ==
    ASSUME NEW limit \in Nat, NEW run, DOMAIN run = 1 .. limit,
           \A k \in 1 .. limit :
              /\ run[k].seq = k
              /\ run[k].hash = ComputeHash(run[k].prev_hash, run[k].payload)
              /\ run[k].prev_hash = IF k = 1 THEN GENESIS_HASH ELSE run[k - 1].hash
    PROVE  VerifyRecords(run).chain_valid
  <1>1. ASSUME NEW k \in DOMAIN run PROVE ~Faulty(run, k)
    <2>1. ~SequenceGap(run, k)
      <3>1. k > 1 => k - 1 \in 1 .. limit /\ run[k - 1].seq = k - 1
        OBVIOUS
      <3>2. run[k].seq = k /\ k \in Int
        OBVIOUS
      <3>3. QED
        BY <3>1, <3>2 DEF SequenceGap
    <2>2. ~BrokenLink(run, k)
      BY DEF BrokenLink, ExpectedPrev
    <2>3. ~ContentMismatch(run, k)
      BY DEF ContentMismatch
    <2>4. QED
      BY <2>1, <2>2, <2>3 DEF Faulty
  <1>2. {k \in DOMAIN run : Faulty(run, k)} = {}
    BY <1>1
  <1>3. QED
    BY <1>2 DEF VerifyRecords

(* No interleaving of writers, lost replies, stopped containers and late
   puts leaves a table on which verify_chain reports tampering.            *)
THEOREM NoFalseAlarmEver == Spec => []NoFalseAlarm
  <1>1. ChainInv => NoFalseAlarm
    <2> SUFFICES ASSUME ChainInv,
                        NEW limit \in 1 .. Cardinality(DOMAIN items)
                 PROVE  VerifyChain(limit).chain_valid
      BY DEF NoFalseAlarm
    <2>1. PICK n \in Nat : DOMAIN items = 1 .. n
      BY DEF ChainInv, NoGaps
    <2>2. /\ limit \in 1 .. n
          /\ \A k \in 1 .. n : OldestFirst[k] = items[k]
      BY <2>1, OldestFirstBySlot
    <2> DEFINE run == SubSeq(OldestFirst, 1, limit)
    <2>3. DOMAIN run = 1 .. limit /\ \A k \in 1 .. limit : run[k] = items[k]
      <3> DEFINE S == {items[k] : k \in 1 .. n}
      <3>1. \A k \in 1 .. limit : OldestFirst[k] \in S
        BY <2>2
      <3> HIDE DEF S
      <3>2. /\ run \in Seq(S)
            /\ Len(run) = limit
            /\ \A k \in 1 .. limit - 1 + 1 : run[k] = OldestFirst[1 + k - 1]
        BY <2>2, <3>1, SubSeqProperties
      <3>3. DOMAIN run = 1 .. limit
        BY <3>2, LenProperties
      <3>4. QED
        BY <2>2, <3>2, <3>3
    <2>4. \A k \in 1 .. limit :
              /\ run[k].seq = k
              /\ run[k].hash = ComputeHash(run[k].prev_hash, run[k].payload)
              /\ run[k].prev_hash = IF k = 1 THEN GENESIS_HASH ELSE run[k - 1].hash
      <3>1. \A k \in 1 .. limit : items[k].seq = k /\ Anchored(items[k])
        BY <2>1, <2>2 DEF ChainInv, TypeOK
      <3>2. QED
        BY <2>1, <2>2, <2>3, <3>1 DEF Anchored
    <2> HIDE DEF run
    <2>5. VerifyRecords(run).chain_valid
      BY <2>2, <2>3, <2>4, LinkedRunVerifies
    <2>6. QED
      BY <2>5 DEF VerifyChain, run
  <1>2. QED
    BY <1>1, ChainInvariant, PTL

-----------------------------------------------------------------------------
(***************************************************************************)
(* AuditChain implements AuditLog.  Where no reply is lost, a second       *)
(* invariant is needed: an entry is in the table only if its call returned *)
(* it or was stopped, and the put of a stopped call is under way at most   *)
(* once, and not after it landed.                                          *)
(***************************************************************************)
InTable(c) == \E i \in DOMAIN items : items[i].payload = c

OnceInv ==
    "timeout" \notin Faults =>
        /\ \A c \in Calls : InTable(c) => pc[c] \in {"recorded", "killed"}
        /\ \A r \in wire : pc[r.payload] = "killed" /\ ~InTable(r.payload)
        /\ \A r, q \in wire : r.payload = q.payload => r = q

TableLog == [i \in DOMAIN items |-> items[i].payload]
Answer   == [c \in Calls |-> CASE pc[c] = "recorded" -> "recorded"
                              [] pc[c] = "raised"   -> "refused"
                              [] OTHER              -> "none"]

(* What a put does to the entries in the table. *)
LEMMA PutAddsEntry ==
    ASSUME ChainInv, NEW r, IsRecord(r), Anchored(r), PutIfVacant(r), Vacant(r.seq)
    PROVE  /\ TableLog' = Append(TableLog, r.payload)
           /\ \A c \in Calls : InTable(c)' <=> InTable(c) \/ c = r.payload
  <1>1. PICK n \in Nat : DOMAIN items = 1 .. n
    BY DEF ChainInv, NoGaps
  <1>2. r.seq = n + 1
    BY <1>1, VacantIsNext
  <1>3. items' = [i \in 1 .. n + 1 |-> IF i = n + 1 THEN r ELSE items[i]]
    <2>1. DOMAIN items \cup {r.seq} = 1 .. n + 1
      BY <1>1, <1>2
    <2>2. QED
      BY <1>2, <2>1 DEF PutIfVacant
  <1>4. TableLog \in Seq(Calls) /\ Len(TableLog) = n
    <2>1. TableLog \in [1 .. n -> Calls]
      BY <1>1 DEF TableLog, ChainInv, TypeOK, IsRecord
    <2>2. TableLog \in Seq(Calls)
      BY <2>1, SeqDef
    <2>3. DOMAIN TableLog = 1 .. Len(TableLog) /\ Len(TableLog) \in Nat
      BY <2>2, LenProperties
    <2>4. 1 .. Len(TableLog) = 1 .. n
      BY <2>1, <2>3
    <2>5. \A m \in Nat : Cardinality(1 .. m) = m
      BY FS_Interval
    <2>6. QED
      BY <2>2, <2>3, <2>4, <2>5
  <1>5. TableLog' = Append(TableLog, r.payload)
    <2> DEFINE new == Append(TableLog, r.payload)
    <2>1. r.payload \in Calls
      BY DEF IsRecord
    <2>2. /\ new \in Seq(Calls)
          /\ Len(new) = n + 1
          /\ \A i \in 1 .. n : new[i] = TableLog[i]
          /\ new[n + 1] = r.payload
      BY <1>4, <2>1, AppendProperties
    <2>3. new \in [1 .. n + 1 -> Calls]
      BY <2>2, LenProperties
    <2>4. TableLog' = [i \in 1 .. n + 1 |-> IF i = n + 1 THEN r.payload
                                                        ELSE items[i].payload]
      BY <1>3 DEF TableLog
    <2>5. \A i \in 1 .. n + 1 : new[i] = TableLog'[i]
      BY <1>1, <2>2, <2>4 DEF TableLog
    <2> HIDE DEF new
    <2>6. new = TableLog'
      BY <2>3, <2>4, <2>5
    <2>7. QED
      BY <2>6 DEF new
  <1>6. \A c \in Calls : InTable(c)' <=> InTable(c) \/ c = r.payload
    <2>1. TAKE c \in Calls
    <2>2. InTable(c)' <=> \E i \in 1 .. n + 1 : items'[i].payload = c
      BY <1>3 DEF InTable
    <2>3. InTable(c) <=> \E i \in 1 .. n : items[i].payload = c
      BY <1>1 DEF InTable
    <2>4. \A i \in 1 .. n : items'[i] = items[i]
      BY <1>3
    <2>5. items'[n + 1] = r
      BY <1>3
    <2>6. QED
      BY <2>2, <2>3, <2>4, <2>5
  <1>7. QED
    BY <1>5, <1>6

(* An entry that is in the table makes its mapped log say so. *)
LEMMA LoggedIsInTable ==
    ASSUME NEW c
    PROVE  (\E i \in DOMAIN TableLog : TableLog[i] = c) <=> InTable(c)
  BY DEF TableLog, InTable

(* With an empty table nothing is recorded twice. *)
LEMMA OnceInvInit == Init => OnceInv
  BY DEF Init, OnceInv, InTable

(* Where no reply is lost, no step leaves an entry in the table whose call *)
(* does not know of it.                                                    *)
LEMMA OnceInvStep == ChainInv /\ OnceInv /\ [Next]_vars => OnceInv'
  <1> SUFFICES ASSUME ChainInv, OnceInv, [Next]_vars, "timeout" \notin Faults
               PROVE  OnceInv'
    BY DEF OnceInv
  <1>0. /\ \A c \in Calls : InTable(c) => pc[c] \in {"recorded", "killed"}
        /\ \A r \in wire : pc[r.payload] = "killed" /\ ~InTable(r.payload)
        /\ \A r, q \in wire : r.payload = q.payload => r = q
        /\ pc \in [Calls -> Working \cup Returned]
        /\ \A r \in wire : r.payload \in Calls
        /\ \A c \in Calls : record[c].payload = c
    BY DEF OnceInv, ChainInv, TypeOK, IsRecord
  <1>1. ASSUME UNCHANGED << items, wire >>,
               \A c \in Calls : pc[c] \in {"recorded", "killed"} => pc'[c] = pc[c]
        PROVE  OnceInv'
    BY <1>0, <1>1 DEF OnceInv, InTable
  <1>2. ASSUME NEW c \in Calls, ReadLatest(c) PROVE OnceInv'
    <2>1. \A d \in Calls : pc[d] \in {"recorded", "killed"} => pc'[d] = pc[d]
      BY <1>0, <1>2 DEF ReadLatest
    <2>2. QED
      BY <1>1, <1>2, <2>1 DEF ReadLatest
  <1>3. ASSUME NEW c \in Calls, ReadFails(c) PROVE OnceInv'
    <2>1. \A d \in Calls : pc[d] \in {"recorded", "killed"} => pc'[d] = pc[d]
      BY <1>0, <1>3 DEF ReadFails, Raise
    <2>2. QED
      BY <1>1, <1>3, <2>1 DEF ReadFails
  <1>4. ASSUME NEW c \in Calls, PutConflicts(c) PROVE OnceInv'
    <2>1. \A d \in Calls : pc[d] \in {"recorded", "killed"} => pc'[d] = pc[d]
      BY <1>0, <1>4 DEF PutConflicts, RetryOrGiveUp, Raise
    <2>2. QED
      BY <1>1, <1>4, <2>1 DEF PutConflicts
  <1>5. ASSUME NEW c \in Calls, PutThrottled(c) PROVE OnceInv'
    <2>1. \A d \in Calls : pc[d] \in {"recorded", "killed"} => pc'[d] = pc[d]
      BY <1>0, <1>5 DEF PutThrottled, RetryOrGiveUp, Raise
    <2>2. QED
      BY <1>1, <1>5, <2>1 DEF PutThrottled
  <1>6. ASSUME NEW c \in Calls, PutDenied(c) PROVE OnceInv'
    <2>1. \A d \in Calls : pc[d] \in {"recorded", "killed"} => pc'[d] = pc[d]
      BY <1>0, <1>6 DEF PutDenied, Raise
    <2>2. QED
      BY <1>1, <1>6, <2>1 DEF PutDenied
  <1>7. ASSUME NEW c \in Calls, PutTimesOut(c) PROVE OnceInv'
    BY <1>7 DEF PutTimesOut
  <1>8. ASSUME NEW c \in Calls, PutSucceeds(c) PROVE OnceInv'
    <2>1. IsRecord(record[c]) /\ Anchored(record[c])
      BY <1>8 DEF PutSucceeds, ChainInv, TypeOK
    <2>2. \A d \in Calls : InTable(d)' <=> InTable(d) \/ d = c
      BY <1>0, <1>8, <2>1, PutAddsEntry DEF PutSucceeds
    <2>3. /\ pc[c] = "put"
          /\ pc' = [pc EXCEPT ![c] = "recorded"]
          /\ wire' = wire
      BY <1>8 DEF PutSucceeds
    <2>4. \A d \in Calls : InTable(d)' => pc'[d] \in {"recorded", "killed"}
      BY <1>0, <2>2, <2>3
    <2>5. \A r \in wire' : pc'[r.payload] = "killed" /\ ~InTable(r.payload)'
      BY <1>0, <2>2, <2>3
    <2>6. QED
      BY <1>0, <2>3, <2>4, <2>5 DEF OnceInv
  <1>9. ASSUME NEW c \in Calls, Kill(c) PROVE OnceInv'
    <2>1. /\ pc[c] \in Working
          /\ pc' = [pc EXCEPT ![c] = "killed"]
          /\ wire' \subseteq wire \cup {record[c]}
          /\ items' = items
      BY <1>9 DEF Kill
    <2>2. \A d \in Calls : InTable(d)' <=> InTable(d)
      BY <2>1 DEF InTable
    <2>3. ~InTable(c) /\ \A r \in wire : r.payload # c
      BY <1>0, <2>1 DEF Working
    <2>4. \A r \in wire' : pc'[r.payload] = "killed" /\ ~InTable(r.payload)'
      BY <1>0, <2>1, <2>2, <2>3
    <2>5. \A r, q \in wire' : r.payload = q.payload => r = q
      BY <1>0, <2>1, <2>3
    <2>6. \A d \in Calls : InTable(d)' => pc'[d] \in {"recorded", "killed"}
      BY <1>0, <2>1, <2>2
    <2>7. QED
      BY <2>4, <2>5, <2>6 DEF OnceInv
  <1>10. ASSUME Land PROVE OnceInv'
    <2>1. PICK r \in wire : /\ PutIfVacant(r)
                            /\ wire' = wire \ {r}
                            /\ UNCHANGED pc
      BY <1>10 DEF Land
    <2>2. IsRecord(r) /\ Anchored(r)
      BY DEF ChainInv, TypeOK
    <2>3. \A d \in Calls : InTable(d)' => InTable(d) \/ d = r.payload
      <3>1. CASE Vacant(r.seq)
        BY <2>1, <2>2, <3>1, PutAddsEntry
      <3>2. CASE ~Vacant(r.seq)
        BY <2>1, <3>2 DEF PutIfVacant, InTable
      <3>3. QED
        BY <3>1, <3>2
    <2>4. \A q \in wire' : pc'[q.payload] = "killed" /\ ~InTable(q.payload)'
      BY <1>0, <2>1, <2>3
    <2>5. QED
      BY <1>0, <2>1, <2>3, <2>4 DEF OnceInv
  <1>11. CASE UNCHANGED vars
    BY <1>1, <1>11 DEF vars
  <1>12. QED
    BY <1>2, <1>3, <1>4, <1>5, <1>6, <1>7, <1>8, <1>9, <1>10, <1>11 DEF Next, Step

(* Every step of append is a step of the abstract log, or changes nothing
   its callers can see.                                                    *)
LEMMA AuditLogStep ==
    ChainInv /\ OnceInv /\ [Next]_vars => [Log!LogNext]_(Log!logVars)
  <1> SUFFICES ASSUME ChainInv, OnceInv, [Next]_vars
               PROVE  [Log!LogNext]_(Log!logVars)
    OBVIOUS
  <1> DEFINE Unsure == "timeout" \in Faults
  <1>0. /\ pc \in [Calls -> Working \cup Returned]
        /\ \A c \in Calls : record[c].payload = c
        /\ \A c \in Calls : Log!Logged(c) <=> InTable(c)
    BY DEF ChainInv, TypeOK, InTable, Log!Logged
  <1>1. ASSUME UNCHANGED << TableLog, Answer >> PROVE UNCHANGED Log!logVars
    BY <1>1 DEF TableLog, Answer, Log!logVars
  <1>2. ASSUME NEW c \in Calls, NEW e, Raise(c, e), pc[c] \in Working, UNCHANGED items
        PROVE  Log!Refuse(c)
    <2>1. Log!Logged(c) => Unsure
      BY <1>0, <1>2 DEF OnceInv, Working
    <2>2. Answer[c] = "none"
      BY <1>2 DEF Answer, Working
    <2>3. Answer' = [Answer EXCEPT ![c] = "refused"]
      <3>1. pc' = [pc EXCEPT ![c] = "raised"]
        BY <1>2 DEF Raise
      <3>2. \A d \in Calls : pc'[d] = IF d = c THEN "raised" ELSE pc[d]
        BY <1>0, <3>1
      <3>3. QED
        BY <3>2 DEF Answer
    <2>4. TableLog' = TableLog
      BY <1>2 DEF TableLog
    <2>5. QED
      BY <2>1, <2>2, <2>3, <2>4 DEF Log!Refuse, Answer, TableLog
  <1>3. ASSUME UNCHANGED << items, pc >> PROVE UNCHANGED Log!logVars
    BY <1>1, <1>3 DEF TableLog, Answer
  <1>4. ASSUME NEW c \in Calls, UNCHANGED items, pc[c] \in Working,
               NEW p \in {"read", "put", "killed"}, pc' = [pc EXCEPT ![c] = p]
        PROVE  UNCHANGED Log!logVars
    <2>1. \A d \in Calls : pc'[d] = IF d = c THEN p ELSE pc[d]
      BY <1>0, <1>4
    <2>2. Answer' = Answer
      BY <1>4, <2>1 DEF Answer, Working
    <2>3. QED
      BY <1>1, <1>4, <2>2 DEF TableLog
  <1>5. ASSUME NEW c \in Calls, NEW cause, pc[c] = "put", RetryOrGiveUp(c, cause),
               UNCHANGED items
        PROVE  Log!Refuse(c) \/ UNCHANGED Log!logVars
    <2>1. pc[c] \in Working
      BY <1>5 DEF Working
    <2>2. CASE Raise(c, "AuditWriteError")
      BY <1>2, <1>5, <2>1, <2>2
    <2>3. CASE pc' = [pc EXCEPT ![c] = "read"]
      BY <1>4, <1>5, <2>1, <2>3
    <2>4. QED
      BY <1>5, <2>2, <2>3 DEF RetryOrGiveUp
  <1>6. ASSUME NEW c \in Calls, PutSucceeds(c) PROVE Log!Commit(c)
    <2>1. /\ pc[c] = "put"
          /\ Vacant(record[c].seq)
          /\ PutIfVacant(record[c])
          /\ pc' = [pc EXCEPT ![c] = "recorded"]
          /\ IsRecord(record[c])
          /\ Anchored(record[c])
      BY <1>6 DEF PutSucceeds, ChainInv, TypeOK
    <2>2. TableLog' = Append(TableLog, c)
      BY <1>0, <2>1, PutAddsEntry
    <2>3. Answer[c] = "none"
      BY <2>1 DEF Answer
    <2>4. Answer' = [Answer EXCEPT ![c] = "recorded"]
      <3>1. \A d \in Calls : pc'[d] = IF d = c THEN "recorded" ELSE pc[d]
        BY <1>0, <2>1
      <3>2. QED
        BY <3>1 DEF Answer
    <2>5. Log!Logged(c) => Unsure
      BY <1>0, <2>1 DEF OnceInv
    <2>6. QED
      BY <2>2, <2>3, <2>4, <2>5 DEF Log!Commit, TableLog, Answer
  <1>7. ASSUME NEW r \in wire, PutIfVacant(r), UNCHANGED pc
        PROVE  \/ \E c \in Calls : Log!CommitUnseen(c)
               \/ UNCHANGED Log!logVars
    <2>1. IsRecord(r) /\ Anchored(r) /\ r.payload \in Calls
      BY DEF ChainInv, TypeOK, IsRecord
    <2>2. CASE Vacant(r.seq)
      <3>1. TableLog' = Append(TableLog, r.payload)
        BY <1>7, <2>1, <2>2, PutAddsEntry
      <3>2. Answer' = Answer
        BY <1>7 DEF Answer
      <3>3. Log!Logged(r.payload) => Unsure
        BY <1>0, <2>1 DEF OnceInv
      <3>4. Answer[r.payload] # "none" => Unsure
        BY <2>1 DEF OnceInv, Answer
      <3>5. Log!CommitUnseen(r.payload)
        BY <3>1, <3>2, <3>3, <3>4 DEF Log!CommitUnseen, TableLog, Answer
      <3>6. QED
        BY <2>1, <3>5
    <2>3. CASE ~Vacant(r.seq)
      BY <1>3, <1>7, <2>3 DEF PutIfVacant
    <2>4. QED
      BY <2>2, <2>3
  <1>8. ASSUME NEW c \in Calls, Step(c) PROVE [Log!LogNext]_(Log!logVars)
    <2>1. CASE ReadLatest(c)
      BY <1>4, <2>1 DEF ReadLatest, Working
    <2>2. CASE ReadFails(c)
      <3>1. Log!Refuse(c)
        BY <1>2, <2>2 DEF ReadFails, Working
      <3>2. QED
        BY <3>1 DEF Log!LogNext
    <2>3. CASE PutSucceeds(c)
      BY <1>6, <2>3 DEF Log!LogNext
    <2>4. CASE PutConflicts(c)
      <3>1. Log!Refuse(c) \/ UNCHANGED Log!logVars
        BY <1>5, <2>4 DEF PutConflicts
      <3>2. QED
        BY <3>1 DEF Log!LogNext
    <2>5. CASE PutThrottled(c)
      <3>1. Log!Refuse(c) \/ UNCHANGED Log!logVars
        BY <1>5, <2>5 DEF PutThrottled
      <3>2. QED
        BY <3>1 DEF Log!LogNext
    <2>6. CASE PutDenied(c)
      <3>1. Log!Refuse(c)
        BY <1>2, <2>6 DEF PutDenied, Working
      <3>2. QED
        BY <3>1 DEF Log!LogNext
    <2>7. CASE PutTimesOut(c)
      <3>1. CASE sends[c] + 1 < MaxSends
        BY <1>3, <2>7, <3>1 DEF PutTimesOut
      <3>2. CASE ~(sends[c] + 1 < MaxSends)
        <4>1. Log!Refuse(c)
          BY <1>2, <2>7, <3>2 DEF PutTimesOut, Working
        <4>2. QED
          BY <4>1 DEF Log!LogNext
      <3>3. QED
        BY <3>1, <3>2
    <2>8. QED
      BY <1>8, <2>1, <2>2, <2>3, <2>4, <2>5, <2>6, <2>7 DEF Step
  <1>9. ASSUME NEW c \in Calls, Kill(c) PROVE UNCHANGED Log!logVars
    BY <1>4, <1>9 DEF Kill
  <1>10. ASSUME Land PROVE [Log!LogNext]_(Log!logVars)
    BY <1>7, <1>10 DEF Land, Log!LogNext
  <1>11. CASE UNCHANGED vars
    BY <1>3, <1>11 DEF vars
  <1>12. QED
    BY <1>8, <1>9, <1>10, <1>11 DEF Next

(* The table and the calls together are the append-only log that AuditLog
   describes: answers are true, entries never move, and without lost replies
   every entry is logged at most once.                                     *)
THEOREM ChainImplementsLog == Spec => ImplementsAuditLog
  <1>1. Init => Log!LogInit
    <2> SUFFICES ASSUME Init PROVE Log!LogInit
      OBVIOUS
    <2>1. TableLog = << >>
      BY DEF Init, TableLog
    <2>2. Answer = [c \in Calls |-> "none"]
      BY DEF Init, Answer
    <2>3. QED
      BY <2>1, <2>2 DEF Log!LogInit, TableLog, Answer
  <1>2. Spec => []OnceInv
    BY OnceInvInit, OnceInvStep, ChainInvariant, PTL DEF Spec
  <1>3. QED
    BY <1>1, <1>2, AuditLogStep, ChainInvariant, PTL
    DEF Spec, ImplementsAuditLog, Log!LogSpec

-----------------------------------------------------------------------------
(***************************************************************************)
(* Contention.  A call that was never throttled has failed at most as often*)
(* as there are records in the table, because each failure is a slot that  *)
(* another entry has taken for good, and its next slot is a later one.     *)
(***************************************************************************)
Calm == Faults \cap {"timeout", "slow"} = {}

Slots == Cardinality(DOMAIN items)

DistinctEntries ==
    \A i, j \in DOMAIN items : items[i].payload = items[j].payload => i = j

ContentionInv ==
    Calm =>
        /\ DistinctEntries
        /\ \A c \in Calls : "throttled" \notin causes[c] =>
              /\ pc[c] = "read" => attempt[c] <= Slots
              /\ pc[c] = "put" => attempt[c] < record[c].seq
        /\ ContentionAloneNeverRefuses

(* A table without repeated entries that misses the entry of one call is
   smaller than the set of calls.                                          *)
LEMMA MissingEntry ==
    ASSUME ChainInv, DistinctEntries, IsFiniteSet(Calls),
           NEW c \in Calls, ~InTable(c)
    PROVE  Slots < Cardinality(Calls)
  <1>1. PICK n \in Nat : DOMAIN items = 1 .. n
    BY DEF ChainInv, NoGaps
  <1> DEFINE others == Calls \ {c}
             entry  == [i \in 1 .. n |-> items[i].payload]
  <1>2. /\ IsFiniteSet(others)
        /\ Cardinality(others) = Cardinality(Calls) - 1
        /\ Cardinality(Calls) \in Nat
    BY FS_RemoveElement, FS_CardinalityType
  <1>3. entry \in Injection(1 .. n, others)
    <2>1. \A i \in 1 .. n : items[i].payload \in others
      BY <1>1 DEF ChainInv, TypeOK, IsRecord, InTable
    <2>2. entry \in [1 .. n -> others]
      BY <2>1
    <2>3. \A i, j \in 1 .. n : entry[i] = entry[j] => i = j
      BY <1>1 DEF DistinctEntries
    <2> HIDE DEF entry, others
    <2>4. QED
      BY <2>2, <2>3 DEF Injection, IsInjective
  <1>4. Cardinality(1 .. n) <= Cardinality(others)
    <2> HIDE DEF entry, others
    <2>1. QED
      BY <1>2, <1>3, FS_Injection
  <1>5. Slots = n /\ Cardinality(1 .. n) = n
    BY <1>1, FS_Interval DEF Slots
  <1>6. QED
    BY <1>2, <1>4, <1>5

(* The table's length is a number, and no slot lies beyond it. *)
LEMMA SlotsIsNat == ChainInv => Slots \in Nat /\ \A i \in DOMAIN items : i <= Slots
  <1> SUFFICES ASSUME ChainInv
               PROVE  Slots \in Nat /\ \A i \in DOMAIN items : i <= Slots
    OBVIOUS
  <1>1. PICK n \in Nat : DOMAIN items = 1 .. n
    BY DEF ChainInv, NoGaps
  <1>2. Slots = n
    BY <1>1, FS_Interval DEF Slots
  <1>3. QED
    BY <1>1, <1>2

(* A put adds at most its own entry, and that only once. *)
LEMMA PutGrows ==
    ASSUME ChainInv, ChainInv', DistinctEntries, NEW r, IsRecord(r), Anchored(r),
           PutIfVacant(r), ~InTable(r.payload)
    PROVE  DistinctEntries' /\ Slots <= Slots'
  <1>1. PICK n \in Nat : DOMAIN items = 1 .. n
    BY DEF ChainInv, NoGaps
  <1>2. CASE ~Vacant(r.seq)
    <2>1. items' = items
      BY <1>2 DEF PutIfVacant
    <2>2. QED
      BY <2>1, SlotsIsNat DEF DistinctEntries, Slots
  <1>3. CASE Vacant(r.seq)
    <2>1. r.seq = n + 1
      BY <1>1, <1>3, VacantIsNext
    <2>2. items' = [i \in 1 .. n + 1 |-> IF i = n + 1 THEN r ELSE items[i]]
      <3>1. DOMAIN items \cup {r.seq} = 1 .. n + 1
        BY <1>1, <2>1
      <3>2. QED
        BY <1>3, <2>1, <3>1 DEF PutIfVacant
    <2>3. DistinctEntries'
      BY <1>1, <2>2 DEF DistinctEntries, InTable
    <2>4. Slots = n
      BY <1>1, FS_Interval DEF Slots
    <2>5. Slots' = n + 1
      <3>1. Cardinality(1 .. n + 1) = n + 1
        BY FS_Interval
      <3>2. QED
        BY <2>2, <3>1 DEF Slots
    <2>6. QED
      BY <2>3, <2>4, <2>5
  <1>4. QED
    BY <1>2, <1>3

(* The put of a call that was never throttled found its slot taken: that is
   one more record in the table than the call has failed.                  *)
LEMMA LostSlot ==
    ASSUME ChainInv, ContentionInv, Calm, NEW c \in Calls, PutConflicts(c),
           "throttled" \notin causes[c]
    PROVE  attempt[c] + 1 <= Slots
  <1>1. attempt[c] < record[c].seq
    BY DEF ContentionInv, PutConflicts
  <1>2. record[c].seq \in DOMAIN items
    BY DEF PutConflicts, Vacant
  <1>3. record[c].seq <= Slots /\ record[c].seq \in Nat /\ attempt[c] \in Nat /\ Slots \in Nat
    BY <1>2, SlotsIsNat DEF ChainInv, TypeOK, IsRecord
  <1>4. QED
    BY <1>1, <1>3

(* A call that failed without being throttled leaves room for another try. *)
LEMMA NeverLastAttempt ==
    ASSUME ChainInv, OnceInv, ContentionInv, Calm, IsFiniteSet(Calls),
           Cardinality(Calls) <= MaxWriteAttempts,
           NEW c \in Calls, PutConflicts(c), "throttled" \notin causes[c]
    PROVE  attempt[c] + 1 < MaxWriteAttempts
  <1>1. attempt[c] + 1 <= Slots
    BY LostSlot
  <1>2. ~InTable(c)
    BY DEF PutConflicts, OnceInv, Calm
  <1>3. Slots < Cardinality(Calls)
    BY <1>2, MissingEntry DEF ContentionInv
  <1>4. Slots \in Nat /\ Cardinality(Calls) \in Nat /\ attempt[c] \in Nat
    BY SlotsIsNat, FS_CardinalityType DEF ChainInv, TypeOK
  <1>5. QED
    BY <1>1, <1>3, <1>4, AttemptsAssumption

(* A call that loses a race has lost it to a record it had not seen: it *)
(* fails no more often than the table grows.                            *)
LEMMA ContentionInvStep ==
    IsFiniteSet(Calls) =>
        (ChainInv /\ ChainInv' /\ OnceInv /\ ContentionInv /\ [Next]_vars => ContentionInv')
  <1> SUFFICES ASSUME IsFiniteSet(Calls), ChainInv, ChainInv', OnceInv,
                      ContentionInv, [Next]_vars, Calm
               PROVE  ContentionInv'
    BY DEF ContentionInv, Calm
  <1> DEFINE Counted(c) == "throttled" \notin causes[c] =>
                              /\ pc[c] = "read" => attempt[c] <= Slots
                              /\ pc[c] = "put" => attempt[c] < record[c].seq
             Explained(c) == error[c] = "AuditWriteError" => "throttled" \in causes[c]
  <1>0. /\ DistinctEntries
        /\ \A c \in Calls : Counted(c)
        /\ Cardinality(Calls) <= MaxWriteAttempts => \A c \in Calls : Explained(c)
        /\ pc \in [Calls -> Working \cup Returned]
        /\ attempt \in [Calls -> Nat]
        /\ causes \in [Calls -> SUBSET {"contended", "throttled"}]
        /\ error \in [Calls -> Errors]
        /\ Slots \in Nat /\ Slots' \in Nat
    <2>1. /\ DistinctEntries
          /\ \A c \in Calls : Counted(c)
          /\ ContentionAloneNeverRefuses
      BY DEF ContentionInv
    <2>2. Cardinality(Calls) <= MaxWriteAttempts => \A c \in Calls : Explained(c)
      BY <2>1 DEF ContentionAloneNeverRefuses, Calm
    <2>3. /\ pc \in [Calls -> Working \cup Returned]
          /\ attempt \in [Calls -> 0 .. MaxWriteAttempts - 1]
          /\ causes \in [Calls -> SUBSET {"contended", "throttled"}]
          /\ error \in [Calls -> Errors]
      BY DEF ChainInv, TypeOK
    <2>4. attempt \in [Calls -> Nat]
      BY <2>3, AttemptsAssumption
    <2>5. Slots' \in Nat
      <3>1. PICK n \in Nat : DOMAIN items' = 1 .. n
        BY DEF ChainInv, NoGaps
      <3>2. QED
        BY <3>1, FS_Interval DEF Slots
    <2>6. QED
      BY <2>1, <2>2, <2>3, <2>4, <2>5, SlotsIsNat
  <1>1. ASSUME DistinctEntries', \A c \in Calls : Counted(c)',
               Cardinality(Calls) <= MaxWriteAttempts => \A c \in Calls : Explained(c)'
        PROVE  ContentionInv'
    BY <1>1 DEF ContentionInv, ContentionAloneNeverRefuses, Calm
  <1>2. ASSUME UNCHANGED items PROVE DistinctEntries' /\ Slots' = Slots
    BY <1>0, <1>2 DEF DistinctEntries, Slots
  <1>3. ASSUME NEW c \in Calls, NEW e \in Errors \ {"AuditWriteError"}, Raise(c, e),
               UNCHANGED << items, attempt, record, causes >>
        PROVE  ContentionInv'
    <2>1. \A d \in Calls : /\ pc'[d] \in Working => pc'[d] = pc[d]
                           /\ error'[d] = "AuditWriteError" => error[d] = error'[d]
      BY <1>0, <1>3 DEF Raise, Working
    <2>2. \A d \in Calls : Counted(d)' /\ (Explained(d) => Explained(d)')
      BY <1>0, <1>2, <1>3, <2>1 DEF Working
    <2>3. QED
      BY <1>0, <1>1, <1>2, <1>3, <2>2
  <1>4. ASSUME NEW c \in Calls, ReadLatest(c) PROVE ContentionInv'
    <2>1. record'[c].seq = Slots + 1
      <3>1. PICK n \in Nat : DOMAIN items = 1 .. n
        BY DEF ChainInv, NoGaps
      <3>2. record'[c].seq = n + 1
        <4>1. record'[c] = Successor(c)
          BY <1>4 DEF ReadLatest, ChainInv, TypeOK
        <4>2. QED
          BY <3>1, <4>1, SuccessorAnchored, VacantIsNext
      <3>3. Slots = n
        BY <3>1, FS_Interval DEF Slots
      <3>4. QED
        BY <3>2, <3>3
    <2>2. /\ pc[c] = "read"
          /\ pc' = [pc EXCEPT ![c] = "put"]
          /\ \A d \in Calls \ {c} : record'[d] = record[d]
          /\ UNCHANGED << items, attempt, causes, error >>
      BY <1>4 DEF ReadLatest, ChainInv, TypeOK
    <2>3. \A d \in Calls : Counted(d)'
      <3>1. TAKE d \in Calls
      <3>2. CASE d = c
        BY <1>0, <2>1, <2>2, <3>2
      <3>3. CASE d # c
        BY <1>0, <1>2, <2>2, <3>3
      <3>4. QED
        BY <3>2, <3>3
    <2>4. QED
      BY <1>0, <1>1, <1>2, <2>2, <2>3
  <1>5. ASSUME NEW c \in Calls, ReadFails(c) PROVE ContentionInv'
    BY <1>3, <1>5 DEF ReadFails, Errors
  <1>6. ASSUME NEW c \in Calls, PutDenied(c) PROVE ContentionInv'
    BY <1>3, <1>6 DEF PutDenied, Errors
  <1>7. ASSUME NEW c \in Calls, PutTimesOut(c) PROVE ContentionInv'
    BY <1>7 DEF PutTimesOut, Calm
  <1>8. ASSUME NEW c \in Calls, PutThrottled(c) PROVE ContentionInv'
    <2>1. /\ causes' = [causes EXCEPT ![c] = @ \cup {"throttled"}]
          /\ UNCHANGED << items, record >>
          /\ \A d \in Calls \ {c} : /\ pc'[d] = pc[d]
                                    /\ attempt'[d] = attempt[d]
                                    /\ error'[d] = error[d]
      BY <1>0, <1>8 DEF PutThrottled, RetryOrGiveUp, Raise
    <2>2. "throttled" \in causes'[c]
      BY <1>0, <2>1
    <2>3. \A d \in Calls : Counted(d)' /\ (Explained(d) => Explained(d)')
      BY <1>0, <1>2, <2>1, <2>2
    <2>4. QED
      BY <1>0, <1>1, <1>2, <2>1, <2>3
  <1>9. ASSUME NEW c \in Calls, PutConflicts(c) PROVE ContentionInv'
    <2>1. /\ pc[c] = "put"
          /\ causes' = [causes EXCEPT ![c] = @ \cup {"contended"}]
          /\ UNCHANGED << items, record >>
          /\ \A d \in Calls \ {c} : /\ pc'[d] = pc[d]
                                    /\ attempt'[d] = attempt[d]
                                    /\ error'[d] = error[d]
                                    /\ causes'[d] = causes[d]
          /\ "throttled" \in causes'[c] <=> "throttled" \in causes[c]
      BY <1>0, <1>9 DEF PutConflicts, RetryOrGiveUp, Raise
    <2>2. Counted(c)'
      <3>1. CASE "throttled" \in causes[c]
        BY <2>1, <3>1
      <3>2. CASE "throttled" \notin causes[c]
        <4>1. attempt[c] + 1 <= Slots
          BY <1>9, <3>2, LostSlot
        <4>2. pc'[c] # "put" /\ (pc'[c] = "read" => attempt'[c] = attempt[c] + 1)
          BY <1>0, <1>9 DEF PutConflicts, RetryOrGiveUp, Raise
        <4>3. QED
          BY <1>2, <2>1, <4>1, <4>2
      <3>3. QED
        BY <3>1, <3>2
    <2>3. Cardinality(Calls) <= MaxWriteAttempts => (Explained(c) => Explained(c)')
      <3>1. SUFFICES ASSUME Cardinality(Calls) <= MaxWriteAttempts, Explained(c),
                            "throttled" \notin causes[c]
                     PROVE  Explained(c)'
        BY <2>1
      <3>2. attempt[c] + 1 < MaxWriteAttempts
        BY <1>9, <3>1, NeverLastAttempt
      <3>3. error'[c] = error[c]
        BY <1>0, <1>9, <3>2, AttemptsAssumption DEF PutConflicts, RetryOrGiveUp, Calm
      <3>4. QED
        BY <2>1, <3>1, <3>3
    <2>4. \A d \in Calls \ {c} : Counted(d)' /\ (Explained(d) => Explained(d)')
      BY <1>0, <1>2, <2>1
    <2>5. QED
      BY <1>0, <1>1, <1>2, <2>1, <2>2, <2>3, <2>4
  <1>10. ASSUME DistinctEntries' /\ Slots <= Slots',
                UNCHANGED << attempt, record, causes, error >>,
                \A c \in Calls : pc'[c] \in Working => pc'[c] = pc[c]
         PROVE  ContentionInv'
    <2>1. \A c \in Calls : Counted(c)' /\ (Explained(c) => Explained(c)')
      BY <1>0, <1>10 DEF Working
    <2>2. QED
      BY <1>0, <1>1, <1>10, <2>1
  <1>11. ASSUME NEW c \in Calls, PutSucceeds(c) PROVE ContentionInv'
    <2>1. IsRecord(record[c]) /\ Anchored(record[c]) /\ ~InTable(record[c].payload)
      BY <1>11 DEF PutSucceeds, ChainInv, TypeOK, OnceInv, Calm
    <2>2. DistinctEntries' /\ Slots <= Slots'
      BY <1>0, <1>11, <2>1, PutGrows DEF PutSucceeds
    <2>3. \A d \in Calls : pc'[d] \in Working => pc'[d] = pc[d]
      BY <1>0, <1>11 DEF PutSucceeds, Working
    <2>4. QED
      BY <1>10, <1>11, <2>2, <2>3 DEF PutSucceeds
  <1>12. ASSUME NEW c \in Calls, Kill(c) PROVE ContentionInv'
    <2>1. \A d \in Calls : pc'[d] \in Working => pc'[d] = pc[d]
      BY <1>0, <1>12 DEF Kill, Working
    <2>2. DistinctEntries' /\ Slots <= Slots'
      BY <1>0, <1>2, <1>12 DEF Kill
    <2>3. QED
      BY <1>10, <1>12, <2>1, <2>2 DEF Kill
  <1>13. ASSUME Land PROVE ContentionInv'
    <2>1. PICK r \in wire : /\ PutIfVacant(r)
                            /\ UNCHANGED << pc, attempt, record, causes, error >>
      BY <1>13 DEF Land
    <2>2. IsRecord(r) /\ Anchored(r) /\ ~InTable(r.payload)
      BY DEF ChainInv, TypeOK, OnceInv, Calm
    <2>3. DistinctEntries' /\ Slots <= Slots'
      BY <1>0, <2>1, <2>2, PutGrows
    <2>4. QED
      BY <1>10, <2>1, <2>3
  <1>14. CASE UNCHANGED vars
    <2>1. DistinctEntries' /\ Slots <= Slots'
      BY <1>0, <1>2, <1>14 DEF vars
    <2>2. QED
      BY <1>10, <1>14, <2>1 DEF vars
  <1>15. QED
    BY <1>4, <1>5, <1>6, <1>7, <1>8, <1>9, <1>11, <1>12, <1>13, <1>14 DEF Next, Step

(* With no lost replies and time left, and with no more concurrent calls
   than MAX_WRITE_ATTEMPTS, a call that gives up with AuditWriteError was
   throttled: losing slots to other writers never makes a decision fail.   *)
THEOREM ContentionIsHarmless ==
    ASSUME IsFiniteSet(Calls)
    PROVE  Spec => []ContentionAloneNeverRefuses
  <1>1. Init => ContentionInv
    <2> SUFFICES ASSUME Init PROVE ContentionInv
      OBVIOUS
    <2>1. DOMAIN items = {}
      BY DEF Init
    <2>2. Slots = 0
      BY <2>1, FS_EmptySet DEF Slots
    <2>3. DistinctEntries
      BY <2>1 DEF DistinctEntries
    <2>4. QED
      BY <2>2, <2>3 DEF Init, ContentionInv, ContentionAloneNeverRefuses
  <1>2. ContentionInv => ContentionAloneNeverRefuses
    BY DEF ContentionInv, ContentionAloneNeverRefuses, Calm
  <1>3. ChainInv /\ ChainInv' /\ OnceInv /\ ContentionInv /\ [Next]_vars => ContentionInv'
    BY ContentionInvStep
  <1>4. Spec => []OnceInv
    BY OnceInvInit, OnceInvStep, ChainInvariant, PTL DEF Spec
  <1>5. QED
    BY <1>1, <1>2, <1>3, <1>4, ChainInvariant, PTL DEF Spec
=============================================================================
