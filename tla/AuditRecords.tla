---------------------------- MODULE AuditRecords ----------------------------
(***************************************************************************)
(* The records of the tamper-evident audit log and the pure function that  *)
(* verifies a run of them (guardrail_service/storage/audit.py).            *)
(*                                                                         *)
(* A payload (everything a decision records: who, what, which rules, which *)
(* policy version) is a value the properties only compare.  The digest of  *)
(* a record is the pair of what goes into it, which gives Hash the one     *)
(* property the log relies on: different inputs, different digests.        *)
(***************************************************************************)
EXTENDS Integers, Sequences

(* The predecessor digest of the first record of a chain. *)
GENESIS_HASH == << >>

(* sha256 over the predecessor's digest and the canonical payload.  The    *)
(* sequence number is not part of what is hashed.                          *)
ComputeHash(prevHash, payload) == << prevHash, payload >>

(* AuditRecord.build: the caller's factory, run once the repository knows  *)
(* the slot and the predecessor.                                           *)
BuildRecord(seq, prevHash, payload) ==
    [seq       |-> seq,
     payload   |-> payload,
     prev_hash |-> prevHash,
     hash      |-> ComputeHash(prevHash, payload)]

-----------------------------------------------------------------------------
(***************************************************************************)
(* verify_records, on a sequence of records oldest first.  The code walks  *)
(* the run and returns at the first record that fails a test; the tests    *)
(* are tried in the order gap, link, content.                              *)
(***************************************************************************)

SequenceGap(records, i) ==
    i > 1 /\ records[i].seq # records[i - 1].seq + 1

(* A run that starts at record 1 must start from the genesis digest; a run *)
(* that starts later takes its first predecessor on trust.                 *)
ExpectedPrev(records, i) ==
    IF i > 1 THEN records[i - 1].hash
    ELSE IF records[1].seq = 1 THEN GENESIS_HASH ELSE records[1].prev_hash

BrokenLink(records, i) ==
    records[i].prev_hash # ExpectedPrev(records, i)

ContentMismatch(records, i) ==
    records[i].hash # ComputeHash(records[i].prev_hash, records[i].payload)

Faulty(records, i) ==
    \/ SequenceGap(records, i)
    \/ BrokenLink(records, i)
    \/ ContentMismatch(records, i)

VerifyRecords(records) ==
    LET faulty == {i \in DOMAIN records : Faulty(records, i)}
        first  == CHOOSE i \in faulty : \A j \in faulty : i <= j
    IN  IF faulty = {}
        THEN [chain_valid |-> TRUE, broken_at_seq |-> 0, reason |-> "none"]
        ELSE [chain_valid   |-> FALSE,
              broken_at_seq |-> records[first].seq,
              reason        |-> IF SequenceGap(records, first) THEN "gap"
                                ELSE IF BrokenLink(records, first) THEN "link"
                                ELSE "content"]
=============================================================================
