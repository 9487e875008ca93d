---------------------------- MODULE PolicyStore ----------------------------
(***************************************************************************)
(* The DynamoDB table behind DynamoDBPolicyRepository (guardrail_service/  *)
(* storage/policies.py): immutable numbered versions and one pointer to    *)
(* the version in force.  The latest number is read consistently.  Single  *)
(* versions and the pointer are read with eventual consistency, from a     *)
(* replica that may lag: settled says how much of each history every       *)
(* replica is known to have.                                               *)
(*                                                                         *)
(* Nothing is deleted and a version is put once, so the versions are a     *)
(* sequence, and the pointer is the last of the activations so far.        *)
(***************************************************************************)
EXTENDS Naturals, Sequences

CONSTANTS
    NumRequests,  \* publications and activations of administrators
    Lagging       \* whether a replica may be behind for a while

ASSUME LaggingAssumption == Lagging \in BOOLEAN

VARIABLES
    versions,  \* the request that published each version
    pointers,  \* every activation, the one in force last
    settled,   \* how many of each every replica has
    up         \* whether the store answers at all

storeVars == << versions, pointers, settled, up >>

Requests == 1 .. NumRequests

(* Version 0 stands for the bundle packaged with the build. *)
Packaged == 0

Settled(v, p) == [versions |-> v, pointers |-> p]

StoreTypeOK ==
    /\ versions \in Seq(Requests)
    /\ pointers \in Seq(Nat)
    /\ settled \in [versions : 0 .. Len(versions), pointers : 0 .. Len(pointers)]
    /\ up \in BOOLEAN

StoreInit ==
    /\ versions = << >>
    /\ pointers = << >>
    /\ settled = Settled(0, 0)
    /\ up \in BOOLEAN

(* _latest_version, a consistent query. *)
LatestVersion == Len(versions)

PointerAfter(i) == IF i = 0 THEN Packaged ELSE pointers[i]

Active == PointerAfter(Len(pointers))

(* Mutation: what was published last is in force. *)
NewestSeen == {LatestVersion}

(* get_active: the pointer as some replica has it, or none at all. *)
PointersSeen == {PointerAfter(i) : i \in settled.pointers .. Len(pointers)}

(* Mutation: activation does not look the version up. *)
MayFindAnything(n) == n > 0

(* get_version finds what was stored, and may miss what is not settled. *)
MayFind(n) == n \in DOMAIN versions
MayMiss(n) == n \notin 1 .. settled.versions

(* attribute_not_exists of the put of a version. *)
Vacant(n) == n \notin DOMAIN versions

Replicate ==
    settled' = IF Lagging THEN settled ELSE Settled(Len(versions'), Len(pointers'))

PutVersion(r) ==
    /\ versions' = Append(versions, r)
    /\ UNCHANGED << pointers, up >>
    /\ Replicate

PutPointer(n) ==
    /\ pointers' = Append(pointers, n)
    /\ UNCHANGED << versions, up >>
    /\ Replicate

(* The replicas catch up. *)
CatchUp ==
    /\ settled # Settled(Len(versions), Len(pointers))
    /\ settled' = Settled(Len(versions), Len(pointers))
    /\ UNCHANGED << versions, pointers, up >>

Outage ==
    /\ up' = ~up
    /\ UNCHANGED << versions, pointers, settled >>
=============================================================================
