--------------------------- MODULE PolicyService ---------------------------
(***************************************************************************)
(* Containers that serve the active policy from a cache                    *)
(* (guardrail_service/policy_provider.py) and carry out publications and   *)
(* activations (routers/policies.py) against the store of PolicyStore.     *)
(*                                                                         *)
(* A container has a loop, on which its asynchronous handlers run one at a *)
(* time, and may have a probe: /readyz is not asynchronous, so a server    *)
(* with threads runs it beside the loop, on the same cache.                *)
(***************************************************************************)
EXTENDS PolicyStore

CONSTANTS
    Containers,
    Loops, Probes,       \* threads
    Home(_),             \* the container of each thread
    Deployments,         \* the sets of threads that may run side by side
    MaxPublishAttempts,
    MaxUnheard,          \* no reply is lost once more than this has been stored
    Faults               \* of {"lost_reply", "restart"}

ASSUME BoundsAssumption == 
    MaxPublishAttempts \in Nat \ {0} /\ MaxUnheard \in Nat /\ NumRequests \in Nat
ASSUME FaultsAssumption == Faults \subseteq {"lost_reply", "restart"}
(* A container runs one server process, so it has one loop (Dockerfile:74). *)
ASSUME ThreadsAssumption ==
    /\ Loops \cap Probes = {}
    /\ \A t, u \in Loops : Home(t) = Home(u) => t = u
    /\ \A t \in Loops \cup Probes : Home(t) \in Containers
    /\ Deployments \subseteq SUBSET (Loops \cup Probes)

VARIABLES
    cache,    \* what each container serves, if anything yet
    thread,   \* what each thread is doing
    reply     \* what each request was told

vars == << versions, pointers, settled, up, cache, thread, reply >>

Threads == Loops \cup Probes
Versions == 0 .. Len(versions)

Nothing == [version |-> Packaged, degraded |-> FALSE, known |-> FALSE]
Serving(n, degraded) == [version |-> n, degraded |-> degraded, known |-> TRUE]

Idle == [step |-> "idle"]
Absent == [step |-> "absent"]

HasProbe(c) == \E t \in Probes : Home(t) = c /\ thread[t] # Absent

RefreshState == [step : {"fetch"}, cached : Versions, pointer : Versions]

AdminState ==
    [step : {"number", "put", "activate", "drop"}, request : Requests,
     version : Nat, attempt : 1 .. MaxPublishAttempts, publish : BOOLEAN,
     activate : BOOLEAN]

Register == INSTANCE PolicyRegister
    WITH published <- versions, activated <- pointers, answer <- reply,
         Unsure <- "lost_reply" \in Faults

Handles(t, r) ==
    IF "request" \in DOMAIN thread[t] THEN thread[t].request = r ELSE FALSE

(* No handler has taken the request up yet. *)
Unasked(r) ==
    reply[r] = Register!Unanswered /\ \A t \in Loops : ~Handles(t, r)

(* Requests are alike until they are taken up, so they come in order. *)
IsNext(r) == Unasked(r) /\ \A q \in 1 .. r - 1 : ~Unasked(q)

Init ==
    /\ StoreInit
    /\ cache = [c \in Containers |-> Nothing]
    /\ \E running \in Deployments :
          thread = [t \in Threads |-> IF t \in running THEN Idle ELSE Absent]
    /\ reply = [r \in Requests |-> Register!Unanswered]

-----------------------------------------------------------------------------
(* Serving: state(), called by every handler that needs the policy.  Within *)
(* the refresh interval the cache is served as it is, which changes nothing; *)
(* at any time, the interval may have passed.                              *)

(* Mutation: what was loaded once is never checked again. *)
StaleIfEmpty(c) == ~cache[c].known

Stale(c) == c \in Containers

(* What the refresh came to is cached, whatever the cache holds by now. *)
Install(t, served) ==
    /\ cache' = [cache EXCEPT ![Home(t)] = served]
    /\ thread' = [thread EXCEPT ![t] = Idle]
    /\ UNCHANGED << storeVars, reply >>

(* A version in the cache is served on without being fetched again. *)
Unchanged(cached, n) ==
    cached.known /\ ~cached.degraded /\ cached.version = n

(* A handler finds the cache stale and reads the pointer: _refresh as far as
   get_active.  No pointer means the packaged bundle.                     *)
LookUp(t) ==
    /\ thread[t] = Idle
    /\ Stale(Home(t))
    /\ up
    /\ \E n \in PointersSeen :
          IF n = Packaged \/ Unchanged(cache[Home(t)], n)
          THEN Install(t, Serving(n, FALSE))
          ELSE /\ thread' = [thread EXCEPT ![t] =
                     [step |-> "fetch", cached |-> cache[Home(t)].version, pointer |-> n]]
               /\ UNCHANGED << storeVars, cache, reply >>

Fetch(t) ==
    /\ thread[t].step = "fetch"
    /\ up
    /\ MayFind(thread[t].pointer)
    /\ Install(t, Serving(thread[t].pointer, FALSE))

(* Mutation: a failed refresh serves the packaged bundle. *)
FallBackToPackaged(version) == Serving(Packaged, TRUE)

(* _degrade: go on with what was cached, else with the packaged bundle,
   which is what an empty cache holds here.                               *)
FallBack(version) == Serving(version, TRUE)

LookUpFails(t) ==
    /\ thread[t] = Idle
    /\ Stale(Home(t))
    /\ ~up
    /\ Install(t, FallBack(cache[Home(t)].version))

FetchFails(t) ==
    /\ thread[t].step = "fetch"
    /\ ~up \/ MayMiss(thread[t].pointer)
    /\ Install(t, FallBack(thread[t].cached))

(* What /readyz reports of the policy. *)
Ready(c) == ~cache[c].degraded

-----------------------------------------------------------------------------
(* Administration, on the loop of a container.                             *)

Begin(t, r, step, n, publish, activate) ==
    thread' = [thread EXCEPT ![t] =
        [step |-> step, request |-> r, version |-> n, attempt |-> 1,
         publish |-> publish, activate |-> activate]]

GoTo(t, step, n, attempt) ==
    thread' = [thread EXCEPT ![t] =
        [step |-> step, request |-> thread[t].request, version |-> n,
         attempt |-> attempt, publish |-> thread[t].publish,
         activate |-> thread[t].activate]]

Answer(t, told, n) ==
    /\ Register!Tell(thread[t].request, told, n)
    /\ thread' = [thread EXCEPT ![t] = Idle]

(* A handler takes a request up.  A bundle that does not parse is refused. *)
Take(t, r) ==
    /\ thread[t] = Idle
    /\ IsNext(r)
    /\ \/ /\ \/ \E activate \in BOOLEAN : Begin(t, r, "number", 0, TRUE, activate)
             \/ \E n \in 1 .. LatestVersion + 1 : Begin(t, r, "activate", n, FALSE, TRUE)
          /\ UNCHANGED reply
       \/ Register!Tell(r, "refused", 0) /\ UNCHANGED thread
    /\ UNCHANGED << storeVars, cache >>

Number(t) ==
    /\ thread[t].step = "number"
    /\ up
    /\ GoTo(t, "put", LatestVersion + 1, thread[t].attempt)
    /\ UNCHANGED << storeVars, cache, reply >>

PutSucceeds(t) ==
    /\ thread[t].step = "put"
    /\ up
    /\ Vacant(thread[t].version)
    /\ PutVersion(thread[t].request)
    /\ IF thread[t].activate
       THEN /\ GoTo(t, "activate", thread[t].version, 1)
            /\ UNCHANGED reply
       ELSE Answer(t, "published", thread[t].version)
    /\ UNCHANGED cache

(* The bound of the model on lost replies. *)
MayGoUnheard ==
    "lost_reply" \in Faults /\ Len(versions') <= MaxUnheard /\ Len(pointers') <= MaxUnheard

(* The version is stored, the reply is lost, and the client library of the
   store sends the put again.                                             *)
PutUnheard(t) ==
    /\ thread[t].step = "put"
    /\ up
    /\ Vacant(thread[t].version)
    /\ PutVersion(thread[t].request)
    /\ MayGoUnheard
    /\ UNCHANGED << cache, thread, reply >>

(* Mutation: the last attempt is never made. *)
RetryOnceTooFew(t) ==
    IF thread[t].attempt + 1 < MaxPublishAttempts
    THEN /\ GoTo(t, "number", thread[t].version, thread[t].attempt + 1)
         /\ UNCHANGED reply
    ELSE Answer(t, "contended", 0)

(* Mutation: one attempt too many. *)
RetryOnceTooOften(t) ==
    IF thread[t].attempt <= MaxPublishAttempts
    THEN /\ GoTo(t, "number", thread[t].version, thread[t].attempt + 1)
         /\ UNCHANGED reply
    ELSE Answer(t, "contended", 0)

RetryOrGiveUp(t) ==
    IF thread[t].attempt < MaxPublishAttempts
    THEN /\ GoTo(t, "number", thread[t].version, thread[t].attempt + 1)
         /\ UNCHANGED reply
    ELSE Answer(t, "contended", 0)

PutConflicts(t) ==
    /\ thread[t].step = "put"
    /\ up
    /\ ~Vacant(thread[t].version)
    /\ RetryOrGiveUp(t)
    /\ UNCHANGED << storeVars, cache >>

(* activate: the version is looked up and, if it is found, the pointer moves.
   Versions are never deleted, so that one step is enough.                *)
PointerMoves(t) ==
    /\ thread[t].step = "activate"
    /\ up
    /\ MayFind(thread[t].version)
    /\ PutPointer(thread[t].version)
    /\ GoTo(t, "drop", thread[t].version, thread[t].attempt)
    /\ UNCHANGED << cache, reply >>

(* The pointer moves, the reply is lost, and the put will be sent again. *)
PointerMovesUnheard(t) ==
    /\ thread[t].step = "activate"
    /\ up
    /\ MayFind(thread[t].version)
    /\ PutPointer(thread[t].version)
    /\ MayGoUnheard
    /\ UNCHANGED << cache, thread, reply >>

(* A missing version is a 404 to an activation.  To a publication that was
   to activate it is an error, although the version has been published.   *)
VersionMissed(t) ==
    /\ thread[t].step = "activate"
    /\ up
    /\ MayMiss(thread[t].version)
    /\ Answer(t, IF thread[t].publish THEN "failed" ELSE "refused", 0)
    /\ UNCHANGED << storeVars, cache >>

(* invalidate, and the answer to the operator. *)
Drop(t) ==
    /\ thread[t].step = "drop"
    /\ cache' = [cache EXCEPT ![Home(t)] = Nothing]
    /\ Answer(t, "activated", thread[t].version)
    /\ UNCHANGED storeVars

RequestFails(t) ==
    /\ thread[t].step \in {"number", "put", "activate"}
    /\ ~up
    /\ Answer(t, "failed", 0)
    /\ UNCHANGED << storeVars, cache >>

(* A container is replaced by a cold one; its requests end unanswered. *)
Restart(c) ==
    /\ "restart" \in Faults
    /\ cache' = [cache EXCEPT ![c] = Nothing]
    /\ thread' = [t \in Threads |-> IF Home(t) = c /\ thread[t] # Absent THEN Idle ELSE thread[t]]
    /\ reply' = [r \in Requests |->
          IF \E t \in Loops : Home(t) = c /\ Handles(t, r)
          THEN [told |-> "failed", number |-> 0] ELSE reply[r]]
    /\ UNCHANGED storeVars

-----------------------------------------------------------------------------
Refresh(t) == LookUp(t) \/ LookUpFails(t) \/ Fetch(t) \/ FetchFails(t)

Administer(t) ==
    \/ \E r \in Requests : Take(t, r)
    \/ Number(t) \/ PutSucceeds(t) \/ PutUnheard(t) \/ PutConflicts(t)
    \/ PointerMoves(t) \/ PointerMovesUnheard(t) \/ VersionMissed(t)
    \/ Drop(t) \/ RequestFails(t)

Next ==
    \/ \E t \in Threads : Refresh(t)
    \/ \E t \in Loops : Administer(t)
    \/ \E c \in Containers : Restart(c)
    \/ (CatchUp \/ Outage) /\ UNCHANGED << cache, thread, reply >>

Spec == Init /\ [][Next]_vars

(* Requests keep coming to every container, its refresh intervals end, threads
   that run go on, and the replicas catch up.  Nothing is assumed of operators,
   restarts and outages.                                                      *)
FairSpec ==
    /\ Spec
    /\ \A t \in Threads : WF_vars(Refresh(t))
    /\ \A t \in Loops : WF_vars(thread[t] # Idle /\ Administer(t))
    /\ WF_vars(CatchUp /\ UNCHANGED << cache, thread, reply >>)

-----------------------------------------------------------------------------
(* The types of all the variables of the service. *)
TypeOK ==
    /\ StoreTypeOK
    /\ cache \in [Containers -> [version : Versions, degraded : BOOLEAN,
                                 known : BOOLEAN]]
    /\ \A t \in Threads : thread[t] \in {Idle, Absent} \cup RefreshState \cup AdminState
    /\ reply \in [Requests -> Register!Answers]

(* publish and activate keep the register's promise: no number is given    *)
(* twice, only a stored version is put in force, and the operator is told  *)
(* the truth (DynamoDBPolicyRepository.publish, activate, their routes).   *)
ImplementsRegister == Register!RegisterSpec

(* A bundle that is merely published judges nobody: whatever a container   *)
(* serves, through lagging replicas, refreshes that overtake each other,   *)
(* invalidations and outages, was once activated, or came with the build.  *)
ServesOnlyActivated ==
    \A c \in Containers :
       cache[c].version = Packaged
       \/ \E i \in DOMAIN pointers : pointers[i] = cache[c].version

(* An outage weakens nothing: a container goes on judging by the bundle it *)
(* judged by, and falls back to the packaged one only from an empty cache.  *)
(* With a probe beside the loop no more than ServesOnlyActivated is         *)
(* promised: a refresh that began earlier and fails may put an older bundle *)
(* back (state and _degrade, policy_provider.py).                          *)
KeepsVersion(c) ==
    cache'[c].degraded => cache'[c].version = cache[c].version

OutageKeepsPolicy ==
    [][\A c \in Containers : ~HasProbe(c) => KeepsVersion(c)]_vars

(* A publication reported as lost to contention met a new version at each  *)
(* of its attempts, so the store has moved on that often.                  *)
ContentionNeedsRivals ==
    \A r \in Requests :
       reply[r].told = "contended" => Len(versions) >= MaxPublishAttempts

(* Once outages cease, and activations, of which there are finitely many, a *)
(* container that serves a policy serves the active one, as a confirmed     *)
(* answer: the timer is the reload mechanism, invalidate only hastens it.   *)
Converged(c) == cache[c].known => cache[c].version = Active /\ Ready(c)

ContainersConverge == \A c \in Containers : <>[]up => <>[]Converged(c)
=============================================================================
