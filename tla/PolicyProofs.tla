---------------------------- MODULE PolicyProofs ----------------------------
(***************************************************************************)
(* Proofs about PolicyService for every set of containers, threads and     *)
(* deployments, every number of requests and attempts, replicas that lag   *)
(* or not, and every combination of faults.                                *)
(***************************************************************************)
EXTENDS PolicyService, SequenceTheorems, TLAPS

-----------------------------------------------------------------------------
(***************************************************************************)
(* The inductive invariant has three parts.                                *)
(*                                                                         *)
(* What can be served: a version that is cached, or on its way into a      *)
(* cache, was put in force once.  A refresh that was overtaken may install *)
(* an old version or fall back on one, so it is said of every version a    *)
(* thread holds.                                                           *)
(***************************************************************************)
PutInForce(n) == \E i \in DOMAIN pointers : pointers[i] = n

Served(n) == n = Packaged \/ PutInForce(n)

OnlyStoredInForce == \A i \in DOMAIN pointers : pointers[i] \in DOMAIN versions

Fetching(t) == thread[t].step = "fetch"

OnlyServedHeld ==
    /\ \A c \in Containers : Served(cache[c].version)
    /\ \A t \in Threads :
          Fetching(t) => Served(thread[t].cached) /\ Served(thread[t].pointer)

(***************************************************************************)
(* Whose fallback it is: without a probe, a container has one thread, so   *)
(* nothing changes the cache between a look-up and its failure.            *)
(***************************************************************************)
FallbackIsCurrent ==
    \A t \in Threads :
        Fetching(t) /\ ~HasProbe(Home(t)) => thread[t].cached = cache[Home(t)].version

(***************************************************************************)
(* What a handler knows: its request has no other handler and no answer    *)
(* yet, its number is vacant or was taken by a rival, and each attempt it  *)
(* has lost was lost to a further version.                                 *)
(***************************************************************************)
Administering(t) == thread[t] \in AdminState

HandlerKnows(t) ==
    /\ reply[thread[t].request].told = "none"
    /\ thread[t].step \in {"number", "put"} => thread[t].publish
    /\ thread[t].step = "number" => thread[t].attempt <= Len(versions) + 1
    /\ thread[t].step = "put" => thread[t].version \in thread[t].attempt .. Len(versions) + 1
    /\ thread[t].step = "drop" => PutInForce(thread[t].version)
    /\ ~thread[t].publish => ~Register!Published(thread[t].request)
    /\ thread[t].step \in {"number", "put"} /\ "lost_reply" \notin Faults
          => ~Register!Published(thread[t].request)

OnlyLoopsAdminister == \A t \in Threads : Administering(t) => t \in Loops

OneHandler ==
    \A t, u \in Loops :
        /\ Administering(t) /\ Administering(u)
        /\ thread[t].request = thread[u].request
        => t = u

PublishedIsTaken ==
    \A r \in Requests :
        Register!Published(r) /\ reply[r].told = "none" =>
            \E t \in Loops : Administering(t) /\ thread[t].request = r

PolicyInv ==
    /\ TypeOK
    /\ DOMAIN thread = Threads
    /\ OnlyStoredInForce
    /\ OnlyServedHeld
    /\ FallbackIsCurrent
    /\ OnlyLoopsAdminister
    /\ \A t \in Loops : Administering(t) => HandlerKnows(t)
    /\ OneHandler
    /\ PublishedIsTaken
    /\ ContentionNeedsRivals

-----------------------------------------------------------------------------
(* What a thread can be doing, and what each of its states carries. *)
LEMMA ThreadStates ==
    ASSUME TypeOK, NEW t \in Threads
    PROVE  \/ thread[t] = Idle \/ thread[t] = Absent
           \/ thread[t] \in RefreshState \/ thread[t] \in AdminState
  BY DEF TypeOK

(* A thread that fetches a version knows which, and is neither idle nor at *)
(* work for an administrator.                                              *)
LEMMA FetchState ==
    ASSUME TypeOK, NEW t \in Threads, Fetching(t)
    PROVE  /\ thread[t] \in RefreshState
           /\ thread[t] # Idle /\ thread[t] # Absent
           /\ ~Administering(t)
           /\ thread[t].cached \in Versions /\ thread[t].pointer \in Versions
  <1>1. thread[t] \in RefreshState
    BY DEF TypeOK, Fetching, Idle, Absent, AdminState
  <1>2. QED
    BY <1>1 DEF Fetching, Administering, RefreshState, AdminState, Idle, Absent

(* A handler at work for an administrator knows its request, its version *)
(* and its attempt.                                                      *)
LEMMA AdminStateFacts ==
    ASSUME TypeOK, NEW t \in Threads
    PROVE  /\ Administering(t) <=> thread[t].step \in {"number", "put", "activate", "drop"}
           /\ Administering(t) =>
                 /\ thread[t] # Idle /\ thread[t] # Absent /\ ~Fetching(t)
                 /\ thread[t].request \in Requests
                 /\ thread[t].version \in Nat
                 /\ thread[t].attempt \in 1 .. MaxPublishAttempts
                 /\ thread[t].publish \in BOOLEAN
                 /\ thread[t].activate \in BOOLEAN
  <1>1. Administering(t) => thread[t].step \in {"number", "put", "activate", "drop"}
    BY DEF Administering, AdminState
  <1>2. thread[t].step \in {"number", "put", "activate", "drop"} => Administering(t)
    BY DEF TypeOK, Idle, Absent, RefreshState, Administering
  <1>3. ASSUME Administering(t)
        PROVE  /\ thread[t] # Idle /\ thread[t] # Absent /\ ~Fetching(t)
               /\ thread[t].request \in Requests
               /\ thread[t].version \in Nat
               /\ thread[t].attempt \in 1 .. MaxPublishAttempts
               /\ thread[t].publish \in BOOLEAN
               /\ thread[t].activate \in BOOLEAN
    BY <1>3 DEF Administering, AdminState, Fetching, Idle, Absent
  <1>4. QED
    BY <1>1, <1>2, <1>3

(* A thread handles a request just when it administers that one. *)
LEMMA HandlesIs ==
    ASSUME TypeOK, NEW t \in Threads, NEW r
    PROVE  Handles(t, r) <=> Administering(t) /\ thread[t].request = r
  <1>1. CASE thread[t] = Idle
    <2>1. ~Administering(t)
      BY <1>1, AdminStateFacts
    <2>2. "request" \notin DOMAIN thread[t]
      BY <1>1 DEF Idle
    <2>3. QED
      BY <2>1, <2>2 DEF Handles
  <1>2. CASE thread[t] = Absent
    <2>1. ~Administering(t)
      BY <1>2, AdminStateFacts
    <2>2. "request" \notin DOMAIN thread[t]
      BY <1>2 DEF Absent
    <2>3. QED
      BY <2>1, <2>2 DEF Handles
  <1>3. CASE thread[t] \in RefreshState
    <2>1. ~Administering(t)
      BY <1>3, FetchState DEF Fetching, RefreshState
    <2>2. "request" \notin DOMAIN thread[t]
      BY <1>3 DEF RefreshState
    <2>3. QED
      BY <2>1, <2>2 DEF Handles
  <1>4. CASE thread[t] \in AdminState
    <2>1. Administering(t)
      BY <1>4 DEF Administering
    <2>2. "request" \in DOMAIN thread[t]
      BY <1>4 DEF AdminState
    <2>3. QED
      BY <2>1, <2>2 DEF Handles
  <1>5. QED
    BY <1>1, <1>2, <1>3, <1>4, ThreadStates

(* Of the threads that run in a container without a probe there is one. *)
LEMMA NoProbeNoRival ==
    ASSUME NEW t \in Threads, NEW u \in Threads, Home(t) = Home(u),
           thread[t] # Absent, thread[u] # Absent, ~HasProbe(Home(u))
    PROVE  t = u
  BY ThreadsAssumption DEF Threads, HasProbe

(* Which containers have a probe is settled at the start. *)
LEMMA ProbesStay ==
    ASSUME \A t \in Threads : thread'[t] = Absent <=> thread[t] = Absent
    PROVE  \A c : HasProbe(c)' <=> HasProbe(c)
  BY DEF HasProbe, Threads

(* Every thread runs in a container. *)
LEMMA HomeIsContainer == \A t \in Threads : Home(t) \in Containers
  BY ThreadsAssumption DEF Threads

(* A version is put: the versions grow by one. *)
LEMMA VersionPut ==
    ASSUME TypeOK, NEW r \in Requests, PutVersion(r)
    PROVE  /\ StoreTypeOK'
           /\ pointers' = pointers
           /\ versions' = Append(versions, r)
           /\ Len(versions) \in Nat /\ Len(versions') = Len(versions) + 1
           /\ DOMAIN versions = 1 .. Len(versions)
           /\ DOMAIN versions' = 1 .. Len(versions) + 1
           /\ \A q : Register!Published(q)' <=> Register!Published(q) \/ q = r
           /\ \A n : PutInForce(n)' <=> PutInForce(n)
           /\ \A n \in Versions : n \in Versions'
  <1>1. versions \in Seq(Requests) /\ pointers \in Seq(Nat)
    BY DEF TypeOK, StoreTypeOK
  <1>2. pointers' = pointers /\ versions' = Append(versions, r) /\ up' = up
    BY DEF PutVersion
  <1>3. /\ versions' \in Seq(Requests)
        /\ Len(versions') = Len(versions) + 1
        /\ \A i \in 1 .. Len(versions) : versions'[i] = versions[i]
        /\ versions'[Len(versions) + 1] = r
    BY <1>1, <1>2, AppendProperties
  <1>4. /\ Len(versions) \in Nat /\ Len(pointers) \in Nat
        /\ DOMAIN versions = 1 .. Len(versions)
        /\ DOMAIN versions' = 1 .. Len(versions) + 1
    BY <1>1, <1>3, LenProperties
  <1>5. settled' \in [versions : 0 .. Len(versions'), pointers : 0 .. Len(pointers')]
    <2>1. settled.versions \in 0 .. Len(versions) /\ settled.pointers \in 0 .. Len(pointers)
      BY DEF TypeOK, StoreTypeOK
    <2>2. CASE settled' = settled
      <3>1. settled.versions \in 0 .. Len(versions')
        BY <1>3, <1>4, <2>1
      <3>2. QED
        BY <1>2, <2>1, <2>2, <3>1 DEF TypeOK, StoreTypeOK
    <2>3. CASE settled' = Settled(Len(versions'), Len(pointers'))
      <3>1. Len(versions') \in 0 .. Len(versions') /\ Len(pointers') \in 0 .. Len(pointers')
        BY <1>2, <1>3, <1>4
      <3>2. QED
        BY <2>3, <3>1 DEF Settled
    <2>4. QED
      BY <2>2, <2>3 DEF PutVersion, Replicate
  <1>6. StoreTypeOK'
    BY <1>1, <1>2, <1>3, <1>5 DEF TypeOK, StoreTypeOK
  <1>7. \A q : Register!Published(q)' <=> Register!Published(q) \/ q = r
    BY <1>3, <1>4 DEF Register!Published
  <1>8. \A n : PutInForce(n)' <=> PutInForce(n)
    BY <1>2 DEF PutInForce
  <1>9. \A n \in Versions : n \in Versions'
    BY <1>3, <1>4 DEF Versions
  <1>10. QED
    BY <1>2, <1>3, <1>4, <1>6, <1>7, <1>8, <1>9

(* The pointer moves: the activations grow by one. *)
LEMMA PointerPut ==
    ASSUME TypeOK, NEW n \in Nat, PutPointer(n)
    PROVE  /\ StoreTypeOK'
           /\ versions' = versions
           /\ pointers' = Append(pointers, n)
           /\ \A m : PutInForce(m)' <=> PutInForce(m) \/ m = n
  <1>1. versions \in Seq(Requests) /\ pointers \in Seq(Nat)
    BY DEF TypeOK, StoreTypeOK
  <1>2. versions' = versions /\ pointers' = Append(pointers, n) /\ up' = up
    BY DEF PutPointer
  <1>3. /\ pointers' \in Seq(Nat)
        /\ Len(pointers') = Len(pointers) + 1
        /\ \A i \in 1 .. Len(pointers) : pointers'[i] = pointers[i]
        /\ pointers'[Len(pointers) + 1] = n
    BY <1>1, <1>2, AppendProperties
  <1>4. /\ Len(versions) \in Nat /\ Len(pointers) \in Nat
        /\ DOMAIN pointers = 1 .. Len(pointers)
        /\ DOMAIN pointers' = 1 .. Len(pointers) + 1
    BY <1>1, <1>3, LenProperties
  <1>5. settled' \in [versions : 0 .. Len(versions'), pointers : 0 .. Len(pointers')]
    <2>1. settled.versions \in 0 .. Len(versions) /\ settled.pointers \in 0 .. Len(pointers)
      BY DEF TypeOK, StoreTypeOK
    <2>2. CASE settled' = settled
      <3>1. settled.pointers \in 0 .. Len(pointers')
        BY <1>3, <1>4, <2>1
      <3>2. QED
        BY <1>2, <2>1, <2>2, <3>1 DEF TypeOK, StoreTypeOK
    <2>3. CASE settled' = Settled(Len(versions'), Len(pointers'))
      <3>1. Len(versions') \in 0 .. Len(versions') /\ Len(pointers') \in 0 .. Len(pointers')
        BY <1>2, <1>3, <1>4
      <3>2. QED
        BY <2>3, <3>1 DEF Settled
    <2>4. QED
      BY <2>2, <2>3 DEF PutPointer, Replicate
  <1>6. StoreTypeOK'
    BY <1>1, <1>2, <1>3, <1>5 DEF TypeOK, StoreTypeOK
  <1>7. \A m : PutInForce(m)' <=> PutInForce(m) \/ m = n
    BY <1>3, <1>4 DEF PutInForce
  <1>8. QED
    BY <1>2, <1>6, <1>7

(* What is in force is stored. *)
LEMMA ServedIsVersion ==
    ASSUME TypeOK, OnlyStoredInForce
    PROVE  /\ \A n : PutInForce(n) => n \in DOMAIN versions
           /\ \A n : Served(n) => n \in Versions
           /\ DOMAIN versions = 1 .. Len(versions) /\ Len(versions) \in Nat
  <1>1. DOMAIN versions = 1 .. Len(versions) /\ Len(versions) \in Nat
    BY LenProperties DEF TypeOK, StoreTypeOK
  <1>2. \A n : PutInForce(n) => n \in DOMAIN versions
    BY DEF OnlyStoredInForce, PutInForce
  <1>3. \A n : Served(n) => n \in Versions
    BY <1>1, <1>2 DEF Served, Packaged, Versions
  <1>4. QED
    BY <1>1, <1>2, <1>3

(* A replica has a pointer that was in force, or none. *)
LEMMA PointerSeenIsServed ==
    ASSUME TypeOK, NEW n \in PointersSeen
    PROVE  Served(n)
  <1>1. PICK i \in settled.pointers .. Len(pointers) : n = PointerAfter(i)
    BY DEF PointersSeen
  <1>2. i \in 0 .. Len(pointers)
    <2>1. settled.pointers \in 0 .. Len(pointers) /\ Len(pointers) \in Nat
      BY LenProperties DEF TypeOK, StoreTypeOK
    <2>2. QED
      BY <1>1, <2>1
  <1>3. DOMAIN pointers = 1 .. Len(pointers)
    BY LenProperties DEF TypeOK, StoreTypeOK
  <1>4. CASE i = 0
    BY <1>1, <1>4 DEF PointerAfter, Served
  <1>5. CASE i # 0
    BY <1>1, <1>2, <1>3, <1>5 DEF PointerAfter, Served, PutInForce
  <1>6. QED
    BY <1>4, <1>5

(***************************************************************************)
(* The steps of a refresh.  Whatever is installed was served before or was *)
(* put in force; requests and the store are left alone.                    *)
(***************************************************************************)
LEMMA RefreshDoes ==
    ASSUME PolicyInv, NEW t \in Threads, Refresh(t)
    PROVE  /\ UNCHANGED << versions, pointers, settled, up, reply >>
           /\ thread[t] = Idle \/ Fetching(t)
           /\ \/ /\ thread' = [thread EXCEPT ![t] = Idle]
                 /\ \E n \in Versions, degraded \in BOOLEAN :
                       /\ Served(n)
                       /\ cache' = [cache EXCEPT ![Home(t)] = Serving(n, degraded)]
              \/ /\ UNCHANGED cache
                 /\ \E n \in Versions :
                       /\ Served(n)
                       /\ thread' = [thread EXCEPT ![t] =
                              [step |-> "fetch", cached |-> cache[Home(t)].version, pointer |-> n]]
  <1>1. TypeOK /\ OnlyStoredInForce /\ Home(t) \in Containers
    BY HomeIsContainer DEF PolicyInv
  <1>2. cache[Home(t)].version \in Versions /\ Served(cache[Home(t)].version)
    BY <1>1 DEF PolicyInv, OnlyServedHeld, TypeOK
  <1>3. \A n : Served(n) => n \in Versions
    BY <1>1, ServedIsVersion
  <1>4. CASE LookUp(t)
    <2>1. PICK n \in PointersSeen :
              IF n = Packaged \/ Unchanged(cache[Home(t)], n)
              THEN Install(t, Serving(n, FALSE))
              ELSE /\ thread' = [thread EXCEPT ![t] =
                         [step |-> "fetch", cached |-> cache[Home(t)].version, pointer |-> n]]
                   /\ UNCHANGED << storeVars, cache, reply >>
      BY <1>4 DEF LookUp
    <2>2. Served(n) /\ n \in Versions
      BY <1>1, <1>3, PointerSeenIsServed
    <2>3. thread[t] = Idle
      BY <1>4 DEF LookUp
    <2>4. CASE Install(t, Serving(n, FALSE))
      BY <2>2, <2>3, <2>4 DEF Install, storeVars
    <2>5. CASE ~Install(t, Serving(n, FALSE))
      BY <2>1, <2>2, <2>3, <2>5 DEF storeVars
    <2>6. QED
      BY <2>4, <2>5
  <1>5. CASE LookUpFails(t)
    BY <1>2, <1>5 DEF LookUpFails, Install, FallBack, storeVars
  <1>6. CASE Fetch(t) \/ FetchFails(t)
    <2>1. Fetching(t)
      BY <1>6 DEF Fetch, FetchFails, Fetching
    <2>2. Served(thread[t].cached) /\ Served(thread[t].pointer)
      BY <2>1 DEF PolicyInv, OnlyServedHeld
    <2>3. QED
      BY <1>3, <1>6, <2>1, <2>2 DEF Fetch, FetchFails, Install, FallBack, storeVars
  <1>7. QED
    BY <1>4, <1>5, <1>6 DEF Refresh

(* A refresh, whatever it reads and whether or not it fails, keeps the *)
(* invariant.                                                          *)
LEMMA RefreshKeepsInv ==
    ASSUME PolicyInv, NEW t \in Threads, Refresh(t)
    PROVE  PolicyInv'
  <1>1. TypeOK /\ OnlyStoredInForce /\ DOMAIN thread = Threads
    BY DEF PolicyInv
  <1>2. /\ UNCHANGED << versions, pointers, settled, up, reply >>
        /\ thread[t] = Idle \/ Fetching(t)
    BY RefreshDoes
  <1>3. /\ DOMAIN thread' = Threads
        /\ \A u \in Threads : u # t => thread'[u] = thread[u]
        /\ \/ thread'[t] = Idle
           \/ /\ UNCHANGED cache
              /\ \E n \in Versions :
                    /\ Served(n)
                    /\ thread'[t] = [step |-> "fetch", cached |-> cache[Home(t)].version,
                                     pointer |-> n]
    BY <1>1, RefreshDoes
  <1>4. /\ ~Administering(t) /\ ~Administering(t)'
        /\ thread[t] # Absent /\ thread'[t] # Absent
    BY <1>1, <1>2, <1>3, FetchState DEF Administering, AdminState, Idle, Absent
  <1>5. /\ \A n : PutInForce(n)' <=> PutInForce(n)
        /\ \A n : Served(n)' <=> Served(n)
        /\ \A r : Register!Published(r)' <=> Register!Published(r)
        /\ Versions' = Versions
    BY <1>2 DEF PutInForce, Served, Register!Published, Versions
  <1>6. \A u \in Threads : Administering(u)' => Administering(u) /\ thread'[u] = thread[u]
    BY <1>3, <1>4 DEF Administering, AdminState, Requests
  <1>7. \A u \in Threads : Administering(u) => Administering(u)' /\ thread'[u] = thread[u]
    BY <1>3, <1>4 DEF Administering, AdminState, Requests
  <1>8. \/ cache' = cache
        \/ \E n \in Versions, degraded \in BOOLEAN :
              Served(n) /\ cache' = [cache EXCEPT ![Home(t)] = Serving(n, degraded)]
    BY RefreshDoes
  <1>9. /\ cache' \in [Containers -> [version : Versions, degraded : BOOLEAN, known : BOOLEAN]]
        /\ \A c \in Containers : Served(cache'[c].version)
        /\ \A c \in Containers : c # Home(t) => cache'[c] = cache[c]
    <2> DEFINE Entry == [version : Versions, degraded : BOOLEAN, known : BOOLEAN]
    <2>1. cache \in [Containers -> Entry] /\ \A c \in Containers : Served(cache[c].version)
      BY <1>1 DEF TypeOK, PolicyInv, OnlyServedHeld
    <2>2. ASSUME NEW n \in Versions, NEW degraded \in BOOLEAN
          PROVE  Serving(n, degraded) \in Entry /\ Serving(n, degraded).version = n
      BY DEF Serving
    <2> HIDE DEF Entry
    <2>3. CASE cache' = cache
      BY <2>1, <2>3 DEF Entry
    <2>4. ASSUME NEW n \in Versions, NEW degraded \in BOOLEAN, Served(n),
                 cache' = [cache EXCEPT ![Home(t)] = Serving(n, degraded)]
          PROVE  /\ cache' \in [Containers -> Entry]
                 /\ \A c \in Containers : Served(cache'[c].version)
                 /\ \A c \in Containers : c # Home(t) => cache'[c] = cache[c]
      BY <2>1, <2>2, <2>4
    <2>5. QED
      BY <1>8, <2>1, <2>3, <2>4 DEF Entry
  <1>10. TypeOK'
    <2>1. \A u \in Threads : thread'[u] \in {Idle, Absent} \cup RefreshState' \cup AdminState'
      <3>1. RefreshState' = RefreshState /\ AdminState' = AdminState
        BY <1>5 DEF RefreshState, AdminState
      <3>2. cache[Home(t)].version \in Versions
        BY <1>1, HomeIsContainer DEF TypeOK
      <3>3. thread'[t] \in {Idle, Absent} \cup RefreshState \cup AdminState
        BY <1>3, <3>2 DEF RefreshState
      <3>4. QED
        BY <1>1, <1>3, <3>1, <3>3 DEF TypeOK
    <2>2. StoreTypeOK' /\ reply' \in [Requests -> Register!Answers]
      BY <1>1, <1>2 DEF TypeOK, StoreTypeOK
    <2>3. QED
      BY <1>5, <1>9, <2>1, <2>2 DEF TypeOK
  <1>11. OnlyStoredInForce'
    BY <1>1, <1>2 DEF OnlyStoredInForce
  <1>12. OnlyServedHeld'
    <2>1. \A u \in Threads : Fetching(u)' => Served(thread'[u].cached) /\ Served(thread'[u].pointer)
      <3>1. Served(cache[Home(t)].version)
        BY HomeIsContainer DEF PolicyInv, OnlyServedHeld
      <3>2. Fetching(t)' => Served(thread'[t].cached) /\ Served(thread'[t].pointer)
        BY <1>3, <3>1 DEF Fetching, Idle
      <3>3. \A u \in Threads : u # t => (Fetching(u)' <=> Fetching(u)) /\ thread'[u] = thread[u]
        BY <1>3 DEF Fetching
      <3>4. QED
        BY <3>2, <3>3 DEF PolicyInv, OnlyServedHeld
    <2>2. QED
      BY <1>5, <1>9, <2>1 DEF OnlyServedHeld
  <1>13. FallbackIsCurrent'
    <2>1. \A c : HasProbe(c)' <=> HasProbe(c)
      BY <1>3, <1>4, ProbesStay
    <2>2. ASSUME NEW u \in Threads, Fetching(u)', ~HasProbe(Home(u))
          PROVE  thread'[u].cached = cache'[Home(u)].version
      <3>1. CASE u = t
        <4>1. cache' = cache /\ thread'[t].cached = cache[Home(t)].version
          BY <1>3, <2>2, <3>1 DEF Fetching, Idle
        <4>2. QED
          BY <3>1, <4>1
      <3>2. CASE u # t
        <4>1. thread'[u] = thread[u] /\ Fetching(u)
          BY <1>3, <2>2, <3>2 DEF Fetching
        <4>2. thread[u] # Absent /\ thread[u].cached = cache[Home(u)].version
          BY <1>1, <2>2, <4>1, FetchState DEF PolicyInv, FallbackIsCurrent
        <4>3. Home(u) # Home(t)
          BY <1>4, <2>2, <3>2, <4>2, NoProbeNoRival
        <4>4. QED
          BY <1>9, <4>1, <4>2, <4>3, HomeIsContainer
      <3>3. QED
        BY <3>1, <3>2
    <2>3. QED
      BY <2>1, <2>2 DEF FallbackIsCurrent
  <1>14. OnlyLoopsAdminister'
    BY <1>6 DEF PolicyInv, OnlyLoopsAdminister
  <1>15. \A u \in Loops : Administering(u)' => HandlerKnows(u)'
    <2>1. ASSUME NEW u \in Loops, Administering(u)'
          PROVE  HandlerKnows(u)'
      <3>1. Administering(u) /\ thread'[u] = thread[u] /\ HandlerKnows(u)
        BY <1>6, <2>1 DEF PolicyInv, Threads
      <3>2. QED
        BY <1>2, <1>5, <3>1 DEF HandlerKnows
    <2>2. QED
      BY <2>1
  <1>16. OneHandler'
    BY <1>6 DEF PolicyInv, OneHandler, Threads
  <1>17. PublishedIsTaken'
    BY <1>2, <1>5, <1>7 DEF PolicyInv, PublishedIsTaken, Threads
  <1>18. ContentionNeedsRivals'
    BY <1>2 DEF PolicyInv, ContentionNeedsRivals
  <1>19. QED
    BY <1>3, <1>10, <1>11, <1>12, <1>13, <1>14, <1>15, <1>16, <1>17, <1>18 DEF PolicyInv

(***************************************************************************)
(* The steps of a handler, in general.  It changes its own thread and the  *)
(* answer of its own request, publishes nothing but that request, and      *)
(* leaves the request only with an answer; then what every other handler   *)
(* knows goes on being true.                                               *)
(***************************************************************************)
HandlerStep(t) ==
    /\ DOMAIN thread' = Threads
    /\ \A u \in Threads : u # t => thread'[u] = thread[u]
    /\ thread'[t] = Idle \/ (Administering(t)' /\ thread'[t].request = thread[t].request)
    /\ reply' \in [Requests -> Register!Answers]
    /\ \A q \in Requests : q # thread[t].request =>
          reply'[q] = reply[q] /\ (Register!Published(q)' <=> Register!Published(q))
    /\ thread'[t] = Idle => reply'[thread[t].request].told # "none"
    /\ StoreTypeOK'
    /\ Len(versions) <= Len(versions')
    /\ \A n : PutInForce(n) => PutInForce(n)'
    /\ \A n : PutInForce(n)' => n \in DOMAIN versions'
    /\ UNCHANGED cache \/ cache' = [cache EXCEPT ![Home(t)] = Nothing]
    /\ thread'[t] # Idle => HandlerKnows(t)'
    /\ reply'[thread[t].request].told = "contended" => Len(versions') >= MaxPublishAttempts

(* What every step of an administrator's handler comes down to: told as *)
(* above, it keeps the invariant.                                       *)
LEMMA HandlerStepKeepsInv ==
    ASSUME PolicyInv, NEW t \in Loops, Administering(t), HandlerStep(t)
    PROVE  PolicyInv'
  <1>1. TypeOK /\ DOMAIN thread = Threads /\ t \in Threads
    BY DEF PolicyInv, Threads
  <1>2. /\ Len(versions) \in Nat /\ Len(versions') \in Nat
        /\ DOMAIN versions' = 1 .. Len(versions')
        /\ \A n \in Versions : n \in Versions'
    <2>1. versions \in Seq(Requests) /\ versions' \in Seq(Requests)
      BY <1>1 DEF HandlerStep, TypeOK, StoreTypeOK, Requests
    <2>2. /\ Len(versions) \in Nat /\ Len(versions') \in Nat
          /\ DOMAIN versions' = 1 .. Len(versions')
      BY <2>1, LenProperties
    <2>3. QED
      BY <2>2 DEF HandlerStep, Versions
  <1>3. /\ thread[t] # Absent /\ thread[t].request \in Requests
        /\ thread'[t] # Absent /\ ~Fetching(t)'
    BY <1>1, AdminStateFacts
       DEF HandlerStep, Fetching, Idle, Absent, Administering, AdminState
  <1>4. \A n : Served(n) => Served(n)'
    BY DEF HandlerStep, Served
  <1>5. \A u \in Threads : u # t =>
            thread'[u] = thread[u] /\ (Administering(u)' <=> Administering(u))
    BY DEF HandlerStep, Administering, AdminState, Requests
  <1>6. /\ cache' \in [Containers -> [version : Versions', degraded : BOOLEAN, known : BOOLEAN]]
        /\ \A c \in Containers : Served(cache'[c].version)
        /\ \A c \in Containers : c # Home(t) => cache'[c] = cache[c]
    <2> DEFINE Entry == [version : Versions', degraded : BOOLEAN, known : BOOLEAN]
    <2>1. cache \in [Containers -> Entry]
      BY <1>1, <1>2 DEF TypeOK
    <2>2. Nothing \in Entry /\ Served(Nothing.version)
      BY <1>2 DEF Nothing, Packaged, Versions, Served
    <2>3. \A c \in Containers : Served(cache[c].version)
      BY DEF PolicyInv, OnlyServedHeld
    <2> HIDE DEF Entry
    <2>4. CASE cache' = cache
      BY <2>1, <2>3, <2>4 DEF Entry
    <2>5. CASE cache' = [cache EXCEPT ![Home(t)] = Nothing]
      <3>1. cache' \in [Containers -> Entry]
        BY <2>1, <2>2, <2>5
      <3>2. \A c \in Containers : cache'[c] = cache[c] \/ cache'[c] = Nothing
        BY <2>1, <2>5
      <3>3. QED
        BY <2>1, <2>2, <2>3, <2>5, <3>1, <3>2 DEF Entry
    <2>6. QED
      BY <2>4, <2>5 DEF HandlerStep
  <1>7. TypeOK'
    <2>1. ASSUME NEW u \in Threads
          PROVE  thread'[u] \in {Idle, Absent} \cup RefreshState' \cup AdminState'
      <3>1. AdminState' = AdminState
        BY DEF AdminState, Requests
      <3>2. \A x \in RefreshState : x \in RefreshState'
        BY <1>2 DEF RefreshState
      <3>3. thread[u] \in {Idle, Absent} \cup RefreshState \cup AdminState
        BY <1>1 DEF TypeOK
      <3>4. CASE u = t
        BY <3>4 DEF HandlerStep, Administering
      <3>5. QED
        BY <1>5, <3>1, <3>2, <3>3, <3>4
    <2>2. QED
      BY <1>6, <2>1 DEF HandlerStep, TypeOK
  <1>8. OnlyStoredInForce'
    BY DEF HandlerStep, OnlyStoredInForce, PutInForce
  <1>9. OnlyServedHeld'
    <2>1. \A u \in Threads : Fetching(u)' => Fetching(u) /\ thread'[u] = thread[u]
      BY <1>3, <1>5 DEF Fetching
    <2>2. QED
      BY <1>4, <1>6, <2>1 DEF PolicyInv, OnlyServedHeld
  <1>10. FallbackIsCurrent'
    <2>1. \A c : HasProbe(c)' <=> HasProbe(c)
      BY <1>3, <1>5, ProbesStay
    <2>2. ASSUME NEW u \in Threads, Fetching(u)', ~HasProbe(Home(u))
          PROVE  thread'[u].cached = cache'[Home(u)].version
      <3>1. u # t /\ thread'[u] = thread[u] /\ Fetching(u)
        BY <1>3, <1>5, <2>2 DEF Fetching
      <3>2. thread[u] # Absent /\ thread[u].cached = cache[Home(u)].version
        BY <1>1, <2>2, <3>1, FetchState DEF PolicyInv, FallbackIsCurrent
      <3>3. Home(u) # Home(t)
        BY <1>1, <1>3, <2>2, <3>1, <3>2, NoProbeNoRival
      <3>4. QED
        BY <1>6, <3>1, <3>2, <3>3, HomeIsContainer
    <2>3. QED
      BY <2>1, <2>2 DEF FallbackIsCurrent
  <1>11. OnlyLoopsAdminister'
    BY <1>5 DEF PolicyInv, OnlyLoopsAdminister
  <1>12. \A u \in Loops : u # t /\ Administering(u) => thread[u].request # thread[t].request
    BY DEF PolicyInv, OneHandler
  <1>13. ASSUME NEW u \in Loops, Administering(u)'
         PROVE  HandlerKnows(u)'
    <2>1. CASE u = t
      <3>1. thread'[t] # Idle
        BY <1>13, <2>1 DEF Administering, AdminState, Idle
      <3>2. QED
        BY <2>1, <3>1 DEF HandlerStep
    <2>2. CASE u # t
      <3>1. /\ Administering(u) /\ thread'[u] = thread[u]
            /\ thread[u].request # thread[t].request
            /\ HandlerKnows(u)
        BY <1>5, <1>12, <1>13, <2>2 DEF Threads, PolicyInv
      <3>2. /\ thread[u].request \in Requests
            /\ thread[u].version \in Nat /\ thread[u].attempt \in Nat
        <4>1. /\ thread[u].request \in Requests /\ thread[u].version \in Nat
              /\ thread[u].attempt \in 1 .. MaxPublishAttempts
          BY <1>1, <3>1, AdminStateFacts DEF Threads
        <4>2. QED
          BY <4>1, BoundsAssumption
      <3>3. /\ reply'[thread[u].request] = reply[thread[u].request]
            /\ Register!Published(thread[u].request)' <=> Register!Published(thread[u].request)
        BY <3>1, <3>2 DEF HandlerStep
      <3>4. Len(versions) <= Len(versions') /\ \A n : PutInForce(n) => PutInForce(n)'
        BY DEF HandlerStep
      <3>5. thread[u].step = "number" => thread[u].attempt <= Len(versions') + 1
        BY <1>2, <3>1, <3>2, <3>4 DEF HandlerKnows
      <3>6. thread[u].step = "put" => thread[u].version \in thread[u].attempt .. Len(versions') + 1
        BY <1>2, <3>1, <3>2, <3>4 DEF HandlerKnows
      <3>7. QED
        BY <3>1, <3>3, <3>4, <3>5, <3>6 DEF HandlerKnows
    <2>3. QED
      BY <2>1, <2>2
  <1>14. OneHandler'
    <2>1. ASSUME NEW u \in Loops, Administering(u)'
          PROVE  /\ Administering(u)
                 /\ thread'[u].request = thread[u].request
      <3>1. CASE u = t
        BY <2>1, <3>1 DEF HandlerStep, Administering, AdminState, Idle
      <3>2. CASE u # t
        BY <1>5, <2>1, <3>2 DEF Threads
      <3>3. QED
        BY <3>1, <3>2
    <2>2. QED
      BY <2>1 DEF PolicyInv, OneHandler
  <1>15. PublishedIsTaken'
    <2>1. ASSUME NEW r \in Requests, Register!Published(r)', reply'[r].told = "none"
          PROVE  \E u \in Loops : Administering(u)' /\ thread'[u].request = r
      <3>1. CASE r = thread[t].request
        BY <2>1, <3>1 DEF HandlerStep
      <3>2. CASE r # thread[t].request
        <4>1. PICK u \in Loops : Administering(u) /\ thread[u].request = r
          BY <2>1, <3>2 DEF HandlerStep, PolicyInv, PublishedIsTaken
        <4>2. u # t
          BY <3>2, <4>1
        <4>3. QED
          BY <1>5, <4>1, <4>2 DEF Threads
      <3>3. QED
        BY <3>1, <3>2
    <2>2. Requests' = Requests
      BY DEF Requests
    <2>3. QED
      BY <2>1, <2>2 DEF PublishedIsTaken
  <1>16. ContentionNeedsRivals'
    <2>1. ASSUME NEW r \in Requests, reply'[r].told = "contended"
          PROVE  Len(versions') >= MaxPublishAttempts
      <3>1. CASE r = thread[t].request
        BY <2>1, <3>1 DEF HandlerStep
      <3>2. CASE r # thread[t].request
        <4>1. Len(versions) >= MaxPublishAttempts
          BY <2>1, <3>2 DEF HandlerStep, PolicyInv, ContentionNeedsRivals
        <4>2. QED
          BY <1>2, <4>1, BoundsAssumption DEF HandlerStep
      <3>3. QED
        BY <3>1, <3>2
    <2>2. QED
      BY <2>1 DEF ContentionNeedsRivals, Requests
  <1>17. QED
    BY <1>7, <1>8, <1>9, <1>10, <1>11, <1>13, <1>14, <1>15, <1>16
       DEF PolicyInv, HandlerStep

(* A step that leaves the store alone leaves what is said of it. *)
LEMMA StoreStays ==
    ASSUME PolicyInv, UNCHANGED << versions, pointers, settled, up >>
    PROVE  /\ StoreTypeOK'
           /\ Len(versions) <= Len(versions')
           /\ \A q : Register!Published(q)' <=> Register!Published(q)
           /\ \A n : PutInForce(n)' <=> PutInForce(n)
           /\ \A n : PutInForce(n)' => n \in DOMAIN versions'
  <1>1. TypeOK /\ OnlyStoredInForce
    BY DEF PolicyInv
  <1>2. \A n : PutInForce(n)' <=> PutInForce(n)
    BY DEF PutInForce
  <1>3. StoreTypeOK'
    BY <1>1 DEF TypeOK, StoreTypeOK
  <1>4. \A q : Register!Published(q)' <=> Register!Published(q)
    BY DEF Register!Published
  <1>5. QED
    BY <1>1, <1>2, <1>3, <1>4, ServedIsVersion

(* An answer ends the handler. *)
LEMMA AnswerDoes ==
    ASSUME PolicyInv, NEW t \in Loops, Administering(t),
           NEW told \in {"published", "activated", "refused", "contended", "failed"},
           NEW n \in Nat, Answer(t, told, n)
    PROVE  /\ DOMAIN thread' = Threads
           /\ \A u \in Threads : u # t => thread'[u] = thread[u]
           /\ thread'[t] = Idle
           /\ reply' \in [Requests -> Register!Answers]
           /\ reply'[thread[t].request] = [told |-> told, number |-> n]
           /\ \A q \in Requests : q # thread[t].request => reply'[q] = reply[q]
  <1>1. TypeOK /\ DOMAIN thread = Threads /\ t \in Threads
    BY DEF PolicyInv, Threads
  <1>2. thread[t].request \in Requests
    BY <1>1, AdminStateFacts
  <1>3. reply \in [Requests -> Register!Answers]
    BY <1>1 DEF TypeOK
  <1>4. [told |-> told, number |-> n] \in Register!Answers
    BY DEF Register!Answers
  <1>5. /\ thread' = [thread EXCEPT ![t] = Idle]
        /\ reply' = [reply EXCEPT ![thread[t].request] = [told |-> told, number |-> n]]
    BY DEF Answer, Register!Tell
  <1>6. QED
    BY <1>1, <1>2, <1>3, <1>4, <1>5

(* A handler goes on to another state of its own. *)
LEMMA MoveDoes ==
    ASSUME PolicyInv, NEW t \in Loops, Administering(t),
           NEW step \in {"number", "put", "activate", "drop"},
           NEW n \in Nat, NEW attempt \in 1 .. MaxPublishAttempts,
           GoTo(t, step, n, attempt)
    PROVE  /\ DOMAIN thread' = Threads
           /\ \A u \in Threads : u # t => thread'[u] = thread[u]
           /\ Administering(t)'
           /\ thread'[t].step = step
           /\ thread'[t].version = n
           /\ thread'[t].attempt = attempt
           /\ thread'[t].request = thread[t].request
           /\ thread'[t].publish = thread[t].publish
           /\ thread'[t] # Idle
  <1>1. TypeOK /\ DOMAIN thread = Threads /\ t \in Threads
    BY DEF PolicyInv, Threads
  <1>2. /\ thread[t].request \in Requests
        /\ thread[t].publish \in BOOLEAN
        /\ thread[t].activate \in BOOLEAN
    BY <1>1, AdminStateFacts
  <1>3. /\ DOMAIN thread' = Threads
        /\ \A u \in Threads : u # t => thread'[u] = thread[u]
        /\ thread'[t] = [step |-> step, request |-> thread[t].request, version |-> n,
                         attempt |-> attempt, publish |-> thread[t].publish,
                         activate |-> thread[t].activate]
    BY <1>1 DEF GoTo
  <1>4. thread'[t] \in AdminState
    BY <1>2, <1>3 DEF AdminState
  <1>5. QED
    BY <1>3, <1>4 DEF Administering, AdminState, Requests, Idle

-----------------------------------------------------------------------------
(* Numbering, the lost race for a number, and every way a request fails. *)
LEMMA QuietAdministration ==
    ASSUME PolicyInv, NEW t \in Loops,
           Number(t) \/ PutConflicts(t) \/ VersionMissed(t) \/ RequestFails(t)
    PROVE  PolicyInv'
  <1>1. TypeOK /\ t \in Threads
    BY DEF PolicyInv, Threads
  <1>2. Administering(t)
    BY <1>1, AdminStateFacts DEF Number, PutConflicts, VersionMissed, RequestFails
  <1>3. /\ thread[t].request \in Requests
        /\ thread[t].version \in Nat
        /\ thread[t].attempt \in 1 .. MaxPublishAttempts
    BY <1>1, <1>2, AdminStateFacts
  <1>4. HandlerKnows(t)
    BY <1>2 DEF PolicyInv
  <1>5. UNCHANGED << versions, pointers, settled, up, cache >>
    BY DEF Number, PutConflicts, VersionMissed, RequestFails, storeVars
  <1>6. /\ StoreTypeOK'
        /\ Len(versions) <= Len(versions')
        /\ \A q : Register!Published(q)' <=> Register!Published(q)
        /\ \A n : PutInForce(n)' <=> PutInForce(n)
        /\ \A n : PutInForce(n)' => n \in DOMAIN versions'
    BY <1>5, StoreStays
  <1>7. /\ DOMAIN versions = 1 .. Len(versions) /\ Len(versions) \in Nat
        /\ MaxPublishAttempts \in Nat
    BY ServedIsVersion, BoundsAssumption DEF PolicyInv
  <1>8. CASE \E told \in {"refused", "failed"} : Answer(t, told, 0)
    <2>1. PICK told \in {"refused", "failed"} : Answer(t, told, 0)
      BY <1>8
    <2>2. /\ DOMAIN thread' = Threads
          /\ \A u \in Threads : u # t => thread'[u] = thread[u]
          /\ thread'[t] = Idle
          /\ reply' \in [Requests -> Register!Answers]
          /\ reply'[thread[t].request] = [told |-> told, number |-> 0]
          /\ \A q \in Requests : q # thread[t].request => reply'[q] = reply[q]
      BY <1>2, <2>1, AnswerDoes
    <2>3. HandlerStep(t)
      BY <1>5, <1>6, <2>2 DEF HandlerStep
    <2>4. QED
      BY <1>2, <2>3, HandlerStepKeepsInv
  <1>9. CASE Number(t)
    <2>1. /\ thread[t].step = "number" /\ reply' = reply
          /\ GoTo(t, "put", Len(versions) + 1, thread[t].attempt)
      BY <1>9 DEF Number, LatestVersion
    <2>2. Len(versions) + 1 \in Nat
      BY <1>7
    <2>3. /\ DOMAIN thread' = Threads
          /\ \A u \in Threads : u # t => thread'[u] = thread[u]
          /\ Administering(t)'
          /\ thread'[t].step = "put"
          /\ thread'[t].version = Len(versions) + 1
          /\ thread'[t].attempt = thread[t].attempt
          /\ thread'[t].request = thread[t].request
          /\ thread'[t].publish = thread[t].publish
          /\ thread'[t] # Idle
      BY <1>2, <1>3, <2>1, <2>2, MoveDoes
    <2>4. thread'[t].version \in thread'[t].attempt .. Len(versions') + 1
      <3>1. thread[t].attempt <= Len(versions) + 1
        BY <1>4, <2>1 DEF HandlerKnows
      <3>2. QED
        BY <1>3, <1>5, <1>7, <2>3, <3>1
    <2>5. HandlerKnows(t)'
      BY <1>4, <1>6, <2>1, <2>3, <2>4 DEF HandlerKnows
    <2>6. reply'[thread[t].request].told # "contended"
      BY <1>4, <2>1 DEF HandlerKnows
    <2>7. HandlerStep(t)
      BY <1>1, <1>5, <1>6, <2>1, <2>3, <2>5, <2>6 DEF HandlerStep, TypeOK
    <2>8. QED
      BY <1>2, <2>7, HandlerStepKeepsInv
  <1>10. CASE PutConflicts(t)
    <2>1. /\ thread[t].step = "put"
          /\ thread[t].version \in DOMAIN versions
          /\ RetryOrGiveUp(t)
      BY <1>10 DEF PutConflicts, Vacant
    <2>2. thread[t].attempt <= thread[t].version
      BY <1>3, <1>4, <2>1 DEF HandlerKnows
    <2>3. thread[t].attempt <= Len(versions)
      BY <1>3, <1>7, <2>1, <2>2
    <2>4. CASE thread[t].attempt < MaxPublishAttempts
      <3>1. /\ GoTo(t, "number", thread[t].version, thread[t].attempt + 1)
            /\ reply' = reply
        BY <2>1, <2>4 DEF RetryOrGiveUp
      <3>2. thread[t].attempt + 1 \in 1 .. MaxPublishAttempts
        BY <1>3, <1>7, <2>4
      <3>3. /\ DOMAIN thread' = Threads
            /\ \A u \in Threads : u # t => thread'[u] = thread[u]
            /\ Administering(t)'
            /\ thread'[t].step = "number"
            /\ thread'[t].attempt = thread[t].attempt + 1
            /\ thread'[t].request = thread[t].request
            /\ thread'[t].publish = thread[t].publish
            /\ thread'[t] # Idle
        BY <1>2, <1>3, <3>1, <3>2, MoveDoes
      <3>4. thread'[t].attempt <= Len(versions') + 1
        BY <1>3, <1>5, <1>7, <2>3, <3>3
      <3>5. HandlerKnows(t)'
        BY <1>4, <1>6, <2>1, <3>1, <3>3, <3>4 DEF HandlerKnows
      <3>6. reply'[thread[t].request].told # "contended"
        BY <1>4, <3>1 DEF HandlerKnows
      <3>7. HandlerStep(t)
        BY <1>1, <1>5, <1>6, <3>1, <3>3, <3>5, <3>6 DEF HandlerStep, TypeOK
      <3>8. QED
        BY <1>2, <3>7, HandlerStepKeepsInv
    <2>5. CASE ~(thread[t].attempt < MaxPublishAttempts)
      <3>1. Answer(t, "contended", 0)
        BY <2>1, <2>5 DEF RetryOrGiveUp
      <3>2. Len(versions') >= MaxPublishAttempts
        BY <1>3, <1>5, <1>7, <2>3, <2>5
      <3>3. /\ DOMAIN thread' = Threads
            /\ \A u \in Threads : u # t => thread'[u] = thread[u]
            /\ thread'[t] = Idle
            /\ reply' \in [Requests -> Register!Answers]
            /\ reply'[thread[t].request] = [told |-> "contended", number |-> 0]
            /\ \A q \in Requests : q # thread[t].request => reply'[q] = reply[q]
        BY <1>2, <3>1, AnswerDoes
      <3>4. HandlerStep(t)
        BY <1>5, <1>6, <3>2, <3>3 DEF HandlerStep
      <3>5. QED
        BY <1>2, <3>4, HandlerStepKeepsInv
    <2>6. QED
      BY <2>4, <2>5
  <1>11. QED
    BY <1>8, <1>9, <1>10 DEF VersionMissed, RequestFails

(* A version is put, and the handler hears of it or sends it again. *)
LEMMA PublicationKeepsInv ==
    ASSUME PolicyInv, NEW t \in Loops, PutSucceeds(t) \/ PutUnheard(t)
    PROVE  PolicyInv'
  <1>1. TypeOK /\ OnlyStoredInForce /\ t \in Threads /\ DOMAIN thread = Threads
    BY DEF PolicyInv, Threads
  <1>2. /\ thread[t].step = "put"
        /\ Vacant(thread[t].version)
        /\ PutVersion(thread[t].request)
        /\ cache' = cache
    BY DEF PutSucceeds, PutUnheard
  <1>3. Administering(t)
    BY <1>1, <1>2, AdminStateFacts
  <1>4. /\ thread[t].request \in Requests
        /\ thread[t].version \in Nat
        /\ thread[t].attempt \in 1 .. MaxPublishAttempts
    BY <1>1, <1>3, AdminStateFacts
  <1>5. HandlerKnows(t)
    BY <1>3 DEF PolicyInv
  <1>6. /\ StoreTypeOK'
        /\ Len(versions) \in Nat /\ Len(versions') = Len(versions) + 1
        /\ DOMAIN versions = 1 .. Len(versions)
        /\ DOMAIN versions' = 1 .. Len(versions) + 1
        /\ \A q : Register!Published(q)' <=> Register!Published(q) \/ q = thread[t].request
        /\ \A n : PutInForce(n)' <=> PutInForce(n)
    BY <1>1, <1>2, <1>4, VersionPut
  <1>7. \A n : PutInForce(n)' => n \in DOMAIN versions'
    BY <1>1, <1>6, ServedIsVersion
  <1>8. Len(versions) <= Len(versions')
    BY <1>6
  <1>9. thread[t].publish /\ thread[t].version \in thread[t].attempt .. Len(versions) + 1
    BY <1>2, <1>5 DEF HandlerKnows
  <1>10. reply \in [Requests -> Register!Answers] /\ reply[thread[t].request].told = "none"
    BY <1>1, <1>5 DEF TypeOK, HandlerKnows
  <1>11. CASE PutSucceeds(t) /\ ~thread[t].activate
    <2>1. Answer(t, "published", thread[t].version)
      BY <1>11 DEF PutSucceeds
    <2>2. /\ DOMAIN thread' = Threads
          /\ \A u \in Threads : u # t => thread'[u] = thread[u]
          /\ thread'[t] = Idle
          /\ reply' \in [Requests -> Register!Answers]
          /\ reply'[thread[t].request] = [told |-> "published", number |-> thread[t].version]
          /\ \A q \in Requests : q # thread[t].request => reply'[q] = reply[q]
      BY <1>3, <1>4, <2>1, AnswerDoes
    <2>3. HandlerStep(t)
      BY <1>2, <1>6, <1>7, <1>8, <2>2 DEF HandlerStep
    <2>4. QED
      BY <1>3, <2>3, HandlerStepKeepsInv
  <1>12. CASE PutSucceeds(t) /\ thread[t].activate
    <2>1. GoTo(t, "activate", thread[t].version, 1) /\ reply' = reply
      BY <1>12 DEF PutSucceeds
    <2>2. 1 \in 1 .. MaxPublishAttempts
      BY BoundsAssumption
    <2>3. /\ DOMAIN thread' = Threads
          /\ \A u \in Threads : u # t => thread'[u] = thread[u]
          /\ Administering(t)'
          /\ thread'[t].step = "activate"
          /\ thread'[t].request = thread[t].request
          /\ thread'[t].publish = thread[t].publish
          /\ thread'[t] # Idle
      BY <1>3, <1>4, <2>1, <2>2, MoveDoes
    <2>4. HandlerKnows(t)'
      BY <1>9, <1>10, <2>1, <2>3 DEF HandlerKnows
    <2>5. HandlerStep(t)
      BY <1>2, <1>6, <1>7, <1>8, <1>10, <2>1, <2>3, <2>4 DEF HandlerStep
    <2>6. QED
      BY <1>3, <2>5, HandlerStepKeepsInv
  <1>13. CASE PutUnheard(t)
    <2>1. thread' = thread /\ reply' = reply /\ "lost_reply" \in Faults
      BY <1>13 DEF PutUnheard, MayGoUnheard
    <2>2. thread[t].version \in thread[t].attempt .. Len(versions') + 1
      BY <1>4, <1>6, <1>9
    <2>3. HandlerKnows(t)'
      BY <1>2, <1>9, <1>10, <2>1, <2>2 DEF HandlerKnows
    <2>4. Administering(t)'
      BY <1>3, <2>1 DEF Administering, AdminState, Requests
    <2>5. HandlerStep(t)
      BY <1>1, <1>2, <1>3, <1>6, <1>7, <1>8, <1>10, <2>1, <2>3, <2>4, AdminStateFacts
         DEF HandlerStep
    <2>6. QED
      BY <1>3, <2>5, HandlerStepKeepsInv
  <1>14. QED
    BY <1>11, <1>12, <1>13

(* A stored version comes into force, heard of or not. *)
LEMMA ActivationKeepsInv ==
    ASSUME PolicyInv, NEW t \in Loops, PointerMoves(t) \/ PointerMovesUnheard(t)
    PROVE  PolicyInv'
  <1>1. TypeOK /\ OnlyStoredInForce /\ t \in Threads /\ DOMAIN thread = Threads
    BY DEF PolicyInv, Threads
  <1>2. /\ thread[t].step = "activate"
        /\ thread[t].version \in DOMAIN versions
        /\ PutPointer(thread[t].version)
        /\ cache' = cache /\ reply' = reply
    BY DEF PointerMoves, PointerMovesUnheard, MayFind
  <1>3. Administering(t)
    BY <1>1, <1>2, AdminStateFacts
  <1>4. /\ thread[t].request \in Requests
        /\ thread[t].version \in Nat
        /\ thread[t].attempt \in 1 .. MaxPublishAttempts
        /\ thread[t] # Idle
    BY <1>1, <1>3, AdminStateFacts
  <1>5. HandlerKnows(t)
    BY <1>3 DEF PolicyInv
  <1>6. /\ StoreTypeOK'
        /\ versions' = versions
        /\ \A m : PutInForce(m)' <=> PutInForce(m) \/ m = thread[t].version
    BY <1>1, <1>2, <1>4, PointerPut
  <1>7. \A n : PutInForce(n)' => n \in DOMAIN versions'
    BY <1>1, <1>2, <1>6, ServedIsVersion
  <1>8. Len(versions) <= Len(versions')
    BY <1>1, <1>6, ServedIsVersion
  <1>9. \A q : Register!Published(q)' <=> Register!Published(q)
    BY <1>6 DEF Register!Published
  <1>10. reply \in [Requests -> Register!Answers] /\ reply[thread[t].request].told = "none"
    BY <1>1, <1>5 DEF TypeOK, HandlerKnows
  <1>11. /\ DOMAIN thread' = Threads
         /\ \A u \in Threads : u # t => thread'[u] = thread[u]
         /\ Administering(t)'
         /\ thread'[t].step \in {"activate", "drop"}
         /\ thread'[t].version = thread[t].version
         /\ thread'[t].request = thread[t].request
         /\ thread'[t].publish = thread[t].publish
         /\ thread'[t] # Idle
    <2>1. CASE PointerMoves(t)
      <3>1. GoTo(t, "drop", thread[t].version, thread[t].attempt)
        BY <2>1 DEF PointerMoves
      <3>2. QED
        BY <1>3, <1>4, <3>1, MoveDoes
    <2>2. CASE PointerMovesUnheard(t)
      <3>1. thread' = thread
        BY <2>2 DEF PointerMovesUnheard
      <3>2. QED
        BY <1>1, <1>2, <1>3, <1>4, <3>1 DEF Administering, AdminState, Requests
    <2>3. QED
      BY <2>1, <2>2
  <1>12. HandlerKnows(t)'
    BY <1>2, <1>5, <1>6, <1>9, <1>11 DEF HandlerKnows
  <1>13. HandlerStep(t)
    BY <1>2, <1>6, <1>7, <1>8, <1>9, <1>10, <1>11, <1>12 DEF HandlerStep
  <1>14. QED
    BY <1>3, <1>13, HandlerStepKeepsInv

(* The cache is dropped and the operator told of the activation. *)
LEMMA DropKeepsInv ==
    ASSUME PolicyInv, NEW t \in Loops, Drop(t)
    PROVE  PolicyInv'
  <1>1. TypeOK /\ t \in Threads
    BY DEF PolicyInv, Threads
  <1>2. Administering(t)
    BY <1>1, AdminStateFacts DEF Drop
  <1>3. thread[t].version \in Nat
    BY <1>1, <1>2, AdminStateFacts
  <1>4. /\ UNCHANGED << versions, pointers, settled, up >>
        /\ cache' = [cache EXCEPT ![Home(t)] = Nothing]
        /\ Answer(t, "activated", thread[t].version)
    BY DEF Drop, storeVars
  <1>5. /\ StoreTypeOK'
        /\ Len(versions) <= Len(versions')
        /\ \A q : Register!Published(q)' <=> Register!Published(q)
        /\ \A n : PutInForce(n)' <=> PutInForce(n)
        /\ \A n : PutInForce(n)' => n \in DOMAIN versions'
    BY <1>4, StoreStays
  <1>6. /\ DOMAIN thread' = Threads
        /\ \A u \in Threads : u # t => thread'[u] = thread[u]
        /\ thread'[t] = Idle
        /\ reply' \in [Requests -> Register!Answers]
        /\ reply'[thread[t].request] = [told |-> "activated", number |-> thread[t].version]
        /\ \A q \in Requests : q # thread[t].request => reply'[q] = reply[q]
    BY <1>2, <1>3, <1>4, AnswerDoes
  <1>7. HandlerStep(t)
    BY <1>4, <1>5, <1>6 DEF HandlerStep
  <1>8. QED
    BY <1>2, <1>7, HandlerStepKeepsInv

(* A request that nobody has taken up is not published and has no handler. *)
LEMMA UnaskedFacts ==
    ASSUME PolicyInv, NEW r \in Requests, Unasked(r)
    PROVE  /\ reply[r].told = "none"
           /\ \A u \in Loops : Administering(u) => thread[u].request # r
           /\ ~Register!Published(r)
  <1>1. TypeOK
    BY DEF PolicyInv
  <1>2. reply[r].told = "none"
    BY DEF Unasked, Register!Unanswered
  <1>3. \A u \in Loops : Administering(u) => thread[u].request # r
    BY <1>1, HandlesIs DEF Unasked, Threads
  <1>4. QED
    BY <1>2, <1>3 DEF PolicyInv, PublishedIsTaken

(* A request is taken up by one handler, or refused before it has any. *)
LEMMA TakeKeepsInv ==
    ASSUME PolicyInv, NEW t \in Loops, NEW r \in Requests, Take(t, r)
    PROVE  PolicyInv'
  <1>1. TypeOK /\ OnlyStoredInForce /\ DOMAIN thread = Threads /\ t \in Threads
    BY DEF PolicyInv, Threads
  <1>2. /\ thread[t] = Idle
        /\ Unasked(r)
        /\ UNCHANGED << versions, pointers, settled, up, cache >>
    BY DEF Take, IsNext, storeVars
  <1>3. /\ reply[r].told = "none"
        /\ \A u \in Loops : Administering(u) => thread[u].request # r
        /\ ~Register!Published(r)
    BY <1>2, UnaskedFacts
  <1>4. ~Administering(t) /\ ~Fetching(t)
    BY <1>2 DEF Administering, AdminState, Fetching, Idle
  <1>5. /\ StoreTypeOK'
        /\ \A q : Register!Published(q)' <=> Register!Published(q)
        /\ \A n : PutInForce(n)' <=> PutInForce(n)
        /\ \A n : Served(n)' <=> Served(n)
        /\ Versions' = Versions
        /\ AdminState' = AdminState /\ RefreshState' = RefreshState
    BY <1>2, StoreStays DEF Served, Versions, AdminState, RefreshState, Requests
  <1>6. Len(versions) \in Nat
    BY <1>1, ServedIsVersion
  <1>7. \/ /\ thread' = thread
           /\ reply' = [reply EXCEPT ![r] = [told |-> "refused", number |-> 0]]
        \/ /\ reply' = reply
           /\ \E step \in {"number", "activate"}, n \in Nat,
                 publish \in BOOLEAN, activate \in BOOLEAN :
                 /\ step = "number" => publish
                 /\ thread' = [thread EXCEPT ![t] =
                       [step |-> step, request |-> r, version |-> n, attempt |-> 1,
                        publish |-> publish, activate |-> activate]]
    <2>1. CASE reply' = reply
      <3>1. ASSUME NEW activate \in BOOLEAN, Begin(t, r, "number", 0, TRUE, activate)
            PROVE  \E step \in {"number", "activate"}, n \in Nat,
                      publish \in BOOLEAN, act \in BOOLEAN :
                      /\ step = "number" => publish
                      /\ thread' = [thread EXCEPT ![t] =
                            [step |-> step, request |-> r, version |-> n, attempt |-> 1,
                             publish |-> publish, activate |-> act]]
        BY <3>1 DEF Begin
      <3>2. ASSUME NEW n \in 1 .. LatestVersion + 1, Begin(t, r, "activate", n, FALSE, TRUE)
            PROVE  \E step \in {"number", "activate"}, m \in Nat,
                      publish \in BOOLEAN, act \in BOOLEAN :
                      /\ step = "number" => publish
                      /\ thread' = [thread EXCEPT ![t] =
                            [step |-> step, request |-> r, version |-> m, attempt |-> 1,
                             publish |-> publish, activate |-> act]]
        <4>1. n \in Nat
          BY <1>6 DEF LatestVersion
        <4>2. QED
          BY <3>2, <4>1 DEF Begin
      <3>3. CASE Register!Tell(r, "refused", 0) /\ UNCHANGED thread
        BY <3>3 DEF Register!Tell
      <3>4. QED
        BY <2>1, <3>1, <3>2, <3>3 DEF Take
    <2>2. CASE reply' # reply
      BY <2>2 DEF Take, Register!Tell
    <2>3. QED
      BY <2>1, <2>2
  <1>8. /\ DOMAIN thread' = Threads
        /\ \A u \in Threads : u # t => thread'[u] = thread[u]
        /\ \/ thread'[t] = thread[t]
           \/ /\ reply' = reply
              /\ Administering(t)'
              /\ thread'[t].request = r
              /\ thread'[t].step \in {"number", "activate"}
              /\ thread'[t].attempt = 1
              /\ thread'[t].step = "number" => thread'[t].publish
    <2>1. CASE thread' = thread
      BY <1>1, <2>1
    <2>2. ASSUME NEW step \in {"number", "activate"}, NEW n \in Nat,
                 NEW publish \in BOOLEAN, NEW activate \in BOOLEAN,
                 step = "number" => publish,
                 reply' = reply,
                 thread' = [thread EXCEPT ![t] =
                    [step |-> step, request |-> r, version |-> n, attempt |-> 1,
                     publish |-> publish, activate |-> activate]]
          PROVE  /\ DOMAIN thread' = Threads
                 /\ \A u \in Threads : u # t => thread'[u] = thread[u]
                 /\ Administering(t)'
                 /\ thread'[t].request = r
                 /\ thread'[t].step \in {"number", "activate"}
                 /\ thread'[t].attempt = 1
                 /\ thread'[t].step = "number" => thread'[t].publish
      <3>1. /\ DOMAIN thread' = Threads
            /\ \A u \in Threads : u # t => thread'[u] = thread[u]
            /\ thread'[t] = [step |-> step, request |-> r, version |-> n, attempt |-> 1,
                             publish |-> publish, activate |-> activate]
        BY <1>1, <2>2
      <3>2. 1 \in 1 .. MaxPublishAttempts
        BY BoundsAssumption
      <3>3. thread'[t] \in AdminState
        BY <3>1, <3>2 DEF AdminState
      <3>4. QED
        BY <1>5, <2>2, <3>1, <3>3 DEF Administering
    <2>3. QED
      BY <1>7, <2>1, <2>2
  <1>9. /\ reply' \in [Requests -> Register!Answers]
        /\ \A q \in Requests : q # r => reply'[q] = reply[q]
        /\ reply'[r].told \in {"none", "refused"}
        /\ reply'[r].told = "none" => reply' = reply /\ Administering(t)' /\ thread'[t].request = r
    <2>1. reply \in [Requests -> Register!Answers]
      BY <1>1 DEF TypeOK
    <2>2. CASE reply' = [reply EXCEPT ![r] = [told |-> "refused", number |-> 0]]
      BY <2>1, <2>2 DEF Register!Answers
    <2>3. CASE reply' = reply
      <3>1. thread'[t] # thread[t]
        <4>1. reply # [reply EXCEPT ![r] = [told |-> "refused", number |-> 0]]
          BY <1>3, <2>1
        <4>2. QED
          BY <1>1, <1>2, <1>7, <2>3, <4>1 DEF Idle
      <3>2. QED
        BY <1>3, <1>8, <2>1, <2>3, <3>1
    <2>4. QED
      BY <1>7, <2>2, <2>3
  <1>10. /\ thread[t] # Absent /\ thread'[t] # Absent /\ ~Fetching(t)'
    BY <1>2, <1>4, <1>8
       DEF Idle, Absent, Administering, AdminState, Fetching
  <1>11. \A u \in Threads : u # t =>
            /\ thread'[u] = thread[u]
            /\ Administering(u)' <=> Administering(u)
            /\ Fetching(u)' <=> Fetching(u)
    BY <1>5, <1>8 DEF Administering, Fetching
  <1>12. TypeOK'
    <2>1. thread'[t] \in {Idle, Absent} \cup RefreshState \cup AdminState
      BY <1>2, <1>5, <1>8 DEF Administering
    <2>2. \A u \in Threads : thread'[u] \in {Idle, Absent} \cup RefreshState' \cup AdminState'
      BY <1>1, <1>5, <1>11, <2>1 DEF TypeOK
    <2>3. QED
      BY <1>1, <1>2, <1>5, <1>9, <2>2 DEF TypeOK
  <1>13. OnlyStoredInForce'
    BY <1>1, <1>2 DEF OnlyStoredInForce
  <1>14. OnlyServedHeld'
    BY <1>2, <1>5, <1>10, <1>11 DEF PolicyInv, OnlyServedHeld
  <1>15. FallbackIsCurrent'
    <2>1. \A c : HasProbe(c)' <=> HasProbe(c)
      BY <1>10, <1>11, ProbesStay
    <2>2. QED
      BY <1>2, <1>10, <1>11, <2>1 DEF PolicyInv, FallbackIsCurrent
  <1>16. OnlyLoopsAdminister'
    BY <1>11 DEF PolicyInv, OnlyLoopsAdminister
  <1>17. ASSUME NEW u \in Loops, Administering(u)'
         PROVE  HandlerKnows(u)'
    <2>1. CASE u # t \/ thread'[t] = thread[t]
      <3>1. Administering(u) /\ thread'[u] = thread[u]
        BY <1>5, <1>11, <1>17, <2>1 DEF Threads, Administering
      <3>2. HandlerKnows(u) /\ thread[u].request # r /\ thread[u].request \in Requests
        BY <1>1, <1>3, <3>1, AdminStateFacts DEF PolicyInv, Threads
      <3>3. reply'[thread[u].request] = reply[thread[u].request]
        BY <1>9, <3>2
      <3>4. QED
        BY <1>2, <1>5, <3>1, <3>2, <3>3 DEF HandlerKnows
    <2>2. CASE u = t /\ thread'[t] # thread[t]
      <3>1. /\ reply' = reply
            /\ thread'[t].request = r
            /\ thread'[t].step \in {"number", "activate"}
            /\ thread'[t].attempt = 1
            /\ thread'[t].step = "number" => thread'[t].publish
        BY <1>8, <2>2
      <3>2. thread'[t].attempt <= Len(versions') + 1
        BY <1>2, <1>6, <3>1
      <3>3. QED
        BY <1>3, <1>5, <2>2, <3>1, <3>2 DEF HandlerKnows
    <2>3. QED
      BY <2>1, <2>2
  <1>18. OneHandler'
    <2>1. ASSUME NEW u \in Loops, NEW v \in Loops, Administering(u)', Administering(v)',
                 thread'[u].request = thread'[v].request
          PROVE  u = v
      <3>1. CASE u # t /\ v # t
        BY <1>11, <2>1, <3>1 DEF PolicyInv, OneHandler, Threads
      <3>2. CASE u = t /\ v # t
        <4>1. thread'[t] # thread[t]
          BY <1>4, <1>5, <2>1, <3>2 DEF Administering
        <4>2. QED
          BY <1>3, <1>8, <1>11, <2>1, <3>2, <4>1 DEF Threads
      <3>3. CASE u # t /\ v = t
        <4>1. thread'[t] # thread[t]
          BY <1>4, <1>5, <2>1, <3>3 DEF Administering
        <4>2. QED
          BY <1>3, <1>8, <1>11, <2>1, <3>3, <4>1 DEF Threads
      <3>4. QED
        BY <3>1, <3>2, <3>3
    <2>2. QED
      BY <2>1 DEF OneHandler
  <1>19. PublishedIsTaken'
    <2>1. ASSUME NEW q \in Requests, Register!Published(q)', reply'[q].told = "none"
          PROVE  \E u \in Loops : Administering(u)' /\ thread'[u].request = q
      <3>1. Register!Published(q) /\ q # r
        BY <1>3, <1>5, <2>1
      <3>2. PICK u \in Loops : Administering(u) /\ thread[u].request = q
        BY <1>9, <2>1, <3>1 DEF PolicyInv, PublishedIsTaken
      <3>3. u # t
        BY <1>4, <3>2
      <3>4. QED
        BY <1>11, <3>2, <3>3 DEF Threads
    <2>2. QED
      BY <2>1 DEF PublishedIsTaken, Requests
  <1>20. ContentionNeedsRivals'
    BY <1>2, <1>9 DEF PolicyInv, ContentionNeedsRivals, Requests
  <1>21. QED
    BY <1>8, <1>12, <1>13, <1>14, <1>15, <1>16, <1>17, <1>18, <1>19, <1>20 DEF PolicyInv

(* A restart forgets the cache and the handlers of one container. *)
LEMMA RestartKeepsInv ==
    ASSUME PolicyInv, NEW c \in Containers, Restart(c)
    PROVE  PolicyInv'
  <1>1. TypeOK /\ OnlyStoredInForce /\ DOMAIN thread = Threads
    BY DEF PolicyInv
  <1>2. /\ UNCHANGED << versions, pointers, settled, up >>
        /\ cache' = [cache EXCEPT ![c] = Nothing]
        /\ thread' = [t \in Threads |->
              IF Home(t) = c /\ thread[t] # Absent THEN Idle ELSE thread[t]]
        /\ reply' = [r \in Requests |->
              IF \E t \in Loops : Home(t) = c /\ Handles(t, r)
              THEN [told |-> "failed", number |-> 0] ELSE reply[r]]
    BY DEF Restart, storeVars
  <1>3. /\ StoreTypeOK'
        /\ \A q : Register!Published(q)' <=> Register!Published(q)
        /\ \A n : PutInForce(n)' <=> PutInForce(n)
        /\ \A n : Served(n)' <=> Served(n)
        /\ Versions' = Versions
        /\ AdminState' = AdminState /\ RefreshState' = RefreshState
    BY <1>2, StoreStays DEF Served, Versions, AdminState, RefreshState, Requests
  <1>4. \A u \in Threads :
            /\ thread'[u] = thread[u] \/ thread'[u] = Idle
            /\ thread'[u] = Absent <=> thread[u] = Absent
            /\ Fetching(u)' => Fetching(u) /\ thread'[u] = thread[u] /\ Home(u) # c
            /\ Administering(u)' => Administering(u) /\ thread'[u] = thread[u] /\ Home(u) # c
            /\ Administering(u) /\ Home(u) # c => Administering(u)' /\ thread'[u] = thread[u]
    <2>1. ASSUME NEW u \in Threads
          PROVE  thread'[u] = IF Home(u) = c /\ thread[u] # Absent THEN Idle ELSE thread[u]
      BY <1>2
    <2>2. ASSUME NEW u \in Threads
          PROVE  /\ thread'[u] = thread[u] \/ thread'[u] = Idle
                 /\ thread'[u] = Absent <=> thread[u] = Absent
      BY <2>1 DEF Idle, Absent
    <2>3. ASSUME NEW u \in Threads, Fetching(u)'
          PROVE  Fetching(u) /\ thread'[u] = thread[u] /\ Home(u) # c
      BY <2>1, <2>3 DEF Fetching, Idle, Absent
    <2>4. ASSUME NEW u \in Threads, Administering(u)'
          PROVE  Administering(u) /\ thread'[u] = thread[u] /\ Home(u) # c
      BY <1>3, <2>1, <2>4 DEF Administering, AdminState, Idle, Absent
    <2>5. ASSUME NEW u \in Threads, Administering(u), Home(u) # c
          PROVE  Administering(u)' /\ thread'[u] = thread[u]
      BY <1>3, <2>1, <2>5 DEF Administering
    <2>6. QED
      BY <2>2, <2>3, <2>4, <2>5
  <1>5. /\ reply' \in [Requests -> Register!Answers]
        /\ \A r \in Requests : reply'[r] = reply[r] \/ reply'[r].told = "failed"
        /\ \A r \in Requests :
              reply'[r] # reply[r] => \E t \in Loops : Home(t) = c /\ Handles(t, r)
        /\ \A r \in Requests, t \in Loops :
              Home(t) = c /\ Handles(t, r) => reply'[r].told = "failed"
    <2>1. [told |-> "failed", number |-> 0] \in Register!Answers
      BY DEF Register!Answers
    <2>2. reply \in [Requests -> Register!Answers]
      BY <1>1 DEF TypeOK
    <2>3. QED
      BY <1>2, <2>1, <2>2
  <1>6. TypeOK'
    <2>1. cache' \in [Containers -> [version : Versions, degraded : BOOLEAN, known : BOOLEAN]]
      <3>1. Nothing \in [version : Versions, degraded : BOOLEAN, known : BOOLEAN]
        BY <1>1, ServedIsVersion DEF Nothing, Packaged, Versions
      <3>2. QED
        BY <1>1, <1>2, <3>1 DEF TypeOK
    <2>2. \A u \in Threads : thread'[u] \in {Idle, Absent} \cup RefreshState' \cup AdminState'
      BY <1>1, <1>3, <1>4 DEF TypeOK
    <2>3. QED
      BY <1>3, <1>5, <2>1, <2>2 DEF TypeOK
  <1>7. OnlyStoredInForce'
    BY <1>1, <1>2 DEF OnlyStoredInForce
  <1>8. OnlyServedHeld'
    <2>1. \A d \in Containers : cache'[d] = cache[d] \/ cache'[d] = Nothing
      BY <1>1, <1>2 DEF TypeOK
    <2>2. Served(Nothing.version)
      BY DEF Served, Nothing
    <2>3. \A d \in Containers : Served(cache'[d].version)
      BY <2>1, <2>2 DEF PolicyInv, OnlyServedHeld
    <2>4. QED
      BY <1>3, <1>4, <2>3 DEF PolicyInv, OnlyServedHeld
  <1>9. FallbackIsCurrent'
    <2>1. \A d : HasProbe(d)' <=> HasProbe(d)
      BY <1>4, ProbesStay
    <2>2. \A d \in Containers : d # c => cache'[d] = cache[d]
      BY <1>1, <1>2 DEF TypeOK
    <2>3. QED
      BY <1>4, <2>1, <2>2, HomeIsContainer DEF PolicyInv, FallbackIsCurrent
  <1>10. OnlyLoopsAdminister' /\ OneHandler'
    BY <1>4 DEF PolicyInv, OnlyLoopsAdminister, OneHandler, Threads
  <1>11. ASSUME NEW u \in Loops, Administering(u)'
         PROVE  HandlerKnows(u)'
    <2>1. Administering(u) /\ thread'[u] = thread[u] /\ Home(u) # c /\ HandlerKnows(u)
      BY <1>4, <1>11 DEF PolicyInv, Threads
    <2>2. thread[u].request \in Requests
      BY <1>1, <2>1, AdminStateFacts DEF Threads
    <2>3. ASSUME NEW t \in Loops, Handles(t, thread[u].request)
          PROVE  t = u
      BY <1>1, <2>1, <2>3, HandlesIs DEF PolicyInv, OneHandler, Threads
    <2>4. reply'[thread[u].request] = reply[thread[u].request]
      BY <1>5, <2>1, <2>2, <2>3
    <2>5. QED
      BY <1>2, <1>3, <2>1, <2>4 DEF HandlerKnows
  <1>12. PublishedIsTaken'
    <2>1. ASSUME NEW q \in Requests, Register!Published(q)', reply'[q].told = "none"
          PROVE  \E u \in Loops : Administering(u)' /\ thread'[u].request = q
      <3>1. Register!Published(q) /\ reply[q].told = "none"
        BY <1>3, <1>5, <2>1
      <3>2. PICK u \in Loops : Administering(u) /\ thread[u].request = q
        BY <3>1 DEF PolicyInv, PublishedIsTaken
      <3>3. Home(u) # c
        BY <1>1, <1>5, <2>1, <3>2, HandlesIs DEF Threads
      <3>4. QED
        BY <1>4, <3>2, <3>3 DEF Threads
    <2>2. QED
      BY <2>1 DEF PublishedIsTaken, Requests
  <1>13. ContentionNeedsRivals'
    <2>1. \A r \in Requests : reply'[r].told = "contended" => reply[r].told = "contended"
      BY <1>5
    <2>2. QED
      BY <1>2, <2>1 DEF PolicyInv, ContentionNeedsRivals, Requests
  <1>14. QED
    BY <1>2, <1>6, <1>7, <1>8, <1>9, <1>10, <1>11, <1>12, <1>13 DEF PolicyInv

(* Replicas that catch up, and outages, change nothing but what can be read. *)
LEMMA StoreKeepsInv ==
    ASSUME PolicyInv, UNCHANGED << cache, thread, reply >>,
           CatchUp \/ Outage \/ UNCHANGED storeVars
    PROVE  PolicyInv'
  <1>1. TypeOK /\ UNCHANGED << versions, pointers >>
    BY DEF PolicyInv, CatchUp, Outage, storeVars
  <1>2. StoreTypeOK'
    <2>1. CASE UNCHANGED settled
      BY <1>1, <2>1 DEF TypeOK, StoreTypeOK, CatchUp, Outage, storeVars
    <2>2. CASE CatchUp
      <3>1. Len(versions) \in Nat /\ Len(pointers) \in Nat
        BY <1>1, LenProperties DEF TypeOK, StoreTypeOK
      <3>2. Settled(Len(versions), Len(pointers)) \in
                [versions : 0 .. Len(versions), pointers : 0 .. Len(pointers)]
        BY <3>1 DEF Settled
      <3>3. QED
        BY <1>1, <2>2, <3>2 DEF TypeOK, StoreTypeOK, CatchUp
    <2>3. QED
      BY <2>1, <2>2 DEF Outage, storeVars
  <1>3. /\ \A q : Register!Published(q)' <=> Register!Published(q)
        /\ \A n : PutInForce(n)' <=> PutInForce(n)
        /\ \A n : Served(n)' <=> Served(n)
        /\ \A u : HasProbe(u)' <=> HasProbe(u)
        /\ \A u : Fetching(u)' <=> Fetching(u)
        /\ \A u : Administering(u)' <=> Administering(u)
    BY <1>1 DEF Register!Published, PutInForce, Served, HasProbe, Fetching,
                Administering, AdminState, Requests
  <1>4. TypeOK'
    BY <1>1, <1>2 DEF TypeOK, Versions, RefreshState, AdminState, Requests
  <1>5. OnlyStoredInForce' /\ OnlyServedHeld' /\ FallbackIsCurrent'
    BY <1>1, <1>3 DEF PolicyInv, OnlyStoredInForce, OnlyServedHeld, FallbackIsCurrent
  <1>6. OnlyLoopsAdminister' /\ OneHandler' /\ PublishedIsTaken' /\ ContentionNeedsRivals'
    BY <1>1, <1>3 DEF PolicyInv, OnlyLoopsAdminister, OneHandler, PublishedIsTaken,
                      ContentionNeedsRivals, Requests
  <1>7. \A u \in Loops : Administering(u)' => HandlerKnows(u)'
    BY <1>1, <1>3 DEF PolicyInv, HandlerKnows
  <1>8. QED
    BY <1>1, <1>4, <1>5, <1>6, <1>7 DEF PolicyInv

(* At the start nothing is published and every thread is idle or absent. *)
LEMMA PolicyInvInit == Init => PolicyInv
  <1> SUFFICES ASSUME Init
               PROVE  PolicyInv
    OBVIOUS
  <1>1. /\ versions \in Seq(Requests) /\ Len(versions) = 0 /\ DOMAIN versions = {}
        /\ pointers \in Seq(Nat) /\ Len(pointers) = 0 /\ DOMAIN pointers = {}
    BY EmptySeq DEF Init, StoreInit
  <1>2. /\ DOMAIN thread = Threads
        /\ \A t \in Threads : thread[t] = Idle \/ thread[t] = Absent
    BY DEF Init
  <1>3. \A t \in Threads : ~Fetching(t) /\ ~Administering(t)
    BY <1>2 DEF Fetching, Administering, AdminState, Idle, Absent
  <1>4. TypeOK
    <2>1. StoreTypeOK
      BY <1>1 DEF Init, StoreInit, StoreTypeOK, Settled
    <2>2. cache \in [Containers -> [version : Versions, degraded : BOOLEAN, known : BOOLEAN]]
      BY <1>1 DEF Init, Nothing, Packaged, Versions
    <2>3. reply \in [Requests -> Register!Answers]
      BY DEF Init, Register!Unanswered, Register!Answers
    <2>4. QED
      BY <1>2, <2>1, <2>2, <2>3 DEF TypeOK
  <1>5. OnlyStoredInForce
    BY <1>1 DEF OnlyStoredInForce
  <1>6. OnlyServedHeld
    BY <1>3 DEF Init, OnlyServedHeld, Served, Nothing
  <1>7. FallbackIsCurrent /\ OnlyLoopsAdminister /\ OneHandler
    BY <1>3 DEF FallbackIsCurrent, OnlyLoopsAdminister, OneHandler, Threads
  <1>8. PublishedIsTaken
    BY <1>1 DEF PublishedIsTaken, Register!Published
  <1>9. ContentionNeedsRivals
    BY DEF Init, ContentionNeedsRivals, Register!Unanswered
  <1>10. QED
    BY <1>2, <1>3, <1>4, <1>5, <1>6, <1>7, <1>8, <1>9 DEF PolicyInv, Threads

(* Every step of a container, an administrator or the store keeps the *)
(* invariant.                                                         *)
LEMMA PolicyInvStep == PolicyInv /\ [Next]_vars => PolicyInv'
  <1> SUFFICES ASSUME PolicyInv, [Next]_vars
               PROVE  PolicyInv'
    OBVIOUS
  <1>1. ASSUME NEW t \in Threads, Refresh(t)
        PROVE  PolicyInv'
    BY <1>1, RefreshKeepsInv
  <1>2. ASSUME NEW t \in Loops, Administer(t)
        PROVE  PolicyInv'
    BY <1>2, TakeKeepsInv, QuietAdministration, PublicationKeepsInv,
       ActivationKeepsInv, DropKeepsInv
       DEF Administer
  <1>3. ASSUME NEW c \in Containers, Restart(c)
        PROVE  PolicyInv'
    BY <1>3, RestartKeepsInv
  <1>4. CASE (CatchUp \/ Outage) /\ UNCHANGED << cache, thread, reply >>
    BY <1>4, StoreKeepsInv
  <1>5. CASE UNCHANGED vars
    BY <1>5, StoreKeepsInv DEF vars, storeVars
  <1>6. QED
    BY <1>1, <1>2, <1>3, <1>4, <1>5 DEF Next

(* So it holds of every reachable state. *)
LEMMA PolicyInvariant == Spec => []PolicyInv
  BY PolicyInvInit, PolicyInvStep, PTL DEF Spec

-----------------------------------------------------------------------------
(* Every reachable state of the policy service is well typed. *)
THEOREM TypeCorrect == Spec => []TypeOK
  <1>1. PolicyInv => TypeOK
    BY DEF PolicyInv
  <1>2. QED
    BY <1>1, PolicyInvariant, PTL

(* Whatever a container serves was once put in force, or came with the     *)
(* build: a version that is merely published judges nobody.                *)
THEOREM OnlyActivatedIsServed == Spec => []ServesOnlyActivated
  <1>1. PolicyInv => ServesOnlyActivated
    BY DEF PolicyInv, OnlyServedHeld, Served, PutInForce, ServesOnlyActivated
  <1>2. QED
    BY <1>1, PolicyInvariant, PTL

(* A publication that is reported as lost to contention met a new version  *)
(* at each of its attempts.                                                *)
THEOREM ContentionHasRivals == Spec => []ContentionNeedsRivals
  <1>1. PolicyInv => ContentionNeedsRivals
    BY DEF PolicyInv
  <1>2. QED
    BY <1>1, PolicyInvariant, PTL

-----------------------------------------------------------------------------
(* Without a probe beside the loop, a step that leaves a container degraded *)
(* leaves it with the version it had.                                      *)
LEMMA OnlyFallbackDegrades ==
    ASSUME PolicyInv, NEW c \in Containers, [Next]_vars, ~HasProbe(c)
    PROVE  KeepsVersion(c)
  <1>1. TypeOK /\ cache \in [Containers -> [version : Versions, degraded : BOOLEAN,
                                            known : BOOLEAN]]
    BY DEF PolicyInv, TypeOK
  <1>2. ASSUME NEW d \in Containers, NEW e,
               cache' = [cache EXCEPT ![d] = e],
               e.degraded /\ d = c => e.version = cache[c].version
        PROVE  KeepsVersion(c)
    BY <1>1, <1>2 DEF KeepsVersion
  <1>3. CASE UNCHANGED cache
    BY <1>3 DEF KeepsVersion
  <1>4. ASSUME NEW t \in Threads, Refresh(t)
        PROVE  KeepsVersion(c)
    <2>1. Home(t) \in Containers
      BY HomeIsContainer
    <2>2. ASSUME NEW n, Install(t, Serving(n, FALSE))
          PROVE  KeepsVersion(c)
      <3>1. cache' = [cache EXCEPT ![Home(t)] = Serving(n, FALSE)]
        BY <2>2 DEF Install
      <3>2. ~Serving(n, FALSE).degraded
        BY DEF Serving
      <3>3. QED
        BY <1>2, <2>1, <3>1, <3>2
    <2>3. ASSUME NEW n, Install(t, FallBack(n)), Home(t) = c => n = cache[c].version
          PROVE  KeepsVersion(c)
      <3>1. cache' = [cache EXCEPT ![Home(t)] = FallBack(n)]
        BY <2>3 DEF Install
      <3>2. FallBack(n).version = n
        BY DEF FallBack, Serving
      <3>3. QED
        BY <1>2, <2>1, <2>3, <3>1, <3>2
    <2>4. CASE LookUp(t)
      <3>1. UNCHANGED cache \/ \E n : Install(t, Serving(n, FALSE))
        BY <2>4 DEF LookUp
      <3>2. QED
        BY <1>3, <2>2, <3>1
    <2>5. CASE LookUpFails(t)
      BY <2>3, <2>5 DEF LookUpFails
    <2>6. CASE Fetch(t)
      BY <2>2, <2>6 DEF Fetch
    <2>7. CASE FetchFails(t)
      <3>1. Home(t) = c => thread[t].cached = cache[c].version
        BY <2>7 DEF FetchFails, Fetching, PolicyInv, FallbackIsCurrent
      <3>2. QED
        BY <2>3, <2>7, <3>1 DEF FetchFails
    <2>8. QED
      BY <1>4, <2>4, <2>5, <2>6, <2>7 DEF Refresh
  <1>5. ASSUME NEW t \in Loops, Administer(t)
        PROVE  KeepsVersion(c)
    <2>1. CASE Drop(t)
      <3>1. cache' = [cache EXCEPT ![Home(t)] = Nothing] /\ Home(t) \in Containers
        BY <2>1, HomeIsContainer DEF Drop, Threads
      <3>2. ~Nothing.degraded
        BY DEF Nothing
      <3>3. QED
        BY <1>2, <3>1, <3>2
    <2>2. CASE ~Drop(t)
      <3>1. UNCHANGED cache
        BY <1>5, <2>2 DEF Administer, Take, Number, PutSucceeds, PutUnheard, PutConflicts,
              PointerMoves, PointerMovesUnheard, VersionMissed, RequestFails
      <3>2. QED
        BY <1>3, <3>1
    <2>3. QED
      BY <2>1, <2>2
  <1>6. ASSUME NEW d \in Containers, Restart(d)
        PROVE  KeepsVersion(c)
    <2>1. cache' = [cache EXCEPT ![d] = Nothing]
      BY <1>6 DEF Restart
    <2>2. ~Nothing.degraded
      BY DEF Nothing
    <2>3. QED
      BY <1>2, <2>1, <2>2
  <1>7. QED
    BY <1>3, <1>4, <1>5, <1>6 DEF Next, vars

(* An outage weakens nothing: without a probe beside the loop, a container *)
(* whose refresh fails goes on judging by the bundle it judged by.         *)
THEOREM OutagesKeepThePolicy == Spec => OutageKeepsPolicy
  <1>1. PolicyInv /\ [Next]_vars
           => [\A c \in Containers : ~HasProbe(c) => KeepsVersion(c)]_vars
    BY OnlyFallbackDegrades
  <1>2. QED
    BY <1>1, PolicyInvariant, PTL DEF Spec, OutageKeepsPolicy

-----------------------------------------------------------------------------
(***************************************************************************)
(* The store, its routes and its containers implement the register.  A put *)
(* of the table is the publication or the activation, whether its reply is *)
(* heard or not, and an answer of a handler is the register's answer: what *)
(* the handler knows of its request makes it a true one.                   *)
(***************************************************************************)

(* An answer, with nothing stored, is an answer of the register. *)
LEMMA AnswersAreTrue ==
    ASSUME PolicyInv, NEW t \in Loops, Administering(t),
           UNCHANGED << versions, pointers >>,
           \/ Answer(t, "failed", 0)
           \/ thread[t].step = "activate" /\ ~thread[t].publish /\ Answer(t, "refused", 0)
           \/ thread[t].step = "put" /\ Answer(t, "contended", 0)
           \/ thread[t].step = "drop" /\ Answer(t, "activated", thread[t].version)
    PROVE  Register!RegisterNext
  <1> DEFINE r == thread[t].request
  <1>1. TypeOK /\ OnlyStoredInForce /\ t \in Threads
    BY DEF PolicyInv, Threads
  <1>2. r \in Requests
    BY <1>1, AdminStateFacts
  <1>3. HandlerKnows(t) /\ reply[r].told = "none"
    BY DEF PolicyInv, HandlerKnows
  <1> HIDE DEF r
  <1>4. CASE Answer(t, "failed", 0)
    <2>1. Register!Fail(r)
      BY <1>3, <1>4 DEF Answer, Register!Fail, r
    <2>2. QED
      BY <1>2, <2>1 DEF Register!RegisterNext
  <1>5. CASE thread[t].step = "activate" /\ ~thread[t].publish /\ Answer(t, "refused", 0)
    <2>1. Register!Refuse(r)
      BY <1>3, <1>5 DEF Answer, HandlerKnows, Register!Refuse, r
    <2>2. QED
      BY <1>2, <2>1 DEF Register!RegisterNext
  <1>6. CASE thread[t].step = "put" /\ Answer(t, "contended", 0)
    <2>1. Register!Published(r) => "lost_reply" \in Faults
      BY <1>3, <1>6 DEF HandlerKnows, r
    <2>2. Register!Fail(r)
      BY <1>3, <1>6, <2>1 DEF Answer, Register!Fail, r
    <2>3. QED
      BY <1>2, <2>2 DEF Register!RegisterNext
  <1>7. CASE thread[t].step = "drop" /\ Answer(t, "activated", thread[t].version)
    <2>1. PutInForce(thread[t].version)
      BY <1>3, <1>7 DEF HandlerKnows
    <2>2. thread[t].version \in DOMAIN versions
      BY <1>1, <2>1, ServedIsVersion
    <2>3. Register!ConfirmActive(r, thread[t].version)
      BY <1>3, <1>7, <2>1 DEF Answer, PutInForce, Register!ConfirmActive, r
    <2>4. QED
      BY <1>2, <2>2, <2>3 DEF Register!RegisterNext
  <1>8. QED
    BY <1>4, <1>5, <1>6, <1>7

(* A put of a version gives the document the next number. *)
LEMMA PutsArePublications ==
    ASSUME PolicyInv, NEW t \in Loops, PutSucceeds(t) \/ PutUnheard(t)
    PROVE  Register!RegisterNext
  <1> DEFINE r == thread[t].request
  <1>1. TypeOK /\ OnlyStoredInForce /\ t \in Threads
    BY DEF PolicyInv, Threads
  <1>2. /\ thread[t].step = "put"
        /\ Vacant(thread[t].version)
        /\ PutVersion(r)
    BY DEF PutSucceeds, PutUnheard
  <1>3. Administering(t)
    BY <1>1, <1>2, AdminStateFacts
  <1>4. r \in Requests /\ thread[t].version \in Nat /\ thread[t].attempt \in 1 .. MaxPublishAttempts
    BY <1>1, <1>3, AdminStateFacts
  <1>5. HandlerKnows(t) /\ reply[r].told = "none"
    BY <1>3 DEF PolicyInv, HandlerKnows
  <1>6. DOMAIN versions = 1 .. Len(versions) /\ Len(versions) \in Nat
    BY <1>1, ServedIsVersion
  <1>7. thread[t].version = Len(versions) + 1
    BY <1>2, <1>4, <1>5, <1>6 DEF HandlerKnows, Vacant
  <1>8. Register!Published(r) => "lost_reply" \in Faults
    BY <1>2, <1>5 DEF HandlerKnows
  <1>9. UNCHANGED reply \/ Register!Tell(r, "published", Len(versions) + 1)
    <2>1. CASE PutSucceeds(t) /\ ~thread[t].activate
      BY <1>7, <2>1 DEF PutSucceeds, Answer
    <2>2. CASE PutSucceeds(t) /\ thread[t].activate
      BY <2>2 DEF PutSucceeds
    <2>3. CASE PutUnheard(t)
      BY <2>3 DEF PutUnheard
    <2>4. QED
      BY <2>1, <2>2, <2>3
  <1> HIDE DEF r
  <1>10. Register!Publish(r)
    BY <1>2, <1>5, <1>8, <1>9 DEF PutVersion, Register!Publish
  <1>11. QED
    BY <1>4, <1>10 DEF Register!RegisterNext

(* A container that restarts fails the one request it may have in hand. *)
LEMMA RestartsFail ==
    ASSUME PolicyInv, NEW c \in Containers, Restart(c)
    PROVE  [Register!RegisterNext]_(Register!registerVars)
  <1>1. TypeOK /\ reply \in [Requests -> Register!Answers]
    BY DEF PolicyInv, TypeOK
  <1>2. /\ UNCHANGED << versions, pointers >>
        /\ reply' = [r \in Requests |->
              IF \E t \in Loops : Home(t) = c /\ Handles(t, r)
              THEN [told |-> "failed", number |-> 0] ELSE reply[r]]
    BY DEF Restart, storeVars
  <1>3. \A t \in Loops : \A r : Handles(t, r) <=> Administering(t) /\ thread[t].request = r
    BY <1>1, HandlesIs DEF Threads
  <1>4. CASE \E t \in Loops : Home(t) = c /\ Administering(t)
    <2>1. PICK t \in Loops : Home(t) = c /\ Administering(t)
      BY <1>4
    <2>2. \A u \in Loops : Home(u) = c => u = t
      BY <2>1, ThreadsAssumption
    <2>3. thread[t].request \in Requests /\ reply[thread[t].request].told = "none"
      BY <1>1, <2>1, AdminStateFacts DEF PolicyInv, HandlerKnows, Threads
    <2>4. \A r \in Requests :
              (\E u \in Loops : Home(u) = c /\ Handles(u, r)) <=> r = thread[t].request
      BY <1>3, <2>1, <2>2
    <2>5. reply' = [reply EXCEPT ![thread[t].request] = [told |-> "failed", number |-> 0]]
      BY <1>1, <1>2, <2>3, <2>4
    <2>6. Register!Fail(thread[t].request)
      BY <1>2, <2>3, <2>5 DEF Register!Fail, Register!Tell
    <2>7. QED
      BY <2>3, <2>6 DEF Register!RegisterNext
  <1>5. CASE ~\E t \in Loops : Home(t) = c /\ Administering(t)
    <2>1. reply' = reply
      BY <1>1, <1>2, <1>3, <1>5
    <2>2. QED
      BY <1>2, <2>1 DEF Register!registerVars
  <1>6. QED
    BY <1>4, <1>5

(* Every step is a step of the register, or leaves it as it is. *)
LEMMA RegisterStep ==
    PolicyInv /\ [Next]_vars => [Register!RegisterNext]_(Register!registerVars)
  <1> SUFFICES ASSUME PolicyInv, [Next]_vars
               PROVE  [Register!RegisterNext]_(Register!registerVars)
    OBVIOUS
  <1>1. TypeOK /\ OnlyStoredInForce
    BY DEF PolicyInv
  <1>2. CASE UNCHANGED << versions, pointers, reply >>
    BY <1>2 DEF Register!registerVars
  <1>3. ASSUME NEW t \in Threads, Refresh(t)
        PROVE  UNCHANGED << versions, pointers, reply >>
    BY <1>3, RefreshDoes
  <1>4. ASSUME NEW t \in Loops, Administer(t)
        PROVE  [Register!RegisterNext]_(Register!registerVars)
    <2>1. ASSUME NEW r \in Requests, Take(t, r)
          PROVE  [Register!RegisterNext]_(Register!registerVars)
      <3>1. UNCHANGED << versions, pointers >> /\ Unasked(r)
        BY <2>1 DEF Take, IsNext, storeVars
      <3>2. CASE UNCHANGED reply
        BY <1>2, <3>1, <3>2
      <3>3. CASE Register!Tell(r, "refused", 0)
        <4>1. Register!Refuse(r)
          BY <3>1, <3>3, UnaskedFacts DEF Register!Refuse
        <4>2. QED
          BY <4>1 DEF Register!RegisterNext
      <3>4. QED
        BY <2>1, <3>2, <3>3 DEF Take
    <2>2. CASE Number(t)
      BY <1>2, <2>2 DEF Number, storeVars
    <2>3. CASE PutSucceeds(t) \/ PutUnheard(t)
      BY <2>3, PutsArePublications
    <2>4. CASE PutConflicts(t)
      <3>1. /\ UNCHANGED << versions, pointers >>
            /\ thread[t].step = "put"
            /\ UNCHANGED reply \/ Answer(t, "contended", 0)
        BY <2>4 DEF PutConflicts, RetryOrGiveUp, storeVars
      <3>2. Administering(t)
        BY <1>1, <3>1, AdminStateFacts DEF Threads
      <3>3. QED
        BY <1>2, <3>1, <3>2, AnswersAreTrue
    <2>5. CASE PointerMoves(t) \/ PointerMovesUnheard(t)
      <3>1. /\ thread[t].version \in DOMAIN versions
            /\ PutPointer(thread[t].version)
            /\ UNCHANGED reply
        BY <2>5 DEF PointerMoves, PointerMovesUnheard, MayFind
      <3>2. Register!Activate(thread[t].version)
        BY <3>1 DEF PutPointer, Register!Activate
      <3>3. QED
        BY <3>1, <3>2 DEF Register!RegisterNext
    <2>6. CASE VersionMissed(t)
      <3>1. /\ UNCHANGED << versions, pointers >>
            /\ thread[t].step = "activate"
            /\ \/ Answer(t, "failed", 0)
               \/ ~thread[t].publish /\ Answer(t, "refused", 0)
        BY <2>6 DEF VersionMissed, storeVars
      <3>2. Administering(t)
        BY <1>1, <3>1, AdminStateFacts DEF Threads
      <3>3. QED
        BY <3>1, <3>2, AnswersAreTrue
    <2>7. CASE Drop(t)
      <3>1. /\ UNCHANGED << versions, pointers >>
            /\ thread[t].step = "drop"
            /\ Answer(t, "activated", thread[t].version)
        BY <2>7 DEF Drop, storeVars
      <3>2. Administering(t)
        BY <1>1, <3>1, AdminStateFacts DEF Threads
      <3>3. QED
        BY <3>1, <3>2, AnswersAreTrue
    <2>8. CASE RequestFails(t)
      <3>1. UNCHANGED << versions, pointers >> /\ Answer(t, "failed", 0)
        BY <2>8 DEF RequestFails, storeVars
      <3>2. Administering(t)
        BY <1>1, <2>8, AdminStateFacts DEF RequestFails, Threads
      <3>3. QED
        BY <3>1, <3>2, AnswersAreTrue
    <2>9. QED
      BY <1>4, <2>1, <2>2, <2>3, <2>4, <2>5, <2>6, <2>7, <2>8 DEF Administer
  <1>5. ASSUME NEW c \in Containers, Restart(c)
        PROVE  [Register!RegisterNext]_(Register!registerVars)
    BY <1>5, RestartsFail
  <1>6. CASE (CatchUp \/ Outage) /\ UNCHANGED << cache, thread, reply >>
    BY <1>2, <1>6 DEF CatchUp, Outage
  <1>7. CASE UNCHANGED vars
    BY <1>2, <1>7 DEF vars
  <1>8. QED
    BY <1>2, <1>3, <1>4, <1>5, <1>6, <1>7 DEF Next

(* No number is given twice, only a stored version comes into force, and   *)
(* every request is told the truth, through lagging replicas, contention,  *)
(* outages, lost replies and restarts.                                     *)
THEOREM ServiceImplementsRegister == Spec => ImplementsRegister
  <1>1. Init => Register!RegisterInit
    BY DEF Init, StoreInit, Register!RegisterInit
  <1>2. QED
    BY <1>1, RegisterStep, PolicyInvariant, PTL
       DEF Spec, ImplementsRegister, Register!RegisterSpec

=============================================================================
