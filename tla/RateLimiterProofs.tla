------------------------- MODULE RateLimiterProofs -------------------------
(***************************************************************************)
(* Proofs about RateLimiter for every key table, every number of tenants   *)
(* the table of buckets holds, and every rate and burst.                   *)
(***************************************************************************)
EXTENDS RateLimiter, FiniteSetTheorems, SequenceTheorems, TLAPS

LimiterSpec == LimiterInit /\ [][LimiterNext]_limiterVars

-----------------------------------------------------------------------------
(***************************************************************************)
(* The inductive invariant.  What a tenant was admitted for in a stretch   *)
(* of time, and what its bucket still holds, are paid for by the bursts it *)
(* was given in it and by its rate: an eviction hands out a burst, and     *)
(* only an eviction does.                                                  *)
(***************************************************************************)
LimiterTypes ==
    /\ setting \in [perMinute : Nat, burst : Nat]
    /\ clock \in Nat \ {0}
    /\ \A t \in DOMAIN buckets : buckets[t].tokens \in Nat /\ buckets[t].at \in 0 .. clock
    /\ comeBack \in [Tenants -> Nat]
    /\ log \in Seq(Range(log))
    /\ \A i \in DOMAIN log : log[i].at \in 0 .. clock

PaidFor ==
    ~Disabled => \A t \in Tenants, since \in 1 .. clock :
       Token * Count("admitted", t, since) + Refilled(t) <=
          Burst * (1 + Count("evicted", t, since)) + setting.perMinute * (clock - since)

(* Who was told when to come back has not been served since. *)
ToldInTime ==
    \A t \in Tenants :
       comeBack[t] # 0 =>
          /\ ~Disabled
          /\ ~Fresh(t) => /\ buckets[t].tokens < Token
                          /\ comeBack[t] = buckets[t].at + RetryAfter(buckets[t].tokens)

LimiterInv == LimiterTypes /\ PaidFor /\ ToldInTime

-----------------------------------------------------------------------------
(***************************************************************************)
(* Arithmetic of buckets.                                                  *)
(***************************************************************************)

(* More seconds at a rate are no fewer tokens. *)
LEMMA Grows ==
    ASSUME NEW a \in Nat, NEW b \in Nat, NEW r \in Nat, a <= b
    PROVE  a * r \in Nat /\ a * r <= b * r
  OBVIOUS

(* The quotient of a division is rounded down. *)
LEMMA RoundedDown ==
    ASSUME NEW a \in Nat, NEW b \in Nat \ {0}
    PROVE  a \div b \in Nat /\ a < b * ((a \div b) + 1)
  OBVIOUS

(* Every configuration has a burst. *)
LEMMA BurstIs ==
    ASSUME setting \in [perMinute : Nat, burst : Nat]
    PROVE  Burst \in Nat
  <1>1. setting.perMinute \in Nat /\ setting.burst \in Nat
    OBVIOUS
  <1>2. CASE setting.burst # 0
    BY <1>1, <1>2 DEF Burst
  <1>3. CASE setting.burst = 0 /\ 5 * setting.perMinute > 10 * Token
    <2>1. Burst = 5 * setting.perMinute
      BY <1>3 DEF Burst
    <2>2. QED
      BY <1>1, <2>1
  <1>4. CASE setting.burst = 0 /\ ~(5 * setting.perMinute > 10 * Token)
    <2>1. Burst = 10 * Token
      BY <1>4 DEF Burst
    <2>2. QED
      BY <2>1 DEF Token
  <1>5. QED
    BY <1>2, <1>3, <1>4

(* A bucket never holds more than a burst. *)
LEMMA RefilledIs ==
    ASSUME LimiterTypes, NEW t
    PROVE  /\ Burst \in Nat
           /\ Refilled(t) \in Nat /\ Refilled(t) <= Burst
           /\ Fresh(t) => Refilled(t) = Burst
           /\ ~Fresh(t) =>
                 LET filled == buckets[t].tokens + (clock - buckets[t].at) * setting.perMinute
                 IN  filled \in Nat /\ (Refilled(t) = filled \/ (filled > Burst /\ Refilled(t) = Burst))
  <1>1. Burst \in Nat /\ setting.perMinute \in Nat /\ clock \in Nat
    BY BurstIs DEF LimiterTypes
  <1>2. CASE Fresh(t)
    BY <1>1, <1>2 DEF Refilled
  <1>3. CASE ~Fresh(t)
    <2> DEFINE elapsed == clock - buckets[t].at
               filled == buckets[t].tokens + elapsed * setting.perMinute
    <2>1. buckets[t].tokens \in Nat /\ elapsed \in Nat
      BY <1>1, <1>3 DEF LimiterTypes, Fresh
    <2>2. elapsed * setting.perMinute \in Nat
      BY <1>1, <2>1, Grows
    <2>3. filled \in Nat
      BY <2>1, <2>2
    <2>4. Refilled(t) = IF filled > Burst THEN Burst ELSE filled
      BY <1>3 DEF Refilled
    <2> HIDE DEF filled
    <2>5. QED
      BY <1>1, <1>3, <2>3, <2>4 DEF filled
  <1>4. QED
    BY <1>2, <1>3

(* A tenant that waits as long as it was told has a token by then.  The     *)
(* header is rounded up by 0.999 only, which would fall short for a rate of *)
(* more than a thousand, if it were not one second at least.                *)
LEMMA RetrySuffices ==
    ASSUME NEW tokens \in Nat, tokens < Token,
           setting.perMinute \in Nat, setting.perMinute # 0,
           NEW elapsed \in Nat, elapsed >= RetryAfter(tokens)
    PROVE  tokens + elapsed * setting.perMinute >= Token
  <1> DEFINE rate == setting.perMinute
             deficit == Token - tokens
             seconds == (1000 * deficit + 999 * rate) \div (1000 * rate)
  <1>1. rate \in Nat /\ rate > 0 /\ deficit \in 1 .. 60
    BY DEF Token
  <1>2. seconds \in Nat /\ 1000 * deficit + 999 * rate < (1000 * rate) * (seconds + 1)
    <2> DEFINE a == 1000 * deficit + 999 * rate
               b == 1000 * rate
    <2>1. a \in Nat /\ b \in Nat \ {0}
      BY <1>1
    <2> HIDE DEF a, b
    <2>2. a \div b \in Nat /\ a < b * ((a \div b) + 1)
      BY <2>1, RoundedDown
    <2>3. QED
      BY <2>2 DEF a, b
  <1>3. elapsed >= 1 /\ elapsed >= seconds
    <2>1. RetryAfter(tokens) = IF seconds < 1 THEN 1 ELSE seconds
      BY DEF RetryAfter
    <2>2. QED
      BY <1>2, <2>1
  <1> HIDE DEF rate, deficit, seconds
  <1>4. elapsed * rate >= deficit
    <2>1. CASE rate >= 60
      <3>1. 1 * rate <= elapsed * rate
        BY <1>1, <1>3, Grows
      <3>2. QED
        BY <1>1, <2>1, <3>1
    <2>2. CASE rate < 60
      <3>1. seconds * rate <= elapsed * rate
        BY <1>1, <1>2, <1>3, Grows
      <3>2. (1000 * rate) * (seconds + 1) = 1000 * (seconds * rate) + 1000 * rate
        BY <1>1, <1>2
      <3>3. elapsed * rate \in Nat /\ seconds * rate \in Nat
        BY <1>1, <1>2, Grows
      <3>4. QED
        BY <1>1, <1>2, <2>2, <3>1, <3>2, <3>3
    <2>3. QED
      BY <1>1, <2>1, <2>2
  <1>5. elapsed * rate \in Nat
    BY <1>1, Grows
  <1>6. QED
    BY <1>4, <1>5 DEF rate, deficit, Token

-----------------------------------------------------------------------------
(***************************************************************************)
(* The log.                                                                *)
(***************************************************************************)
Matching(l, what, tenant, since) ==
    {i \in DOMAIN l : l[i].what = what /\ l[i].tenant = tenant /\ l[i].at >= since}

Tally(l, what, tenant, since) == Cardinality(Matching(l, what, tenant, since))

(* An entry at the end of a log counts once, if at all. *)
LEMMA OneMore ==
    ASSUME NEW S, NEW l \in Seq(S), NEW e \in S, NEW what, NEW tenant, NEW since
    PROVE  /\ Tally(l, what, tenant, since) \in Nat
           /\ e.what = what /\ e.tenant = tenant /\ e.at >= since =>
                 Tally(l \o << e >>, what, tenant, since) = Tally(l, what, tenant, since) + 1
           /\ ~(e.what = what /\ e.tenant = tenant /\ e.at >= since) =>
                 Tally(l \o << e >>, what, tenant, since) = Tally(l, what, tenant, since)
  <1> DEFINE m == Matching(l, what, tenant, since)
             n == Len(l) + 1
             grown == l \o << e >>
  <1>1. /\ Len(l) \in Nat /\ DOMAIN l = 1 .. Len(l)
        /\ << e >> \in Seq(S) /\ Len(<< e >>) = 1 /\ << e >>[1] = e
    BY LenProperties
  <1>2. /\ grown \in Seq(S) /\ Len(grown) = n
        /\ \A i \in 1 .. n : grown[i] = IF i <= Len(l) THEN l[i] ELSE << e >>[i - Len(l)]
    BY <1>1, ConcatProperties
  <1>3. DOMAIN grown = 1 .. n
    BY <1>2, LenProperties
  <1>4. \A i \in 1 .. Len(l) : grown[i] = l[i]
    BY <1>1, <1>2
  <1>5. grown[n] = e
    BY <1>1, <1>2
  <1>6. IsFiniteSet(m) /\ Cardinality(m) \in Nat /\ n \notin m
    <2>1. m \in SUBSET (1 .. Len(l))
      BY <1>1 DEF Matching
    <2>2. IsFiniteSet(1 .. Len(l))
      BY <1>1, FS_Interval
    <2>3. QED
      BY <1>1, <2>1, <2>2, FS_Subset, FS_CardinalityType
  <1>7. Matching(grown, what, tenant, since) =
           IF e.what = what /\ e.tenant = tenant /\ e.at >= since THEN m \cup {n} ELSE m
    BY <1>1, <1>3, <1>4, <1>5 DEF Matching
  <1>8. Cardinality(m \cup {n}) = Cardinality(m) + 1
    BY <1>6, FS_AddElement
  <1>9. QED
    BY <1>6, <1>7, <1>8 DEF Tally

(* A count is a number, and none is of entries that are yet to come. *)
LEMMA CountIs ==
    ASSUME LimiterTypes, NEW what, NEW tenant, NEW since
    PROVE  /\ Count(what, tenant, since) = Cardinality(Matching(log, what, tenant, since))
           /\ Count(what, tenant, since) \in Nat
           /\ since = clock + 1 => Count(what, tenant, since) = 0
  <1>1. Count(what, tenant, since) = Cardinality(Matching(log, what, tenant, since))
    BY DEF Count, Matching
  <1>2. log \in Seq(Range(log)) /\ Len(log) \in Nat /\ DOMAIN log = 1 .. Len(log)
    BY LenProperties DEF LimiterTypes
  <1>3. Count(what, tenant, since) \in Nat
    <2>1. Matching(log, what, tenant, since) \in SUBSET (1 .. Len(log))
      BY <1>2 DEF Matching
    <2>2. IsFiniteSet(1 .. Len(log))
      BY <1>2, FS_Interval
    <2>3. QED
      BY <1>1, <2>1, <2>2, FS_Subset, FS_CardinalityType
  <1>4. ASSUME since = clock + 1
        PROVE  Count(what, tenant, since) = 0
    <2>1. Matching(log, what, tenant, since) = {}
      BY <1>4 DEF Matching, LimiterTypes
    <2>2. QED
      BY <1>1, <2>1, FS_EmptySet
  <1>5. QED
    BY <1>1, <1>3, <1>4

(* What a served request, and an eviction, leave in the log. *)
LEMMA LoggedIs ==
    ASSUME LimiterTypes, NEW u, NEW verdict \in {"admitted", "refused"},
           Logged(verdict, u)
    PROVE  LET e == Entry(verdict, u)
               v == Entry("evicted", Head(recent))
               S == Range(log) \cup {e, v}
           IN  /\ log \in Seq(S) /\ log \o << v >> \in Seq(S)
               /\ Evicted(u) = {} => log' = log \o << e >>
               /\ Evicted(u) # {} => log' = (log \o << v >>) \o << e >>
               /\ log' \in Seq(S)
  <1> DEFINE e == Entry(verdict, u)
             v == Entry("evicted", Head(recent))
             S == Range(log) \cup {e, v}
  <1>1. log \in Seq(S)
    <2>1. log \in Seq(Range(log)) /\ Range(log) \subseteq S
      BY DEF LimiterTypes
    <2>2. QED
      BY <2>1, SeqMonotonic
  <1>2. << e >> \in Seq(S) /\ << v >> \in Seq(S)
    <2>1. e \in S /\ v \in S
      OBVIOUS
    <2> HIDE DEF e, v, S
    <2>2. QED
      BY <2>1
  <1>3. log \o << v >> \in Seq(S)
    BY <1>1, <1>2, ConcatProperties
  <1>4. log' = log \o (IF Evicted(u) = {} THEN << >> ELSE << v >>) \o << e >>
    BY DEF Logged
  <1>5. log \o << >> = log
    BY <1>1, ConcatEmptySeq
  <1> HIDE DEF e, v, S
  <1>6. /\ Evicted(u) = {} => log' = log \o << e >>
        /\ Evicted(u) # {} => log' = (log \o << v >>) \o << e >>
    BY <1>4, <1>5
  <1>7. log' \in Seq(S)
    <2>1. log \o << e >> \in Seq(S) /\ (log \o << v >>) \o << e >> \in Seq(S)
      BY <1>1, <1>2, <1>3, ConcatProperties
    <2>2. QED
      BY <1>6, <2>1
  <1>8. QED
    BY <1>1, <1>3, <1>6, <1>7 DEF e, v, S

(* The counts of a stretch of time that has begun, after a request is served. *)
LEMMA LoggedCounts ==
    ASSUME LimiterTypes, NEW u, NEW verdict \in {"admitted", "refused"},
           Logged(verdict, u), NEW t, NEW since \in 1 .. clock
    PROVE  /\ Count("admitted", t, since)' = Count("admitted", t, since)
                  + (IF verdict = "admitted" /\ t = u THEN 1 ELSE 0)
           /\ Count("evicted", t, since)' = Count("evicted", t, since)
                  + (IF t \in Evicted(u) THEN 1 ELSE 0)
  <1> DEFINE e == Entry(verdict, u)
             v == Entry("evicted", Head(recent))
             S == Range(log) \cup {e, v}
  <1>1. /\ log \in Seq(S) /\ log \o << v >> \in Seq(S)
        /\ Evicted(u) = {} => log' = log \o << e >>
        /\ Evicted(u) # {} => log' = (log \o << v >>) \o << e >>
    BY LoggedIs
  <1>2. /\ e.what = verdict /\ e.tenant = u /\ e.at >= since
        /\ v.what = "evicted" /\ v.tenant = Head(recent) /\ v.at >= since
    BY DEF Entry, LimiterTypes
  <1>3. e \in S /\ v \in S
    OBVIOUS
  <1> HIDE DEF e, v, S
  <1>4. /\ Tally(log, "admitted", t, since) \in Nat
        /\ Tally(log, "evicted", t, since) \in Nat
    BY <1>1, <1>3, OneMore
  <1>5. ASSUME NEW l \in Seq(S)
        PROVE  /\ Tally(l \o << e >>, "admitted", t, since) =
                     Tally(l, "admitted", t, since) + (IF verdict = "admitted" /\ t = u THEN 1 ELSE 0)
               /\ Tally(l \o << e >>, "evicted", t, since) = Tally(l, "evicted", t, since)
    <2>1. Tally(l, "admitted", t, since) \in Nat /\ Tally(l, "evicted", t, since) \in Nat
      BY <1>3, OneMore
    <2>2. CASE verdict = "admitted" /\ t = u
      <3>1. Tally(l \o << e >>, "admitted", t, since) = Tally(l, "admitted", t, since) + 1
        BY <1>2, <1>3, <2>2, OneMore
      <3>2. Tally(l \o << e >>, "evicted", t, since) = Tally(l, "evicted", t, since)
        BY <1>2, <1>3, <2>2, OneMore
      <3>3. QED
        BY <2>2, <3>1, <3>2
    <2>3. CASE ~(verdict = "admitted" /\ t = u)
      <3>1. Tally(l \o << e >>, "admitted", t, since) = Tally(l, "admitted", t, since)
        BY <1>2, <1>3, <2>3, OneMore
      <3>2. Tally(l \o << e >>, "evicted", t, since) = Tally(l, "evicted", t, since)
        BY <1>2, <1>3, OneMore
      <3>3. QED
        BY <2>1, <2>3, <3>1, <3>2
    <2>4. QED
      BY <2>2, <2>3
  <1>6. /\ Tally(log \o << v >>, "admitted", t, since) = Tally(log, "admitted", t, since)
        /\ t = Head(recent) =>
              Tally(log \o << v >>, "evicted", t, since) = Tally(log, "evicted", t, since) + 1
        /\ t # Head(recent) =>
              Tally(log \o << v >>, "evicted", t, since) = Tally(log, "evicted", t, since)
    BY <1>1, <1>2, <1>3, OneMore
  <1>7. /\ Count("admitted", t, since) = Tally(log, "admitted", t, since)
        /\ Count("admitted", t, since)' = Tally(log', "admitted", t, since)
        /\ Count("evicted", t, since) = Tally(log, "evicted", t, since)
        /\ Count("evicted", t, since)' = Tally(log', "evicted", t, since)
    BY DEF Count, Tally, Matching
  <1>8. CASE Evicted(u) = {}
    <2>1. log' = log \o << e >> /\ t \notin Evicted(u)
      BY <1>1, <1>8
    <2>2. Tally(log', "admitted", t, since) =
             Tally(log, "admitted", t, since) + (IF verdict = "admitted" /\ t = u THEN 1 ELSE 0)
      BY <1>1, <1>5, <2>1
    <2>3. Tally(log', "evicted", t, since) = Tally(log, "evicted", t, since)
      BY <1>1, <1>5, <2>1
    <2>4. QED
      BY <1>4, <1>7, <2>1, <2>2, <2>3
  <1>9. CASE Evicted(u) # {}
    <2>1. Evicted(u) = {Head(recent)}
      BY <1>9 DEF Evicted
    <2>2. Tally(log', "admitted", t, since) =
             Tally(log, "admitted", t, since) + (IF verdict = "admitted" /\ t = u THEN 1 ELSE 0)
      BY <1>1, <1>5, <1>6, <1>9
    <2>3. Tally(log', "evicted", t, since) =
             Tally(log, "evicted", t, since) + (IF t = Head(recent) THEN 1 ELSE 0)
      <3>1. Tally(log', "evicted", t, since) = Tally(log \o << v >>, "evicted", t, since)
        BY <1>1, <1>5, <1>9
      <3>2. QED
        BY <1>4, <1>6, <3>1
    <2>4. QED
      BY <1>7, <2>1, <2>2, <2>3
  <1>10. QED
    BY <1>8, <1>9

-----------------------------------------------------------------------------
(***************************************************************************)
(* A request that is served, whatever its verdict.                         *)
(***************************************************************************)
Charge(verdict) == IF verdict = "admitted" THEN Token ELSE 0

Served(u, verdict) ==
    /\ ~Disabled
    /\ Charge(verdict) <= Refilled(u)
    /\ Store(u, Refilled(u) - Charge(verdict))
    /\ Logged(verdict, u)
    /\ UNCHANGED << setting, clock >>

(* What the buckets hold afterwards: who was evicted has a burst to come. *)
LEMMA ServedRefilled ==
    ASSUME LimiterTypes, NEW u, NEW verdict \in {"admitted", "refused"}, Served(u, verdict), NEW t
    PROVE  /\ Burst' = Burst /\ Refilled(u) - Charge(verdict) \in Nat
           /\ t \in Evicted(u) => Fresh(t)' /\ Refilled(t)' = Burst
           /\ t \notin Evicted(u) /\ t = u =>
                 /\ ~Fresh(t)'
                 /\ buckets'[t] = [tokens |-> Refilled(u) - Charge(verdict), at |-> clock]
                 /\ Refilled(t)' = Refilled(u) - Charge(verdict)
           /\ t \notin Evicted(u) /\ t # u =>
                 /\ Fresh(t)' <=> Fresh(t)
                 /\ ~Fresh(t) => buckets'[t] = buckets[t]
                 /\ Refilled(t)' = Refilled(t)
  <1> DEFINE left == Refilled(u) - Charge(verdict)
  <1>1. Burst' = Burst
    BY DEF Served, Burst
  <1>2. /\ Burst \in Nat /\ Refilled(u) \in Nat /\ Refilled(u) <= Burst
        /\ clock \in Nat /\ setting.perMinute \in Nat /\ setting.perMinute' = setting.perMinute
        /\ clock' = clock
    BY RefilledIs DEF LimiterTypes, Served
  <1>3. left \in Nat /\ left <= Burst
    BY <1>2 DEF Served, Charge, Token
  <1> HIDE DEF left
  <1>4. buckets' = [w \in (DOMAIN buckets \cup {u}) \ Evicted(u) |->
                       IF w = u THEN [tokens |-> left, at |-> clock] ELSE buckets[w]]
    BY DEF Served, Store, left
  <1>5. CASE t \in Evicted(u)
    <2>1. Fresh(t)'
      BY <1>4, <1>5 DEF Fresh
    <2>2. Refilled(t)' = Burst'
      BY <2>1 DEF Refilled
    <2>3. QED
      BY <1>1, <1>3, <1>5, <2>1, <2>2 DEF left
  <1>6. CASE t \notin Evicted(u) /\ t = u
    <2>1. ~Fresh(t)' /\ buckets'[t] = [tokens |-> left, at |-> clock]
      BY <1>4, <1>6 DEF Fresh
    <2>2. buckets'[t].tokens + (clock' - buckets'[t].at) * setting.perMinute' = left
      <3>1. buckets'[t].tokens = left /\ clock' - buckets'[t].at = 0
        BY <1>2, <2>1
      <3>2. 0 * setting.perMinute' = 0
        BY <1>2
      <3>3. QED
        BY <1>3, <3>1, <3>2
    <2>3. Refilled(t)' = left
      BY <1>1, <1>2, <1>3, <2>1, <2>2 DEF Refilled
    <2>4. QED
      BY <1>1, <1>3, <1>6, <2>1, <2>3 DEF left
  <1>7. CASE t \notin Evicted(u) /\ t # u
    <2>1. Fresh(t)' <=> Fresh(t)
      BY <1>4, <1>7 DEF Fresh
    <2>2. ~Fresh(t) => buckets'[t] = buckets[t]
      BY <1>4, <1>7 DEF Fresh
    <2>3. Refilled(t)' = Refilled(t)
      BY <1>1, <1>2, <2>1, <2>2 DEF Refilled
    <2>4. QED
      BY <1>1, <1>3, <1>7, <2>1, <2>2, <2>3 DEF left
  <1>8. QED
    BY <1>5, <1>6, <1>7

(* The types of the tables, and of the log. *)
LEMMA ServedKeepsTypes ==
    ASSUME LimiterTypes, NEW u \in Tenants, NEW verdict \in {"admitted", "refused"},
           Served(u, verdict), comeBack' \in [Tenants -> Nat]
    PROVE  LimiterTypes'
  <1>1. /\ setting' = setting /\ clock' = clock
        /\ setting \in [perMinute : Nat, burst : Nat] /\ clock \in Nat \ {0}
    BY DEF Served, LimiterTypes
  <1>2. ASSUME NEW t \in DOMAIN buckets'
        PROVE  buckets'[t].tokens \in Nat /\ buckets'[t].at \in 0 .. clock
    <2>1. ~Fresh(t)'
      BY <1>2 DEF Fresh
    <2>2. CASE t = u
      <3>1. t \notin Evicted(u)
        BY <1>2, <2>2 DEF Served, Store
      <3>2. /\ buckets'[t] = [tokens |-> Refilled(u) - Charge(verdict), at |-> clock]
            /\ Refilled(u) - Charge(verdict) \in Nat
        BY <2>2, <3>1, ServedRefilled
      <3>3. QED
        BY <1>1, <3>2
    <2>3. CASE t # u
      <3>1. ~Fresh(t) /\ buckets'[t] = buckets[t]
        BY <2>1, <2>3, ServedRefilled
      <3>2. QED
        BY <3>1 DEF LimiterTypes, Fresh
    <2>4. QED
      BY <2>2, <2>3
  <1> DEFINE e == Entry(verdict, u)
             v == Entry("evicted", Head(recent))
             S == Range(log) \cup {e, v}
  <1>3. Logged(verdict, u)
    BY DEF Served
  <1>4. log' \in Seq(S)
    BY <1>3, LoggedIs
  <1>5. \A s \in S : s.at \in 0 .. clock
    <2>1. \A s \in Range(log) : s.at \in 0 .. clock
      BY DEF LimiterTypes, Range
    <2>2. e.at = clock /\ v.at = clock
      BY DEF Entry
    <2>3. QED
      BY <1>1, <2>1, <2>2
  <1> HIDE DEF S
  <1>6. log' \in Seq(Range(log')) /\ \A i \in DOMAIN log' : log'[i] \in S
    BY <1>4, SeqOfRange, LenProperties, ElementOfSeq
  <1>7. QED
    BY <1>1, <1>2, <1>5, <1>6 DEF LimiterTypes

(* What a request takes out of a bucket it has from the bucket's funds, and *)
(* the burst of a tenant that is evicted is one the log accounts for.       *)
LEMMA ServedKeepsPaid ==
    ASSUME LimiterTypes, PaidFor, NEW u \in Tenants, NEW verdict \in {"admitted", "refused"},
           Served(u, verdict)
    PROVE  PaidFor'
  <1>1. setting' = setting /\ clock' = clock /\ ~Disabled /\ Logged(verdict, u)
    BY DEF Served
  <1> SUFFICES ASSUME NEW t \in Tenants, NEW since \in 1 .. clock
               PROVE  Token * Count("admitted", t, since)' + Refilled(t)' <=
                         Burst' * (1 + Count("evicted", t, since)')
                            + setting.perMinute * (clock - since)
    BY <1>1 DEF PaidFor
  <1> DEFINE admitted == Count("admitted", t, since)
             evicted == Count("evicted", t, since)
             earned == setting.perMinute * (clock - since)
             granted == Burst * (1 + evicted)
  <1>2. Token * admitted + Refilled(t) <= granted + earned
    BY <1>1 DEF PaidFor
  <1>3. /\ admitted \in Nat /\ evicted \in Nat /\ Burst \in Nat
        /\ Refilled(t) \in Nat /\ Refilled(u) \in Nat /\ Refilled(t) <= Burst
    BY CountIs, RefilledIs
  <1>4. earned \in Nat
    <2>1. setting.perMinute \in Nat /\ clock - since \in Nat
      BY DEF LimiterTypes
    <2>2. QED
      BY <2>1
  <1>5. granted \in Nat /\ Burst * (1 + (evicted + 1)) = granted + Burst
    BY <1>3
  <1>6. /\ Count("admitted", t, since)' = admitted + (IF verdict = "admitted" /\ t = u THEN 1 ELSE 0)
        /\ Count("evicted", t, since)' = evicted + (IF t \in Evicted(u) THEN 1 ELSE 0)
    BY <1>1, LoggedCounts
  <1>7. Charge(verdict) <= Refilled(u) /\ Charge(verdict) = IF verdict = "admitted" THEN 60 ELSE 0
    BY DEF Served, Charge, Token
  <1>8. /\ Burst' = Burst
        /\ t \in Evicted(u) => Fresh(t)' /\ Refilled(t)' = Burst
        /\ t \notin Evicted(u) /\ t = u => Refilled(t)' = Refilled(t) - Charge(verdict)
        /\ t \notin Evicted(u) /\ t # u => Refilled(t)' = Refilled(t)
    BY ServedRefilled
  <1>9. Count("admitted", t, since)' \in Nat
    BY <1>3, <1>6
  <1> HIDE DEF admitted, evicted, earned, granted
  <1>10. CASE t \in Evicted(u)
    <2>1. Burst' * (1 + Count("evicted", t, since)') = granted + Burst
      BY <1>3, <1>5, <1>6, <1>8, <1>10
    <2>2. Token * Count("admitted", t, since)' <= granted + earned
      BY <1>2, <1>3, <1>4, <1>5, <1>6, <1>7 DEF Token
    <2>3. QED
      BY <1>3, <1>4, <1>5, <1>8, <1>9, <1>10, <2>1, <2>2 DEF earned, Token
  <1>11. CASE t \notin Evicted(u)
    <2>1. Burst' * (1 + Count("evicted", t, since)') = granted
      BY <1>3, <1>6, <1>8, <1>11 DEF granted
    <2>2. Token * Count("admitted", t, since)' + Refilled(t)' <= granted + earned
      BY <1>2, <1>3, <1>4, <1>5, <1>6, <1>7, <1>8, <1>11 DEF Token
    <2>3. QED
      BY <2>1, <2>2 DEF earned
  <1>12. QED
    BY <1>10, <1>11

(* Nobody who was told when to come back is served without being told anew. *)
LEMMA ServedKeepsTold ==
    ASSUME LimiterTypes, ToldInTime, NEW u \in Tenants, NEW verdict \in {"admitted", "refused"},
           Served(u, verdict),
           verdict = "admitted" => comeBack' = [comeBack EXCEPT ![u] = 0],
           verdict = "refused" =>
              /\ Refilled(u) < Token
              /\ comeBack' = [comeBack EXCEPT ![u] = clock + RetryAfter(Refilled(u))]
    PROVE  ToldInTime'
  <1>1. ~Disabled' /\ setting' = setting
    BY DEF Served, Disabled
  <1> SUFFICES ASSUME NEW t \in Tenants, comeBack'[t] # 0, ~Fresh(t)'
               PROVE  /\ buckets'[t].tokens < Token
                      /\ comeBack'[t] = buckets'[t].at + RetryAfter(buckets[t].tokens)'
    BY <1>1 DEF ToldInTime
  <1>2. \A tokens : RetryAfter(tokens)' = RetryAfter(tokens)
    BY <1>1 DEF RetryAfter
  <1>3. comeBack \in [Tenants -> Nat]
    BY DEF LimiterTypes
  <1>4. t \notin Evicted(u)
    BY DEF Fresh, Served, Store
  <1>5. CASE t = u
    <2>1. verdict = "refused" /\ comeBack'[t] = clock + RetryAfter(Refilled(u)) /\ Refilled(u) < Token
      BY <1>3, <1>5
    <2>2. Refilled(u) - Charge(verdict) = Refilled(u)
      <3>1. Refilled(u) \in Nat /\ Charge(verdict) = 0
        BY <2>1, RefilledIs DEF Charge
      <3>2. QED
        BY <3>1
    <2>3. buckets'[t] = [tokens |-> Refilled(u), at |-> clock]
      BY <1>4, <1>5, <2>2, ServedRefilled
    <2>4. QED
      BY <1>2, <2>1, <2>3
  <1>6. CASE t # u
    <2>1. ~Fresh(t) /\ buckets'[t] = buckets[t]
      BY <1>4, <1>6, ServedRefilled
    <2>2. comeBack'[t] = comeBack[t]
      BY <1>3, <1>6
    <2>3. /\ buckets[t].tokens < Token
          /\ comeBack[t] = buckets[t].at + RetryAfter(buckets[t].tokens)
      BY <2>1, <2>2 DEF ToldInTime
    <2>4. QED
      BY <1>2, <2>1, <2>2, <2>3
  <1>7. QED
    BY <1>5, <1>6

(* A wait that is told is at least a second. *)
LEMMA RetryIs ==
    ASSUME LimiterTypes, ~Disabled, NEW tokens \in Nat, tokens < Token
    PROVE  RetryAfter(tokens) \in Nat
  <1> DEFINE a == 1000 * (Token - tokens) + 999 * setting.perMinute
             b == 1000 * setting.perMinute
  <1>1. a \in Nat /\ b \in Nat \ {0}
    BY DEF LimiterTypes, Disabled, Token
  <1>2. RetryAfter(tokens) = IF a \div b < 1 THEN 1 ELSE a \div b
    BY DEF RetryAfter
  <1> HIDE DEF a, b
  <1>3. a \div b \in Nat
    BY <1>1, RoundedDown
  <1>4. QED
    BY <1>2, <1>3

(* A request that is charged, let in or not. *)
LEMMA ChargedKeepsInv ==
    ASSUME LimiterInv, NEW u \in Tenants, Admit(u) \/ Refuse(u)
    PROVE  LimiterInv'
  <1>1. LimiterTypes /\ PaidFor /\ ToldInTime /\ Refilled(u) \in Nat /\ clock \in Nat
        /\ comeBack \in [Tenants -> Nat]
    BY RefilledIs DEF LimiterInv, LimiterTypes
  <1>2. CASE Admit(u)
    <2>1. Served(u, "admitted") /\ comeBack' = [comeBack EXCEPT ![u] = 0]
      BY <1>1, <1>2 DEF Admit, Served, Charge, Token
    <2>2. comeBack' \in [Tenants -> Nat]
      BY <1>1, <2>1
    <2>3. QED
      BY <1>1, <2>1, <2>2, ServedKeepsTypes, ServedKeepsPaid, ServedKeepsTold DEF LimiterInv
  <1>3. CASE Refuse(u)
    <2>1. /\ ~Disabled /\ Refilled(u) < Token
          /\ comeBack' = [comeBack EXCEPT ![u] = clock + RetryAfter(Refilled(u))]
      BY <1>3 DEF Refuse
    <2>2. Refilled(u) - Charge("refused") = Refilled(u)
      BY <1>1 DEF Charge
    <2>3. Served(u, "refused")
      <3>1. Charge("refused") <= Refilled(u)
        BY <1>1 DEF Charge
      <3>2. QED
        BY <1>3, <2>2, <3>1 DEF Refuse, Served
    <2>4. comeBack' \in [Tenants -> Nat]
      BY <1>1, <2>1, RetryIs
    <2>5. QED
      BY <1>1, <2>1, <2>3, <2>4, ServedKeepsTypes, ServedKeepsPaid, ServedKeepsTold DEF LimiterInv
  <1>4. QED
    BY <1>2, <1>3

-----------------------------------------------------------------------------
(***************************************************************************)
(* The other steps.                                                        *)
(***************************************************************************)

(* A log that grows by an entry of now. *)
LEMMA AppendedIs ==
    ASSUME LimiterTypes, NEW e, e.at = clock, log' = Append(log, e)
    PROVE  /\ log' \in Seq(Range(log'))
           /\ \A i \in DOMAIN log' : log'[i].at \in 0 .. clock
           /\ log \in Seq(Range(log) \cup {e}) /\ log' = log \o << e >>
  <1> DEFINE S == Range(log) \cup {e}
  <1>1. log \in Seq(S)
    <2>1. log \in Seq(Range(log)) /\ Range(log) \subseteq S
      BY DEF LimiterTypes
    <2>2. QED
      BY <2>1, SeqMonotonic
  <1>2. \A s \in S : s.at \in 0 .. clock
    BY DEF LimiterTypes, Range
  <1>3. e \in S
    OBVIOUS
  <1>4. S = Range(log) \cup {e}
    OBVIOUS
  <1> HIDE DEF S
  <1>5. log' \in Seq(S) /\ log' = log \o << e >>
    BY <1>1, <1>3, AppendProperties, AppendIsConcat
  <1>6. log' \in Seq(Range(log')) /\ \A i \in DOMAIN log' : log'[i] \in S
    BY <1>5, SeqOfRange, LenProperties, ElementOfSeq
  <1>7. QED
    BY <1>1, <1>2, <1>4, <1>5, <1>6

(* A request without a key charges nobody. *)
LEMMA UnauthorizedKeepsInv ==
    ASSUME LimiterInv, Unauthorized
    PROVE  LimiterInv'
  <1> DEFINE e == [what |-> "unauthorized", tenant |-> "nobody", at |-> clock]
  <1>1. /\ LimiterTypes /\ log' = Append(log, e)
        /\ UNCHANGED << setting, clock, buckets, recent, comeBack >>
    BY DEF LimiterInv, Unauthorized
  <1>2. /\ log' \in Seq(Range(log'))
        /\ \A i \in DOMAIN log' : log'[i].at \in 0 .. clock
        /\ log \in Seq(Range(log) \cup {e}) /\ log' = log \o << e >>
    BY <1>1, AppendedIs
  <1>3. LimiterTypes'
    BY <1>1, <1>2 DEF LimiterTypes
  <1>4. ASSUME NEW t, NEW since, NEW what \in {"admitted", "evicted"}
        PROVE  Count(what, t, since)' = Count(what, t, since)
    <2>1. e.what # what /\ e \in Range(log) \cup {e}
      OBVIOUS
    <2> HIDE DEF e
    <2>2. Tally(log \o << e >>, what, t, since) = Tally(log, what, t, since)
      BY <1>2, <2>1, OneMore
    <2>3. QED
      BY <1>2, <2>2 DEF Count, Tally, Matching
  <1>5. /\ \A t : Refilled(t)' = Refilled(t) /\ (Fresh(t)' <=> Fresh(t))
        /\ Burst' = Burst /\ (Disabled' <=> Disabled)
        /\ \A tokens : RetryAfter(tokens)' = RetryAfter(tokens)
    BY <1>1 DEF Refilled, Fresh, Burst, Disabled, RetryAfter
  <1>6. PaidFor'
    BY <1>1, <1>4, <1>5 DEF LimiterInv, PaidFor
  <1>7. ToldInTime'
    BY <1>1, <1>5 DEF LimiterInv, ToldInTime
  <1>8. QED
    BY <1>3, <1>6, <1>7 DEF LimiterInv

(* With the limit disabled there are no accounts. *)
LEMMA UnlimitedKeepsInv ==
    ASSUME LimiterInv, NEW u \in Tenants, Unlimited(u)
    PROVE  LimiterInv'
  <1>1. /\ LimiterTypes /\ Disabled /\ log' = Append(log, Entry("admitted", u))
        /\ comeBack' = [comeBack EXCEPT ![u] = 0]
        /\ UNCHANGED << setting, clock, buckets, recent >>
    BY DEF LimiterInv, Unlimited
  <1>2. log' \in Seq(Range(log')) /\ \A i \in DOMAIN log' : log'[i].at \in 0 .. clock
    <2>1. Entry("admitted", u).at = clock
      BY DEF Entry
    <2>2. QED
      BY <1>1, <2>1, AppendedIs
  <1>3. LimiterTypes'
    BY <1>1, <1>2 DEF LimiterTypes
  <1>4. \A t \in Tenants : comeBack[t] = 0
    BY <1>1 DEF LimiterInv, ToldInTime
  <1>5. Disabled' /\ \A t \in Tenants : comeBack'[t] = 0
    BY <1>1, <1>4 DEF Disabled, LimiterTypes
  <1>6. QED
    BY <1>3, <1>5 DEF LimiterInv, PaidFor, ToldInTime

(* A second passes, and a bucket gains no more than the rate. *)
LEMMA TickKeepsInv ==
    ASSUME LimiterInv, ClockTicks
    PROVE  LimiterInv'
  <1>1. /\ LimiterTypes /\ clock' = clock + 1 /\ clock \in Nat \ {0}
        /\ UNCHANGED << setting, buckets, recent, comeBack, log >>
    BY DEF LimiterInv, ClockTicks, LimiterTypes
  <1>2. /\ Burst' = Burst /\ (Disabled' <=> Disabled)
        /\ \A t : Fresh(t)' <=> Fresh(t)
        /\ \A tokens : RetryAfter(tokens)' = RetryAfter(tokens)
        /\ \A what, t, since : Count(what, t, since)' = Count(what, t, since)
    BY <1>1 DEF Burst, Disabled, Fresh, RetryAfter, Count
  <1>3. LimiterTypes'
    BY <1>1 DEF LimiterTypes
  <1>4. ToldInTime'
    BY <1>1, <1>2 DEF LimiterInv, ToldInTime
  <1>5. Burst \in Nat /\ setting.perMinute \in Nat
    BY <1>1, BurstIs DEF LimiterTypes
  <1>6. ASSUME NEW t
        PROVE  Refilled(t)' <= Burst /\ Refilled(t)' <= Refilled(t) + setting.perMinute
               /\ Refilled(t)' \in Nat /\ Refilled(t) \in Nat
    <2>1. Refilled(t) \in Nat /\ Refilled(t) <= Burst
      BY <1>1, RefilledIs
    <2>2. CASE Fresh(t)
      <3>1. Refilled(t) = Burst /\ Refilled(t)' = Burst
        BY <1>2, <2>2 DEF Refilled
      <3>2. QED
        BY <1>5, <3>1
    <2>3. CASE ~Fresh(t)
      <3> DEFINE filled == buckets[t].tokens + (clock - buckets[t].at) * setting.perMinute
                 more == buckets[t].tokens + ((clock + 1) - buckets[t].at) * setting.perMinute
      <3>1. more = filled + setting.perMinute
        <4>1. buckets[t].tokens \in Nat /\ clock - buckets[t].at \in Nat /\ buckets[t].at \in Nat
          BY <1>1, <2>3 DEF LimiterTypes, Fresh
        <4>2. (clock + 1) - buckets[t].at = (clock - buckets[t].at) + 1
          BY <1>1, <4>1
        <4> DEFINE elapsed == clock - buckets[t].at
        <4> HIDE DEF elapsed
        <4>3. (elapsed + 1) * setting.perMinute = elapsed * setting.perMinute + setting.perMinute
              /\ elapsed * setting.perMinute \in Nat
          BY <1>5, <4>1 DEF elapsed
        <4>4. QED
          BY <1>5, <4>1, <4>2, <4>3 DEF elapsed
      <3>2. filled \in Nat /\ (Refilled(t) = filled \/ (filled > Burst /\ Refilled(t) = Burst))
        BY <1>1, <2>3, RefilledIs
      <3>3. Refilled(t)' = IF more > Burst THEN Burst ELSE more
        <4>1. ~Fresh(t)'
          BY <1>2, <2>3
        <4> DEFINE gained == buckets'[t].tokens + (clock' - buckets'[t].at) * setting.perMinute'
        <4>2. Refilled(t)' = IF gained > Burst' THEN Burst' ELSE gained
          BY <4>1 DEF Refilled
        <4>3. buckets' = buckets /\ setting' = setting /\ clock' = clock + 1
          BY <1>1
        <4>4. gained = more
          BY <4>3
        <4> HIDE DEF gained, more
        <4>5. QED
          BY <1>2, <4>2, <4>4
      <3> HIDE DEF filled, more
      <3>4. QED
        BY <1>5, <2>1, <3>1, <3>2, <3>3
    <2>4. QED
      BY <2>2, <2>3
  <1>7. ASSUME ~Disabled, NEW t \in Tenants, NEW since \in 1 .. clock + 1
        PROVE  Token * Count("admitted", t, since) + Refilled(t)' <=
                  Burst * (1 + Count("evicted", t, since))
                     + setting.perMinute * ((clock + 1) - since)
    <2> DEFINE admitted == Count("admitted", t, since)
               evicted == Count("evicted", t, since)
    <2>1. admitted \in Nat /\ evicted \in Nat
      BY <1>1, CountIs
    <2>2. Burst * (1 + evicted) \in Nat /\ Burst <= Burst * (1 + evicted)
      <3>1. Burst * (1 + evicted) = Burst + Burst * evicted /\ Burst * evicted \in Nat
        BY <1>5, <2>1
      <3>2. QED
        BY <1>5, <3>1
    <2> HIDE DEF admitted, evicted
    <2>3. CASE since = clock + 1
      <3>1. admitted = 0 /\ (clock + 1) - since = 0 /\ setting.perMinute * 0 = 0
        BY <1>1, <1>5, <2>3, CountIs DEF admitted
      <3>2. QED
        BY <1>5, <1>6, <2>2, <3>1 DEF admitted, evicted, Token
    <2>4. CASE since \in 1 .. clock
      <3>1. Token * admitted + Refilled(t) <= Burst * (1 + evicted) + setting.perMinute * (clock - since)
        BY <1>7, <2>4 DEF LimiterInv, PaidFor, admitted, evicted
      <3>2. setting.perMinute * ((clock + 1) - since) = setting.perMinute * (clock - since) + setting.perMinute
            /\ setting.perMinute * (clock - since) \in Nat
        BY <1>1, <1>5, <2>4
      <3> DEFINE granted == Burst * (1 + evicted)
                 earned == setting.perMinute * (clock - since)
      <3> HIDE DEF granted, earned
      <3>3. Token * admitted + Refilled(t)' <= granted + (earned + setting.perMinute)
        BY <1>5, <1>6, <2>1, <2>2, <3>1, <3>2 DEF granted, earned, Token
      <3>4. QED
        BY <3>2, <3>3 DEF granted, earned, admitted, evicted
    <2>5. QED
      BY <1>1, <2>3, <2>4
  <1>8. PaidFor'
    BY <1>1, <1>2, <1>7 DEF PaidFor
  <1>9. QED
    BY <1>3, <1>4, <1>8 DEF LimiterInv

-----------------------------------------------------------------------------
(* The invariant holds at first: nobody has a bucket, or has been served. *)
LEMMA LimiterInvInit == LimiterInit => LimiterInv
  <1> SUFFICES ASSUME LimiterInit
               PROVE  LimiterInv
    OBVIOUS
  <1>1. /\ setting \in [perMinute : Nat, burst : Nat] /\ clock = 1
        /\ DOMAIN buckets = {} /\ log = << >>
        /\ comeBack = [t \in Tenants |-> 0]
    BY SettingsAssumption DEF LimiterInit
  <1>2. log \in Seq(Range(log)) /\ DOMAIN log = {}
    BY <1>1, EmptySeq
  <1>3. LimiterTypes
    BY <1>1, <1>2 DEF LimiterTypes
  <1>4. ToldInTime
    BY <1>1 DEF ToldInTime
  <1>5. ASSUME NEW t \in Tenants, NEW since \in 1 .. clock
        PROVE  Token * Count("admitted", t, since) + Refilled(t) <=
                  Burst * (1 + Count("evicted", t, since)) + setting.perMinute * (clock - since)
    <2>1. \A what : Count(what, t, since) = 0
      <3>1. \A what : Matching(log, what, t, since) = {}
        BY <1>2 DEF Matching
      <3>2. QED
        BY <1>3, <3>1, CountIs, FS_EmptySet
    <2>2. Refilled(t) \in Nat /\ Refilled(t) <= Burst /\ Burst \in Nat
      BY <1>3, RefilledIs
    <2>3. setting.perMinute * (clock - since) = 0
      BY <1>1
    <2>4. QED
      BY <2>1, <2>2, <2>3 DEF Token
  <1>6. QED
    BY <1>3, <1>4, <1>5 DEF LimiterInv, PaidFor

(* Every step of the limiter. *)
LEMMA LimiterInvStep == LimiterInv /\ [LimiterNext]_limiterVars => LimiterInv'
  <1> SUFFICES ASSUME LimiterInv, [LimiterNext]_limiterVars
               PROVE  LimiterInv'
    OBVIOUS
  <1>1. CASE Unauthorized
    BY <1>1, UnauthorizedKeepsInv
  <1>2. ASSUME NEW key \in DOMAIN TenantOf, Request(key)
        PROVE  LimiterInv'
    <2>1. TenantOf[key] \in Tenants
      BY DEF Tenants
    <2>2. QED
      BY <1>2, <2>1, UnlimitedKeepsInv, ChargedKeepsInv DEF Request
  <1>3. CASE ClockTicks
    BY <1>3, TickKeepsInv
  <1>4. CASE UNCHANGED limiterVars
    BY <1>4 DEF LimiterInv, LimiterTypes, PaidFor, ToldInTime, limiterVars, Disabled, Refilled,
       Fresh, Burst, Count, RetryAfter
  <1>5. QED
    BY <1>1, <1>2, <1>3, <1>4 DEF LimiterNext

(* What the invariant says about admissions. *)
LEMMA InvBoundsAdmission ==
    ASSUME LimiterInv
    PROVE  AdmissionBounded
  <1> SUFFICES ASSUME NEW t \in Tenants
               PROVE  /\ ~Disabled => \A since \in 1 .. clock :
                            Token * Count("admitted", t, since) <=
                               Burst * (1 + Count("evicted", t, since))
                                  + setting.perMinute * (clock - since)
                      /\ comeBack[t] # 0 /\ clock >= comeBack[t] /\ Burst >= Token =>
                            Refilled(t) >= Token
                      /\ Disabled => comeBack[t] = 0
    BY DEF AdmissionBounded
  <1>1. LimiterTypes /\ PaidFor /\ ToldInTime
    BY DEF LimiterInv
  <1>2. /\ Burst \in Nat /\ Refilled(t) \in Nat
        /\ setting.perMinute \in Nat /\ clock \in Nat
    BY <1>1, RefilledIs DEF LimiterTypes
  <1>3. ASSUME ~Disabled, NEW since \in 1 .. clock
        PROVE  Token * Count("admitted", t, since) <=
                  Burst * (1 + Count("evicted", t, since)) + setting.perMinute * (clock - since)
    <2> DEFINE spent == Token * Count("admitted", t, since)
               funds == Burst * (1 + Count("evicted", t, since)) + setting.perMinute * (clock - since)
    <2>1. spent + Refilled(t) <= funds
      BY <1>1, <1>3 DEF PaidFor
    <2>2. Count("admitted", t, since) \in Nat /\ Count("evicted", t, since) \in Nat
      BY <1>1, CountIs
    <2>3. spent \in Nat /\ funds \in Nat
      <3>1. setting.perMinute * (clock - since) \in Nat
        BY <1>2
      <3>2. Burst * (1 + Count("evicted", t, since)) \in Nat
        BY <1>2, <2>2
      <3>3. QED
        BY <2>2, <3>1, <3>2 DEF Token
    <2> HIDE DEF spent, funds
    <2>4. spent <= funds
      BY <1>2, <2>1, <2>3
    <2>5. QED
      BY <2>4 DEF spent, funds
  <1>4. ASSUME comeBack[t] # 0, clock >= comeBack[t], Burst >= Token
        PROVE  Refilled(t) >= Token
    <2>1. CASE Fresh(t)
      BY <1>1, <1>4, <2>1, RefilledIs
    <2>2. CASE ~Fresh(t)
      <3> DEFINE tokens == buckets[t].tokens
                 elapsed == clock - buckets[t].at
      <3>1. /\ ~Disabled /\ tokens < Token
            /\ comeBack[t] = buckets[t].at + RetryAfter(tokens)
        BY <1>1, <1>4, <2>2 DEF ToldInTime
      <3>2. tokens \in Nat /\ elapsed \in Nat /\ buckets[t].at \in Nat
        BY <1>1, <1>2, <2>2 DEF LimiterTypes, Fresh
      <3>3. elapsed >= RetryAfter(tokens)
        BY <1>1, <1>2, <1>4, <3>1, <3>2, RetryIs
      <3>4. tokens + elapsed * setting.perMinute >= Token
        BY <1>2, <3>1, <3>2, <3>3, RetrySuffices DEF Disabled
      <3>5. Refilled(t) = tokens + elapsed * setting.perMinute \/ Refilled(t) = Burst
        BY <1>1, <2>2, RefilledIs
      <3>6. QED
        BY <1>4, <3>4, <3>5
    <2>3. QED
      BY <2>1, <2>2
  <1>5. Disabled => comeBack[t] = 0
    BY <1>1 DEF ToldInTime
  <1>6. QED
    BY <1>3, <1>4, <1>5

(* However many tenants share however small a table, whatever the rate and   *)
(* the burst: no tenant gets in more than a burst, its rate, and a burst for  *)
(* each time it was evicted; one that comes back when it was told to is let   *)
(* in; and a limit that is disabled refuses nobody.                           *)
THEOREM AdmissionsAreBounded == LimiterSpec => []AdmissionBounded
  <1>1. LimiterInv => AdmissionBounded
    BY InvBoundsAdmission
  <1>2. QED
    BY <1>1, LimiterInvInit, LimiterInvStep, PTL DEF LimiterSpec
=============================================================================
