----------------------------- MODULE RateLimiter -----------------------------
(***************************************************************************)
(* Authentication and the rate limit in front of the evaluate endpoint     *)
(* (auth.py, ratelimit.py), in one warm container.  Requests are served one *)
(* at a time: both checks run on the event loop and await nothing.          *)
(*                                                                         *)
(* Time is in seconds and tokens are in sixtieths, so that a rate of n per  *)
(* minute puts n sixtieths into a bucket every second.                      *)
(***************************************************************************)
EXTENDS Naturals, Sequences, FiniteSets

CONSTANTS
    Keys,
    TenantOf,      \* the key table: known keys and their tenants
    MaxTenants,
    Settings,      \* what may be configured: perMinute, and burst in sixtieths
    MaxRequests,   \* bounds of the model
    MaxTime

(* A rate of 0 disables the limit, and so does one below; a burst of 0 is none. *)
ASSUME SettingsAssumption == Settings \subseteq [perMinute : Nat, burst : Nat]

VARIABLES
    setting,
    clock,
    buckets,   \* the buckets of the tenants in the table
    recent,    \* those tenants, the one used last at the end
    comeBack,  \* when each tenant was told to come back; 0 if it was admitted
    log        \* history: what became of each request, and who was evicted

limiterVars == << setting, clock, buckets, recent, comeBack, log >>

Tenants == {TenantOf[k] : k \in DOMAIN TenantOf}

Token == 60

(* No burst configured stands for five seconds' worth, and ten at least. *)
Burst ==
    CASE setting.burst # 0 -> setting.burst
      [] setting.burst = 0 /\ 5 * setting.perMinute > 10 * Token -> 5 * setting.perMinute
      [] OTHER -> 10 * Token

Disabled == setting.perMinute = 0

LimiterInit ==
    /\ setting \in Settings
    /\ clock = 1
    /\ buckets = << >>
    /\ recent = << >>
    /\ comeBack = [t \in Tenants |-> 0]
    /\ log = << >>

Entry(what, tenant) == [what |-> what, tenant |-> tenant, at |-> clock]

-----------------------------------------------------------------------------
(* The table of buckets: the tenant longest unused makes room. *)

Fresh(tenant) == tenant \notin DOMAIN buckets

Evicted(tenant) ==
    IF Fresh(tenant) /\ Len(recent) = MaxTenants THEN {Head(recent)} ELSE {}

Touched(tenant) ==
    LET Stays(t) == t # tenant /\ t \notin Evicted(tenant)
    IN  Append(SelectSeq(recent, Stays), tenant)

(* Mutation: an idle tenant banks what it does not use. *)
RefilledUncapped(tenant) ==
    IF Fresh(tenant) THEN Burst
    ELSE buckets[tenant].tokens + (clock - buckets[tenant].at) * setting.perMinute

(* consume looks at the clock and fills the bucket up to now. *)
Refilled(tenant) ==
    LET b == buckets[tenant]
        filled == b.tokens + (clock - b.at) * setting.perMinute
    IN  IF Fresh(tenant) \/ filled > Burst THEN Burst ELSE filled

Store(tenant, tokens) ==
    /\ buckets' = [t \in (DOMAIN buckets \cup {tenant}) \ Evicted(tenant) |->
                     IF t = tenant THEN [tokens |-> tokens, at |-> clock] ELSE buckets[t]]
    /\ recent' = Touched(tenant)

(* The Retry-After header: the seconds until a token is there, in effect
   rounded up, and one at least.                                        *)
RetryAfter(tokens) ==
    LET deficit == Token - tokens
        seconds == (1000 * deficit + 999 * setting.perMinute) \div (1000 * setting.perMinute)
    IN  IF seconds < 1 THEN 1 ELSE seconds

-----------------------------------------------------------------------------
Room == Len(SelectSeq(log, LAMBDA e : e.what # "evicted")) < MaxRequests

Logged(what, tenant) ==
    log' = log \o (IF Evicted(tenant) = {} THEN << >> ELSE << Entry("evicted", Head(recent)) >>)
               \o << Entry(what, tenant) >>

(* A key that is missing or not in the table charges nobody. *)
Unauthorized ==
    /\ Room
    /\ Keys # DOMAIN TenantOf
    /\ log' = Append(log, [what |-> "unauthorized", tenant |-> "nobody", at |-> clock])
    /\ UNCHANGED << setting, clock, buckets, recent, comeBack >>

Unlimited(tenant) ==
    /\ Room
    /\ Disabled
    /\ log' = Append(log, Entry("admitted", tenant))
    /\ comeBack' = [comeBack EXCEPT ![tenant] = 0]
    /\ UNCHANGED << setting, clock, buckets, recent >>

Admit(tenant) ==
    /\ Room
    /\ ~Disabled
    /\ Refilled(tenant) >= Token
    /\ Store(tenant, Refilled(tenant) - Token)
    /\ comeBack' = [comeBack EXCEPT ![tenant] = 0]
    /\ Logged("admitted", tenant)
    /\ UNCHANGED << setting, clock >>

Refuse(tenant) ==
    /\ Room
    /\ ~Disabled
    /\ Refilled(tenant) < Token
    /\ Store(tenant, Refilled(tenant))
    /\ comeBack' = [comeBack EXCEPT ![tenant] = clock + RetryAfter(Refilled(tenant))]
    /\ Logged("refused", tenant)
    /\ UNCHANGED << setting, clock >>

ClockTicks ==
    /\ clock < MaxTime
    /\ clock' = clock + 1
    /\ UNCHANGED << setting, buckets, recent, comeBack, log >>

Request(key) ==
    Unlimited(TenantOf[key]) \/ Admit(TenantOf[key]) \/ Refuse(TenantOf[key])

LimiterNext ==
    Unauthorized \/ (\E key \in DOMAIN TenantOf : Request(key)) \/ ClockTicks

-----------------------------------------------------------------------------
Count(what, tenant, since) ==
    Cardinality({i \in DOMAIN log : /\ log[i].what = what /\ log[i].tenant = tenant
                                    /\ log[i].at >= since})

(* In any stretch of time a tenant gets in no more requests than a burst    *)
(* and its rate, and a burst more for each time it was evicted: nothing is   *)
(* banked beyond the burst.  The other way round, a tenant that comes back   *)
(* when its Retry-After says is admitted, unless its burst is less than one  *)
(* token, and with the limit disabled nobody is refused.                     *)
AdmissionBounded ==
    \A t \in Tenants :
       /\ ~Disabled => \A since \in 1 .. clock :
             Token * Count("admitted", t, since) <=
                Burst * (1 + Count("evicted", t, since)) + setting.perMinute * (clock - since)
       /\ comeBack[t] # 0 /\ clock >= comeBack[t] /\ Burst >= Token => Refilled(t) >= Token
       /\ Disabled => comeBack[t] = 0
=============================================================================
