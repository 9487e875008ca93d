--------------------------- MODULE EvaluateProofs ---------------------------
(***************************************************************************)
(* Proofs about Evaluate for every number of actions and posts, every set  *)
(* of effects the policies can decide, and every combination of faults     *)
(* (where a theorem needs some fault away, it says which).                 *)
(***************************************************************************)
EXTENDS Evaluate, SequenceTheorems, TLAPS

-----------------------------------------------------------------------------
(***************************************************************************)
(* The inductive invariant.  A decision is made when it can be given to a  *)
(* client: it is in the audit log, its effect is fixed, and if it holds    *)
(* the action its pending record exists.  Nothing takes a made decision    *)
(* back: the log and the pending records only grow, and a handler decides  *)
(* once, since a request arrives once.  So it does not matter how late an  *)
(* answer is read, or how old the decision is that a replay returns.       *)
(***************************************************************************)
Made(d) ==
    /\ d \in Requests
    /\ Audit!Logged(d)
    /\ result[d].decision \in AllEffects
    /\ result[d].decision = "require_hitl" => d \in held

SentInTurn ==
    \A a \in Actions, k \in 1 .. MaxPosts :
        k > posts[a] => stage[<< a, k >>] = "unsent"

PostsCounted ==
    \A a \in Actions :
        /\ state[a] = "ready" => posts[a] < MaxPosts
        /\ state[a] # "ready" => posts[a] > 0

DecidedOnce == \A r \in Requests : stage[r] \in {"unsent", "arrived"} => result[r] = NoResult

InOrder ==
    \A r \in Requests :
        /\ stage[r] \in {"append", "hold", "store"} => result[r].decision \in AllEffects
        /\ stage[r] \in {"hold", "store"} => Audit!Logged(r)
        /\ stage[r] = "store" => Made(r)

OnFileIsMade ==
    \A a \in Actions :
        stored[a] # NoDecision => Key(stored[a]) = a /\ Made(stored[a])

ToldIsMade ==
    \A r \in Requests :
        reply[r].status = "ok" =>
            Key(reply[r].decision) = Key(r) /\ Made(reply[r].decision)

ActedIsMade ==
    \A a \in Actions :
        state[a] \in {"executed", "blocked", "held"} =>
            /\ Key(decision[a]) = a
            /\ Made(decision[a])
            /\ state[a] = Outcome(decision[a])

OpenByChoice == \A a \in Actions : state[a] = "failed_open" => a \in FailOpenActions

EvalInv ==
    /\ TypeOK
    /\ SentInTurn
    /\ PostsCounted
    /\ DecidedOnce
    /\ InOrder
    /\ OnFileIsMade
    /\ ToldIsMade
    /\ ReplayStands
    /\ ActedIsMade
    /\ OpenByChoice

(***************************************************************************)
(* Where no client stops waiting, a client that is not waiting has had the *)
(* answer to its last post, and an answer does not change.                 *)
(***************************************************************************)
AnsweredLast ==
    /\ \A a \in Actions :
          state[a] # "waiting" /\ posts[a] > 0 => stage[Current(a)] = "replied"
    /\ \A r \in Requests : reply[r].status # "none" => stage[r] = "replied"

ClosedInv == EvalInv /\ AnsweredLast /\ FailsClosed

(***************************************************************************)
(* Where moreover the store does not fail and no container stops, only a   *)
(* request that is answered ok, or is about to be, has a record: earlier   *)
(* posts of its action were refused before they had one.                   *)
(***************************************************************************)
NothingLost ==
    Faults \cap {"client_timeout", "killed", "error", "store_timeout"} = {}

RefusedUnrecorded ==
    \A r \in Requests :
        Audit!Logged(r) =>
            \/ stage[r] \in {"hold", "store"}
            \/ stage[r] = "replied" /\ reply[r].status = "ok"

EarlierUnrecorded ==
    \A a \in Actions, k \in 1 .. MaxPosts :
        k < posts[a] \/ (k = posts[a] /\ state[a] = "ready") =>
            stage[<< a, k >>] = "replied" /\ ~Audit!Logged(<< a, k >>)

NoPutOnItsWay ==
    \A r \in Requests :
        stage[r] = "replied" /\ result[r] # NoResult =>
            answer[r] # "none" \/ Audit!Logged(r)

LoggedOnce == \A i, j \in DOMAIN log : log[i] = log[j] => i = j

OnceInv ==
    /\ EvalInv
    /\ AnsweredLast
    /\ RefusedUnrecorded
    /\ EarlierUnrecorded
    /\ NoPutOnItsWay
    /\ LoggedOnce

-----------------------------------------------------------------------------
(* Every request is the post of some action, and is not no decision.       *)
LEMMA RequestFacts ==
    /\ \A r \in Requests :
          /\ r # NoDecision
          /\ Key(r) \in Actions
          /\ r[2] \in 1 .. MaxPosts
          /\ r = << Key(r), r[2] >>
    /\ \A a \in Actions, k \in 1 .. MaxPosts :
          << a, k >> \in Requests /\ Key(<< a, k >>) = a
  BY DEF Requests, Key, NoDecision

(* What the log holds after an entry is appended. *)
LEMMA EntryAppended ==
    ASSUME log \in Seq(Requests), NEW r \in Requests, log' = Append(log, r)
    PROVE  /\ log' \in Seq(Requests)
           /\ Len(log') = Len(log) + 1
           /\ DOMAIN log = 1 .. Len(log)
           /\ DOMAIN log' = 1 .. Len(log) + 1
           /\ \A i \in DOMAIN log : log'[i] = log[i]
           /\ log'[Len(log) + 1] = r
           /\ \A d : Audit!Logged(d)' <=> Audit!Logged(d) \/ d = r
  <1>1. /\ log' \in Seq(Requests)
        /\ Len(log') = Len(log) + 1
        /\ \A i \in 1 .. Len(log) : log'[i] = log[i]
        /\ log'[Len(log) + 1] = r
    BY AppendProperties
  <1>2. DOMAIN log = 1 .. Len(log) /\ DOMAIN log' = 1 .. Len(log) + 1 /\ Len(log) \in Nat
    BY <1>1, LenProperties
  <1>3. \A d : Audit!Logged(d)' <=> Audit!Logged(d) \/ d = r
    BY <1>1, <1>2 DEF Audit!Logged
  <1>4. QED
    BY <1>1, <1>2, <1>3

(* An operation of the audit log on behalf of r logs r or nothing.         *)
LEMMA LogStep ==
    ASSUME EvalInv, NEW r \in Requests,
           Audit!Commit(r) \/ Audit!CommitUnseen(r) \/ Audit!Refuse(r)
    PROVE  /\ log' \in Seq(Requests)
           /\ answer' \in [Requests -> Audit!Answers]
           /\ \A d \in Requests : d # r => answer'[d] = answer[d]
           /\ \A d : Audit!Logged(d) => Audit!Logged(d)'
           /\ \A d : Audit!Logged(d)' => Audit!Logged(d) \/ d = r
           /\ Audit!Commit(r) => Audit!Logged(r)'
           /\ Audit!Refuse(r) => log' = log /\ answer'[r] = "refused"
  <1>1. log \in Seq(Requests) /\ answer \in [Requests -> Audit!Answers]
    BY DEF EvalInv, TypeOK
  <1>2. /\ answer' \in [Requests -> Audit!Answers]
        /\ \A d \in Requests : d # r => answer'[d] = answer[d]
        /\ Audit!Refuse(r) => answer'[r] = "refused"
    BY <1>1 DEF Audit!Commit, Audit!CommitUnseen, Audit!Refuse, Audit!Answers
  <1>3. CASE log' = log
    <2>1. \A d : Audit!Logged(d)' <=> Audit!Logged(d)
      BY <1>3 DEF Audit!Logged
    <2>2. ~Audit!Commit(r)
      <3>1. Len(Append(log, r)) = Len(log) + 1 /\ Len(log) \in Nat
        BY <1>1, AppendProperties, LenProperties
      <3>2. Append(log, r) # log
        BY <3>1
      <3>3. QED
        BY <1>3, <3>2 DEF Audit!Commit
    <2>3. QED
      BY <1>1, <1>2, <1>3, <2>1, <2>2
  <1>4. CASE log' = Append(log, r)
    <2>1. /\ log' \in Seq(Requests)
          /\ \A d : Audit!Logged(d)' <=> Audit!Logged(d) \/ d = r
      BY <1>1, <1>4, EntryAppended
    <2>2. Audit!Refuse(r) => log' = log
      BY DEF Audit!Refuse
    <2>3. QED
      BY <1>2, <2>1, <2>2
  <1>5. QED
    BY <1>3, <1>4 DEF Audit!Commit, Audit!CommitUnseen, Audit!Refuse

(* A made decision stays made where nothing is taken away. *)
LEMMA MadeStays ==
    ASSUME held \subseteq held',
           \A d : Audit!Logged(d) => Audit!Logged(d)',
           \A d \in Requests : Made(d) => result'[d] = result[d]
    PROVE  \A d : Made(d) => Made(d)' /\ Outcome(d)' = Outcome(d)
  BY DEF Made, Outcome

(* A made decision has one of three outcomes. *)
LEMMA MadeOutcome ==
    ASSUME NEW d, Made(d)
    PROVE  /\ Outcome(d) \in {"executed", "blocked", "held"}
           /\ Outcome(d) = "held" => d \in held
  BY DEF Made, Outcome, AllEffects

-----------------------------------------------------------------------------
(* Before the first post nothing is logged, remembered or answered. *)
LEMMA EvalInvInit == Init => EvalInv
  <1> SUFFICES ASSUME Init
               PROVE  EvalInv
    OBVIOUS
  <1>1. MaxPosts \in Nat /\ 0 < MaxPosts
    BY PostsAssumption
  <1>2. log \in Seq(Requests)
    BY EmptySeq DEF Init, Audit!LogInit
  <1>3. TypeOK
    <2>1. 0 \in 0 .. MaxPosts
      BY <1>1
    <2>2. QED
      BY <1>2, <2>1
         DEF Init, Audit!LogInit, TypeOK, Audit!Answers, NoResult, Statuses
  <1>4. SentInTurn
    BY RequestFacts DEF Init, SentInTurn
  <1>5. PostsCounted
    BY <1>1 DEF Init, PostsCounted
  <1>6. DecidedOnce /\ InOrder
    BY DEF Init, DecidedOnce, InOrder
  <1>7. OnFileIsMade /\ ToldIsMade /\ ReplayStands /\ ActedIsMade /\ OpenByChoice
    BY DEF Init, OnFileIsMade, ToldIsMade, ReplayStands, ActedIsMade, OpenByChoice
  <1>8. QED
    BY <1>3, <1>4, <1>5, <1>6, <1>7 DEF EvalInv

(***************************************************************************)
(* What a step of a handler leaves to the client: nothing it does undoes   *)
(* what a client has acted on.                                             *)
(***************************************************************************)
LEMMA ClientUndisturbed ==
    ASSUME EvalInv, UNCHANGED client,
           \A d : Made(d) => Made(d)' /\ Outcome(d)' = Outcome(d)
    PROVE  PostsCounted' /\ ActedIsMade' /\ OpenByChoice'
  BY DEF client, EvalInv, PostsCounted, ActedIsMade, OpenByChoice

(***************************************************************************)
(* The steps that end a handler, with an answer or without: what it says   *)
(* ok to is made, and is on file unless it is the handler's own.           *)
(***************************************************************************)
LEMMA ReplyKeepsInv ==
    ASSUME EvalInv, NEW r \in Requests,
           \/ TurnAway(r) \/ Replay(r) \/ LookupFails(r) \/ PersistFails(r)
           \/ CreateFails(r) \/ StoreIdempotent(r) \/ StoreThrottled(r)
           \/ StoreFails(r) \/ Kill(r)
    PROVE  EvalInv'
  <1>1. /\ stage[r] \in Handling
        /\ stage' = [stage EXCEPT ![r] = "replied"]
        /\ UNCHANGED << result, posts, state, decision >>
        /\ \A q \in Requests : q # r => reply'[q] = reply[q]
    BY DEF TurnAway, Replay, LookupFails, PersistFails, CreateFails,
           StoreIdempotent, StoreThrottled, StoreFails, Kill, Fail, Reply,
           client, Handling, EvalInv, TypeOK
  <1>2. /\ log' = log
        /\ answer' \in [Requests -> Audit!Answers]
    <2>1. CASE UNCHANGED << log, answer >>
      BY <2>1 DEF EvalInv, TypeOK
    <2>2. CASE PersistFails(r)
      BY <2>2, LogStep DEF PersistFails
    <2>3. QED
      BY <2>1, <2>2
         DEF TurnAway, Replay, LookupFails, CreateFails, StoreIdempotent,
             StoreThrottled, StoreFails, Kill
  <1>3. held \subseteq held' /\ held' \subseteq Requests
    BY DEF TurnAway, Replay, LookupFails, PersistFails, CreateFails,
           StoreIdempotent, StoreThrottled, StoreFails, Kill, EvalInv, TypeOK
  <1>4. stored' = stored \/ (Remember(r) /\ stage[r] = "store")
    BY DEF TurnAway, Replay, LookupFails, PersistFails, CreateFails,
           StoreIdempotent, StoreThrottled, StoreFails, Kill
  <1>5. /\ reply' \in [Requests -> [status   : Statuses,
                                    decision : Requests \cup {NoDecision}]]
        /\ reply'[r].status = "ok" =>
              \/ reply'[r].decision = r /\ stage[r] = "store"
              \/ /\ reply'[r].decision = stored[Key(r)]
                 /\ stored[Key(r)] # NoDecision
                 /\ stored' = stored
    <2>1. stored[Key(r)] \in Requests \cup {NoDecision}
      BY RequestFacts DEF EvalInv, TypeOK
    <2>2. CASE \E status \in Refusals \cup {"error"} : Reply(r, status, NoDecision)
      BY <2>2 DEF Reply, Refusals, Statuses, EvalInv, TypeOK
    <2>3. CASE Replay(r)
      BY <2>1, <2>3 DEF Replay, Reply, Statuses, EvalInv, TypeOK
    <2>4. CASE StoreIdempotent(r) \/ StoreThrottled(r)
      BY <2>4 DEF StoreIdempotent, StoreThrottled, Reply, Statuses, EvalInv, TypeOK
    <2>5. QED
      BY <2>2, <2>3, <2>4
         DEF TurnAway, LookupFails, PersistFails, CreateFails, StoreFails, Kill, Fail
  <1>6. \A d : Audit!Logged(d)' <=> Audit!Logged(d)
    BY <1>2 DEF Audit!Logged
  <1>7. \A d : Made(d) => Made(d)' /\ Outcome(d)' = Outcome(d)
    BY <1>1, <1>3, <1>6, MadeStays
  <1>8. /\ stored' \in [Actions -> Requests \cup {NoDecision}]
        /\ \A a \in Actions : stored[a] # NoDecision => stored'[a] = stored[a]
        /\ \A a \in Actions :
              stored'[a] = stored[a] \/ (stored'[a] = r /\ a = Key(r) /\ stage[r] = "store")
    <2>1. Key(r) \in Actions
      BY RequestFacts
    <2>2. stored \in [Actions -> Requests \cup {NoDecision}]
      BY DEF EvalInv, TypeOK
    <2>3. CASE stored' = stored
      BY <2>2, <2>3
    <2>4. CASE stored[Key(r)] = NoDecision /\ stored' = [stored EXCEPT ![Key(r)] = r]
      BY <1>4, <2>1, <2>2, <2>4
    <2>5. QED
      BY <1>4, <2>3, <2>4 DEF Remember
  <1>9. stage[r] = "store" => Made(r)
    BY DEF EvalInv, InOrder
  <1>10. TypeOK'
    BY <1>1, <1>2, <1>3, <1>5, <1>8 DEF EvalInv, TypeOK
  <1>11. SentInTurn'
    BY <1>1, RequestFacts DEF EvalInv, SentInTurn, TypeOK, Handling
  <1>12. DecidedOnce'
    BY <1>1 DEF EvalInv, DecidedOnce, TypeOK
  <1>13. InOrder'
    BY <1>1, <1>6, <1>7 DEF EvalInv, InOrder, TypeOK
  <1>14. OnFileIsMade'
    BY <1>7, <1>8, <1>9 DEF EvalInv, OnFileIsMade
  <1>15. ToldIsMade'
    <2>1. ASSUME NEW q \in Requests, reply'[q].status = "ok"
          PROVE  Key(reply'[q].decision) = Key(q) /\ Made(reply'[q].decision)
      BY <1>1, <1>5, <1>9, <2>1, RequestFacts DEF EvalInv, ToldIsMade, OnFileIsMade
    <2>2. QED
      BY <1>7, <2>1 DEF ToldIsMade
  <1>16. ReplayStands'
    <2>1. ASSUME NEW q \in Requests, reply'[q].status = "ok", reply'[q].decision # q
          PROVE  stored'[Key(q)] = reply'[q].decision
      <3>1. CASE q = r
        BY <1>5, <2>1, <3>1
      <3>2. CASE q # r
        <4>1. stored[Key(q)] = reply[q].decision /\ reply[q].decision \in Requests
          BY <1>1, <2>1, <3>2 DEF EvalInv, ReplayStands, ToldIsMade, Made
        <4>2. QED
          BY <1>1, <1>8, <3>2, <4>1, RequestFacts
      <3>3. QED
        BY <3>1, <3>2
    <2>2. QED
      BY <2>1 DEF ReplayStands
  <1>17. PostsCounted' /\ ActedIsMade' /\ OpenByChoice'
    BY <1>1, <1>7, ClientUndisturbed DEF client
  <1>18. QED
    BY <1>10, <1>11, <1>12, <1>13, <1>14, <1>15, <1>16, <1>17 DEF EvalInv

(* A handler decides once: what it decides was not decided before. *)
LEMMA DecideKeepsInv ==
    ASSUME EvalInv, NEW r \in Requests, Decide(r)
    PROVE  EvalInv'
  <1>1. /\ stage[r] = "arrived"
        /\ stage' = [stage EXCEPT ![r] = "append"]
        /\ UNCHANGED << log, answer, held, stored, reply, posts, state, decision >>
    BY DEF Decide, client
  <1>2. PICK effect \in Effects, isShadow \in BOOLEAN :
            result' = [result EXCEPT ![r] =
                          [effect   |-> effect,
                           decision |-> Effective(effect, isShadow)]]
    BY DEF Decide
  <1>3. effect \in AllEffects /\ Effective(effect, isShadow) \in AllEffects
    BY EffectsAssumption DEF Effective, AllEffects
  <1>4. /\ result' \in [Requests -> [effect   : AllEffects \cup {"none"},
                                     decision : AllEffects \cup {"none"}]]
        /\ result'[r].decision \in AllEffects
        /\ \A q \in Requests : q # r => result'[q] = result[q]
    BY <1>2, <1>3 DEF EvalInv, TypeOK
  <1>5. ~Made(r)
    BY <1>1 DEF EvalInv, DecidedOnce, NoResult, Made, AllEffects
  <1>6. \A d : Audit!Logged(d)' <=> Audit!Logged(d)
    BY <1>1 DEF Audit!Logged
  <1>7. \A d : Made(d) => Made(d)' /\ Outcome(d)' = Outcome(d)
    <2>1. \A d \in Requests : Made(d) => result'[d] = result[d]
      BY <1>4, <1>5
    <2>2. QED
      BY <1>1, <1>6, <2>1, MadeStays
  <1>8. TypeOK'
    BY <1>1, <1>4 DEF EvalInv, TypeOK, Handling
  <1>9. SentInTurn'
    BY <1>1, RequestFacts DEF EvalInv, SentInTurn, TypeOK
  <1>10. DecidedOnce'
    BY <1>1, <1>4 DEF EvalInv, DecidedOnce, TypeOK
  <1>11. InOrder'
    BY <1>1, <1>4, <1>6, <1>7 DEF EvalInv, InOrder, TypeOK
  <1>12. OnFileIsMade' /\ ToldIsMade' /\ ReplayStands'
    BY <1>1, <1>7 DEF EvalInv, OnFileIsMade, ToldIsMade, ReplayStands
  <1>13. PostsCounted' /\ ActedIsMade' /\ OpenByChoice'
    BY <1>1, <1>7, ClientUndisturbed DEF client
  <1>14. QED
    BY <1>8, <1>9, <1>10, <1>11, <1>12, <1>13 DEF EvalInv

(* A record reaches the log, heard of by its handler or not. *)
LEMMA RecordKeepsInv ==
    ASSUME EvalInv, NEW r \in Requests, Persist(r) \/ PutLandsUnseen(r)
    PROVE  EvalInv'
  <1>1. /\ UNCHANGED << held, stored, result, reply, posts, state, decision >>
        /\ Audit!Commit(r) \/ Audit!CommitUnseen(r)
    BY DEF Persist, PutLandsUnseen, client
  <1>2. /\ log' \in Seq(Requests)
        /\ answer' \in [Requests -> Audit!Answers]
        /\ \A d : Audit!Logged(d) => Audit!Logged(d)'
        /\ Audit!Commit(r) => Audit!Logged(r)'
    BY <1>1, LogStep
  <1>3. \A d : Made(d) => Made(d)' /\ Outcome(d)' = Outcome(d)
    BY <1>1, <1>2, MadeStays
  <1>4. \/ stage' = stage
        \/ /\ stage[r] = "append"
           /\ stage' = [stage EXCEPT ![r] = AfterAppend(r)]
           /\ Audit!Logged(r)'
    BY <1>2 DEF Persist, PutLandsUnseen
  <1>5. AfterAppend(r) \in {"hold", "store"}
    BY DEF AfterAppend
  <1>6. /\ stage' \in [Requests -> Handling \cup {"unsent", "replied"}]
        /\ \A q \in Requests : q # r => stage'[q] = stage[q]
        /\ stage'[r] = stage[r] \/ (stage[r] = "append" /\ stage'[r] \in {"hold", "store"})
    BY <1>4, <1>5 DEF EvalInv, TypeOK, Handling
  <1>7. TypeOK'
    BY <1>1, <1>2, <1>6 DEF EvalInv, TypeOK
  <1>8. SentInTurn'
    BY <1>6, <1>1, RequestFacts DEF EvalInv, SentInTurn
  <1>9. DecidedOnce'
    BY <1>1, <1>6 DEF EvalInv, DecidedOnce
  <1>10. InOrder'
    <2>1. ASSUME NEW q \in Requests, stage'[q] = stage[q]
          PROVE  /\ stage'[q] \in {"append", "hold", "store"} => result'[q].decision \in AllEffects
                 /\ stage'[q] \in {"hold", "store"} => Audit!Logged(q)'
                 /\ stage'[q] = "store" => Made(q)'
      BY <1>1, <1>2, <1>3, <2>1 DEF EvalInv, InOrder
    <2>2. ASSUME stage'[r] # stage[r]
          PROVE  /\ result'[r].decision \in AllEffects
                 /\ Audit!Logged(r)'
                 /\ stage'[r] = "store" => Made(r)'
      <3>1. stage[r] = "append" /\ stage'[r] = AfterAppend(r) /\ Audit!Logged(r)'
        BY <1>4, <2>2 DEF EvalInv, TypeOK
      <3>2. result'[r].decision \in AllEffects
        BY <1>1, <3>1 DEF EvalInv, InOrder
      <3>3. stage'[r] = "store" => result'[r].decision # "require_hitl"
        BY <1>1, <3>1 DEF AfterAppend
      <3>4. QED
        BY <3>1, <3>2, <3>3 DEF Made
    <2>3. QED
      BY <1>6, <2>1, <2>2 DEF InOrder
  <1>11. OnFileIsMade' /\ ToldIsMade' /\ ReplayStands'
    BY <1>1, <1>3 DEF EvalInv, OnFileIsMade, ToldIsMade, ReplayStands
  <1>12. PostsCounted' /\ ActedIsMade' /\ OpenByChoice'
    BY <1>1, <1>3, ClientUndisturbed DEF client
  <1>13. QED
    BY <1>7, <1>8, <1>9, <1>10, <1>11, <1>12 DEF EvalInv

(* The pending record is created before the answer is put on file. *)
LEMMA CreateKeepsInv ==
    ASSUME EvalInv, NEW r \in Requests, CreatePending(r)
    PROVE  EvalInv'
  <1>1. /\ stage[r] = "hold"
        /\ stage' = [stage EXCEPT ![r] = "store"]
        /\ held' = held \cup {r}
        /\ UNCHANGED << log, answer, stored, result, reply, posts, state, decision >>
    BY DEF CreatePending, client
  <1>2. \A d : Audit!Logged(d)' <=> Audit!Logged(d)
    BY <1>1 DEF Audit!Logged
  <1>3. \A d : Made(d) => Made(d)' /\ Outcome(d)' = Outcome(d)
    BY <1>1, <1>2, MadeStays
  <1>4. Made(r)'
    BY <1>1, <1>2 DEF EvalInv, InOrder, Made
  <1>5. TypeOK'
    BY <1>1 DEF EvalInv, TypeOK, Handling
  <1>6. SentInTurn'
    BY <1>1, RequestFacts DEF EvalInv, SentInTurn, TypeOK
  <1>7. DecidedOnce'
    BY <1>1 DEF EvalInv, DecidedOnce, TypeOK
  <1>8. InOrder'
    BY <1>1, <1>2, <1>3, <1>4 DEF EvalInv, InOrder, TypeOK
  <1>9. OnFileIsMade' /\ ToldIsMade' /\ ReplayStands'
    BY <1>1, <1>3 DEF EvalInv, OnFileIsMade, ToldIsMade, ReplayStands
  <1>10. PostsCounted' /\ ActedIsMade' /\ OpenByChoice'
    BY <1>1, <1>3, ClientUndisturbed DEF client
  <1>11. QED
    BY <1>5, <1>6, <1>7, <1>8, <1>9, <1>10 DEF EvalInv

(* A post is of a request that was never sent before. *)
LEMMA PostKeepsInv ==
    ASSUME EvalInv, NEW a \in Actions, Post(a)
    PROVE  EvalInv'
  <1> DEFINE r == << a, posts[a] + 1 >>
  <1>1. /\ state[a] = "ready"
        /\ posts' = [posts EXCEPT ![a] = @ + 1]
        /\ state' = [state EXCEPT ![a] = "waiting"]
        /\ stage' = [stage EXCEPT ![r] = "arrived"]
        /\ UNCHANGED << log, answer, held, stored, result, reply, decision >>
    BY DEF Post
  <1>2. posts \in [Actions -> 0 .. MaxPosts] /\ posts[a] < MaxPosts
    BY <1>1 DEF EvalInv, TypeOK, PostsCounted
  <1>3. MaxPosts \in Nat /\ posts[a] \in Nat /\ posts[a] + 1 \in 1 .. MaxPosts
    BY <1>2, PostsAssumption
  <1>4. r \in Requests /\ Key(r) = a /\ stage[r] = "unsent" /\ result[r] = NoResult
    <2>1. r \in Requests /\ Key(r) = a
      BY <1>3, RequestFacts
    <2>2. stage[r] = "unsent"
      BY <1>3 DEF EvalInv, SentInTurn
    <2>3. QED
      BY <2>1, <2>2 DEF EvalInv, DecidedOnce
  <1>5. posts'[a] = posts[a] + 1 /\ \A b \in Actions : b # a => posts'[b] = posts[b]
    BY <1>1, <1>2
  <1> HIDE DEF r
  <1>6. \A d : Audit!Logged(d)' <=> Audit!Logged(d)
    BY <1>1 DEF Audit!Logged
  <1>7. \A d : Made(d) => Made(d)' /\ Outcome(d)' = Outcome(d)
    BY <1>1, <1>6, MadeStays
  <1>8. /\ stage' \in [Requests -> Handling \cup {"unsent", "replied"}]
        /\ \A q \in Requests : q # r => stage'[q] = stage[q]
        /\ stage'[r] = "arrived"
    BY <1>1, <1>4 DEF EvalInv, TypeOK, Handling
  <1>9. TypeOK'
    <2>1. posts' \in [Actions -> 0 .. MaxPosts]
      <3>1. posts[a] + 1 \in 0 .. MaxPosts
        BY <1>3
      <3>2. QED
        BY <1>1, <1>2, <3>1
    <2>2. state' \in [Actions -> Settled \cup {"ready", "waiting"}]
      BY <1>1 DEF EvalInv, TypeOK
    <2>3. QED
      BY <1>1, <1>8, <2>1, <2>2 DEF EvalInv, TypeOK
  <1>10. SentInTurn'
    <2>1. ASSUME NEW b \in Actions, NEW k \in 1 .. MaxPosts, k > posts'[b]
          PROVE  stage'[<< b, k >>] = "unsent"
      <3>1. << b, k >> \in Requests
        BY RequestFacts
      <3>2. k > posts[b]
        BY <1>2, <1>3, <1>5, <2>1
      <3>3. << b, k >> # r
        BY <1>3, <1>5, <2>1 DEF r
      <3>4. QED
        BY <1>8, <3>1, <3>2, <3>3 DEF EvalInv, SentInTurn
    <2>2. QED
      BY <2>1 DEF SentInTurn
  <1>11. PostsCounted'
    BY <1>1, <1>3, <1>5 DEF EvalInv, PostsCounted, TypeOK
  <1>12. DecidedOnce'
    BY <1>1, <1>4, <1>8 DEF EvalInv, DecidedOnce
  <1>13. InOrder'
    BY <1>1, <1>6, <1>7, <1>8 DEF EvalInv, InOrder
  <1>14. OnFileIsMade' /\ ToldIsMade' /\ ReplayStands'
    BY <1>1, <1>7 DEF EvalInv, OnFileIsMade, ToldIsMade, ReplayStands
  <1>15. ActedIsMade' /\ OpenByChoice'
    BY <1>1, <1>7 DEF EvalInv, ActedIsMade, OpenByChoice, TypeOK
  <1>16. QED
    BY <1>9, <1>10, <1>11, <1>12, <1>13, <1>14, <1>15 DEF EvalInv

(* The answer a client acts on is made. *)
LEMMA AnswerKeepsInv ==
    ASSUME EvalInv, NEW a \in Actions, TakeAnswer(a)
    PROVE  EvalInv'
  <1> DEFINE d == reply[Current(a)].decision
  <1>1. /\ state[a] = "waiting"
        /\ reply[Current(a)].status = "ok"
        /\ decision' = [decision EXCEPT ![a] = d]
        /\ state' = [state EXCEPT ![a] = Outcome(d)]
        /\ UNCHANGED << log, answer, held, stored, stage, result, reply, posts >>
    BY DEF TakeAnswer, server
  <1>2. Current(a) \in Requests /\ Key(Current(a)) = a
    <2>1. posts[a] > 0 /\ posts[a] \in 0 .. MaxPosts /\ MaxPosts \in Nat
      BY <1>1, PostsAssumption DEF EvalInv, TypeOK, PostsCounted
    <2>2. posts[a] \in 1 .. MaxPosts
      BY <2>1
    <2>3. QED
      BY <2>2, RequestFacts DEF Current
  <1>3. Key(d) = a /\ Made(d) /\ d \in Requests
    BY <1>1, <1>2 DEF EvalInv, ToldIsMade, Made
  <1>4. Outcome(d) \in {"executed", "blocked", "held"}
    BY <1>3, MadeOutcome
  <1> HIDE DEF d
  <1>5. \A e : Audit!Logged(e)' <=> Audit!Logged(e)
    BY <1>1 DEF Audit!Logged
  <1>6. \A e : (Made(e) => Made(e)') /\ Outcome(e)' = Outcome(e)
    BY <1>1, <1>5, MadeStays DEF Outcome
  <1>7. TypeOK'
    BY <1>1, <1>3, <1>4 DEF EvalInv, TypeOK, Settled
  <1>8. SentInTurn' /\ DecidedOnce'
    BY <1>1 DEF EvalInv, SentInTurn, DecidedOnce
  <1>9. PostsCounted'
    BY <1>1, <1>4 DEF EvalInv, PostsCounted, TypeOK
  <1>10. InOrder'
    BY <1>1, <1>5, <1>6 DEF EvalInv, InOrder
  <1>11. OnFileIsMade' /\ ToldIsMade' /\ ReplayStands'
    BY <1>1, <1>6 DEF EvalInv, OnFileIsMade, ToldIsMade, ReplayStands
  <1>12. ActedIsMade'
    BY <1>1, <1>3, <1>6 DEF EvalInv, ActedIsMade, TypeOK
  <1>13. OpenByChoice'
    BY <1>1, <1>4 DEF EvalInv, OpenByChoice, TypeOK
  <1>14. QED
    BY <1>7, <1>8, <1>9, <1>10, <1>11, <1>12, <1>13 DEF EvalInv

(* Every other way on for a client: it posts again while it may, or comes  *)
(* to rest without having acted on a decision.                             *)
LEMMA NoAnswerKeepsInv ==
    ASSUME EvalInv, NEW a \in Actions,
           TransientRefusal(a) \/ PermanentRefusal(a) \/ StopWaiting(a)
    PROVE  EvalInv'
  <1>1. PICK s \in {"ready", "failed_open", "unavailable"} :
            /\ state' = [state EXCEPT ![a] = s]
            /\ s = "ready" => posts[a] < MaxPosts
            /\ s = "failed_open" => a \in FailOpenActions
    BY DEF TransientRefusal, PermanentRefusal, StopWaiting, RetryOrGiveUp, Unavailable
  <1>2. /\ state[a] = "waiting"
        /\ UNCHANGED << log, answer, held, stored, stage, result, reply, posts, decision >>
    BY DEF TransientRefusal, PermanentRefusal, StopWaiting, server
  <1>3. \A e : Audit!Logged(e)' <=> Audit!Logged(e)
    BY <1>2 DEF Audit!Logged
  <1>4. \A e : (Made(e) => Made(e)') /\ Outcome(e)' = Outcome(e)
    BY <1>2, <1>3, MadeStays DEF Outcome
  <1>5. TypeOK'
    BY <1>1, <1>2 DEF EvalInv, TypeOK, Settled
  <1>6. SentInTurn' /\ DecidedOnce'
    BY <1>2 DEF EvalInv, SentInTurn, DecidedOnce
  <1>7. PostsCounted'
    BY <1>1, <1>2 DEF EvalInv, PostsCounted, TypeOK
  <1>8. InOrder'
    BY <1>2, <1>3, <1>4 DEF EvalInv, InOrder
  <1>9. OnFileIsMade' /\ ToldIsMade' /\ ReplayStands'
    BY <1>2, <1>4 DEF EvalInv, OnFileIsMade, ToldIsMade, ReplayStands
  <1>10. ActedIsMade' /\ OpenByChoice'
    BY <1>1, <1>2, <1>4 DEF EvalInv, ActedIsMade, OpenByChoice, TypeOK
  <1>11. QED
    BY <1>5, <1>6, <1>7, <1>8, <1>9, <1>10 DEF EvalInv

(* A step that changes nothing keeps the invariant. *)
LEMMA EvalInvUnchanged == EvalInv /\ UNCHANGED vars => EvalInv'
  <1> SUFFICES ASSUME EvalInv, UNCHANGED vars
               PROVE  EvalInv'
    OBVIOUS
  <1> USE DEF vars
  <1>1. \A e : Audit!Logged(e)' <=> Audit!Logged(e)
    BY DEF Audit!Logged
  <1>2. \A e : (Made(e) => Made(e)') /\ Outcome(e)' = Outcome(e)
    BY <1>1, MadeStays DEF Outcome
  <1>3. TypeOK' /\ SentInTurn' /\ PostsCounted' /\ DecidedOnce' /\ OpenByChoice'
    BY DEF EvalInv, TypeOK, SentInTurn, PostsCounted, DecidedOnce, OpenByChoice
  <1>4. InOrder' /\ OnFileIsMade' /\ ToldIsMade' /\ ReplayStands' /\ ActedIsMade'
    BY <1>1, <1>2
       DEF EvalInv, InOrder, OnFileIsMade, ToldIsMade, ReplayStands, ActedIsMade
  <1>5. QED
    BY <1>3, <1>4 DEF EvalInv

(* Every step of a client or of a handler keeps the invariant. *)
LEMMA EvalInvStep == EvalInv /\ [Next]_vars => EvalInv'
  <1> SUFFICES ASSUME EvalInv, [Next]_vars
               PROVE  EvalInv'
    OBVIOUS
  <1>1. ASSUME NEW a \in Actions, ClientStep(a)
        PROVE  EvalInv'
    BY <1>1, PostKeepsInv, AnswerKeepsInv, NoAnswerKeepsInv DEF ClientStep
  <1>2. ASSUME NEW r \in Requests, Handle(r) \/ PutLandsUnseen(r) \/ Kill(r)
        PROVE  EvalInv'
    BY <1>2, ReplyKeepsInv, DecideKeepsInv, RecordKeepsInv, CreateKeepsInv DEF Handle
  <1>3. CASE Done \/ UNCHANGED vars
    BY <1>3, EvalInvUnchanged DEF Done
  <1>4. QED
    BY <1>1, <1>2, <1>3 DEF Next

(* So it holds of every reachable state. *)
LEMMA EvalInvariant == Spec => []EvalInv
  BY EvalInvInit, EvalInvStep, PTL DEF Spec

-----------------------------------------------------------------------------
(* Every reachable state of evaluate and its clients is well typed: the    *)
(* posts of an action stay within the retries.                             *)
THEOREM TypeCorrect == Spec => []TypeOK
  <1>1. EvalInv => TypeOK
    BY DEF EvalInv
  <1>2. QED
    BY <1>1, EvalInvariant, PTL

(* Whatever a client acts on, fresh or replayed, is a decision about its   *)
(* own action that is in the audit log, and the tool ran only if that      *)
(* decision permits it: under every fault of the model.                    *)
THEOREM ActsOnRecordedDecisions == Spec => []ActedOnRecordedDecision
  <1>1. EvalInv => ActedOnRecordedDecision
    BY DEF EvalInv, ActedIsMade, Made, ActedOnRecordedDecision
  <1>2. QED
    BY <1>1, EvalInvariant, PTL

(* An agent that is told to wait for a review polls a decision that exists.*)
THEOREM HeldActionsArePollable == Spec => []HeldIsPollable
  <1>1. EvalInv => HeldIsPollable
    <2>1. EvalInv => \A a \in Actions : state[a] = "held" =>
                        Made(decision[a]) /\ Outcome(decision[a]) = "held"
      BY DEF EvalInv, ActedIsMade
    <2>2. QED
      BY <2>1, MadeOutcome DEF HeldIsPollable
  <1>2. QED
    BY <1>1, EvalInvariant, PTL

(* A replayed answer is the one on file, and stays it. *)
THEOREM ReplaysStand == Spec => []ReplayStands
  <1>1. EvalInv => ReplayStands
    BY DEF EvalInv
  <1>2. QED
    BY <1>1, EvalInvariant, PTL

-----------------------------------------------------------------------------
(***************************************************************************)
(* What needs some fault away.                                             *)
(***************************************************************************)
(* The latest post of an action that has posted is a request. *)
LEMMA CurrentIsRequest ==
    ASSUME EvalInv, NEW a \in Actions, posts[a] > 0
    PROVE  Current(a) \in Requests /\ Key(Current(a)) = a /\ Current(a)[2] = posts[a]
  <1>1. posts[a] \in 0 .. MaxPosts /\ MaxPosts \in Nat
    BY PostsAssumption DEF EvalInv, TypeOK
  <1>2. posts[a] \in 1 .. MaxPosts
    BY <1>1
  <1>3. QED
    BY <1>2, RequestFacts DEF Current

(* A handler changes its own stage and its own reply, while it is at work. *)
LEMMA HandlerFacts ==
    ASSUME EvalInv, NEW r \in Requests, Handle(r) \/ PutLandsUnseen(r) \/ Kill(r)
    PROVE  /\ UNCHANGED << posts, state, decision >>
           /\ \A q \in Requests : q # r => stage'[q] = stage[q] /\ reply'[q] = reply[q]
           /\ \/ UNCHANGED << stage, reply >>
              \/ stage[r] \in Handling /\ stage'[r] = "replied"
              \/ stage[r] \in Handling /\ stage'[r] \in Handling /\ UNCHANGED reply
  <1>1. UNCHANGED << posts, state, decision >>
    BY DEF Handle, TurnAway, Replay, Decide, LookupFails, Persist, PersistFails,
           CreatePending, CreateFails, StoreIdempotent, StoreThrottled, StoreFails,
           PutLandsUnseen, Kill, client
  <1>2. CASE Decide(r) \/ Persist(r) \/ CreatePending(r) \/ PutLandsUnseen(r)
    BY <1>1, <1>2 DEF Decide, Persist, CreatePending, PutLandsUnseen, AfterAppend,
                      Handling, EvalInv, TypeOK
  <1>3. CASE \/ TurnAway(r) \/ Replay(r) \/ LookupFails(r) \/ PersistFails(r)
             \/ CreateFails(r) \/ StoreIdempotent(r) \/ StoreThrottled(r)
             \/ StoreFails(r) \/ Kill(r)
    BY <1>1, <1>3 DEF TurnAway, Replay, LookupFails, PersistFails, CreateFails,
                      StoreIdempotent, StoreThrottled, StoreFails, Kill, Fail, Reply,
                      Handling, EvalInv, TypeOK
  <1>4. QED
    BY <1>2, <1>3 DEF Handle

(* Where clients wait for their answers, only the last post of an action *)
(* can be open.                                                          *)
LEMMA AnsweredLastStep ==
    ASSUME "client_timeout" \notin Faults, EvalInv, AnsweredLast, [Next]_vars
    PROVE  AnsweredLast'
  <1>1. ASSUME NEW r \in Requests, Handle(r) \/ PutLandsUnseen(r) \/ Kill(r)
        PROVE  AnsweredLast'
    <2>1. /\ UNCHANGED << posts, state >>
          /\ \A q \in Requests : stage[q] = "replied" => stage'[q] = "replied"
          /\ \A q \in Requests : reply'[q] = reply[q] \/ stage'[q] = "replied"
      BY <1>1, HandlerFacts DEF Handling
    <2>2. \A a \in Actions : Current(a)' = Current(a)
      BY <2>1 DEF Current
    <2>3. QED
      BY <2>1, <2>2, CurrentIsRequest DEF AnsweredLast
  <1>2. ASSUME NEW a \in Actions, Post(a)
        PROVE  AnsweredLast'
    <2> DEFINE r == << a, posts[a] + 1 >>
    <2>1. /\ posts' = [posts EXCEPT ![a] = @ + 1]
          /\ state' = [state EXCEPT ![a] = "waiting"]
          /\ stage' = [stage EXCEPT ![r] = "arrived"]
          /\ UNCHANGED reply
          /\ state[a] = "ready"
      BY <1>2 DEF Post
    <2>2. posts[a] \in 0 .. MaxPosts /\ posts[a] < MaxPosts /\ MaxPosts \in Nat
      BY <2>1, PostsAssumption DEF EvalInv, TypeOK, PostsCounted
    <2>3. stage[r] = "unsent"
      <3>1. posts[a] + 1 \in 1 .. MaxPosts /\ posts[a] + 1 > posts[a]
        BY <2>2
      <3>2. QED
        BY <3>1 DEF EvalInv, SentInTurn
    <2> HIDE DEF r
    <2>4. \A q \in Requests : stage[q] = "replied" => stage'[q] = "replied"
      BY <2>1, <2>3 DEF EvalInv, TypeOK
    <2>5. \A b \in Actions : b # a => /\ posts'[b] = posts[b]
                                      /\ state'[b] = state[b]
                                      /\ Current(b)' = Current(b)
      BY <2>1 DEF EvalInv, TypeOK, Current
    <2>6. state'[a] = "waiting"
      BY <2>1 DEF EvalInv, TypeOK
    <2>7. QED
      BY <2>1, <2>4, <2>5, <2>6, CurrentIsRequest DEF AnsweredLast
  <1>3. ASSUME NEW a \in Actions, TakeAnswer(a) \/ TransientRefusal(a) \/ PermanentRefusal(a)
        PROVE  AnsweredLast'
    <2>1. /\ state[a] = "waiting"
          /\ reply[Current(a)].status \in {"ok", "error", "busy", "invalid", "unauthenticated"}
          /\ UNCHANGED << stage, reply, posts >>
      BY <1>3 DEF TakeAnswer, TransientRefusal, PermanentRefusal, server
    <2>2. \A b \in Actions : Current(b)' = Current(b)
      BY <2>1 DEF Current
    <2>3. \A b \in Actions : b # a => state'[b] = state[b]
      BY <1>3 DEF TakeAnswer, TransientRefusal, PermanentRefusal, RetryOrGiveUp,
                  EvalInv, TypeOK
    <2>4. Current(a) \in Requests
      BY <2>1, CurrentIsRequest DEF EvalInv, PostsCounted
    <2>5. stage[Current(a)] = "replied"
      BY <2>1, <2>4 DEF AnsweredLast
    <2>6. QED
      BY <2>1, <2>2, <2>3, <2>5 DEF AnsweredLast
  <1>4. CASE UNCHANGED vars
    BY <1>4 DEF vars, AnsweredLast, Current
  <1>5. QED
    BY <1>1, <1>2, <1>3, <1>4 DEF Next, ClientStep, StopWaiting, Done

(* At the start no action has posted. *)
LEMMA AnsweredLastInit == Init => AnsweredLast
  <1>1. Init => \A a \in Actions : ~(posts[a] > 0)
    BY DEF Init
  <1>2. QED
    BY <1>1 DEF Init, AnsweredLast

(* A call that fails open got no answer that refuses its key, and gets *)
(* none later.                                                         *)
LEMMA FailsClosedStep ==
    ASSUME "client_timeout" \notin Faults, ClosedInv, [Next]_vars
    PROVE  FailsClosed'
  <1>1. EvalInv /\ EvalInv' /\ AnsweredLast /\ FailsClosed
    BY EvalInvStep DEF ClosedInv
  <1> SUFFICES ASSUME NEW b \in Actions, state'[b] = "failed_open"
               PROVE  reply'[Current(b)'].status # "unauthenticated"
    BY <1>1 DEF FailsClosed, EvalInv, OpenByChoice
  <1>2. state[b] = "failed_open" =>
            /\ reply[Current(b)].status # "unauthenticated"
            /\ stage[Current(b)] = "replied"
            /\ Current(b) \in Requests
    BY <1>1, CurrentIsRequest DEF FailsClosed, AnsweredLast, EvalInv, PostsCounted
  <1>3. ASSUME NEW r \in Requests, Handle(r) \/ PutLandsUnseen(r) \/ Kill(r)
        PROVE  reply'[Current(b)'].status # "unauthenticated"
    <2>1. UNCHANGED << posts, state >>
      BY <1>1, <1>3, HandlerFacts
    <2>2. \A q \in Requests : stage[q] = "replied" => reply'[q] = reply[q]
      BY <1>1, <1>3, HandlerFacts DEF Handling
    <2>3. QED
      BY <1>2, <2>1, <2>2 DEF Current
  <1>4. ASSUME NEW a \in Actions, Post(a)
        PROVE  reply'[Current(b)'].status # "unauthenticated"
    <2>1. b # a /\ state'[b] = state[b] /\ posts'[b] = posts[b] /\ reply' = reply
      BY <1>1, <1>4 DEF Post, EvalInv, TypeOK
    <2>2. QED
      BY <1>2, <2>1 DEF Current
  <1>5. ASSUME NEW a \in Actions, TakeAnswer(a) \/ TransientRefusal(a) \/ PermanentRefusal(a)
        PROVE  reply'[Current(b)'].status # "unauthenticated"
    <2>1. Current(b)' = Current(b) /\ reply' = reply
      BY <1>5 DEF TakeAnswer, TransientRefusal, PermanentRefusal, server, Current
    <2>2. CASE b # a
      <3>1. state'[b] = state[b]
        BY <1>1, <1>5, <2>2 DEF TakeAnswer, TransientRefusal, PermanentRefusal,
                                RetryOrGiveUp, EvalInv, TypeOK
      <3>2. QED
        BY <1>2, <2>1, <3>1
    <2>3. CASE b = a /\ TakeAnswer(a)
      <3>1. state'[a] \in {"executed", "blocked", "held"}
        <4>1. state'[a] = Outcome(reply[Current(a)].decision)
          BY <1>1, <2>3 DEF TakeAnswer, EvalInv, TypeOK
        <4>2. Made(reply[Current(a)].decision)
          BY <1>1, <2>3, CurrentIsRequest
             DEF TakeAnswer, EvalInv, ToldIsMade, PostsCounted
        <4>3. QED
          BY <4>1, <4>2, MadeOutcome
      <3>2. QED
        BY <2>3, <3>1
    <2>4. CASE b = a /\ (TransientRefusal(a) \/ PermanentRefusal(a))
      BY <1>1, <2>1, <2>4 DEF TransientRefusal, PermanentRefusal, EvalInv, TypeOK
    <2>5. QED
      BY <1>5, <2>2, <2>3, <2>4
  <1>6. CASE UNCHANGED vars
    BY <1>2, <1>6 DEF vars, Current
  <1>7. QED
    BY <1>3, <1>4, <1>5, <1>6 DEF Next, ClientStep, StopWaiting, Done

(* Where no client stops waiting for an answer, the tool runs unrecorded   *)
(* only for a client that chose to fail open, and never after a 401.  (A   *)
(* client that has stopped waiting cannot know the 401 that comes after.)  *)
THEOREM FailsOpenOnlyByChoice ==
    ASSUME "client_timeout" \notin Faults
    PROVE  Spec => []FailsClosed
  <1>1. Init => ClosedInv
    <2>1. Init => FailsClosed
      BY DEF Init, FailsClosed
    <2>2. QED
      BY <2>1, EvalInvInit, AnsweredLastInit DEF ClosedInv
  <1>2. ClosedInv /\ [Next]_vars => ClosedInv'
    BY EvalInvStep, AnsweredLastStep, FailsClosedStep DEF ClosedInv
  <1>3. ClosedInv => FailsClosed
    BY DEF ClosedInv
  <1>4. QED
    BY <1>1, <1>2, <1>3, PTL DEF Spec

(* Where nothing is lost, no put is on its way to a log that its request   *)
(* has given up on.                                                        *)
LEMMA NoUnseenPut ==
    ASSUME NothingLost, OnceInv, NEW r \in Requests
    PROVE  ~PutLandsUnseen(r)
  <1> SUFFICES ASSUME PutLandsUnseen(r)
               PROVE  FALSE
    OBVIOUS
  <1>1. /\ result[r] # NoResult
        /\ ~Audit!Logged(r)
        /\ stage[r] # "append"
        /\ answer[r] = "none"
    BY DEF PutLandsUnseen, Audit!CommitUnseen, NothingLost
  <1>2. stage[r] \in Handling \cup {"unsent", "replied"}
    BY DEF OnceInv, EvalInv, TypeOK
  <1>3. stage[r] \notin {"unsent", "arrived"}
    BY <1>1 DEF OnceInv, EvalInv, DecidedOnce
  <1>4. stage[r] \notin {"hold", "store"}
    BY <1>1 DEF OnceInv, EvalInv, InOrder
  <1>5. stage[r] # "replied"
    BY <1>1 DEF OnceInv, NoPutOnItsWay
  <1>6. QED
    BY <1>1, <1>2, <1>3, <1>4, <1>5 DEF Handling

(* The record of a request is appended while it has none. *)
LEMMA OnceHandlerStep ==
    ASSUME NothingLost, OnceInv, NEW r \in Requests,
           Handle(r) \/ PutLandsUnseen(r) \/ Kill(r)
    PROVE  RefusedUnrecorded' /\ EarlierUnrecorded' /\ NoPutOnItsWay' /\ LoggedOnce'
  <1> DEFINE Settles(q) ==
        /\ Audit!Logged(q)' =>
              \/ stage'[q] \in {"hold", "store"}
              \/ stage'[q] = "replied" /\ reply'[q].status = "ok"
        /\ stage'[q] = "replied" /\ result'[q] # NoResult =>
              answer'[q] # "none" \/ Audit!Logged(q)'
  <1>1. EvalInv
    BY DEF OnceInv
  <1>2. Audit!Logged(r) =>
            \/ stage[r] \in {"hold", "store"}
            \/ stage[r] = "replied" /\ reply[r].status = "ok"
    BY DEF OnceInv, RefusedUnrecorded
  <1>3. /\ UNCHANGED << posts, state, decision >>
        /\ \A q \in Requests : q # r => stage'[q] = stage[q] /\ reply'[q] = reply[q]
        /\ stage[r] \in Handling
    BY <1>1, NoUnseenPut, HandlerFacts
       DEF Handle, Kill, TurnAway, Replay, Decide, LookupFails, Persist, PersistFails,
           CreatePending, CreateFails, StoreIdempotent, StoreThrottled, StoreFails,
           Handling
  <1>4. CASE TurnAway(r) \/ Replay(r) \/ Decide(r)
    <2>1. /\ stage[r] = "arrived"
          /\ UNCHANGED << log, answer >>
          /\ \A q \in Requests : q # r => result'[q] = result[q]
          /\ stage'[r] = "replied" => result'[r] = result[r]
      BY <1>1, <1>4 DEF TurnAway, Replay, Decide, Reply, EvalInv, TypeOK
    <2>2. \A q : Audit!Logged(q)' <=> Audit!Logged(q)
      BY <2>1 DEF Audit!Logged
    <2>3. result[r] = NoResult
      BY <1>1, <2>1 DEF EvalInv, DecidedOnce
    <2>4. Settles(r)
      BY <1>2, <2>1, <2>2, <2>3
    <2>5. \A q \in Requests : Settles(q)
      BY <1>3, <2>1, <2>2, <2>4 DEF OnceInv, RefusedUnrecorded, NoPutOnItsWay
    <2>6. EarlierUnrecorded'
      BY <1>3, <2>1, <2>2, RequestFacts DEF OnceInv, EarlierUnrecorded
    <2>7. QED
      BY <2>1, <2>5, <2>6 DEF RefusedUnrecorded, NoPutOnItsWay, OnceInv, LoggedOnce
  <1>5. CASE Persist(r)
    <2>1. /\ stage[r] = "append"
          /\ Audit!Commit(r)
          /\ stage'[r] \in {"hold", "store"}
          /\ result' = result
      BY <1>1, <1>5 DEF Persist, AfterAppend, EvalInv, TypeOK
    <2>2. ~Audit!Logged(r)
      BY <1>2, <2>1
    <2>3. /\ \A q \in Requests : q # r => answer'[q] = answer[q]
          /\ \A q : Audit!Logged(q) => Audit!Logged(q)'
          /\ \A q : Audit!Logged(q)' => Audit!Logged(q) \/ q = r
      BY <1>1, <2>1, LogStep
    <2>4. LoggedOnce'
      <3>1. log \in Seq(Requests) /\ log' = Append(log, r)
        BY <1>1, <2>1 DEF EvalInv, TypeOK, Audit!Commit
      <3>2. /\ DOMAIN log = 1 .. Len(log)
            /\ DOMAIN log' = 1 .. Len(log) + 1
            /\ \A i \in DOMAIN log : log'[i] = log[i]
            /\ log'[Len(log) + 1] = r
            /\ Len(log) \in Nat
        BY <3>1, EntryAppended, LenProperties
      <3>3. \A i \in DOMAIN log : log[i] # r
        BY <2>2 DEF Audit!Logged
      <3>4. \A i, j \in DOMAIN log : log[i] = log[j] => i = j
        BY DEF OnceInv, LoggedOnce
      <3>5. ASSUME NEW i \in DOMAIN log', NEW j \in DOMAIN log', log'[i] = log'[j]
            PROVE  i = j
        <4>1. \A k \in DOMAIN log' : k \in DOMAIN log \/ k = Len(log) + 1
          BY <3>2
        <4>2. QED
          BY <3>2, <3>3, <3>4, <3>5, <4>1
      <3>6. QED
        BY <3>5 DEF LoggedOnce
    <2>5. \A q \in Requests : Settles(q)
      BY <1>3, <2>1, <2>3 DEF OnceInv, RefusedUnrecorded, NoPutOnItsWay
    <2>6. EarlierUnrecorded'
      BY <1>3, <2>1, <2>3, RequestFacts DEF OnceInv, EarlierUnrecorded, Handling
    <2>7. QED
      BY <2>4, <2>5, <2>6 DEF RefusedUnrecorded, NoPutOnItsWay
  <1>6. CASE PersistFails(r)
    <2>1. /\ stage[r] = "append"
          /\ Audit!Refuse(r)
          /\ stage'[r] = "replied"
          /\ result' = result
      BY <1>1, <1>6 DEF PersistFails, Fail, Reply, EvalInv, TypeOK
    <2>2. /\ log' = log
          /\ answer'[r] = "refused"
          /\ \A q \in Requests : q # r => answer'[q] = answer[q]
      BY <1>1, <2>1, LogStep
    <2>3. \A q : Audit!Logged(q)' <=> Audit!Logged(q)
      BY <2>2 DEF Audit!Logged
    <2>4. Settles(r)
      BY <1>2, <2>1, <2>2, <2>3
    <2>5. \A q \in Requests : Settles(q)
      BY <1>3, <2>1, <2>2, <2>3, <2>4 DEF OnceInv, RefusedUnrecorded, NoPutOnItsWay
    <2>6. EarlierUnrecorded'
      BY <1>3, <2>1, <2>3, RequestFacts DEF OnceInv, EarlierUnrecorded
    <2>7. QED
      BY <2>2, <2>5, <2>6 DEF RefusedUnrecorded, NoPutOnItsWay, OnceInv, LoggedOnce
  <1>7. CASE CreatePending(r) \/ StoreIdempotent(r) \/ StoreThrottled(r)
    <2>1. /\ stage[r] \in {"hold", "store"}
          /\ stage'[r] = "store" \/ (stage'[r] = "replied" /\ reply'[r].status = "ok")
          /\ UNCHANGED << log, answer, result >>
      BY <1>1, <1>7 DEF CreatePending, StoreIdempotent, StoreThrottled, Reply, EvalInv, TypeOK
    <2>2. \A q : Audit!Logged(q)' <=> Audit!Logged(q)
      BY <2>1 DEF Audit!Logged
    <2>3. Audit!Logged(r)
      BY <1>1, <2>1 DEF EvalInv, InOrder
    <2>4. \A q \in Requests : Settles(q)
      BY <1>3, <2>1, <2>2, <2>3 DEF OnceInv, RefusedUnrecorded, NoPutOnItsWay
    <2>5. EarlierUnrecorded'
      BY <1>3, <2>1, <2>2, RequestFacts DEF OnceInv, EarlierUnrecorded
    <2>6. QED
      BY <2>1, <2>4, <2>5 DEF RefusedUnrecorded, NoPutOnItsWay, OnceInv, LoggedOnce
  <1>8. ~(LookupFails(r) \/ CreateFails(r) \/ StoreFails(r) \/ Kill(r))
    BY DEF NothingLost, LookupFails, CreateFails, StoreFails, Kill
  <1>9. QED
    BY <1>4, <1>5, <1>6, <1>7, <1>8, NoUnseenPut DEF Handle

(* A client posts again only after a refusal that it has heard. *)
LEMMA OnceClientStep ==
    ASSUME NothingLost, OnceInv, NEW a \in Actions, ClientStep(a)
    PROVE  RefusedUnrecorded' /\ EarlierUnrecorded' /\ NoPutOnItsWay' /\ LoggedOnce'
  <1>1. EvalInv /\ UNCHANGED << log, answer, result, reply >>
    BY DEF OnceInv, ClientStep, Post, TakeAnswer, TransientRefusal, PermanentRefusal,
           StopWaiting, server
  <1>2. \A q : Audit!Logged(q)' <=> Audit!Logged(q)
    BY <1>1 DEF Audit!Logged
  <1>3. LoggedOnce'
    BY <1>1 DEF OnceInv, LoggedOnce
  <1>4. CASE Post(a)
    <2> DEFINE r == << a, posts[a] + 1 >>
    <2>1. /\ state[a] = "ready"
          /\ posts' = [posts EXCEPT ![a] = @ + 1]
          /\ state' = [state EXCEPT ![a] = "waiting"]
          /\ stage' = [stage EXCEPT ![r] = "arrived"]
      BY <1>4 DEF Post
    <2>2. posts[a] \in 0 .. MaxPosts /\ posts[a] < MaxPosts /\ MaxPosts \in Nat
      BY <1>1, <2>1, PostsAssumption DEF EvalInv, TypeOK, PostsCounted
    <2>3. stage[r] = "unsent"
      <3>1. posts[a] + 1 \in 1 .. MaxPosts /\ posts[a] + 1 > posts[a]
        BY <2>2
      <3>2. QED
        BY <1>1, <3>1 DEF EvalInv, SentInTurn
    <2> HIDE DEF r
    <2>4. /\ \A q \in Requests : stage[q] # "unsent" => stage'[q] = stage[q]
          /\ \A q \in Requests : stage'[q] = stage[q] \/ stage'[q] = "arrived"
      BY <1>1, <2>1, <2>3 DEF EvalInv, TypeOK
    <2>5. RefusedUnrecorded' /\ NoPutOnItsWay'
      BY <1>1, <1>2, <2>4 DEF OnceInv, RefusedUnrecorded, NoPutOnItsWay
    <2>6. EarlierUnrecorded'
      <3>1. ASSUME NEW b \in Actions, NEW k \in 1 .. MaxPosts,
                   k < posts'[b] \/ (k = posts'[b] /\ state'[b] = "ready")
            PROVE  stage'[<< b, k >>] = "replied" /\ ~Audit!Logged(<< b, k >>)
        <4>1. k < posts[b] \/ (k = posts[b] /\ state[b] = "ready")
          BY <1>1, <2>1, <2>2, <3>1 DEF EvalInv, TypeOK
        <4>2. stage[<< b, k >>] = "replied" /\ ~Audit!Logged(<< b, k >>)
          BY <4>1 DEF OnceInv, EarlierUnrecorded
        <4>3. QED
          BY <2>4, <4>2, RequestFacts
      <3>2. QED
        BY <1>2, <3>1 DEF EarlierUnrecorded
    <2>7. QED
      BY <1>3, <2>5, <2>6
  <1>5. CASE TakeAnswer(a) \/ TransientRefusal(a) \/ PermanentRefusal(a)
    <2>1. UNCHANGED << stage, posts >>
      BY <1>5 DEF TakeAnswer, TransientRefusal, PermanentRefusal, server
    <2>2. RefusedUnrecorded' /\ NoPutOnItsWay'
      BY <1>1, <1>2, <2>1 DEF OnceInv, RefusedUnrecorded, NoPutOnItsWay
    <2>3. \A b \in Actions : b # a => state'[b] = state[b]
      BY <1>1, <1>5 DEF TakeAnswer, TransientRefusal, PermanentRefusal,
                        RetryOrGiveUp, EvalInv, TypeOK
    <2>4. CASE ~TransientRefusal(a)
      <3>1. state'[a] # "ready"
        <4>1. CASE TakeAnswer(a)
          <5>1. state'[a] = Outcome(reply[Current(a)].decision)
            BY <1>1, <4>1 DEF TakeAnswer, EvalInv, TypeOK
          <5>2. Made(reply[Current(a)].decision)
            BY <1>1, <4>1, CurrentIsRequest
               DEF TakeAnswer, EvalInv, ToldIsMade, PostsCounted
          <5>3. QED
            BY <5>1, <5>2, MadeOutcome
        <4>2. CASE PermanentRefusal(a)
          BY <1>1, <4>2 DEF PermanentRefusal, Unavailable, EvalInv, TypeOK
        <4>3. QED
          BY <1>5, <2>4, <4>1, <4>2
      <3>2. QED
        BY <1>2, <1>3, <2>1, <2>2, <2>3, <3>1 DEF OnceInv, EarlierUnrecorded
    <2>5. CASE TransientRefusal(a)
      <3>1. /\ state[a] = "waiting"
            /\ reply[Current(a)].status \in {"error", "busy"}
        BY <2>5 DEF TransientRefusal
      <3>2. Current(a) \in Requests
        BY <1>1, <3>1, CurrentIsRequest DEF EvalInv, PostsCounted
      <3>3. stage[Current(a)] = "replied" /\ ~Audit!Logged(Current(a))
        BY <3>1, <3>2 DEF OnceInv, AnsweredLast, RefusedUnrecorded
      <3>4. EarlierUnrecorded'
        BY <1>2, <2>1, <2>3, <3>3 DEF OnceInv, EarlierUnrecorded, Current
      <3>5. QED
        BY <1>3, <2>2, <3>4
    <2>6. QED
      BY <2>4, <2>5
  <1>6. ~StopWaiting(a)
    BY DEF NothingLost, StopWaiting
  <1>7. QED
    BY <1>4, <1>5, <1>6 DEF ClientStep

(* At the start no post has been logged. *)
LEMMA OnceInvInit == Init => OnceInv
  <1> SUFFICES ASSUME Init
               PROVE  OnceInv
    OBVIOUS
  <1>1. EvalInv /\ AnsweredLast
    BY EvalInvInit, AnsweredLastInit
  <1>2. DOMAIN log = {}
    BY EmptySeq DEF Init, Audit!LogInit
  <1>3. RefusedUnrecorded /\ LoggedOnce
    BY <1>2 DEF RefusedUnrecorded, LoggedOnce, Audit!Logged
  <1>4. EarlierUnrecorded
    BY DEF Init, EarlierUnrecorded
  <1>5. NoPutOnItsWay
    BY DEF Init, NoPutOnItsWay
  <1>6. QED
    BY <1>1, <1>3, <1>4, <1>5 DEF OnceInv

(* Where nothing is lost, an action is posted again only if its last post *)
(* was refused before the log.                                            *)
LEMMA OnceInvStep ==
    ASSUME NothingLost, OnceInv, [Next]_vars
    PROVE  OnceInv'
  <1>1. EvalInv' /\ AnsweredLast'
    BY EvalInvStep, AnsweredLastStep DEF OnceInv, NothingLost
  <1>2. CASE Done \/ UNCHANGED vars
    <2>1. \A q : Audit!Logged(q)' <=> Audit!Logged(q)
      BY <1>2 DEF Done, vars, Audit!Logged
    <2>2. QED
      BY <1>1, <1>2, <2>1
         DEF Done, vars, OnceInv, RefusedUnrecorded, EarlierUnrecorded,
             NoPutOnItsWay, LoggedOnce
  <1>3. QED
    BY <1>1, <1>2, OnceHandlerStep, OnceClientStep DEF Next, OnceInv

(* Only the last post of an action can have a record, and it has one. *)
LEMMA OnceInvImplies == OnceInv => OneRecordPerAction
  <1> SUFFICES ASSUME OnceInv, NEW i \in DOMAIN log, NEW j \in DOMAIN log,
                      Key(log[i]) = Key(log[j])
               PROVE  i = j
    BY DEF OneRecordPerAction
  <1>1. log[i] \in Requests /\ log[j] \in Requests
    BY LenProperties, ElementOfSeq DEF OnceInv, EvalInv, TypeOK
  <1>2. ASSUME NEW r \in Requests, Audit!Logged(r)
        PROVE  r[2] = posts[Key(r)]
    <2>1. stage[r] # "unsent"
      BY <1>2 DEF OnceInv, RefusedUnrecorded
    <2>2. Key(r) \in Actions /\ r[2] \in 1 .. MaxPosts /\ r = << Key(r), r[2] >>
      BY RequestFacts
    <2>3. ~(r[2] > posts[Key(r)])
      BY <2>1, <2>2 DEF OnceInv, EvalInv, SentInTurn
    <2>4. ~(r[2] < posts[Key(r)])
      BY <1>2, <2>2 DEF OnceInv, EarlierUnrecorded
    <2>5. posts[Key(r)] \in Nat /\ r[2] \in Nat
      BY <2>2, PostsAssumption DEF OnceInv, EvalInv, TypeOK
    <2>6. QED
      BY <2>3, <2>4, <2>5
  <1>3. Audit!Logged(log[i]) /\ Audit!Logged(log[j])
    BY DEF Audit!Logged
  <1>4. log[i] = log[j]
    BY <1>1, <1>2, <1>3, RequestFacts
  <1>5. QED
    BY <1>4 DEF OnceInv, LoggedOnce

(* Whatever is refused, throttled or short of retries: where no answer and *)
(* no write is lost and no container stops, an action has at most one      *)
(* record in the audit log.                                                *)
THEOREM OneRecordWhereNothingIsLost ==
    ASSUME NothingLost
    PROVE  Spec => []OneRecordPerAction
  <1>1. OnceInv /\ [Next]_vars => OnceInv'
    BY OnceInvStep
  <1>2. QED
    BY <1>1, OnceInvInit, OnceInvImplies, PTL DEF Spec

=============================================================================
