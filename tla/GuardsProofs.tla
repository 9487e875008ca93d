---------------------------- MODULE GuardsProofs ----------------------------
(***************************************************************************)
(* Proofs about both ways to put a guard before a tool.  First             *)
(* GovernedCalls, for every finite set of threads, every threshold and     *)
(* cooldown of the breaker, every way of wrapping a tool and both modes of *)
(* the client; then McpSession, for every number of messages, both flags   *)
(* and every mishap; last the two side by side, as MCGuards has them.      *)
(***************************************************************************)
EXTENDS MCGuards, FiniteSetTheorems, SequenceTheorems, TLAPS

-----------------------------------------------------------------------------
(***************************************************************************)
(* The inductive invariant.  A post that went out since the breaker last   *)
(* forgot its failures is still on its way, or has become one of them, or  *)
(* was taken out again for its key.  While the breaker is closed that      *)
(* bounds the posts, and a thread that is about to post is not among those *)
(* on their way; once it is open no further post goes out.                 *)
(***************************************************************************)
Posting == {t \in Threads : thread[t] = "posting"}

OpensAtThreshold == opened <=> failures = FailureThreshold

PostsAreCounted ==
    /\ Cardinality(Posting) <= sent
    /\ ~opened => sent <= failures + Cardinality(Posting)

CallsInv ==
    /\ CallsTypeOK
    /\ OpensAtThreshold
    /\ PostsAreCounted
    /\ SparesTheService
    /\ RanOnlyIfPermitted

-----------------------------------------------------------------------------
(***************************************************************************)
(* How a call may end.                                                     *)
(***************************************************************************)
Permitted(call) ==
    call.ran =>
       \/ /\ ~wrapper.dry
          /\ \/ call.reply \in {"allow", "log_and_allow"}
             \/ call.review = "allowed"
             \/ failOpen /\ call.reply \in {"outage", "invalid", "breaker"}
       \/ wrapper = Wrap("callback", "ignore", FALSE)
       \/ wrapper = Wrap("callback", "raise", FALSE) /\ call.reply # "block"

(* The ways to wrap a tool, written out. *)
LEMMA WrapperFields ==
    ASSUME wrapper \in Wrappers
    PROVE  /\ wrapper.dry \in BOOLEAN
           /\ wrapper.by = "callback" =>
                 \/ wrapper = Wrap("callback", "ignore", FALSE)
                 \/ wrapper = Wrap("callback", "raise", FALSE) /\ wrapper.pending = "raise"
  <1> DEFINE Decorated == {Wrap("decorator", p, d) : p \in {"raise", "wait", "block"}, d \in BOOLEAN}
             Dispatched == {Wrap("dispatcher", p, FALSE) : p \in {"wait", "block"}}
             Looped == {Wrap("agent", "raise", d) : d \in BOOLEAN}
             Announcing == {Wrap("callback", p, FALSE) : p \in {"raise", "ignore"}}
             Chained == {Wrap("langchain", "block", FALSE)}
  <1>1. wrapper \in Decorated => wrapper.by = "decorator" /\ wrapper.dry \in BOOLEAN
    BY DEF Wrap
  <1>2. wrapper \in Dispatched => wrapper.by = "dispatcher" /\ wrapper.dry = FALSE
    BY DEF Wrap
  <1>3. wrapper \in Looped => wrapper.by = "agent" /\ wrapper.dry \in BOOLEAN
    BY DEF Wrap
  <1>4. wrapper \in Announcing =>
            \/ wrapper = Wrap("callback", "ignore", FALSE)
            \/ wrapper = Wrap("callback", "raise", FALSE)
    OBVIOUS
  <1>5. wrapper \in Chained => wrapper.by = "langchain" /\ wrapper.dry = FALSE
    BY DEF Wrap
  <1>6. /\ \A p, d : Wrap("callback", p, d).dry = d
        /\ Wrap("callback", "raise", FALSE).pending = "raise"
    BY DEF Wrap
  <1>7. wrapper \in Decorated \cup Dispatched \cup Looped \cup Announcing \cup Chained
    BY DEF Wrappers, Wrap
  <1> HIDE DEF Decorated, Dispatched, Looped, Announcing, Chained
  <1>8. \/ wrapper \in Decorated \/ wrapper \in Dispatched \/ wrapper \in Looped
        \/ wrapper \in Announcing \/ wrapper \in Chained
    BY <1>7
  <1>9. wrapper.dry \in BOOLEAN
    BY <1>1, <1>2, <1>3, <1>4, <1>5, <1>6, <1>8
  <1>10. wrapper.by = "callback" => wrapper \in Announcing
    BY <1>1, <1>2, <1>3, <1>5, <1>8
  <1>11. QED
    BY <1>4, <1>6, <1>9, <1>10

(* What the client makes of a reply permits a call only if the reply does, *)
(* or the client fails open and could not ask.                             *)
LEMMA AnswersPermit ==
    ASSUME NEW reply \in Replies \cup {"breaker"}, AnswerOf(reply) \in Permitting
    PROVE  \/ reply \in {"allow", "log_and_allow"}
           \/ failOpen /\ reply \in {"outage", "invalid", "breaker"}
  <1>1. CASE reply \in {"outage", "invalid", "breaker"}
    <2>1. AnswerOf(reply) = Unavailable
      BY <1>1 DEF AnswerOf
    <2>2. QED
      BY <1>1, <2>1 DEF Unavailable, Permitting
  <1>2. CASE reply = "rejected"
    BY <1>2 DEF AnswerOf, Permitting
  <1>3. CASE reply \notin {"outage", "invalid", "breaker", "rejected"}
    <2>1. AnswerOf(reply) = reply
      BY <1>3 DEF AnswerOf
    <2>2. QED
      BY <1>3, <2>1 DEF Permitting, Replies, Decisions
  <1>4. QED
    BY <1>1, <1>2, <1>3

(* Whatever a post came back with, the tool ran only if it was permitted. *)
LEMMA ResultsArePermitted ==
    ASSUME wrapper \in Wrappers, NEW reply \in Replies \cup {"breaker"}
    PROVE  Permitted(Result(reply))
  <1>1. CASE wrapper.by = "callback"
    <2>1. Result(reply) = Announced(reply)
      BY <1>1 DEF Result
    <2>2. wrapper.pending = "raise" /\ reply = "block" => ~Announced(reply).ran
      <3>1. AnswerOf("block") = "block"
        BY DEF AnswerOf
      <3>2. QED
        BY <3>1 DEF Announced, Ended
    <2>3. Announced(reply).reply = reply
      BY DEF Announced, Ended
    <2>4. QED
      BY <1>1, <2>1, <2>2, <2>3, WrapperFields DEF Permitted
  <1>2. CASE wrapper.by # "callback" /\ AnswerOf(reply) \in Permitting
    <2>1. Result(reply) = Executed(reply, "none")
      BY <1>2 DEF Result
    <2>2. Result(reply).reply = reply /\ (Result(reply).ran => ~wrapper.dry)
      BY <2>1, WrapperFields DEF Executed, Ended
    <2>3. QED
      BY <1>2, <2>2, AnswersPermit DEF Permitted
  <1>3. CASE wrapper.by # "callback" /\ AnswerOf(reply) \notin Permitting
    <2>1. Result(reply) = Ended(reply, "none", FALSE, Refusal(reply))
      BY <1>3 DEF Result
    <2>2. QED
      BY <2>1 DEF Permitted, Ended
  <1>4. QED
    BY <1>1, <1>2, <1>3

(* A call that was held ran only if a human allowed it. *)
LEMMA ReviewsArePermitted ==
    ASSUME wrapper \in Wrappers, NEW review \in {"allowed", "refused", "failed"}
    PROVE  Permitted(Reviewed(review))
  <1>1. CASE review = "allowed"
    <2>1. Reviewed(review) = Executed("require_hitl", review)
      BY <1>1 DEF Reviewed
    <2>2. Reviewed(review).review = "allowed" /\ (Reviewed(review).ran => ~wrapper.dry)
      BY <1>1, <2>1, WrapperFields DEF Executed, Ended
    <2>3. QED
      BY <2>2 DEF Permitted
  <1>2. CASE review # "allowed"
    <2>1. ~Reviewed(review).ran
      BY <1>2 DEF Reviewed, Ended
    <2>2. QED
      BY <2>1 DEF Permitted
  <1>3. QED
    BY <1>1, <1>2

-----------------------------------------------------------------------------
(***************************************************************************)
(* The breaker.                                                            *)
(***************************************************************************)

(* There are finitely many posts under way, and one more thread at least   *)
(* where a thread is not posting.                                          *)
LEMMA PostingBound ==
    /\ IsFiniteSet(Posting) /\ Cardinality(Posting) \in Nat
    /\ Cardinality(Threads) \in Nat
    /\ Cardinality(Posting) <= Cardinality(Threads)
    /\ \A t \in Threads : t \notin Posting => Cardinality(Posting) + 1 <= Cardinality(Threads)
  <1>1. Posting \in SUBSET Threads
    BY DEF Posting
  <1>2. /\ IsFiniteSet(Posting) /\ Cardinality(Posting) \in Nat
        /\ Cardinality(Threads) \in Nat
        /\ Cardinality(Posting) <= Cardinality(Threads)
    BY <1>1, ThreadsAssumption, FS_Subset, FS_CardinalityType
  <1>3. ASSUME NEW t \in Threads, t \notin Posting
        PROVE  Cardinality(Posting) + 1 <= Cardinality(Threads)
    <2>1. Posting \cup {t} \in SUBSET Threads
      BY <1>1, <1>3
    <2>2. Cardinality(Posting \cup {t}) <= Cardinality(Threads)
      BY <2>1, ThreadsAssumption, FS_Subset
    <2>3. Cardinality(Posting \cup {t}) = Cardinality(Posting) + 1
      BY <1>2, <1>3, FS_AddElement
    <2>4. QED
      BY <2>2, <2>3
  <1>4. QED
    BY <1>2, <1>3

(* Nothing of the breaker changes. *)
LEMMA BreakerStays ==
    ASSUME CallsInv, UNCHANGED << setup, failures, opened, sent >>,
           CallsTypeOK', Posting' = Posting, Permitted(last)'
    PROVE  CallsInv'
  <1>1. RanOnlyIfPermitted'
    BY DEF Permitted, RanOnlyIfPermitted
  <1>2. QED
    BY <1>1 DEF CallsInv, OpensAtThreshold, PostsAreCounted, SparesTheService

(* The breaker forgets its failures, and starts to count posts anew. *)
LEMMA BreakerForgets ==
    ASSUME CallsInv, Forget, CallsTypeOK', Permitted(last)',
           sent' = Cardinality(Posting'), Cardinality(Posting') \in {0, 1},
           NEW t \in Threads
    PROVE  CallsInv'
  <1>1. RanOnlyIfPermitted'
    BY DEF Permitted, RanOnlyIfPermitted
  <1>2. Cardinality(Threads) \in Nat /\ Cardinality(Threads) >= 1
    <2>1. Cardinality(Threads) \in Nat
      BY PostingBound
    <2>2. Cardinality(Threads) # 0
      BY ThreadsAssumption, FS_EmptySet
    <2>3. QED
      BY <2>1, <2>2
  <1>3. SparesTheService'
    BY <1>2, BreakerAssumption DEF SparesTheService
  <1>4. OpensAtThreshold' /\ PostsAreCounted'
    BY BreakerAssumption DEF Forget, OpensAtThreshold, PostsAreCounted
  <1>5. QED
    BY <1>1, <1>3, <1>4 DEF CallsInv

(* A call whose state changes permits what it permitted. *)
LEMMA LastStays ==
    ASSUME CallsInv, UNCHANGED << setup, last >>
    PROVE  Permitted(last)'
  BY DEF CallsInv, RanOnlyIfPermitted, Permitted, setup

(* A new result is permitted, as the setup does not change. *)
LEMMA LastIsPermitted ==
    ASSUME CallsInv, UNCHANGED setup,
           \/ \E reply \in Replies \cup {"breaker"} : last' = Result(reply)
           \/ \E review \in {"allowed", "refused", "failed"} : last' = Reviewed(review)
    PROVE  Permitted(last)'
  <1>1. wrapper \in Wrappers
    BY DEF CallsInv, CallsTypeOK
  <1>2. Permitted(last')
    BY <1>1, ResultsArePermitted, ReviewsArePermitted
  <1>3. QED
    BY <1>2 DEF Permitted, setup

(* The first calls of a client. *)
LEMMA CallsInvInit == CallsInit => CallsInv
  <1> SUFFICES ASSUME CallsInit
               PROVE  CallsInv
    OBVIOUS
  <1>1. CallsTypeOK
    <2>1. failures \in 0 .. FailureThreshold /\ age \in 0 .. Cooldown /\ sent \in Nat
      BY BreakerAssumption DEF CallsInit
    <2>2. thread \in [Threads -> {"idle", "posting", "overtaken", "waiting"}]
      BY DEF CallsInit
    <2>3. QED
      BY <2>1, <2>2 DEF CallsInit, CallsTypeOK
  <1>2. Posting = {}
    BY DEF CallsInit, Posting
  <1>3. OpensAtThreshold /\ PostsAreCounted
    BY <1>2, BreakerAssumption, FS_EmptySet
       DEF CallsInit, OpensAtThreshold, PostsAreCounted
  <1>4. SparesTheService
    BY PostingBound, BreakerAssumption DEF CallsInit, SparesTheService
  <1>5. RanOnlyIfPermitted
    BY DEF CallsInit, RanOnlyIfPermitted, NoCall, Ended
  <1>6. QED
    BY <1>1, <1>3, <1>4, <1>5 DEF CallsInv

-----------------------------------------------------------------------------
(***************************************************************************)
(* The steps.                                                              *)
(***************************************************************************)

(* A call goes out. *)
LEMMA CallPostsKeepsInv ==
    ASSUME CallsInv, NEW t \in Threads, CallPosts(t)
    PROVE  CallsInv'
  <1> USE BreakerAssumption
  <1>1. /\ CallsTypeOK /\ thread[t] = "idle"
        /\ thread \in [Threads -> {"idle", "posting", "overtaken", "waiting"}]
        /\ sent \in Nat /\ failures \in 0 .. FailureThreshold
    BY DEF CallsInv, CallPosts, CallsTypeOK
  <1>2. UNCHANGED << setup, well, last >> /\ Permitted(last)'
    BY LastStays DEF CallPosts, setup
  <1>3. CASE opened
    <2>1. Forget /\ thread' = [Overtake(thread) EXCEPT ![t] = "posting"] /\ sent' = 1
      BY <1>3 DEF CallPosts
    <2>2. Overtake(thread) \in [Threads -> {"idle", "overtaken", "waiting"}]
      BY <1>1 DEF Overtake
    <2>3. /\ thread' \in [Threads -> {"idle", "posting", "overtaken", "waiting"}]
          /\ \A u \in Threads : thread'[u] = "posting" <=> u = t
      BY <2>1, <2>2
    <2>4. Posting' = {t}
      BY <2>3 DEF Posting
    <2>5. Cardinality(Posting') = 1
      BY <2>4, FS_Singleton
    <2>6. CallsTypeOK'
      <3>1. failures' \in 0 .. FailureThreshold /\ age' \in 0 .. Cooldown
        BY <2>1, BreakerAssumption DEF Forget
      <3>2. opened' \in BOOLEAN
        BY <2>1 DEF Forget
      <3>3. QED
        BY <1>1, <1>2, <2>1, <2>3, <3>1, <3>2 DEF CallsTypeOK, setup
    <2>7. QED
      BY <1>2, <2>1, <2>5, <2>6, BreakerForgets
  <1>4. CASE ~opened
    <2>1. /\ UNCHANGED << failures, opened, age >>
          /\ thread' = [thread EXCEPT ![t] = "posting"]
          /\ sent' = sent + 1
      BY <1>4 DEF CallPosts
    <2>2. /\ thread' \in [Threads -> {"idle", "posting", "overtaken", "waiting"}]
          /\ Posting' = Posting \cup {t}
      BY <1>1, <2>1 DEF Posting
    <2>3. t \notin Posting
      BY <1>1 DEF Posting
    <2>4. Cardinality(Posting') = Cardinality(Posting) + 1
      BY <2>2, <2>3, PostingBound, FS_AddElement
    <2>5. CallsTypeOK'
      BY <1>1, <1>2, <2>1, <2>2 DEF CallsTypeOK, setup
    <2>6. /\ failures <= FailureThreshold - 1
          /\ Cardinality(Posting) <= sent /\ sent <= failures + Cardinality(Posting)
          /\ OpensAtThreshold
      BY <1>1, <1>4 DEF CallsInv, OpensAtThreshold, PostsAreCounted
    <2>7. SparesTheService'
      <3>1. sent + 1 <= FailureThreshold - 1 + Cardinality(Threads)
        BY <1>1, <2>3, <2>6, PostingBound
      <3>2. QED
        BY <2>1, <3>1 DEF SparesTheService
    <2>8. PostsAreCounted'
      BY <1>1, <2>1, <2>4, <2>6, PostingBound DEF PostsAreCounted
    <2>9. QED
      BY <1>2, <2>1, <2>5, <2>6, <2>7, <2>8
         DEF CallsInv, OpensAtThreshold, RanOnlyIfPermitted, Permitted
  <1>5. QED
    BY <1>3, <1>4

(* What a reply does to the breaker, by its kind. *)
LEMMA CountDoes ==
    ASSUME NEW t, NEW reply, NEW rest, Count(t, reply, rest)
    PROVE  /\ reply \in Decisions \cup {"unreadable"} =>
                 Forget /\ sent' = 0 /\ thread' = Overtake(rest)
           /\ reply = "rejected" =>
                 /\ sent' = IF thread[t] = "posting" THEN sent - 1 ELSE sent
                 /\ thread' = rest
                 /\ UNCHANGED << failures, opened, age >>
           /\ reply \notin Decisions \cup {"unreadable", "rejected"} =>
                 RecordFailure /\ thread' = rest /\ UNCHANGED sent
  <1>1. CASE reply \in Decisions \cup {"unreadable"}
    <2>1. reply # "rejected"
      BY <1>1 DEF Decisions
    <2>2. Forget /\ sent' = 0 /\ thread' = Overtake(rest)
      BY <1>1, <2>1, Zenon DEF Count
    <2>3. QED
      BY <1>1, <2>1, <2>2
  <1>2. CASE reply = "rejected"
    <2>1. reply \notin Decisions \cup {"unreadable"}
      BY <1>2 DEF Decisions
    <2>2. /\ sent' = IF thread[t] = "posting" THEN sent - 1 ELSE sent
          /\ thread' = rest
          /\ UNCHANGED << failures, opened, age >>
      BY <1>2, <2>1, Zenon DEF Count
    <2>3. QED
      BY <1>2, <2>1, <2>2
  <1>3. CASE reply \notin Decisions \cup {"unreadable", "rejected"}
    <2>1. reply \notin Decisions \cup {"unreadable"} /\ reply # "rejected"
      BY <1>3
    <2>2. RecordFailure /\ thread' = rest /\ UNCHANGED sent
      BY <2>1, Zenon DEF Count
    <2>3. QED
      BY <1>3, <2>1, <2>2
  <1>4. QED
    BY <1>1, <1>2, <1>3

(* A reply is counted. *)
LEMMA CountKeepsInv ==
    ASSUME CallsInv, NEW t \in Threads, thread[t] \in {"posting", "overtaken"},
           NEW reply \in Replies, NEW next \in {"idle", "waiting"},
           Count(t, reply, [thread EXCEPT ![t] = next]),
           UNCHANGED << setup, well >>, Permitted(last)'
    PROVE  CallsInv'
  <1> USE BreakerAssumption
  <1> DEFINE rest == [thread EXCEPT ![t] = next]
  <1>1. /\ CallsTypeOK
        /\ thread \in [Threads -> {"idle", "posting", "overtaken", "waiting"}]
        /\ sent \in Nat /\ failures \in 0 .. FailureThreshold
        /\ OpensAtThreshold /\ PostsAreCounted /\ SparesTheService
    BY DEF CallsInv, CallsTypeOK
  <1>2. /\ rest \in [Threads -> {"idle", "posting", "overtaken", "waiting"}]
        /\ \A u \in Threads : rest[u] = "posting" <=> u \in Posting \ {t}
    BY <1>1 DEF Posting
  <1> DEFINE left == Posting \ {t}
  <1>3. /\ IsFiniteSet(left)
        /\ Cardinality(left) = IF thread[t] = "posting" THEN Cardinality(Posting) - 1
                               ELSE Cardinality(Posting)
    BY PostingBound, FS_RemoveElement DEF Posting
  <1>4. Cardinality(Posting) \in Nat /\ Cardinality(left) \in Nat
    BY <1>3, PostingBound, FS_CardinalityType
  <1>5. thread' = rest => Posting' = left
    BY <1>2 DEF Posting
  <1> HIDE DEF rest, left
  <1>6. CASE reply \in Decisions \cup {"unreadable"}
    <2>1. Forget /\ sent' = 0 /\ thread' = Overtake(rest)
      BY <1>6, CountDoes DEF rest
    <2>2. thread' \in [Threads -> {"idle", "overtaken", "waiting"}]
      BY <1>2, <2>1 DEF Overtake
    <2>3. Posting' = {}
      BY <2>2 DEF Posting
    <2>4. Cardinality(Posting') = 0
      BY <2>3, FS_EmptySet
    <2>5. CallsTypeOK'
      <3>1. thread' \in [Threads -> {"idle", "posting", "overtaken", "waiting"}]
        BY <2>2
      <3>2. failures' \in 0 .. FailureThreshold /\ age' \in 0 .. Cooldown
        BY <2>1, BreakerAssumption DEF Forget
      <3>3. opened' \in BOOLEAN
        BY <2>1 DEF Forget
      <3>4. QED
        BY <1>1, <2>1, <3>1, <3>2, <3>3 DEF CallsTypeOK, setup
    <2>6. QED
      BY <2>1, <2>4, <2>5, BreakerForgets
  <1>7. CASE reply = "rejected"
    <2>1. /\ sent' = IF thread[t] = "posting" THEN sent - 1 ELSE sent
          /\ thread' = rest
          /\ UNCHANGED << failures, opened, age >>
      BY <1>7, CountDoes DEF rest
    <2>2. Posting' = left
      BY <1>5, <2>1
    <2>3. sent' \in Nat /\ sent' <= sent
      BY <1>1, <1>3, <1>4, <2>1 DEF PostsAreCounted
    <2>4. PostsAreCounted'
      BY <1>1, <1>3, <1>4, <2>1, <2>2 DEF PostsAreCounted
    <2>5. SparesTheService'
      BY <1>1, <2>3, PostingBound DEF SparesTheService
    <2>6. CallsTypeOK'
      BY <1>1, <1>2, <2>1, <2>3 DEF CallsTypeOK, setup
    <2>7. QED
      BY <1>1, <2>1, <2>4, <2>5, <2>6
         DEF CallsInv, OpensAtThreshold, RanOnlyIfPermitted, Permitted
  <1>8. CASE reply \notin Decisions \cup {"unreadable", "rejected"}
    <2>1. RecordFailure /\ thread' = rest /\ UNCHANGED sent
      BY <1>8, CountDoes DEF rest
    <2>2. Posting' = left
      BY <1>5, <2>1
    <2>3. /\ failures' \in 0 .. FailureThreshold
          /\ OpensAtThreshold'
          /\ ~opened' => failures' = failures + 1 /\ ~opened
          /\ age' = 0 \/ age' = age
          /\ opened' \in BOOLEAN
      <3>1. FailureThreshold \in Nat \ {0} /\ opened \in BOOLEAN
        BY <1>1, BreakerAssumption DEF CallsTypeOK
      <3>2. CASE failures' = FailureThreshold
        <4>1. opened' = TRUE /\ age' = 0
          BY <2>1, <3>2 DEF RecordFailure
        <4>2. QED
          BY <3>1, <3>2, <4>1 DEF OpensAtThreshold
      <3>3. CASE failures' # FailureThreshold
        <4>1. UNCHANGED << opened, age >> /\ failures # FailureThreshold /\ failures' = failures + 1
          BY <2>1, <3>3 DEF RecordFailure
        <4>2. QED
          BY <1>1, <3>1, <3>3, <4>1 DEF OpensAtThreshold
      <3>4. QED
        BY <3>2, <3>3
    <2>4. PostsAreCounted'
      BY <1>1, <1>3, <1>4, <2>1, <2>2, <2>3 DEF PostsAreCounted
    <2>5. SparesTheService'
      BY <1>1, <2>1 DEF SparesTheService
    <2>6. CallsTypeOK'
      BY <1>1, <1>2, <2>1, <2>3 DEF CallsTypeOK, setup
    <2>7. QED
      BY <2>3, <2>4, <2>5, <2>6 DEF CallsInv, RanOnlyIfPermitted, Permitted
  <1>9. QED
    BY <1>6, <1>7, <1>8

(* A post comes back, and the call ends or is held. *)
LEMMA CallAnsweredKeepsInv ==
    ASSUME CallsInv, NEW t \in Threads, CallAnswered(t)
    PROVE  CallsInv'
  <1>1. thread[t] \in {"posting", "overtaken"} /\ UNCHANGED << setup, well >>
    BY DEF CallAnswered
  <1>2. PICK reply \in Replies :
            IF Waits(reply)
            THEN /\ Count(t, reply, [thread EXCEPT ![t] = "waiting"])
                 /\ UNCHANGED last
            ELSE /\ Count(t, reply, [thread EXCEPT ![t] = "idle"])
                 /\ last' = Result(reply)
    BY DEF CallAnswered, Replies
  <1>3. CASE Waits(reply)
    <2>1. Count(t, reply, [thread EXCEPT ![t] = "waiting"]) /\ Permitted(last)'
      BY <1>1, <1>2, <1>3, LastStays
    <2>2. QED
      BY <1>1, <2>1, CountKeepsInv
  <1>4. CASE ~Waits(reply)
    <2>1. Count(t, reply, [thread EXCEPT ![t] = "idle"]) /\ Permitted(last)'
      BY <1>1, <1>2, <1>4, LastIsPermitted
    <2>2. QED
      BY <1>1, <2>1, CountKeepsInv
  <1>5. QED
    BY <1>3, <1>4

(* Every step of a thread, and the passing of time, keeps the invariant. *)
LEMMA CallsInvStep == CallsInv /\ [CallsNext]_callVars => CallsInv'
  <1> SUFFICES ASSUME CallsInv, [CallsNext]_callVars
               PROVE  CallsInv'
    OBVIOUS
  <1>1. CallsTypeOK /\ BreakerAssumption
    BY BreakerAssumption DEF CallsInv
  <1>2. ASSUME NEW t \in Threads, CallRefused(t)
        PROVE  CallsInv'
    <2>1. /\ UNCHANGED << setup, well, failures, opened, age, thread, sent >>
          /\ last' = Result("breaker")
      BY <1>2 DEF CallRefused
    <2>2. Permitted(last)'
      BY <2>1, LastIsPermitted
    <2>3. CallsTypeOK' /\ Posting' = Posting
      BY <1>1, <2>1 DEF CallsTypeOK, setup, Posting
    <2>4. QED
      BY <2>1, <2>2, <2>3, BreakerStays
  <1>3. ASSUME NEW t \in Threads, WaitEnds(t)
        PROVE  CallsInv'
    <2>1. /\ thread[t] = "waiting"
          /\ \E review \in {"allowed", "refused", "failed"} : last' = Reviewed(review)
          /\ thread' = [thread EXCEPT ![t] = "idle"]
          /\ UNCHANGED << setup, well, failures, opened, age, sent >>
      BY <1>3 DEF WaitEnds
    <2>2. Permitted(last)'
      BY <2>1, LastIsPermitted
    <2>3. CallsTypeOK' /\ Posting' = Posting
      BY <1>1, <2>1 DEF CallsTypeOK, setup, Posting
    <2>4. QED
      BY <2>1, <2>2, <2>3, BreakerStays
  <1>4. CASE Tick
    <2>1. /\ UNCHANGED << setup, well, failures, opened, thread, last, sent >>
          /\ age < Cooldown /\ age' = age + 1
      BY <1>4 DEF Tick
    <2>2. CallsTypeOK' /\ Posting' = Posting /\ Permitted(last)'
      BY <1>1, <2>1, LastStays DEF CallsTypeOK, setup, Posting
    <2>3. QED
      BY <2>1, <2>2, BreakerStays
  <1>5. CASE Weather \/ UNCHANGED callVars
    <2>1. /\ UNCHANGED << setup, failures, opened, age, thread, last, sent >>
          /\ well' \in BOOLEAN
      BY <1>1, <1>5 DEF Weather, callVars, CallsTypeOK
    <2>2. CallsTypeOK' /\ Posting' = Posting /\ Permitted(last)'
      BY <1>1, <2>1, LastStays DEF CallsTypeOK, setup, Posting
    <2>3. QED
      BY <2>1, <2>2, BreakerStays
  <1>6. QED
    BY <1>2, <1>3, <1>4, <1>5, CallPostsKeepsInv, CallAnsweredKeepsInv DEF CallsNext, Call

(* So it holds of every reachable state. *)
LEMMA CallsInvariant == CallsSpec => []CallsInv
  BY CallsInvInit, CallsInvStep, PTL DEF CallsSpec

-----------------------------------------------------------------------------
(* Every reachable state of the governed calls is well typed; in           *)
(* particular the breaker never counts beyond its threshold.               *)
THEOREM CallsTypeCorrect == CallsSpec => []CallsTypeOK
  <1>1. CallsInv => CallsTypeOK
    BY DEF CallsInv
  <1>2. QED
    BY <1>1, CallsInvariant, PTL

(* However a tool is wrapped, it runs only when policy permitted the call, *)
(* a human approved it, or the client was set up to fail open and could    *)
(* not ask; and the callback handler, which only announces, only where a   *)
(* block was not to be raised.                                             *)
THEOREM ToolsRunOnlyIfPermitted == CallsSpec => []RanOnlyIfPermitted
  <1>1. CallsInv => RanOnlyIfPermitted
    BY DEF CallsInv
  <1>2. QED
    BY <1>1, CallsInvariant, PTL

(* The breaker stops calling a service that is down: since it last forgot  *)
(* its failures, no more posts went out than open it, and one more of each *)
(* other thread.                                                           *)
THEOREM BreakerSparesTheService == CallsSpec => []SparesTheService
  <1>1. CallsInv => SparesTheService
    BY DEF CallsInv
  <1>2. QED
    BY <1>1, CallsInvariant, PTL

-----------------------------------------------------------------------------
(***************************************************************************)
(* The inductive invariant.  A message is in one place: still ahead of the *)
(* reader, in hand there, with the server, in the pipe, or done with.      *)
(***************************************************************************)
Ahead(m) == m > reader.at \/ (m = reader.at /\ reader.step = "judge")

AheadIsUntouched ==
    \A m \in Messages :
        Ahead(m) => answers[m] = 0 /\ ~Underway(m) /\ m \notin refused

PipedOnce == \A i, j \in DOMAIN pipe : pipe[i] = pipe[j] => i = j

PipedIsAnswered == \A i \in DOMAIN pipe : pipe[i] \notin inbox

(***************************************************************************)
(* Nothing is lost unless the server dies or the client is gone: the       *)
(* server runs for as long as its stdin is open, which only the end of the *)
(* reader closes, and it does not exit with work undone; the reader ends   *)
(* with the client's stream, and the writer only behind the server.        *)
(***************************************************************************)
Accounted == \A m \in Messages : ~Ahead(m) /\ m <= reader.at => answers[m] = 1 \/ Underway(m)

NothingIsLost ==
    mishap # "death" /\ client.reads =>
        /\ Accounted
        /\ ~server.open <=> reader.step = "ended"
        /\ ~server.runs => ~server.open /\ inbox = {}
        /\ reader.step = "ended" => ~client.open /\ reader.at = client.wrote
        /\ writer = "ended" => ~server.runs /\ pipe = << >>
        /\ main # "wait" => ~server.runs
        /\ main = "left" => writer = "ended" \/ mishap = "timeout"

SessionInv ==
    /\ SessionTypeOK
    /\ reader.step = "judge" => reader.at > 0
    /\ AheadIsUntouched
    /\ PipedOnce
    /\ PipedIsAnswered
    /\ AnsweredOnce
    /\ NothingIsLost

(* A session without a mishap leaves no message unanswered of a client that *)
(* still reads.                                                             *)
LeavesNothingUnanswered ==
    mishap = "none" /\ client.reads /\ main = "left" =>
        \A m \in Messages : m <= client.wrote => answers[m] = 1

-----------------------------------------------------------------------------
(* The types, field by field. *)
LEMMA SessionTypes ==
    ASSUME SessionTypeOK
    PROVE  /\ NumMessages \in Nat
           /\ client.wrote \in 0 .. NumMessages /\ client.open \in BOOLEAN
           /\ client.reads \in BOOLEAN /\ (client.open => client.reads)
           /\ reader.step \in {"read", "judge", "ended"} /\ reader.at \in 0 .. NumMessages
           /\ server.runs \in BOOLEAN /\ server.open \in BOOLEAN
           /\ pipe \in Seq(Messages) /\ Len(pipe) \in Nat /\ DOMAIN pipe = 1 .. Len(pipe)
           /\ answers \in [Messages -> Nat]
           /\ inbox \subseteq Messages
  <1>1. pipe \in Seq(Messages) /\ Len(pipe) \in Nat /\ DOMAIN pipe = 1 .. Len(pipe)
    BY LenProperties DEF SessionTypeOK
  <1>2. QED
    BY <1>1, MessagesAssumption DEF SessionTypeOK

(* The first state of a session. *)
LEMMA SessionInvInit == SessionInit => SessionInv
  <1> SUFFICES ASSUME SessionInit
               PROVE  SessionInv
    OBVIOUS
  <1>1. pipe \in Seq(Messages) /\ DOMAIN pipe = {}
    BY EmptySeq DEF SessionInit
  <1>2. SessionTypeOK
    BY <1>1, MessagesAssumption DEF SessionInit, SessionTypeOK
  <1>3. AheadIsUntouched /\ PipedOnce /\ PipedIsAnswered /\ AnsweredOnce
    BY <1>1 DEF SessionInit, AheadIsUntouched, Underway, PipedOnce, PipedIsAnswered, AnsweredOnce
  <1>4. NothingIsLost
    BY DEF SessionInit, NothingIsLost, Accounted, Messages
  <1>5. QED
    BY <1>2, <1>3, <1>4 DEF SessionInit, SessionInv

-----------------------------------------------------------------------------
(***************************************************************************)
(* Steps that move no message keep every message where it is.              *)
(***************************************************************************)
LEMMA NothingMoves ==
    ASSUME SessionInv, UNCHANGED << mishap, reader, inbox, pipe, answers, refused >>,
           client'.reads => client.reads, SessionTypeOK', NothingIsLost'
    PROVE  SessionInv'
  BY DEF SessionInv, AheadIsUntouched, Ahead, Underway, PipedOnce, PipedIsAnswered, AnsweredOnce

(* The client writes, hangs up, and goes. *)
LEMMA ClientKeepsInv ==
    ASSUME SessionInv, ClientWrites \/ ClientHangsUp \/ ClientGoes
    PROVE  SessionInv'
  <1>1. SessionTypeOK /\ NothingIsLost
    BY DEF SessionInv
  <1>2. UNCHANGED << flags, mishap, reader, inbox, pipe, answers, refused, server, writer, main >>
    BY DEF ClientWrites, ClientHangsUp, ClientGoes
  <1>3. /\ client' \in [wrote : 0 .. NumMessages, open : BOOLEAN, reads : BOOLEAN]
        /\ client'.open => client'.reads
        /\ client'.reads => client.reads /\ client.open
    <2>1. /\ client \in [wrote : 0 .. NumMessages, open : BOOLEAN, reads : BOOLEAN]
          /\ client.open => client.reads
          /\ NumMessages \in Nat
      BY <1>1, SessionTypes DEF SessionTypeOK
    <2>2. CASE ClientWrites
      <3>1. /\ client' = [client EXCEPT !.wrote = client.wrote + 1]
            /\ client.wrote < NumMessages /\ client.open
        BY <2>2 DEF ClientWrites
      <3>2. client.wrote + 1 \in 0 .. NumMessages
        BY <2>1, <3>1
      <3>3. QED
        BY <2>1, <3>1, <3>2
    <2>3. CASE ClientHangsUp
      BY <2>1, <2>3 DEF ClientHangsUp
    <2>4. CASE ClientGoes
      BY <2>1, <2>4 DEF ClientGoes
    <2>5. QED
      BY <2>2, <2>3, <2>4
  <1>4. SessionTypeOK'
    BY <1>1, <1>2, <1>3 DEF SessionTypeOK
  <1>5. NothingIsLost'
    BY <1>1, <1>2, <1>3 DEF NothingIsLost, Accounted, Ahead, Underway
  <1>6. QED
    BY <1>2, <1>3, <1>4, <1>5, NothingMoves

(* The server exits, with its work done unless it dies; the writer ends    *)
(* behind it; and the main thread joins the writer and leaves.             *)
LEMMA EndingsKeepInv ==
    ASSUME SessionInv, ServerExits \/ ServerCrashes \/ WriterEnds \/ MainJoins \/ MainLeaves
    PROVE  SessionInv'
  <1>1. SessionTypeOK /\ NothingIsLost
    BY DEF SessionInv
  <1>2. UNCHANGED << flags, mishap, client, reader, inbox, pipe, answers, refused >>
    BY DEF ServerExits, ServerCrashes, WriterEnds, MainJoins, MainLeaves
  <1>3. /\ server' \in [runs : BOOLEAN, open : BOOLEAN]
        /\ writer' \in {"pump", "ended"} /\ main' \in {"wait", "join", "left"}
        /\ server'.open = server.open
        /\ ~server.runs => ~server'.runs
    BY <1>1 DEF SessionTypeOK, ServerExits, ServerCrashes, WriterEnds, MainJoins, MainLeaves
  <1>4. SessionTypeOK'
    BY <1>1, <1>2, <1>3 DEF SessionTypeOK
  <1>5. NothingIsLost'
    <2> SUFFICES ASSUME mishap # "death", client.reads
                 PROVE  NothingIsLost'
      BY <1>2 DEF NothingIsLost
    <2>1. Accounted'
      BY <1>1, <1>2 DEF NothingIsLost, Accounted, Ahead, Underway
    <2>2. /\ ~server'.open <=> reader'.step = "ended"
          /\ reader'.step = "ended" => ~client'.open /\ reader'.at = client'.wrote
      BY <1>1, <1>2, <1>3 DEF NothingIsLost
    <2>3. ~server'.runs => ~server'.open /\ inbox' = {}
      BY <1>1, <1>2, <1>3 DEF NothingIsLost, ServerExits, ServerCrashes, WriterEnds, MainJoins, MainLeaves
    <2>4. /\ writer' = "ended" => ~server'.runs /\ pipe' = << >>
          /\ main' # "wait" => ~server'.runs
          /\ main' = "left" => writer' = "ended" \/ mishap' = "timeout"
      BY <1>1, <1>2, <1>3
         DEF NothingIsLost, ServerExits, ServerCrashes, WriterEnds, MainJoins, MainLeaves, Drained
    <2>5. QED
      BY <2>1, <2>2, <2>3, <2>4 DEF NothingIsLost
  <1>6. QED
    BY <1>2, <1>4, <1>5, NothingMoves

-----------------------------------------------------------------------------
(***************************************************************************)
(* The reader pump.                                                        *)
(***************************************************************************)

(* The reader takes the next message, which nobody has touched. *)
LEMMA ReaderTakesKeepsInv ==
    ASSUME SessionInv, ReaderTakes
    PROVE  SessionInv'
  <1>1. SessionTypeOK
    BY DEF SessionInv
  <1>2. /\ reader.step = "read" /\ reader.at < client.wrote
        /\ reader' = [step |-> "judge", at |-> reader.at + 1]
        /\ UNCHANGED << flags, mishap, client, inbox, pipe, answers, refused, server, writer, main >>
    BY DEF ReaderTakes
  <1>3. reader'.at = reader.at + 1 /\ reader'.step = "judge" /\ reader'.at \in 1 .. NumMessages
    BY <1>1, <1>2, SessionTypes
  <1>4. \A m \in Messages : (Ahead(m)' <=> Ahead(m))
    BY <1>1, <1>2, <1>3, SessionTypes DEF Ahead, Messages
  <1>5. SessionTypeOK'
    BY <1>1, <1>2, <1>3 DEF SessionTypeOK
  <1>6. AheadIsUntouched' /\ PipedOnce' /\ PipedIsAnswered' /\ AnsweredOnce'
    BY <1>2, <1>4
       DEF SessionInv, AheadIsUntouched, Underway, PipedOnce, PipedIsAnswered, AnsweredOnce
  <1>7. NothingIsLost'
    <2> SUFFICES ASSUME mishap # "death", client.reads
                 PROVE  NothingIsLost'
      BY <1>2 DEF NothingIsLost
    <2>1. Accounted'
      <3>1. Accounted
        BY DEF SessionInv, NothingIsLost
      <3>2. \A m \in Messages : ~Ahead(m)' /\ m <= reader'.at => ~Ahead(m) /\ m <= reader.at
        BY <1>1, <1>2, <1>3, <1>4, SessionTypes DEF Ahead, Messages
      <3>3. \A m \in Messages : (Underway(m)' <=> Underway(m)) /\ answers'[m] = answers[m]
        BY <1>2 DEF Underway
      <3>4. QED
        BY <3>1, <3>2, <3>3 DEF Accounted
    <2>2. QED
      BY <1>2, <1>3, <2>1 DEF SessionInv, NothingIsLost
  <1>8. QED
    BY <1>3, <1>5, <1>6, <1>7 DEF SessionInv

(* The message in hand goes to the server, is answered, or is lost with a  *)
(* server that is gone; a refusal goes to the server if the client is gone. *)
LEMMA ReaderJudgesKeepsInv ==
    ASSUME SessionInv, ReaderJudges
    PROVE  SessionInv'
  <1>0. PICK here : here = reader.at
    OBVIOUS
  <1> DEFINE Marked   == refused' = refused \cup {here}
             Handed   == /\ HandOn /\ answers' = answers
                         /\ refused' = refused \/ (Marked /\ ~client.reads)
             Answered == AnswerItself /\ Marked
  <1>1. SessionTypeOK /\ NothingIsLost
    BY DEF SessionInv
  <1>2. /\ reader.step = "judge"
        /\ Handed \/ Answered
        /\ UNCHANGED << flags, mishap, client, pipe, writer, main >>
    BY <1>0 DEF ReaderJudges, Refuse, AnswerFails
  <1>3. here \in Messages /\ Ahead(here)
    BY <1>0, <1>1, <1>2, SessionTypes DEF SessionInv, Messages, Ahead
  <1>4. answers[here] = 0 /\ ~Underway(here) /\ here \notin refused
    BY <1>3 DEF SessionInv, AheadIsUntouched
  <1>5. /\ reader'.at = here /\ reader'.step \in {"read", "ended"}
        /\ reader' \in [step : {"read", "judge", "ended"}, at : 0 .. NumMessages]
    BY <1>0, <1>1, <1>2 DEF HandOn, AnswerItself, SessionTypeOK
  <1>6. \A m \in Messages : Ahead(m)' <=> Ahead(m) /\ m # here
    BY <1>0, <1>1, <1>2, <1>5, SessionTypes DEF Ahead, Messages
  <1>7. \A m \in Messages : m # here => (Underway(m)' <=> Underway(m))
    BY <1>0, <1>2 DEF HandOn, AnswerItself, Underway
  <1>8. \A i \in DOMAIN pipe : pipe[i] # here
    BY <1>4 DEF Underway
  <1>9. CASE Handed /\ server.runs
    <2>1. /\ inbox' = inbox \cup {here} /\ reader' = [reader EXCEPT !.step = "read"]
          /\ UNCHANGED << server, answers >>
          /\ refused' = refused \/ (Marked /\ ~client.reads)
      BY <1>0, <1>9 DEF HandOn
    <2>2. SessionTypeOK'
      BY <1>1, <1>2, <1>3, <1>5, <2>1 DEF SessionTypeOK
    <2>3. AheadIsUntouched' /\ PipedOnce' /\ PipedIsAnswered'
      BY <1>2, <1>6, <1>7, <1>8, <2>1
         DEF SessionInv, AheadIsUntouched, PipedOnce, PipedIsAnswered
    <2>4. AnsweredOnce'
      BY <1>2, <1>3, <1>4, <1>7, <2>1 DEF SessionInv, AnsweredOnce
    <2>5. NothingIsLost'
      <3> SUFFICES ASSUME mishap # "death", client.reads
                   PROVE  NothingIsLost'
        BY <1>2 DEF NothingIsLost
      <3>1. Underway(here)' /\ reader'.step = "read"
        BY <1>1, <2>1 DEF Underway, SessionTypeOK
      <3>2. Accounted'
        BY <1>0, <1>1, <1>5, <1>6, <1>7, <2>1, <3>1 DEF NothingIsLost, Accounted
      <3>3. QED
        BY <1>1, <1>2, <1>9, <2>1, <3>1, <3>2 DEF NothingIsLost
    <2>6. QED
      BY <1>5, <2>1, <2>2, <2>3, <2>4, <2>5 DEF SessionInv, SessionTypeOK
  <1>10. CASE Handed /\ ~server.runs
    <2>1. /\ reader' = [reader EXCEPT !.step = "ended"] /\ server' = CloseStdin
          /\ UNCHANGED << inbox, answers >>
          /\ refused' = refused \/ (Marked /\ ~client.reads)
      BY <1>10 DEF HandOn
    <2>2. SessionTypeOK'
      BY <1>1, <1>2, <1>3, <1>5, <2>1 DEF SessionTypeOK, CloseStdin
    <2>3. AheadIsUntouched' /\ PipedOnce' /\ PipedIsAnswered' /\ AnsweredOnce'
      BY <1>2, <1>4, <1>6, <2>1
         DEF SessionInv, AheadIsUntouched, Underway, PipedOnce, PipedIsAnswered, AnsweredOnce
    <2>4. mishap = "death" \/ ~client.reads
      BY <1>1, <1>2, <1>10, SessionTypes DEF NothingIsLost
    <2>5. NothingIsLost'
      BY <1>2, <2>4 DEF NothingIsLost
    <2>6. QED
      BY <1>1, <2>1, <2>2, <2>3, <2>5 DEF SessionInv, SessionTypeOK
  <1>11. CASE Answered
    <2>1. /\ answers' = [answers EXCEPT ![here] = answers[here] + 1]
          /\ refused' = refused \cup {here}
          /\ reader' = [reader EXCEPT !.step = "read"]
          /\ UNCHANGED << inbox, server >>
      BY <1>0, <1>11 DEF AnswerItself
    <2>2. /\ answers' \in [Messages -> Nat] /\ answers'[here] = 1
          /\ \A m \in Messages : m # here => answers'[m] = answers[m]
      BY <1>1, <1>3, <1>4, <2>1 DEF SessionTypeOK
    <2>3. SessionTypeOK'
      BY <1>1, <1>2, <1>3, <1>5, <2>1, <2>2 DEF SessionTypeOK
    <2>4. ~Underway(here)'
      BY <1>2, <1>4, <2>1 DEF Underway
    <2>5. AheadIsUntouched' /\ PipedOnce' /\ PipedIsAnswered'
      BY <1>2, <1>6, <1>7, <2>1, <2>2
         DEF SessionInv, AheadIsUntouched, PipedOnce, PipedIsAnswered
    <2>6. AnsweredOnce'
      BY <1>2, <1>3, <1>7, <2>1, <2>2, <2>4 DEF SessionInv, AnsweredOnce
    <2>7. NothingIsLost'
      <3> SUFFICES ASSUME mishap # "death", client.reads
                   PROVE  NothingIsLost'
        BY <1>2 DEF NothingIsLost
      <3>1. reader'.step = "read"
        BY <1>1, <2>1 DEF SessionTypeOK
      <3>2. Accounted'
        BY <1>0, <1>1, <1>5, <1>6, <1>7, <2>2 DEF NothingIsLost, Accounted
      <3>3. QED
        BY <1>1, <1>2, <2>1, <3>1, <3>2 DEF NothingIsLost
    <2>8. QED
      BY <1>5, <1>1, <2>1, <2>3, <2>5, <2>6, <2>7 DEF SessionInv, SessionTypeOK
  <1>12. QED
    BY <1>2, <1>9, <1>10, <1>11

(* The reader ends with the client's stream, and closes the server's. *)
LEMMA ReaderEndsKeepsInv ==
    ASSUME SessionInv, ReaderEnds
    PROVE  SessionInv'
  <1>1. SessionTypeOK /\ NothingIsLost
    BY DEF SessionInv
  <1>2. /\ reader.step = "read" /\ ~client.open /\ reader.at = client.wrote
        /\ reader' = [reader EXCEPT !.step = "ended"]
        /\ server' = CloseStdin
        /\ UNCHANGED << flags, mishap, client, inbox, pipe, answers, refused, writer, main >>
    BY DEF ReaderEnds, EndOfStream
  <1>3. /\ reader'.step = "ended" /\ reader'.at = reader.at
        /\ ~server'.open /\ server'.runs = server.runs
        /\ reader' \in [step : {"read", "judge", "ended"}, at : 0 .. NumMessages]
        /\ server' \in [runs : BOOLEAN, open : BOOLEAN]
    BY <1>1, <1>2 DEF SessionTypeOK, CloseStdin
  <1>4. \A m \in Messages : Ahead(m)' <=> Ahead(m)
    BY <1>2, <1>3 DEF Ahead
  <1>5. SessionTypeOK'
    BY <1>1, <1>2, <1>3 DEF SessionTypeOK
  <1>6. AheadIsUntouched' /\ PipedOnce' /\ PipedIsAnswered' /\ AnsweredOnce'
    BY <1>2, <1>4
       DEF SessionInv, AheadIsUntouched, Underway, PipedOnce, PipedIsAnswered, AnsweredOnce
  <1>7. NothingIsLost'
    <2> SUFFICES ASSUME mishap # "death", client.reads
                 PROVE  NothingIsLost'
      BY <1>2 DEF NothingIsLost
    <2>1. Accounted'
      BY <1>1, <1>2, <1>3, <1>4 DEF NothingIsLost, Accounted, Underway
    <2>2. QED
      BY <1>1, <1>2, <1>3, <2>1 DEF NothingIsLost
  <1>8. QED
    BY <1>3, <1>5, <1>6, <1>7 DEF SessionInv

-----------------------------------------------------------------------------
(***************************************************************************)
(* The server's answers, and the writer pump.                              *)
(***************************************************************************)

(* An answer goes from the server into the pipe. *)
LEMMA ServerAnswersKeepsInv ==
    ASSUME SessionInv, ServerAnswers
    PROVE  SessionInv'
  <1>1. SessionTypeOK /\ NothingIsLost /\ pipe \in Seq(Messages)
    BY DEF SessionInv, SessionTypeOK
  <1>2. PICK k \in inbox : inbox' = inbox \ {k} /\ pipe' = Append(pipe, k)
    BY DEF ServerAnswers
  <1>3. /\ server.runs
        /\ UNCHANGED << flags, mishap, client, reader, answers, refused, server, writer, main >>
    BY DEF ServerAnswers
  <1>4. k \in Messages
    BY <1>1, SessionTypes
  <1>5. /\ Len(pipe) \in Nat
        /\ pipe' \in Seq(Messages)
        /\ Len(pipe') = Len(pipe) + 1
        /\ \A i \in 1 .. Len(pipe) : pipe'[i] = pipe[i]
        /\ pipe'[Len(pipe) + 1] = k
        /\ DOMAIN pipe = 1 .. Len(pipe)
        /\ DOMAIN pipe' = 1 .. Len(pipe) + 1
    <2>1. /\ pipe' \in Seq(Messages)
          /\ Len(pipe') = Len(pipe) + 1
          /\ \A i \in 1 .. Len(pipe) : pipe'[i] = pipe[i]
          /\ pipe'[Len(pipe) + 1] = k
      BY <1>1, <1>2, <1>4, AppendProperties
    <2>2. QED
      BY <1>1, <2>1, LenProperties
  <1>6. \A i \in DOMAIN pipe : pipe[i] \notin inbox
    BY DEF SessionInv, PipedIsAnswered
  <1>7. \A m \in Messages : Underway(m)' <=> Underway(m)
    <2>1. ASSUME NEW m \in Messages, Underway(m)
          PROVE  Underway(m)'
      BY <1>2, <1>5, <2>1 DEF Underway
    <2>2. ASSUME NEW m \in Messages, Underway(m)'
          PROVE  Underway(m)
      BY <1>2, <1>5, <2>2 DEF Underway
    <2>3. QED
      BY <2>1, <2>2
  <1>8. SessionTypeOK'
    BY <1>1, <1>2, <1>3, <1>5 DEF SessionTypeOK
  <1>9. PipedOnce'
    BY <1>2, <1>5, <1>6 DEF SessionInv, PipedOnce
  <1>10. PipedIsAnswered'
    BY <1>2, <1>5, <1>6 DEF PipedIsAnswered
  <1>11. AheadIsUntouched' /\ AnsweredOnce'
    BY <1>3, <1>7 DEF SessionInv, AheadIsUntouched, Ahead, AnsweredOnce
  <1>12. NothingIsLost'
    <2> SUFFICES ASSUME mishap # "death", client.reads
                 PROVE  NothingIsLost'
      BY <1>3 DEF NothingIsLost
    <2>1. Accounted'
      BY <1>1, <1>3, <1>7 DEF NothingIsLost, Accounted, Ahead
    <2>2. QED
      BY <1>1, <1>3, <2>1 DEF NothingIsLost
  <1>13. QED
    BY <1>3, <1>8, <1>9, <1>10, <1>11, <1>12 DEF SessionInv

(* The writer takes the head of the pipe, which is nowhere else. *)
LEMMA HeadGoes ==
    ASSUME NEW k, k = Head(pipe),
           SessionInv, pipe # << >>, pipe' = Tail(pipe), inbox' = inbox
    PROVE  /\ pipe' \in Seq(Messages)
           /\ k \in Messages /\ Underway(k) /\ ~Underway(k)'
           /\ \A m \in Messages : m # k => (Underway(m)' <=> Underway(m))
           /\ PipedOnce' /\ PipedIsAnswered'
  <1>1. pipe \in Seq(Messages)
    BY DEF SessionInv, SessionTypeOK
  <1>2. /\ Len(pipe) \in Nat \ {0}
        /\ DOMAIN pipe = 1 .. Len(pipe)
        /\ pipe' \in Seq(Messages)
        /\ Len(pipe') = Len(pipe) - 1
        /\ DOMAIN pipe' = 1 .. Len(pipe) - 1
        /\ \A i \in 1 .. Len(pipe) - 1 : pipe'[i] = pipe[i + 1]
    <2>1. /\ pipe' \in Seq(Messages)
          /\ Len(pipe') = Len(pipe) - 1
          /\ \A i \in 1 .. Len(pipe') : pipe'[i] = pipe[i + 1]
      BY <1>1, HeadTailProperties
    <2>2. Len(pipe) \in Nat \ {0} /\ DOMAIN pipe = 1 .. Len(pipe)
      BY <1>1, EmptySeq, LenProperties
    <2>3. DOMAIN pipe' = 1 .. Len(pipe')
      BY <2>1, LenProperties
    <2>4. QED
      BY <2>1, <2>2, <2>3
  <1>3. k = pipe[1] /\ k \in Messages /\ Underway(k) /\ k \notin inbox
    <2>1. k = pipe[1] /\ 1 \in 1 .. Len(pipe)
      BY <1>1, <1>2
    <2>2. QED
      BY <1>1, <1>2, <2>1, ElementOfSeq DEF Underway, SessionInv, PipedIsAnswered
  <1>4. \A i \in 1 .. Len(pipe) - 1 : i + 1 \in DOMAIN pipe /\ i + 1 # 1
    BY <1>2
  <1>5. ~Underway(k)'
    <2>1. \A i \in DOMAIN pipe' : pipe'[i] # k
      BY <1>2, <1>3, <1>4 DEF SessionInv, PipedOnce
    <2>2. QED
      BY <1>3, <2>1 DEF Underway
  <1>6. \A m \in Messages : m # k => (Underway(m)' <=> Underway(m))
    <2>1. ASSUME NEW m \in Messages, m # k, Underway(m)
          PROVE  Underway(m)'
      <3>1. CASE m \in inbox
        BY <3>1 DEF Underway
      <3>2. ASSUME NEW i \in DOMAIN pipe, pipe[i] = m
            PROVE  Underway(m)'
        <4>1. i # 1 /\ i \in 1 .. Len(pipe)
          BY <1>2, <1>3, <2>1, <3>2
        <4>2. i - 1 \in DOMAIN pipe' /\ pipe'[i - 1] = pipe[i]
          BY <1>2, <4>1
        <4>3. QED
          BY <3>2, <4>2 DEF Underway
      <3>3. QED
        BY <2>1, <3>1, <3>2 DEF Underway
    <2>2. ASSUME NEW m \in Messages, Underway(m)'
          PROVE  Underway(m)
      BY <1>2, <1>4, <2>2 DEF Underway
    <2>3. QED
      BY <2>1, <2>2
  <1>7. PipedOnce'
    BY <1>2, <1>4 DEF SessionInv, PipedOnce
  <1>8. PipedIsAnswered'
    BY <1>2, <1>4 DEF SessionInv, PipedIsAnswered
  <1>9. QED
    BY <1>2, <1>3, <1>5, <1>6, <1>7, <1>8

(* An answer goes from the pipe to the client. *)
LEMMA WriterRelaysKeepsInv ==
    ASSUME SessionInv, WriterRelays
    PROVE  SessionInv'
  <1>0. PICK k : k = Head(pipe)
    OBVIOUS
  <1>1. SessionTypeOK /\ NothingIsLost /\ pipe # << >> /\ writer = "pump" /\ client.reads
    BY DEF SessionInv, WriterRelays
  <1>2. /\ answers' = [answers EXCEPT ![k] = answers[k] + 1]
        /\ pipe' = Tail(pipe)
        /\ UNCHANGED << flags, mishap, client, reader, inbox, refused, server, writer, main >>
    BY <1>0 DEF WriterRelays
  <1>3. /\ pipe' \in Seq(Messages)
        /\ k \in Messages /\ Underway(k) /\ ~Underway(k)'
        /\ \A m \in Messages : m # k => (Underway(m)' <=> Underway(m))
        /\ PipedOnce' /\ PipedIsAnswered'
    BY <1>0, <1>1, <1>2, HeadGoes
  <1>4. answers[k] = 0 /\ ~Ahead(k)
    <2>1. answers[k] = 0
      BY <1>1, <1>3, SessionTypes DEF SessionInv, AnsweredOnce
    <2>2. QED
      BY <1>3, <2>1 DEF SessionInv, AheadIsUntouched
  <1>5. /\ answers' \in [Messages -> Nat] /\ answers'[k] = 1
        /\ \A m \in Messages : m # k => answers'[m] = answers[m]
    BY <1>1, <1>2, <1>3, <1>4 DEF SessionTypeOK
  <1>6. SessionTypeOK'
    BY <1>1, <1>2, <1>3, <1>5 DEF SessionTypeOK
  <1>7. AheadIsUntouched'
    <2>1. \A m \in Messages : Ahead(m)' <=> Ahead(m)
      BY <1>2 DEF Ahead
    <2>2. QED
      BY <1>2, <1>3, <1>4, <1>5, <2>1 DEF SessionInv, AheadIsUntouched
  <1>8. AnsweredOnce'
    BY <1>2, <1>3, <1>5 DEF SessionInv, AnsweredOnce
  <1>9. NothingIsLost'
    <2> SUFFICES ASSUME mishap # "death", client.reads
                 PROVE  NothingIsLost'
      BY <1>2 DEF NothingIsLost
    <2>1. Accounted'
      BY <1>1, <1>2, <1>3, <1>5 DEF NothingIsLost, Accounted, Ahead
    <2>2. QED
      BY <1>1, <1>2, <2>1 DEF NothingIsLost
  <1>10. QED
    BY <1>2, <1>3, <1>6, <1>7, <1>8, <1>9 DEF SessionInv

(* An answer is lost with the client, and the writer ends. *)
LEMMA WriterBreaksKeepsInv ==
    ASSUME SessionInv, WriterBreaks
    PROVE  SessionInv'
  <1>0. PICK k : k = Head(pipe)
    OBVIOUS
  <1>1. SessionTypeOK /\ pipe # << >> /\ ~client.reads
    BY DEF SessionInv, WriterBreaks
  <1>2. /\ pipe' = Tail(pipe) /\ writer' = "ended"
        /\ UNCHANGED << flags, mishap, client, reader, inbox, answers, refused, server, main >>
    BY DEF WriterBreaks
  <1>3. /\ pipe' \in Seq(Messages)
        /\ PipedOnce' /\ PipedIsAnswered'
        /\ \A m \in Messages : Underway(m)' => Underway(m)
    BY <1>0, <1>1, <1>2, HeadGoes
  <1>4. SessionTypeOK'
    BY <1>1, <1>2, <1>3 DEF SessionTypeOK
  <1>5. AheadIsUntouched' /\ AnsweredOnce'
    BY <1>2, <1>3 DEF SessionInv, AheadIsUntouched, Ahead, AnsweredOnce
  <1>6. NothingIsLost'
    BY <1>1, <1>2 DEF NothingIsLost
  <1>7. QED
    BY <1>2, <1>3, <1>4, <1>5, <1>6 DEF SessionInv

-----------------------------------------------------------------------------
(* Every step of a session. *)
LEMMA SessionInvStep == SessionInv /\ [SessionNext]_sessionVars => SessionInv'
  <1> SUFFICES ASSUME SessionInv, [SessionNext]_sessionVars
               PROVE  SessionInv'
    OBVIOUS
  <1>1. CASE UNCHANGED sessionVars
    <2>1. SessionTypeOK' /\ NothingIsLost'
      BY <1>1 DEF sessionVars, SessionInv, SessionTypeOK, NothingIsLost, Accounted, Ahead, Underway
    <2>2. QED
      BY <1>1, <2>1, NothingMoves DEF sessionVars
  <1>2. QED
    BY <1>1, ClientKeepsInv, EndingsKeepInv, ReaderTakesKeepsInv, ReaderJudgesKeepsInv,
       ReaderEndsKeepsInv, ServerAnswersKeepsInv, WriterRelaysKeepsInv, WriterBreaksKeepsInv
       DEF SessionNext, Reader, Server, Writer, Main

(* The invariant of a session holds of every reachable state. *)
LEMMA SessionInvariant == SessionSpec => []SessionInv
  BY SessionInvInit, SessionInvStep, PTL DEF SessionSpec

(* Every reachable state of a proxy session is well typed. *)
THEOREM SessionTypeCorrect == SessionSpec => []SessionTypeOK
  <1>1. SessionInv => SessionTypeOK
    BY DEF SessionInv
  <1>2. QED
    BY <1>1, SessionInvariant, PTL

(* Both pumps write to one stream, and a message is answered once; none    *)
(* that is answered is on its way to or from the server, and of those the  *)
(* proxy has refused only one whose refusal could not be written, because  *)
(* the client was gone.                                                    *)
THEOREM EachMessageIsAnsweredOnce == SessionSpec => []AnsweredOnce
  <1>1. SessionInv => AnsweredOnce
    BY DEF SessionInv
  <1>2. QED
    BY <1>1, SessionInvariant, PTL

(* A proxy that leaves, with no mishap and a client that still reads, has  *)
(* answered all the client wrote: the safety half of EveryMessageAnswered. *)
THEOREM NoMessageIsLeft == SessionSpec => []LeavesNothingUnanswered
  <1>1. SessionInv => LeavesNothingUnanswered
    <2> SUFFICES ASSUME SessionInv, mishap = "none", client.reads, main = "left",
                        NEW m \in Messages, m <= client.wrote
                 PROVE  answers[m] = 1
      BY DEF LeavesNothingUnanswered
    <2>1. /\ Accounted
          /\ writer = "ended" /\ ~server.runs /\ pipe = << >> /\ inbox = {}
          /\ reader.step = "ended" /\ reader.at = client.wrote
      BY DEF SessionInv, NothingIsLost
    <2>2. ~Ahead(m) /\ m <= reader.at
      BY <2>1, SessionTypes DEF SessionInv, Ahead, Messages
    <2>3. ~Underway(m)
      BY <2>1 DEF Underway
    <2>4. QED
      BY <2>1, <2>2, <2>3 DEF Accounted
  <1>2. QED
    BY <1>1, SessionInvariant, PTL

-----------------------------------------------------------------------------
(* Side by side, a step of one system leaves the other as it was.          *)
LEMMA GuardsInvStep ==
    CallsInv /\ SessionInv /\ [GuardsNext]_guardVars => CallsInv' /\ SessionInv'
  <1>1. [GuardsNext]_guardVars => [CallsNext]_callVars /\ [SessionNext]_sessionVars
    BY DEF GuardsNext, InCalls, InSession, guardVars
  <1>2. QED
    BY <1>1, CallsInvStep, SessionInvStep

(* Both systems are well typed in every state the checks of them reach.    *)
THEOREM GuardsTypeCorrect == GuardsSpec => []TypeOK
  <1>1. GuardsInit => CallsInv /\ SessionInv
    BY CallsInvInit, SessionInvInit DEF GuardsInit
  <1>2. CallsInv /\ SessionInv => TypeOK
    BY DEF CallsInv, SessionInv, TypeOK
  <1>3. QED
    BY <1>1, <1>2, GuardsInvStep, PTL DEF GuardsSpec
=============================================================================
