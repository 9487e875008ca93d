------------------------- MODULE HumanReviewProofs -------------------------
(***************************************************************************)
(* Proofs about HumanReview for every number of resolve requests, every    *)
(* length of the review window and of the agent's wait, and every          *)
(* combination of faults.                                                  *)
(***************************************************************************)
EXTENDS HumanReview, SequenceTheorems, TLAPS

-----------------------------------------------------------------------------
(***************************************************************************)
(* The inductive invariant.  A click took effect when it is the one stored *)
(* and the stored status is its verdict.  Everything that is ever said of  *)
(* a click (the audit step it goes on to, the 200, its entry in the log,   *)
(* the outcome of its append) is said only after it took effect; and a     *)
(* click that took effect keeps doing so, because a resolved status is     *)
(* never written again and a reviewer does not change a verdict that was   *)
(* sent.  An update that lands late is no exception: whoever it is from    *)
(* has sent it, and it finds the record open.  The stored reviewer is told *)
(* that it won, or of an error, or the reply to its update was lost: so a  *)
(* conflict told to it is only ever its own lost update.                   *)
(***************************************************************************)
Took(c) == reviewer = c /\ status = wish[c]

SaidOnlyOfWinner ==
    \A c \in Clicks :
        pc[c] = "audit" \/ response[c] = "ok" \/ answer[c] # "none" => Took(c)

EntriesOfWinner == \A i \in DOMAIN log : Took(log[i])

UnsentIsInert ==
    \A c \in Clicks :
        pc[c] \in {"idle", "read", "capture"} => c \notin wire /\ reviewer # c

AnsweredIsDone == \A c \in Clicks : response[c] # "none" => pc[c] = "done"

WinnerIsTold ==
    \A c \in Clicks :
        reviewer = c /\ c \notin wire => pc[c] = "audit" \/ response[c] \in {"ok", "error"}

JudgedInTime == \A c \in Clicks : reviewer = c => now[c] < terms.expires_at

CapturedInThePast == \A c \in Clicks : now[c] <= clock

ConflictMeansClosed ==
    \A c \in Clicks :
        response[c] = "conflict" => status # "pending" \/ clock >= terms.expires_at

(* Who is told what, and when. *)
RightlyTold == UnsentIsInert /\ AnsweredIsDone /\ WinnerIsTold /\ JudgedInTime

ReviewInv ==
    /\ TypeOK
    /\ SaidOnlyOfWinner
    /\ EntriesOfWinner
    /\ RightlyTold
    /\ CapturedInThePast
    /\ ConflictMeansClosed
    /\ SilenceIsNotConsent
    /\ JudgementStands

-----------------------------------------------------------------------------
(* Every time in the model is a number. *)
LEMMA TimesAreNumbers ==
    ASSUME ReviewInv
    PROVE  /\ clock \in Nat
           /\ terms.expires_at \in Nat
           /\ \A c \in Clicks : now[c] \in Nat
  <1>1. clock \in 0 .. MaxTime /\ now \in [Clicks -> 0 .. MaxTime]
    BY DEF ReviewInv, TypeOK
  <1>2. terms.expires_at \in Windows
    BY DEF ReviewInv, TypeOK
  <1>3. terms.expires_at \in Nat
    BY <1>2, WindowsAssumption
  <1>4. clock \in Nat /\ \A c \in Clicks : now[c] \in Nat
    BY <1>1, MaxTimeAssumption
  <1>5. QED
    BY <1>3, <1>4

(* What is carried over a step in which the record and the verdicts sent   *)
(* stay as they are: every statement about a click that took effect.       *)
LEMMA WinnerUnchanged ==
    ASSUME UNCHANGED << status, reviewer, wish >>
    PROVE  \A c : Took(c)' <=> Took(c)
  BY DEF Took

(* An update, sent by a click that is under way, keeps every click that    *)
(* took effect in effect, and makes none but its sender take effect.       *)
LEMMA UpdateKeepsWinner ==
    ASSUME ReviewInv, NEW c \in Clicks, ApplyUpdate(c), UNCHANGED wish
    PROVE  /\ \A d \in Clicks : Took(d) => Took(d)'
           /\ \A d \in Clicks : Took(d)' => Took(d) \/ d = c
           /\ StillOpen(c) => Took(c)'
           /\ status # "pending" => status' = status
           /\ status' \in Verdicts \cup {"pending"}
           /\ reviewer' \in Clicks \cup {NoClick}
  <1>1. wish[c] \in Verdicts /\ \A d \in Clicks : wish[d] # "pending"
    BY DEF ReviewInv, TypeOK, Verdicts
  <1>2. CASE StillOpen(c)
    BY <1>1, <1>2 DEF ApplyUpdate, StillOpen, Took, Verdicts
  <1>3. CASE ~StillOpen(c)
    BY <1>3 DEF ApplyUpdate, Took, ReviewInv, TypeOK
  <1>4. QED
    BY <1>2, <1>3

(* An entry that is appended is one of a click that took effect.           *)
LEMMA AppendKeepsEntries ==
    ASSUME ReviewInv, NEW c \in Clicks, Took(c), log' = Append(log, c),
           UNCHANGED << status, reviewer, wish >>
    PROVE  log' \in Seq(Clicks) /\ EntriesOfWinner'
  <1>1. log \in Seq(Clicks)
    BY DEF ReviewInv, TypeOK
  <1>2. /\ log' \in Seq(Clicks)
        /\ Len(log') = Len(log) + 1
        /\ \A i \in 1 .. Len(log) : log'[i] = log[i]
        /\ log'[Len(log) + 1] = c
    BY <1>1, AppendProperties
  <1>3. DOMAIN log = 1 .. Len(log) /\ DOMAIN log' = 1 .. Len(log')
    BY <1>1, <1>2, LenProperties
  <1>4. ASSUME NEW i \in DOMAIN log'
        PROVE  Took(log[i])'
    <2>1. Took(log'[i])
      BY <1>1, <1>2, <1>3, LenProperties DEF ReviewInv, EntriesOfWinner
    <2>2. QED
      BY <2>1 DEF Took
  <1>5. QED
    BY <1>2, <1>4 DEF EntriesOfWinner

-----------------------------------------------------------------------------
(* Every initial state satisfies the invariant. *)
LEMMA ReviewInvInit == Init => ReviewInv
  <1> SUFFICES ASSUME Init
               PROVE  ReviewInv
    OBVIOUS
  <1>1. log \in Seq(Clicks) /\ DOMAIN log = {}
    BY EmptySeq DEF Init, Audit!LogInit
  <1>2. TypeOK
    BY <1>1, MaxTimeAssumption
       DEF Init, Audit!LogInit, TypeOK, Audit!Answers, Verdicts
  <1>3. SaidOnlyOfWinner /\ RightlyTold
    BY ClicksAssumption
       DEF Init, Audit!LogInit, SaidOnlyOfWinner, RightlyTold, UnsentIsInert,
           AnsweredIsDone, WinnerIsTold, JudgedInTime, Took
  <1>4. EntriesOfWinner
    BY <1>1 DEF EntriesOfWinner
  <1>5. CapturedInThePast
    BY DEF Init, CapturedInThePast
  <1>6. ConflictMeansClosed /\ SilenceIsNotConsent /\ JudgementStands
    BY DEF Init, ConflictMeansClosed, SilenceIsNotConsent, JudgementStands, Verdicts
  <1>7. QED
    BY <1>2, <1>3, <1>4, <1>5, <1>6 DEF ReviewInv

(* The clock only makes what is late later. *)
LEMMA TickKeepsInv == ReviewInv /\ Tick => ReviewInv'
  <1> SUFFICES ASSUME ReviewInv, Tick
               PROVE  ReviewInv'
    OBVIOUS
  <1> USE DEF Tick, record, auditlog, requests
  <1>1. clock' \in 0 .. MaxTime /\ clock' = clock + 1 /\ clock \in Nat
    BY MaxTimeAssumption DEF ReviewInv, TypeOK
  <1>2. terms.expires_at \in Nat
    BY WindowsAssumption DEF ReviewInv, TypeOK
  <1>3. TypeOK'
    BY <1>1 DEF ReviewInv, TypeOK
  <1>4. SaidOnlyOfWinner' /\ EntriesOfWinner' /\ RightlyTold'
    BY DEF ReviewInv, SaidOnlyOfWinner, EntriesOfWinner, RightlyTold, UnsentIsInert,
           AnsweredIsDone, WinnerIsTold, JudgedInTime, Took
  <1>5. CapturedInThePast'
    BY <1>1 DEF ReviewInv, TypeOK, CapturedInThePast
  <1>6. ConflictMeansClosed' /\ SilenceIsNotConsent' /\ JudgementStands'
    BY <1>1, <1>2
       DEF ReviewInv, ConflictMeansClosed, SilenceIsNotConsent, JudgementStands
  <1>7. QED
    BY <1>3, <1>4, <1>5, <1>6 DEF ReviewInv

(* A reviewer who has not clicked decides what to send. *)
LEMMA ClickKeepsInv ==
    ASSUME ReviewInv, NEW c \in Clicks, Click(c)
    PROVE  ReviewInv'
  <1> USE DEF Click, record, auditlog
  <1>1. pc[c] = "idle" /\ reviewer # c /\ c \notin wire /\ ~Took(c)
    BY DEF ReviewInv, RightlyTold, UnsentIsInert, Took
  <1>2. PICK verdict \in Verdicts : wish' = [wish EXCEPT ![c] = verdict]
    OBVIOUS
  <1>3. \A d \in Clicks : d # c => (Took(d)' <=> Took(d)) /\ pc'[d] = pc[d]
    BY <1>2 DEF ReviewInv, TypeOK, Took
  <1>4. pc'[c] = "read"
    BY DEF ReviewInv, TypeOK
  <1>5. TypeOK'
    BY <1>2 DEF ReviewInv, TypeOK
  <1>6. SaidOnlyOfWinner'
    BY <1>1, <1>3, <1>4 DEF ReviewInv, SaidOnlyOfWinner
  <1>7. EntriesOfWinner'
    <2>1. ASSUME NEW i \in DOMAIN log'
          PROVE  Took(log[i])'
      <3>1. log[i] \in Clicks /\ Took(log[i])
        BY LenProperties, ElementOfSeq DEF ReviewInv, TypeOK, EntriesOfWinner
      <3>2. QED
        BY <1>1, <1>3, <3>1
    <2>2. QED
      BY <2>1 DEF EntriesOfWinner
  <1>8. RightlyTold'
    BY <1>1, <1>3, <1>4 DEF ReviewInv, RightlyTold, UnsentIsInert,
           AnsweredIsDone, WinnerIsTold, JudgedInTime
  <1>9. CapturedInThePast' /\ ConflictMeansClosed' /\ SilenceIsNotConsent' /\ JudgementStands'
    BY DEF ReviewInv, CapturedInThePast, ConflictMeansClosed, SilenceIsNotConsent,
           JudgementStands
  <1>10. QED
    BY <1>5, <1>6, <1>7, <1>8, <1>9 DEF ReviewInv

(***************************************************************************)
(* The steps of a request that touch neither the record nor the log: the   *)
(* read, every way to fail, and the conflicts.  A conflict is real because *)
(* the time the update carries is one that has passed.                     *)
(***************************************************************************)
LEMMA QuietStepKeepsInv ==
    ASSUME ReviewInv, NEW c \in Clicks,
           \/ ReadOpen(c) \/ ReadExpired(c) \/ Capture(c) \/ UpdateConflicts(c)
           \/ UpdateUnheard(c) \/ StoreFails(c)
    PROVE  ReviewInv'
  <1> USE DEF record, auditlog
  <1>1. /\ UNCHANGED << clock, terms, status, reviewer, log, answer, wish, agent, seen >>
        /\ pc[c] \in {"read", "capture", "update"}
        /\ pc' \in [Clicks -> {"idle", "read", "capture", "update", "audit", "done"}]
        /\ pc'[c] \in {"capture", "update", "done"}
        /\ \A d \in Clicks : d # c => pc'[d] = pc[d]
    BY DEF ReviewInv, TypeOK, ReadOpen, ReadExpired, Capture, UpdateConflicts,
           UpdateUnheard, StoreFails, Respond
  <1>2. /\ wire \subseteq wire' /\ wire' \subseteq wire \cup {c}
        /\ pc'[c] = "capture" => pc[c] = "read" /\ wire' = wire
    BY DEF ReviewInv, TypeOK, ReadOpen, ReadExpired, Capture, UpdateConflicts,
           UpdateUnheard, StoreFails, Respond
  <1>3. /\ now' \in [Clicks -> 0 .. MaxTime]
        /\ \A d \in Clicks : now'[d] = now[d] \/ now'[d] = clock
        /\ \A d \in Clicks : now'[d] = now[d] \/ (d = c /\ pc[c] = "capture")
    <2>1. now' = now \/ (pc[c] = "capture" /\ now' = [now EXCEPT ![c] = clock])
      BY DEF ReadOpen, ReadExpired, Capture, UpdateConflicts, UpdateUnheard, StoreFails
    <2>2. now \in [Clicks -> 0 .. MaxTime] /\ clock \in 0 .. MaxTime
      BY DEF ReviewInv, TypeOK
    <2>3. QED
      BY <2>1, <2>2
  <1>4. /\ response' \in [Clicks -> {"none", "ok", "conflict", "error"}]
        /\ \A d \in Clicks : response'[d] = "ok" => response[d] = "ok"
        /\ \A d \in Clicks : d # c => response'[d] = response[d]
        /\ response'[c] # response[c] => pc'[c] = "done"
    <2>1. response' = response \/ \E what \in {"conflict", "error"} : Respond(c, what)
      BY DEF ReadOpen, ReadExpired, Capture, UpdateConflicts, UpdateUnheard, StoreFails
    <2>2. /\ response \in [Clicks -> {"none", "ok", "conflict", "error"}]
          /\ pc \in [Clicks -> {"idle", "read", "capture", "update", "audit", "done"}]
      BY DEF ReviewInv, TypeOK
    <2>3. QED
      BY <2>1, <2>2 DEF Respond
  <1>5. TypeOK'
    BY <1>1, <1>2, <1>3, <1>4 DEF ReviewInv, TypeOK
  <1>6. \A d : Took(d)' <=> Took(d)
    BY <1>1, WinnerUnchanged
  <1>7. SaidOnlyOfWinner'
    BY <1>1, <1>4, <1>6 DEF ReviewInv, SaidOnlyOfWinner
  <1>8. EntriesOfWinner'
    BY <1>1 DEF ReviewInv, EntriesOfWinner, Took
  <1>9. RightlyTold'
    <2>1. response[c] = "none" /\ (reviewer = c => c \in wire)
      BY <1>1 DEF ReviewInv, RightlyTold, AnsweredIsDone, WinnerIsTold
    <2>2. pc[c] = "capture" \/ pc[c] = "read" => reviewer # c
      BY DEF ReviewInv, RightlyTold, UnsentIsInert
    <2>3. UnsentIsInert'
      BY <1>1, <1>2, <2>2 DEF ReviewInv, RightlyTold, UnsentIsInert
    <2>4. AnsweredIsDone'
      BY <1>1, <1>4, <2>1 DEF ReviewInv, RightlyTold, AnsweredIsDone
    <2>5. WinnerIsTold'
      BY <1>1, <1>2, <1>4, <2>1 DEF ReviewInv, RightlyTold, WinnerIsTold
    <2>6. JudgedInTime'
      BY <1>1, <1>3, <2>2 DEF ReviewInv, RightlyTold, JudgedInTime
    <2>7. QED
      BY <2>3, <2>4, <2>5, <2>6 DEF RightlyTold
  <1>10. CapturedInThePast'
    <2>1. clock \in Nat
      BY MaxTimeAssumption DEF ReviewInv, TypeOK
    <2>2. QED
      BY <1>1, <1>3, <2>1 DEF ReviewInv, CapturedInThePast
  <1>11. ConflictMeansClosed'
    <2>1. clock \in Nat /\ now[c] \in Nat /\ terms.expires_at \in Nat
      BY TimesAreNumbers
    <2>2. now[c] <= clock
      BY DEF ReviewInv, CapturedInThePast
    <2>3. \A d \in Clicks : d # c => response'[d] = response[d]
      BY DEF ReviewInv, TypeOK, ReadOpen, ReadExpired, Capture, UpdateConflicts,
             UpdateUnheard, StoreFails, Respond
    <2>4. response'[c] = "conflict" =>
            response[c] = "conflict" \/ status # "pending" \/ clock >= terms.expires_at
      BY <2>1, <2>2 DEF ReviewInv, TypeOK, ReadOpen, ReadExpired, Capture, UpdateConflicts,
                  UpdateUnheard, StoreFails, Respond, IsExpired, StillOpen
    <2>5. QED
      BY <1>1, <2>3, <2>4 DEF ReviewInv, ConflictMeansClosed
  <1>12. SilenceIsNotConsent' /\ JudgementStands'
    BY <1>1 DEF ReviewInv, SilenceIsNotConsent, JudgementStands
  <1>13. QED
    BY <1>5, <1>7, <1>8, <1>9, <1>10, <1>11, <1>12 DEF ReviewInv

(***************************************************************************)
(* An update that reaches the record, from a request that waits for it or  *)
(* from one that has given up.                                             *)
(***************************************************************************)
LEMMA UpdateKeepsInv ==
    ASSUME ReviewInv, NEW c \in Clicks, UpdateSucceeds(c) \/ Land(c)
    PROVE  ReviewInv'
  <1> USE DEF auditlog, requests
  <1>1. /\ ApplyUpdate(c)
        /\ UNCHANGED << clock, terms, log, answer, wish, now, response, agent, seen >>
        /\ pc[c] \notin {"idle", "read", "capture"}
        /\ wire' = wire
    BY DEF UpdateSucceeds, Land, ReviewInv, RightlyTold, UnsentIsInert
  <1>2. /\ \A d \in Clicks : Took(d) => Took(d)'
        /\ \A d \in Clicks : Took(d)' => Took(d) \/ d = c
        /\ StillOpen(c) => Took(c)'
        /\ status # "pending" => status' = status
        /\ status' \in Verdicts \cup {"pending"}
        /\ reviewer' \in Clicks \cup {NoClick}
    BY <1>1, UpdateKeepsWinner
  <1>3. /\ pc' \in [Clicks -> {"idle", "read", "capture", "update", "audit", "done"}]
        /\ \A d \in Clicks : d # c => pc'[d] = pc[d]
        /\ pc'[c] \notin {"idle", "read", "capture"}
        /\ pc'[c] = pc[c] \/ (pc[c] = "update" /\ pc'[c] = "audit")
        /\ pc'[c] = "audit" \/ c \in wire
        /\ pc'[c] = "audit" => pc[c] = "audit" \/ StillOpen(c)
    BY <1>1 DEF UpdateSucceeds, Land, ReviewInv, TypeOK
  <1>4. TypeOK'
    BY <1>1, <1>2, <1>3 DEF ReviewInv, TypeOK
  <1>5. SaidOnlyOfWinner'
    BY <1>1, <1>2, <1>3 DEF ReviewInv, SaidOnlyOfWinner
  <1>6. EntriesOfWinner'
    <2>1. ASSUME NEW i \in DOMAIN log'
          PROVE  Took(log[i])'
      <3>1. log[i] \in Clicks /\ Took(log[i])
        BY <1>1, LenProperties, ElementOfSeq DEF ReviewInv, TypeOK, EntriesOfWinner
      <3>2. QED
        BY <1>1, <1>2, <3>1
    <2>2. QED
      BY <2>1 DEF EntriesOfWinner
  <1>7. RightlyTold'
    <2>1. \A d \in Clicks : reviewer' = d => reviewer = d \/ (d = c /\ now[c] < terms.expires_at)
      BY <1>1, TimesAreNumbers DEF ApplyUpdate, StillOpen
    <2>2. UnsentIsInert'
      BY <1>1, <1>3, <2>1 DEF ReviewInv, RightlyTold, UnsentIsInert
    <2>3. AnsweredIsDone'
      BY <1>1, <1>3 DEF ReviewInv, RightlyTold, AnsweredIsDone
    <2>4. WinnerIsTold'
      BY <1>1, <1>3, <2>1 DEF ReviewInv, RightlyTold, WinnerIsTold
    <2>5. JudgedInTime'
      BY <1>1, <2>1 DEF ReviewInv, RightlyTold, JudgedInTime
    <2>6. QED
      BY <2>2, <2>3, <2>4, <2>5 DEF RightlyTold
  <1>8. CapturedInThePast'
    BY <1>1 DEF ReviewInv, CapturedInThePast
  <1>9. ConflictMeansClosed'
    <2>1. status # "pending" => status' # "pending"
      BY <1>2
    <2>2. QED
      BY <1>1, <2>1 DEF ReviewInv, ConflictMeansClosed
  <1>10. SilenceIsNotConsent' /\ JudgementStands'
    <2>1. "pending" \notin Verdicts
      BY DEF Verdicts
    <2>2. QED
      BY <1>1, <1>2, <2>1 DEF ReviewInv, SilenceIsNotConsent, JudgementStands
  <1>11. QED
    BY <1>4, <1>5, <1>6, <1>7, <1>8, <1>9, <1>10 DEF ReviewInv

(***************************************************************************)
(* The steps that append to the log, or fail to: only for a click that     *)
(* took effect.                                                            *)
(***************************************************************************)
LEMMA LogStepKeepsInv ==
    ASSUME ReviewInv, NEW c \in Clicks,
           \/ RecordResolution(c) \/ RecordResolutionFails(c)
           \/ RecordLandsUnseen(c) \/ Kill(c)
    PROVE  ReviewInv'
  <1> USE DEF record, auditlog, requests
  <1>1. /\ UNCHANGED << clock, terms, status, reviewer, wish, now, agent, seen >>
        /\ pc' \in [Clicks -> {"idle", "read", "capture", "update", "audit", "done"}]
        /\ \A d \in Clicks : d # c => pc'[d] = pc[d]
        /\ pc'[c] = pc[c] \/ (pc[c] # "idle" /\ pc'[c] = "done")
    BY DEF RecordResolution, RecordResolutionFails, RecordLandsUnseen, Kill,
           Respond, ReviewInv, TypeOK
  <1>2. wire' = wire \/ (wire' = wire \cup {c} /\ pc'[c] = "done")
    BY DEF RecordResolution, RecordResolutionFails, RecordLandsUnseen, Kill,
           Respond, ReviewInv, TypeOK
  <1>3. \A d : Took(d)' <=> Took(d)
    BY <1>1, WinnerUnchanged
  <1>4. log' = log \/ (log' = Append(log, c) /\ Took(c))
    BY DEF RecordResolution, RecordResolutionFails, RecordLandsUnseen, Kill,
           Audit!Commit, Audit!CommitUnseen, Audit!Refuse, ReviewInv,
           SaidOnlyOfWinner
  <1>5. /\ answer' \in [Clicks -> Audit!Answers]
        /\ \A d \in Clicks : d # c => answer'[d] = answer[d]
        /\ answer'[c] = answer[c] \/ Took(c)
    BY DEF RecordResolution, RecordResolutionFails, RecordLandsUnseen, Kill,
           Audit!Commit, Audit!CommitUnseen, Audit!Refuse, Audit!Answers,
           ReviewInv, TypeOK, SaidOnlyOfWinner
  <1>6. /\ response' \in [Clicks -> {"none", "ok", "conflict", "error"}]
        /\ \A d \in Clicks : d # c => response'[d] = response[d]
        /\ response'[c] = "ok" => response[c] = "ok" \/ Took(c)
        /\ response'[c] = "conflict" => response[c] = "conflict"
        /\ IF pc'[c] = pc[c] THEN response'[c] = response[c]
                              ELSE response'[c] \in {"ok", "error"}
    BY DEF RecordResolution, RecordResolutionFails, RecordLandsUnseen, Kill,
           Respond, ReviewInv, TypeOK, SaidOnlyOfWinner
  <1>7. log' \in Seq(Clicks) /\ EntriesOfWinner'
    <2>1. CASE log' = log
      BY <1>1, <2>1 DEF ReviewInv, TypeOK, EntriesOfWinner, Took
    <2>2. CASE log' = Append(log, c) /\ Took(c)
      BY <1>1, <2>2, AppendKeepsEntries
    <2>3. QED
      BY <1>4, <2>1, <2>2
  <1>8. TypeOK'
    <2>1. wire' \subseteq Clicks
      BY <1>2 DEF ReviewInv, TypeOK
    <2>2. QED
      BY <1>1, <1>5, <1>6, <1>7, <2>1 DEF ReviewInv, TypeOK
  <1>9. SaidOnlyOfWinner'
    BY <1>1, <1>3, <1>5, <1>6 DEF ReviewInv, SaidOnlyOfWinner
  <1>10. RightlyTold'
    <2>1. UnsentIsInert'
      BY <1>1, <1>2 DEF ReviewInv, RightlyTold, UnsentIsInert
    <2>2. AnsweredIsDone'
      BY <1>1, <1>6 DEF ReviewInv, RightlyTold, AnsweredIsDone
    <2>3. WinnerIsTold'
      BY <1>1, <1>2, <1>6 DEF ReviewInv, RightlyTold, WinnerIsTold
    <2>4. JudgedInTime'
      BY <1>1 DEF ReviewInv, RightlyTold, JudgedInTime
    <2>5. QED
      BY <2>1, <2>2, <2>3, <2>4 DEF RightlyTold
  <1>11. CapturedInThePast' /\ SilenceIsNotConsent' /\ JudgementStands'
    BY <1>1 DEF ReviewInv, CapturedInThePast, SilenceIsNotConsent, JudgementStands
  <1>12. ConflictMeansClosed'
    BY <1>1, <1>6 DEF ReviewInv, ConflictMeansClosed
  <1>13. QED
    BY <1>7, <1>8, <1>9, <1>10, <1>11, <1>12 DEF ReviewInv

(* The agent acts on the status as it is at that moment. *)
LEMMA AgentKeepsInv == ReviewInv /\ Agent => ReviewInv'
  <1> SUFFICES ASSUME ReviewInv, Agent
               PROVE  ReviewInv'
    OBVIOUS
  <1> USE DEF record, auditlog, requests
  <1>1. /\ UNCHANGED << clock, terms, status, reviewer, wire, log, answer, pc,
                        wish, now, response >>
        /\ \/ Resume
           \/ agent' = "failed" /\ seen' = seen
    BY DEF Agent, Poll, LastPoll, LastPollFails, Resume
  <1>2. /\ agent' \in {"executed", "blocked", "failed"}
        /\ seen' \in Verdicts \cup {"none", "pending", "expired"}
        /\ seen' \in Verdicts => status = seen'
    BY <1>1 DEF Resume, EffectiveStatus, ReviewInv, TypeOK, JudgementStands, Verdicts
  <1>3. agent' = "executed" =>
            \/ status = "approved"
            \/ terms.on_timeout = "allow" /\ clock >= terms.expires_at
    BY <1>1 DEF Resume, AllowsExecution, EffectiveStatus, IsExpired, ReviewInv,
                TypeOK, Verdicts
  <1>4. TypeOK'
    BY <1>1, <1>2 DEF ReviewInv, TypeOK
  <1>5. SaidOnlyOfWinner' /\ EntriesOfWinner' /\ RightlyTold'
    BY <1>1 DEF ReviewInv, SaidOnlyOfWinner, EntriesOfWinner, RightlyTold, UnsentIsInert,
           AnsweredIsDone, WinnerIsTold, JudgedInTime, Took
  <1>6. CapturedInThePast' /\ ConflictMeansClosed'
    BY <1>1 DEF ReviewInv, CapturedInThePast, ConflictMeansClosed
  <1>7. SilenceIsNotConsent' /\ JudgementStands'
    BY <1>1, <1>2, <1>3 DEF SilenceIsNotConsent, JudgementStands
  <1>8. QED
    BY <1>4, <1>5, <1>6, <1>7 DEF ReviewInv

(* Every step of a reviewer, the agent and the clock keeps the invariant. *)
LEMMA ReviewInvStep == ReviewInv /\ [Next]_vars => ReviewInv'
  <1> SUFFICES ASSUME ReviewInv, [Next]_vars
               PROVE  ReviewInv'
    OBVIOUS
  <1>1. CASE Tick
    BY <1>1, TickKeepsInv
  <1>2. CASE Agent
    BY <1>2, AgentKeepsInv
  <1>3. ASSUME NEW c \in Clicks,
               Click(c) \/ Resolve(c) \/ Kill(c) \/ Land(c) \/ RecordLandsUnseen(c)
        PROVE  ReviewInv'
    BY <1>3, ClickKeepsInv, QuietStepKeepsInv, UpdateKeepsInv, LogStepKeepsInv
       DEF Resolve
  <1>4. CASE UNCHANGED vars
    BY <1>4
       DEF vars, ReviewInv, TypeOK, SaidOnlyOfWinner, EntriesOfWinner, RightlyTold,
           UnsentIsInert, AnsweredIsDone, WinnerIsTold, JudgedInTime,
           CapturedInThePast, ConflictMeansClosed, SilenceIsNotConsent, JudgementStands,
           Took
  <1>5. QED
    BY <1>1, <1>2, <1>3, <1>4 DEF Next

(* So it holds of every reachable state. *)
LEMMA ReviewInvariant == Spec => []ReviewInv
  BY ReviewInvInit, ReviewInvStep, PTL DEF Spec

-----------------------------------------------------------------------------
(* Every reachable state of a held action is well typed. *)
THEOREM TypeCorrect == Spec => []TypeOK
  <1>1. ReviewInv => TypeOK
    BY DEF ReviewInv
  <1>2. QED
    BY <1>1, ReviewInvariant, PTL

(* Whoever is told 200 by resolve is the one whose judgement is stored,    *)
(* for ever, and judged before the window closed: however many reviewers   *)
(* click, and whatever update lands late.                                  *)
THEOREM AtMostOneWinner == Spec => []OneWinner
  <1>1. ReviewInv => OneWinner
    BY DEF ReviewInv, SaidOnlyOfWinner, RightlyTold, JudgedInTime, OneWinner, Took
  <1>2. QED
    BY <1>1, ReviewInvariant, PTL

(* resolve tells a 409 only when the decision is resolved or its window    *)
(* has closed; and it tells the winner so only if the reply to an update   *)
(* of the winner's was lost.                                               *)
THEOREM ConflictsAreReal == Spec => []ConflictIsReal
  <1>1. ReviewInv => ConflictIsReal
    <2> SUFFICES ASSUME ReviewInv, NEW c \in Clicks, response[c] = "conflict"
                 PROVE  /\ status # "pending" \/ clock >= terms.expires_at
                        /\ reviewer = c => c \in wire
      BY DEF ConflictIsReal
    <2>1. status # "pending" \/ clock >= terms.expires_at
      BY DEF ReviewInv, ConflictMeansClosed
    <2>2. pc[c] = "done"
      BY DEF ReviewInv, RightlyTold, AnsweredIsDone
    <2>3. reviewer = c => c \in wire
      BY <2>2 DEF ReviewInv, RightlyTold, WinnerIsTold
    <2>4. QED
      BY <2>1, <2>3
  <1>2. QED
    BY <1>1, ReviewInvariant, PTL

(* The waiting agent runs the tool only after an approval, or after the    *)
(* window closed under a rule whose on_timeout is allow.                   *)
THEOREM SilenceNeverConsents == Spec => []SilenceIsNotConsent
  <1>1. ReviewInv => SilenceIsNotConsent
    BY DEF ReviewInv
  <1>2. QED
    BY <1>1, ReviewInvariant, PTL

(* Every resolution in the audit log is the one that is stored.            *)
THEOREM AuditIsTrue == Spec => []AuditTellsTheTruth
  <1>1. ReviewInv => AuditTellsTheTruth
    BY DEF ReviewInv, EntriesOfWinner, AuditTellsTheTruth, Took
  <1>2. QED
    BY <1>1, ReviewInvariant, PTL

(* A verdict the agent has acted on stays the stored one.                  *)
THEOREM JudgementsStand == Spec => []JudgementStands
  <1>1. ReviewInv => JudgementStands
    BY DEF ReviewInv
  <1>2. QED
    BY <1>1, ReviewInvariant, PTL

=============================================================================
