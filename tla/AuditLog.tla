------------------------------ MODULE AuditLog ------------------------------
(***************************************************************************)
(* What the audit log promises its callers, with no slot, no hash and no   *)
(* retry in sight: a list that only grows, and an answer to every append   *)
(* call that says truthfully whether the caller's entry is in the list.    *)
(***************************************************************************)
EXTENDS Sequences

CONSTANTS
    Calls,     \* append calls; each call appends one entry, named after it
    Unsure     \* TRUE where a reply of the store can be lost, so that a call
               \* may log its entry twice or fail although it is logged

VARIABLES log,      \* the entries, oldest first
          answer    \* what each call has told its caller

logVars == << log, answer >>

Answers == {"none", "recorded", "refused"}

Logged(c) == \E i \in DOMAIN log : log[i] = c

LogInit ==
    /\ log = << >>
    /\ answer = [c \in Calls |-> "none"]

(* The entry is written and the caller is told so. *)
Commit(c) ==
    /\ answer[c] = "none"
    /\ Logged(c) => Unsure
    /\ log' = Append(log, c)
    /\ answer' = [answer EXCEPT ![c] = "recorded"]

(* The entry is written by a call that has not been told, or never will be,
   because its own process is gone or its request was still on the way.   *)
CommitUnseen(c) ==
    /\ Logged(c) => Unsure
    /\ answer[c] # "none" => Unsure
    /\ log' = Append(log, c)
    /\ UNCHANGED answer

(* The call fails.  Where replies are not lost, failing means not logged. *)
Refuse(c) ==
    /\ answer[c] = "none"
    /\ Logged(c) => Unsure
    /\ answer' = [answer EXCEPT ![c] = "refused"]
    /\ UNCHANGED log

LogNext == \E c \in Calls : Commit(c) \/ CommitUnseen(c) \/ Refuse(c)

LogSpec == LogInit /\ [][LogNext]_logVars
=============================================================================
