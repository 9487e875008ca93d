----------------------------- MODULE McpSession -----------------------------
(***************************************************************************)
(* One session of the MCP proxy (guardrail_sdk/mcp.py): a client, the      *)
(* proxy process with its two pump threads and its main thread, and the    *)
(* server it runs as a child.  The reader pump judges what the client      *)
(* writes and hands it to the server or answers it; the writer pump relays *)
(* what the server writes; the main thread waits for the server to exit,   *)
(* drains the writer and leaves, which ends the pumps with the process.    *)
(*                                                                         *)
(* Messages are requests, numbered as the client writes them.  PipeSize is *)
(* what the pipe behind the server's stdout takes before a write to it     *)
(* blocks, in messages.  The pipe into the server has no such bound here:  *)
(* it fills only behind a server that no longer reads, where the reader    *)
(* would wait with it.                                                     *)
(***************************************************************************)
EXTENDS Naturals, Sequences

CONSTANTS NumMessages, PipeSize

ASSUME MessagesAssumption == NumMessages \in Nat
ASSUME PipeAssumption == PipeSize \in Nat \ {0}

VARIABLES
    flags,      \* --fail-open, and whether --on-pending is wait
    mishap,     \* what may befall this session: the server dies with work
                \* undone, or the join of the writer runs into its timeout
    client,     \* messages written, whether the client's end is open, and
                \* whether it reads: it does while its end is open, and may
                \* go on to when it has closed it
    reader,     \* the reader pump: what it does, and the message it is at
    inbox,      \* the messages the server has got and not answered
    pipe,       \* its answers that the writer has not relayed yet
    answers,    \* the answers to each message on the client's side
    refused,    \* messages judged not to go upstream
    server,     \* the child: whether it runs, and whether its stdin is open
    writer, main

sessionVars == << flags, mishap, client, reader, inbox, pipe, answers,
                  refused, server, writer, main >>

Messages == 1 .. NumMessages

(* What judging a message can come to: no tools/call at all, a decision, a
   review, or no answer of the guardrail that can be used.               *)
Causes == {"other", "allowed", "blocked", "approved", "denied", "unanswered",
           "unavailable", "rejected", "unreadable"}

(* Reviews only happen where held calls wait. *)
Possible == IF flags.wait THEN Causes ELSE Causes \ {"approved", "denied", "unanswered"}

(* What is passed on: a message whose handling failed unexpectedly is, too, so
   that the pump survives it; and failing open covers a rejected key, where the
   client alone would not.                                                   *)
Passes(cause) ==
    \/ cause \in {"other", "allowed", "approved", "unreadable"}
    \/ cause \in {"unavailable", "rejected"} /\ flags.failOpen

SessionInit ==
    /\ flags \in [failOpen : BOOLEAN, wait : BOOLEAN]
    /\ mishap \in {"none", "death", "timeout"}
    /\ client = [wrote |-> 0, open |-> TRUE, reads |-> TRUE]
    /\ reader = [step |-> "read", at |-> 0]
    /\ inbox = {}
    /\ pipe = << >>
    /\ answers = [m \in Messages |-> 0]
    /\ refused = {}
    /\ server = [runs |-> TRUE, open |-> TRUE]
    /\ writer = "pump"
    /\ main = "wait"

Alive == main # "left"

-----------------------------------------------------------------------------
(* The client. *)

ClientWrites ==
    /\ client.open
    /\ client.wrote < NumMessages
    /\ client' = [client EXCEPT !.wrote = @ + 1]
    /\ UNCHANGED << flags, mishap, reader, inbox, pipe, answers, refused, server, writer, main >>

(* It closes its end, to read what is still to come. *)
ClientHangsUp ==
    /\ client.open
    /\ client' = [client EXCEPT !.open = FALSE]
    /\ UNCHANGED << flags, mishap, reader, inbox, pipe, answers, refused, server, writer, main >>

(* It exits, at once or after it has hung up. *)
ClientGoes ==
    /\ client.reads
    /\ client' = [client EXCEPT !.open = FALSE, !.reads = FALSE]
    /\ UNCHANGED << flags, mishap, reader, inbox, pipe, answers, refused, server, writer, main >>

-----------------------------------------------------------------------------
(* The reader pump.  It judges one message at a time, for as long as a      *)
(* review takes, and the messages behind it wait.                          *)

ReaderTakes ==
    /\ Alive
    /\ reader.step = "read"
    /\ reader.at < client.wrote
    /\ reader' = [step |-> "judge", at |-> reader.at + 1]
    /\ UNCHANGED << flags, mishap, client, inbox, pipe, answers, refused, server, writer, main >>

(* Mutation: nobody tells the server that the client is gone. *)
CloseNothing == server

(* close_upstream_stdin, on the way out of the reader. *)
CloseStdin == [server EXCEPT !.open = FALSE]

(* Upstream gets the message; if it is gone, the pump ends. *)
HandOn ==
    IF server.runs
    THEN /\ inbox' = inbox \cup {reader.at}
         /\ reader' = [reader EXCEPT !.step = "read"]
         /\ UNCHANGED server
    ELSE /\ reader' = [reader EXCEPT !.step = "ended"]
         /\ server' = CloseStdin
         /\ UNCHANGED inbox

(* Mutation: what the proxy has answered goes upstream as well. *)
AnswerAndHandOn ==
    /\ client.reads
    /\ answers' = [answers EXCEPT ![reader.at] = @ + 1]
    /\ inbox' = inbox \cup {reader.at}
    /\ reader' = [reader EXCEPT !.step = "read"]
    /\ UNCHANGED server

(* The proxy answers, and upstream never learns of the message. *)
AnswerItself ==
    /\ client.reads
    /\ answers' = [answers EXCEPT ![reader.at] = @ + 1]
    /\ reader' = [reader EXCEPT !.step = "read"]
    /\ UNCHANGED << inbox, server >>

(* The client is gone, and the answer cannot be written: a failure in the    *)
(* handling of the message like any other, after which the line is passed on. *)
AnswerFails ==
    /\ ~client.reads
    /\ HandOn
    /\ UNCHANGED answers

Refuse ==
    /\ refused' = refused \cup {reader.at}
    /\ AnswerItself \/ AnswerFails

ReaderJudges ==
    /\ Alive
    /\ reader.step = "judge"
    /\ \E cause \in Possible : IF Passes(cause)
                             THEN HandOn /\ UNCHANGED << answers, refused >>
                             ELSE Refuse
    /\ UNCHANGED << flags, mishap, client, pipe, writer, main >>

(* Mutation: the pump ends when the client hangs up. *)
HungUp == ~client.open

(* The end of the client's stream, after everything it wrote. *)
EndOfStream == ~client.open /\ reader.at = client.wrote

ReaderEnds ==
    /\ Alive
    /\ reader.step = "read"
    /\ EndOfStream
    /\ reader' = [reader EXCEPT !.step = "ended"]
    /\ server' = CloseStdin
    /\ UNCHANGED << flags, mishap, client, inbox, pipe, answers, refused, writer, main >>

-----------------------------------------------------------------------------
(* The server answers in any order, and exits when its stdin is closed and  *)
(* its work done; a crash loses what it had not answered.  It waits to      *)
(* write while its pipe is full.                                           *)

ServerAnswers ==
    /\ server.runs
    /\ Len(pipe) < PipeSize
    /\ \E m \in inbox : inbox' = inbox \ {m} /\ pipe' = Append(pipe, m)
    /\ UNCHANGED << flags, mishap, client, reader, answers, refused, server, writer, main >>

ServerExits ==
    /\ server.runs
    /\ ~server.open /\ inbox = {}
    /\ server' = [server EXCEPT !.runs = FALSE]
    /\ UNCHANGED << flags, mishap, client, reader, inbox, pipe, answers, refused, writer, main >>

ServerCrashes ==
    /\ mishap = "death"
    /\ server.runs
    /\ server' = [server EXCEPT !.runs = FALSE]
    /\ UNCHANGED << flags, mishap, client, reader, inbox, pipe, answers, refused, writer, main >>

-----------------------------------------------------------------------------
(* The writer pump, and the main thread. *)

WriterRelays ==
    /\ Alive
    /\ writer = "pump"
    /\ client.reads
    /\ pipe # << >>
    /\ answers' = [answers EXCEPT ![Head(pipe)] = @ + 1]
    /\ pipe' = Tail(pipe)
    /\ UNCHANGED << flags, mishap, client, reader, inbox, refused, server, writer, main >>

(* The client is gone: what the writer had in hand is lost, and it ends.     *)
(* The proxy still holds the pipe, which nobody drains any more.            *)
WriterBreaks ==
    /\ Alive
    /\ writer = "pump"
    /\ ~client.reads
    /\ pipe # << >>
    /\ pipe' = Tail(pipe)
    /\ writer' = "ended"
    /\ UNCHANGED << flags, mishap, client, reader, inbox, answers, refused, server, main >>

WriterEnds ==
    /\ Alive
    /\ writer = "pump"
    /\ ~server.runs /\ pipe = << >>
    /\ writer' = "ended"
    /\ UNCHANGED << flags, mishap, client, reader, inbox, pipe, answers, refused, server, main >>

MainJoins ==
    /\ main = "wait"
    /\ ~server.runs
    /\ main' = "join"
    /\ UNCHANGED << flags, mishap, client, reader, inbox, pipe, answers, refused, server, writer >>

Drained == writer = "ended" \/ mishap = "timeout"

MainLeaves ==
    /\ main = "join"
    /\ Drained
    /\ main' = "left"
    /\ UNCHANGED << flags, mishap, client, reader, inbox, pipe, answers, refused, server, writer >>

-----------------------------------------------------------------------------
Reader == ReaderTakes \/ ReaderJudges \/ ReaderEnds
Server == ServerAnswers \/ ServerExits
Writer == WriterRelays \/ WriterBreaks \/ WriterEnds
Main == MainJoins \/ MainLeaves

SessionNext ==
    \/ ClientWrites \/ ClientHangsUp \/ ClientGoes
    \/ Reader \/ Server \/ ServerCrashes \/ Writer \/ Main

(* Every thread of the proxy goes on, evaluate and wait_for_decision return,
   and the server does its work while it has room to write: a full pipe
   disables it.  A client need not write, hang up nor go.                   *)
SessionFairness ==
    /\ WF_sessionVars(Reader) /\ WF_sessionVars(Server)
    /\ WF_sessionVars(Writer) /\ WF_sessionVars(Main)

SessionSpec == SessionInit /\ [][SessionNext]_sessionVars /\ SessionFairness

-----------------------------------------------------------------------------
SessionTypeOK ==
    /\ flags \in [failOpen : BOOLEAN, wait : BOOLEAN]
    /\ mishap \in {"none", "death", "timeout"}
    /\ client \in [wrote : 0 .. NumMessages, open : BOOLEAN, reads : BOOLEAN]
    /\ client.open => client.reads
    /\ reader \in [step : {"read", "judge", "ended"}, at : 0 .. NumMessages]
    /\ inbox \subseteq Messages /\ refused \subseteq Messages
    /\ pipe \in Seq(Messages)
    /\ answers \in [Messages -> Nat]
    /\ server \in [runs : BOOLEAN, open : BOOLEAN]
    /\ writer \in {"pump", "ended"} /\ main \in {"wait", "join", "left"}

Underway(m) == m \in inbox \/ \E i \in DOMAIN pipe : pipe[i] = m

(* Both pumps write to one stream, yet a message is answered once, and none  *)
(* that is answered is at the server or on its way back.  What the proxy     *)
(* refused is not there either, except when the client is gone: then the     *)
(* refusal cannot be written, and the pump passes the call on (AnswerFails). *)
AnsweredOnce ==
    \A m \in Messages :
       /\ answers[m] <= 1
       /\ answers[m] = 1 => ~Underway(m)
       /\ m \in refused /\ Underway(m) => ~client.reads /\ answers[m] = 0

(* "The upstream server never sees a blocked call" (mcp.py:28). *)
RefusedStaysHere == refused \cap inbox = {}

(* Every message written is answered, unless the client is gone or the       *)
(* session met a mishap: the pumps never wait for each other, a hang-up ends *)
(* nothing early, and the writer is drained before the process leaves with   *)
(* its daemon threads.                                                       *)
EveryMessageAnswered ==
    \A m \in Messages :
       m <= client.wrote ~> \/ answers[m] = 1
                            \/ ~client.reads
                            \/ mishap = "death" /\ ~server.runs
                            \/ mishap = "timeout" /\ main = "left"

(* The writer has ended on the broken stream of a client that is gone, and   *)
(* the server has more to write than its pipe takes.                         *)
ServerBlocked ==
    /\ ~client.reads /\ writer = "ended"
    /\ server.runs /\ inbox # {} /\ Len(pipe) = PipeSize

(* A client that hangs up or goes ends the session: its end of file is       *)
(* handed on to the server, whose exit the main thread awaits.  Only a       *)
(* server that blocks behind the writer of a client that is gone stays, and  *)
(* the proxy with it; while the client reads, nothing keeps the session.     *)
SessionEnds == ~client.open ~> main = "left" \/ ServerBlocked
=============================================================================
