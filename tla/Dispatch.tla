------------------------------ MODULE Dispatch ------------------------------
(***************************************************************************)
(* The mail log of one PEDR, and the three endpoints that write it:        *)
(* DispatchService.sendSubDocument, which renders a PDF and numbers it by  *)
(* counting the log, NominationsService.sendEmail, and resendMessage. Each *)
(* writes a row before it mails and stamps it after. Other parts of the    *)
(* port call decide by that log, so it is a module of its own: Nomination  *)
(* derives the status from it, PortCall the ETA alert.                     *)
(*                                                                         *)
(* A call acts once and writes at most one row, which bears its name.      *)
(***************************************************************************)
EXTENDS Naturals, FiniteSets

CONSTANTS Calls,    \* the calls of any endpoint
          Types,    \* the values of SubDocType in use
          None,     \* no row, no date
          MaxTime   \* bound on the clock

VARIABLES now,      \* the clock
          pc,       \* where a call is
          sending,  \* what a send is about to log, or None
          log,      \* table EmailDispatch: the row of each call, or None
          accepted  \* the calls whose mail SMTP has accepted

logVars == <<now, pc, sending, log, accepted>>

Time == 0..MaxTime

\* `trial` is the subject prefix of a live-system test, `counted` the rows
\* that the number of a document counts, None where there is no number.
Draft == [type : Types, trial : BOOLEAN, counted : (SUBSET Calls) \cup {None}]
Row == [type : Types, trial : BOOLEAN, counted : (SUBSET Calls) \cup {None},
        sentAt : Time \cup {None}]

ASSUME DispatchAssumption ==
  /\ MaxTime \in Nat /\ IsFiniteSet(Calls)
  /\ None \notin Time \cup Draft \cup Row
  /\ \A S \in SUBSET Calls : None # S

LogTypeOK ==
  /\ now \in Time
  /\ sending \in [Calls -> Draft \cup {None}]
  /\ log \in [Calls -> Row \cup {None}]
  /\ accepted \subseteq Calls

LogInit ==
  /\ now = 0
  /\ pc = [c \in Calls |-> "idle"]
  /\ sending = [c \in Calls |-> None]
  /\ log = [c \in Calls |-> None]
  /\ accepted = {}

-----------------------------------------------------------------------------
Logged == {c \in Calls : log[c] # None}
Sent(c) == log[c] # None /\ log[c].sentAt # None

Numbered == {"CARGO_UPDATE", "SOF", "SOF_INTERIM"}

\* A slip for the mutants: a cargo update counts the mails still under way.
CountsPending(type) ==
  {c \in Logged : log[c].type = type /\ log[c].sentAt = None}

\* The rows a new document counts: every cargo update, but only the
\* statements of facts that were sent. Its number is one more than these.
Counted(type) ==
  {c \in Logged : /\ log[c].type = type
                  /\ type # "CARGO_UPDATE" => log[c].sentAt # None}

Prepare(c, draft) ==
  /\ pc[c] = "idle"
  /\ pc' = [pc EXCEPT ![c] = "prepared"]
  /\ sending' = [sending EXCEPT ![c] = draft]
  /\ UNCHANGED <<now, log, accepted>>

\* sendSubDocument counts, then renders and stores the PDF.
StartSubDocument(c) ==
  \E type \in Types, trial \in BOOLEAN :
    Prepare(c, [type |-> type, trial |-> trial,
                counted |-> IF type \in Numbered THEN Counted(type) ELSE None])

\* sendEmail numbers nothing, and refuses the interim statement.
StartEmail(c) ==
  \E type \in Types \ {"SOF_INTERIM"}, trial \in BOOLEAN :
    Prepare(c, [type |-> type, trial |-> trial, counted |-> None])

\* resendMessage copies the envelope of a confirmed message. (It refuses one
\* whose PDF may be lost, and then does nothing.)
StartResend(c) ==
  \E o \in Calls :
    /\ Sent(o)
    /\ Prepare(c, [type |-> log[o].type, trial |-> log[o].trial,
                   counted |-> None])

\* Rendering or an attachment fails: nothing is logged.
PrepareFails(c) ==
  /\ pc[c] = "prepared"
  /\ pc' = [pc EXCEPT ![c] = "done"]
  /\ sending' = [sending EXCEPT ![c] = None]
  /\ UNCHANGED <<now, log, accepted>>

\* The row is created, unsent. If its answer is lost the call ends there.
CreateRow(c) ==
  /\ pc[c] = "prepared"
  /\ log' = [log EXCEPT ![c] =
       [type |-> sending[c].type, trial |-> sending[c].trial,
        counted |-> sending[c].counted, sentAt |-> None]]
  /\ sending' = [sending EXCEPT ![c] = None]
  /\ \E place \in {"logged", "done"} : pc' = [pc EXCEPT ![c] = place]
  /\ UNCHANGED <<now, accepted>>

\* The files are linked and the mail handed over. A failure may hide that the
\* server has accepted it. The error that the catch notes on the row is left
\* out, as nothing decides by it.
SendMail(c) ==
  /\ pc[c] = "logged"
  /\ \/ /\ accepted' = accepted \cup {c}
        /\ pc' = [pc EXCEPT ![c] = "mailed"]
     \/ /\ accepted' \in {accepted, accepted \cup {c}}
        /\ pc' = [pc EXCEPT ![c] = "done"]
  /\ UNCHANGED <<now, sending, log>>

\* sentAt is set, or the statement is refused.
StampSent(c) ==
  /\ pc[c] = "mailed"
  /\ log' \in {log, [log EXCEPT ![c].sentAt = now]}
  /\ pc' = [pc EXCEPT ![c] = "done"]
  /\ UNCHANGED <<now, sending, accepted>>

Tick ==
  /\ now < MaxTime
  /\ now' = now + 1
  /\ UNCHANGED <<pc, sending, log, accepted>>

Start(c) == StartSubDocument(c) \/ StartEmail(c) \/ StartResend(c)
Continue(c) == PrepareFails(c) \/ CreateRow(c) \/ SendMail(c) \/ StampSent(c)

DispatchSpec ==
  LogInit /\ [][Tick \/ \E c \in Calls : Start(c) \/ Continue(c)]_logVars

-----------------------------------------------------------------------------
Number(c) == Cardinality(log[c].counted) + 1

\* Two documents may share a number only if their calls overlapped: one that
\* was counted has a lower number than the one that counted it, whatever was
\* mailed, failed or resent in between.
NumbersFollow ==
  \A c \in Logged : log[c].counted # None =>
    \A d \in log[c].counted : log[d].counted # None => Number(d) < Number(c)
=============================================================================
