--------------------------- MODULE ServiceRequest ---------------------------
(***************************************************************************)
(* One service request whose type needs an authorisation letter            *)
(* (backend/src/service-requests): drafted, approved, printed as a         *)
(* purchase order, mailed to the provider, completed or cancelled.         *)
(*                                                                         *)
(* Several of the staff call the service at once. Every call reads the     *)
(* row, tests what it has read, and writes later; most writes repeat the   *)
(* status and updatedAt that were read in their where clause, some do not. *)
(* Whatever a call writes (terms, a PDF, a receipt, a letter) is named by  *)
(* the call, and by Earlier when it is there from the start.               *)
(*                                                                         *)
(* A call acts once: Calls is the bound. updatedAt is a version number,    *)
(* so two writes of the row never share a millisecond here. A crash needs  *)
(* no action of its own: to a safety property it is a call that never      *)
(* takes its next step, and any call may stop anywhere.                    *)
(***************************************************************************)
EXTENDS Naturals

CONSTANTS Calls, Earlier, None

ASSUME NamesAssumption ==
  None \notin Calls /\ Earlier \notin Calls /\ None # Earlier

VARIABLES
  row,       \* table ServiceRequest: the row, or None once deleted
  letters,   \* table EmailAttachment: the request's own documents
  objects,   \* the order PDFs in MinIO, each with the terms it shows
  dispatch,  \* table ServiceRequestDispatch: the row of each send, or None
  op,        \* a call: its kind, where it is, and what it remembers
  mail       \* the mail a send handed to SMTP, or None

vars == <<row, letters, objects, dispatch, op, mail>>

Names == Calls \cup {Earlier}
Optional == Names \cup {None}

\* terms: the operational fields. approval: the terms that were approved.
Row == [status : {"DRAFT", "SENT", "COMPLETED", "CANCELLED"},
        terms : Names, approval : Optional, pdf : Optional,
        receipt : Optional, version : Nat]

ASSUME NoRowAssumption == None \notin Row

Kinds == {"update", "reconcile", "remove", "cancel", "complete", "attach",
          "detach", "approve", "receipt", "preview", "send"}
Places == {"idle", "write", "object", "delete", "file", "invalidate",
           "letters", "reread", "count", "upload", "stamp", "cleanup", "drop",
           "again", "issue", "buffer", "archive", "mail", "sent", "audit",
           "done"}

\* old: a PDF to delete. mine: the letters whose bytes the mail will carry.
\* copies: the letters to archive with the dispatch. bytes: the order, by the
\* terms it shows, as read back from MinIO.
Op == [kind : Kinds \cup {None}, at : Places, read : Row \cup {None},
       old : Optional, mine : SUBSET Names, copies : SUBSET Names,
       bytes : Optional]
Dispatch == [pdf : Names, sent : BOOLEAN, error : BOOLEAN]
Mail == [terms : Names, letters : SUBSET Names]

\* The request, its files, its log and the calls have the shape of the code's.
TypeOK ==
  /\ row \in Row \cup {None}
  /\ letters \subseteq Names
  /\ objects \in [Names -> Optional]
  /\ dispatch \in [Names -> Dispatch \cup {None}]
  /\ op \in [Calls -> Op]
  /\ mail \in [Calls -> Mail \cup {None}]

\* A draft with a letter, as create and addDocuments leave it; the same with a
\* preview of its order; or a request that has been sent.
Init ==
  /\ \E status \in {"DRAFT", "SENT"}, pdf \in {Earlier, None} :
       /\ status = "SENT" => pdf = Earlier
       /\ row = [status |-> status, terms |-> Earlier, approval |-> None,
                 pdf |-> pdf, receipt |-> None, version |-> 0]
       /\ objects = [n \in Names |-> IF n = pdf THEN Earlier ELSE None]
       /\ dispatch = [n \in Names |->
            IF n = Earlier /\ status = "SENT"
            THEN [pdf |-> Earlier, sent |-> TRUE, error |-> FALSE] ELSE None]
  /\ letters = {Earlier}
  /\ op = [c \in Calls |-> [kind |-> None, at |-> "idle", read |-> None,
                            old |-> None, mine |-> {}, copies |-> {},
                            bytes |-> None]]
  /\ mail = [c \in Calls |-> None]

-----------------------------------------------------------------------------
\* Parts of the steps.

Locked == {"SENT", "COMPLETED", "CANCELLED"}

\* ServiceRequestSendReadinessSchema, of which the letter is what can change.
Ready == letters # {}

\* The tests of each operation on the row it has read.
Permitted(kind, r) ==
  CASE kind = "update" -> r.status \notin Locked
    [] kind = "reconcile" -> TRUE
    [] kind = "remove" -> r.status = "DRAFT"
    [] kind = "cancel" -> r.status # "CANCELLED"
    [] kind = "complete" -> r.status = "SENT"
    [] kind = "attach" -> r.status # "CANCELLED"
    [] kind = "detach" -> TRUE
    [] kind = "approve" -> r.status = "DRAFT" /\ Ready
    [] kind = "receipt" -> r.status \in {"SENT", "COMPLETED"}
    [] kind = "preview" -> r.status = "DRAFT" /\ Ready
    [] kind = "send" -> r.status # "CANCELLED" /\ Ready

FirstPlace(kind) ==
  CASE kind = "remove" -> "object"
    [] kind \in {"attach", "detach"} -> "file"
    [] kind = "preview" -> "count"
    [] kind = "send" -> "letters"
    [] OTHER -> "write"

At(c, place) == op[c].at = place
Goto(c, place) == op' = [op EXCEPT ![c].at = place]

\* Slips of the where clauses, for the mutants of PROJECT.json.
AnyVersion(c) == row # None /\ row.status = op[c].read.status
AnyStatus(c) == row # None
KeepsApproval(c, r) ==
  [r EXCEPT !.version = @ + 1,
            !.terms = IF op[c].kind = "update" THEN c ELSE @,
            !.pdf = IF op[c].read.status = "DRAFT" THEN None ELSE @]
ClearsOmitted(c, r) ==
  [r EXCEPT !.version = @ + 1, !.approval = None, !.pdf = None,
            !.terms = IF op[c].kind = "update" THEN c ELSE None]
AnyPdf(pdf) == TRUE
IgnoresReceipt(c) == c

\* where: { id, status, updatedAt } of the row that was read
Unchanged(c) ==
  /\ row # None
  /\ row.status = op[c].read.status
  /\ row.version = op[c].read.version

-----------------------------------------------------------------------------
\* getOrThrow and the tests on what it returned.
Read(c) ==
  /\ At(c, "idle")
  /\ \E kind \in Kinds :
       op' = [op EXCEPT ![c].kind = kind, ![c].read = row,
                        ![c].at = IF row # None /\ Permitted(kind, row)
                                  THEN FirstPlace(kind) ELSE "done"]
  /\ UNCHANGED <<row, letters, objects, dispatch, mail>>

\* update: of a draft it resets approval and preview, of a locked request it
\* writes only the fields that stay open, and resets the approval as well.
Saved(c, r) ==
  [r EXCEPT !.version = @ + 1,
            !.terms = IF op[c].kind = "update" THEN c ELSE @,
            !.approval = None,
            !.pdf = IF op[c].read.status = "DRAFT" THEN None ELSE @]

\* A receipt that is recorded can only be repeated.
ReceiptOf(c) ==
  IF op[c].read.receipt = None THEN c ELSE op[c].read.receipt

Guarded == {"update", "reconcile", "approve", "receipt"}

\* The row each call writes; transition alone writes whatever is there.
WriteRow(c) ==
  /\ At(c, "write")
  /\ \/ /\ op[c].kind \in Guarded /\ Unchanged(c)
        /\ row' = CASE op[c].kind \in {"update", "reconcile"} -> Saved(c, row)
                    [] op[c].kind = "approve" ->
                         [row EXCEPT !.version = @ + 1, !.pdf = None,
                                     !.approval = row.terms]
                    [] op[c].kind = "receipt" ->
                         [row EXCEPT !.version = @ + 1,
                                     !.receipt = ReceiptOf(c)]
        /\ \/ /\ op[c].kind # "receipt" /\ op[c].read.status = "DRAFT"
              /\ op' = [op EXCEPT ![c].at = "drop", ![c].old = op[c].read.pdf]
           \/ Goto(c, "done")
     \/ /\ op[c].kind \in {"cancel", "complete"} /\ row # None
        /\ row' = [row EXCEPT !.version = @ + 1,
                              !.status = IF op[c].kind = "cancel"
                                         THEN "CANCELLED" ELSE "COMPLETED"]
        /\ Goto(c, "done")
     \/ Goto(c, "done") /\ UNCHANGED row
  /\ UNCHANGED <<letters, objects, dispatch, mail>>

\* The PDF a write has replaced is deleted, unless MinIO refuses.
DropOldPdf(c) ==
  /\ At(c, "drop")
  /\ objects' \in {objects, [n \in Names |->
                     IF n = op[c].old THEN None ELSE objects[n]]}
  /\ Goto(c, IF op[c].kind = "send" THEN "again" ELSE "done")
  /\ UNCHANGED <<row, letters, dispatch, mail>>

\* remove: first the PDF, then the row, with no test of its present status.
\* Documents and dispatches cascade.
RemovePdf(c) ==
  /\ At(c, "object")
  /\ objects' \in {objects, [n \in Names |->
                     IF n = op[c].read.pdf THEN None ELSE objects[n]]}
  /\ Goto(c, "delete")
  /\ UNCHANGED <<row, letters, dispatch, mail>>

RemoveRow(c) ==
  /\ At(c, "delete")
  /\ \/ /\ row' = None
        /\ letters' = {}
        /\ dispatch' = [n \in Names |-> None]
     \/ UNCHANGED <<row, letters, dispatch>>
  /\ Goto(c, "done")
  /\ UNCHANGED <<objects, mail>>

-----------------------------------------------------------------------------
\* addDocuments and removeDocument: the file first, then invalidateDraftOrder.

\* archive copies a letter for each dispatch, so the guard "already sent"
\* never meets the row of the letter itself.
FileLetter(c) ==
  /\ At(c, "file")
  /\ \/ /\ row # None
        /\ \/ op[c].kind = "attach" /\ letters' = letters \cup {c}
           \/ /\ op[c].kind = "detach"
              /\ \E f \in letters : letters' = letters \ {f}
        /\ Goto(c, IF op[c].read.status = "DRAFT" THEN "invalidate" ELSE "done")
     \/ Goto(c, "done") /\ UNCHANGED letters
  /\ UNCHANGED <<row, objects, dispatch, mail>>

InvalidateDraftOrder(c) ==
  /\ At(c, "invalidate")
  /\ \/ /\ Unchanged(c)
        /\ row' = [row EXCEPT !.version = @ + 1, !.approval = None,
                              !.pdf = None]
        /\ op' = [op EXCEPT ![c].at = "drop", ![c].old = op[c].read.pdf]
     \/ Goto(c, "done") /\ UNCHANGED row
  /\ UNCHANGED <<letters, objects, dispatch, mail>>

-----------------------------------------------------------------------------
\* generateOrderPdf, for a preview or inside sendOrder.

\* resolveServiceRequestDocuments: the bytes the mail will carry.
ResolveLetters(c) ==
  /\ At(c, "letters")
  /\ op' = [op EXCEPT ![c].at = "reread", ![c].mine = letters]
  /\ UNCHANGED <<row, letters, objects, dispatch, mail>>

\* The row is read again, and its letters are counted again.
RereadForPdf(c) ==
  /\ At(c, "reread")
  /\ IF row # None /\ Permitted("send", row)
     THEN op' = [op EXCEPT ![c].at = "count", ![c].read = row]
     ELSE Goto(c, "done")
  /\ UNCHANGED <<row, letters, objects, dispatch, mail>>

\* A PDF that no dispatch names may go.
Replaceable(pdf) == \A n \in Names : dispatch[n] # None => dispatch[n].pdf # pdf

CountDispatches(c) ==
  /\ At(c, "count")
  /\ op' = [op EXCEPT ![c].at = "upload",
                      ![c].old = IF Replaceable(op[c].read.pdf)
                                 THEN op[c].read.pdf ELSE None]
  /\ UNCHANGED <<row, letters, objects, dispatch, mail>>

UploadPdf(c) ==
  /\ At(c, "upload")
  /\ \/ objects' = [objects EXCEPT ![c] = op[c].read.terms] /\ Goto(c, "stamp")
     \/ UNCHANGED objects /\ Goto(c, "done")
  /\ UNCHANGED <<row, letters, dispatch, mail>>

\* The row is made to name the new PDF. An error, even one that hides a commit,
\* deletes it again.
StampPdf(c) ==
  /\ At(c, "stamp")
  /\ \/ /\ Unchanged(c)
        /\ row' = [row EXCEPT !.version = @ + 1, !.pdf = c]
        /\ \/ op' = [op EXCEPT ![c].at = "drop", ![c].read = row']
           \/ Goto(c, "cleanup")
     \/ Goto(c, "cleanup") /\ UNCHANGED row
  /\ UNCHANGED <<letters, objects, dispatch, mail>>

CleanUpPdf(c) ==
  /\ At(c, "cleanup")
  /\ objects' \in {objects, [objects EXCEPT ![c] = None]}
  /\ Goto(c, "done")
  /\ UNCHANGED <<row, letters, dispatch, mail>>

-----------------------------------------------------------------------------
\* sendOrder, after the PDF.

\* The row is read a third time and must be as generateOrderPdf left it; its
\* letters, which it does not compare, will be archived.
ReadForIssue(c) ==
  /\ At(c, "again")
  /\ IF row # None /\ row.version = op[c].read.version
     THEN op' = [op EXCEPT ![c].at = "issue", ![c].read = row,
                           ![c].copies = letters]
     ELSE Goto(c, "done")
  /\ UNCHANGED <<row, letters, objects, dispatch, mail>>

\* The transaction: the dispatch row, and the status SENT.
IssueOrder(c) ==
  /\ At(c, "issue")
  /\ \/ /\ Unchanged(c)
        /\ row' = [row EXCEPT !.version = @ + 1, !.status = "SENT"]
        /\ dispatch' = [dispatch EXCEPT ![c] =
             [pdf |-> c, sent |-> FALSE, error |-> FALSE]]
        /\ Goto(c, "buffer") \/ Goto(c, "done")
     \/ Goto(c, "done") /\ UNCHANGED <<row, dispatch>>
  /\ UNCHANGED <<letters, objects, mail>>

ReadPdf(c) ==
  /\ At(c, "buffer")
  /\ \/ /\ objects[c] # None
        /\ op' = [op EXCEPT ![c].at = "archive", ![c].bytes = objects[c]]
     \/ Goto(c, "audit")
  /\ UNCHANGED <<row, letters, objects, dispatch, mail>>

\* linkToServiceRequestDispatch needs every letter that was read.
ArchiveLetters(c) ==
  /\ At(c, "archive")
  /\ \/ op[c].copies \subseteq letters /\ Goto(c, "mail")
     \/ Goto(c, "audit")
  /\ UNCHANGED <<row, letters, objects, dispatch, mail>>

\* EmailService.send, under the attempt of EmailDelivery: it throws before
\* SMTP, or the message is handed over, and then sendMail may still throw.
SendMail(c) ==
  /\ At(c, "mail")
  /\ \/ /\ mail' = [mail EXCEPT ![c] =
             [terms |-> op[c].bytes, letters |-> op[c].mine]]
        /\ Goto(c, "sent") \/ Goto(c, "audit")
     \/ UNCHANGED mail /\ Goto(c, "audit")
  /\ UNCHANGED <<row, letters, objects, dispatch>>

StampDispatch(c) ==
  /\ At(c, "sent")
  /\ \/ /\ dispatch[c] # None
        /\ dispatch' = [dispatch EXCEPT ![c].sent = TRUE]
        /\ Goto(c, "done") \/ Goto(c, "audit")
     \/ UNCHANGED dispatch /\ Goto(c, "audit")
  /\ UNCHANGED <<row, letters, objects, mail>>

AuditFailure(c) ==
  /\ At(c, "audit")
  /\ \/ /\ dispatch[c] # None
        /\ dispatch' = [dispatch EXCEPT ![c].error = TRUE]
     \/ UNCHANGED dispatch
  /\ Goto(c, "done")
  /\ UNCHANGED <<row, letters, objects, mail>>

-----------------------------------------------------------------------------
Step(c) ==
  \/ Read(c) \/ WriteRow(c) \/ DropOldPdf(c) \/ RemovePdf(c) \/ RemoveRow(c)
  \/ FileLetter(c) \/ InvalidateDraftOrder(c)
  \/ ResolveLetters(c) \/ RereadForPdf(c) \/ CountDispatches(c)
  \/ UploadPdf(c) \/ StampPdf(c) \/ CleanUpPdf(c)
  \/ ReadForIssue(c) \/ IssueOrder(c) \/ ReadPdf(c) \/ ArchiveLetters(c)
  \/ SendMail(c) \/ StampDispatch(c) \/ AuditFailure(c)

Next == \E c \in Calls : Step(c)

Spec == Init /\ [][Next]_vars

-----------------------------------------------------------------------------
\* Properties.

\* "Everything else describes what was ordered, and the provider already has
\* that in writing": once a request has left DRAFT its terms never change.
TermsFrozen ==
  [][row # None /\ row.status \in Locked /\ row' # None
       => row'.terms = row.terms]_vars

\* "the provider must receive what is on screen": the order that was mailed
\* shows the terms the request has from then on.
MailShowsTerms ==
  \A c \in Calls : mail[c] # None /\ row # None => mail[c].terms = row.terms

\* "Cannot send a cancelled request": no send that began before the
\* cancellation turns the request SENT after it.
CancelledIsNotIssued ==
  [][row # None /\ row.status = "CANCELLED" /\ row' # None
       => row'.status # "SENT"]_vars

\* The test "keeps a PDF referenced by an earlier dispatch during resend":
\* nobody but remove deletes a PDF some dispatch names.
DispatchedPdfKept ==
  [][\A n \in Names : dispatch[n] # None =>
       LET pdf == dispatch[n].pdf
       IN objects[pdf] # None /\ objects'[pdf] = None =>
            \E c \in Calls : op[c].kind = "remove" /\ op'[c].at # op[c].at]_vars

\* "Any draft save can change the terms the manager approved": a recorded
\* approval is one of the present terms.
ApprovalIsCurrent ==
  row # None /\ row.approval # None => row.approval = row.terms

\* "A recorded receipt cannot be changed."
ReceiptIsFinal ==
  [][row # None /\ row.receipt # None /\ row' # None
       => row'.receipt = row.receipt]_vars

\* The next two are what service-requests.md and a comment of sendOrder say and
\* the code does not keep, and no run checks: README, "What the code does not
\* keep".

\* "The authorisation letter rides along with every send."
LetterRidesAlong == \A c \in Calls : mail[c] # None => mail[c].letters # {}

\* The diagram under "Lifecycle".
LifecycleSteps ==
  {<<"DRAFT", "SENT">>, <<"SENT", "COMPLETED">>,
   <<"DRAFT", "CANCELLED">>, <<"SENT", "CANCELLED">>}

Lifecycle ==
  [][row # None /\ row' # None /\ row'.status # row.status
       => <<row.status, row'.status>> \in LifecycleSteps]_vars

\* What was mailed and what was approved are the terms the request has.
TermsAreAgreed == TypeOK /\ MailShowsTerms /\ ApprovalIsCurrent

\* What is decided is not undone by a call that read the row before: terms once
\* sent, a cancellation, a receipt.
DecisionsStand == TermsFrozen /\ CancelledIsNotIssued /\ ReceiptIsFinal
=============================================================================
