----------------------------- MODULE ShDocument -----------------------------
(***************************************************************************)
(* One SH-XX document of a nomination (backend/src/sh-documents): it is    *)
(* edited and finalized, a PDF is rendered into MinIO, and it is mailed at *)
(* most once. Staff work on it from several browsers, so the operations    *)
(* interleave at every await: each reads the row first, tests what it      *)
(* read, and writes later, mostly without repeating the test.              *)
(*                                                                         *)
(* SHDocumentsService.send runs inside EmailDeliveryService.run, so this   *)
(* module composes the document with EmailDelivery: the steps of a send    *)
(* are the `work` of a request there. The bounds are the sets of editors   *)
(* and sends, each of which acts once, and MaxTime.                        *)
(***************************************************************************)
EXTENDS Naturals, FiniteSets

CONSTANTS Editors,     \* calls of update, finalize, generatePdf and delete
          Rendered,    \* the PDF of an earlier generatePdf, or None
  Sends,       \* calls of send
          Keys, Contents, None, MaxCalls,  \* as in EmailDelivery
          MaxTime      \* bound on the milliseconds that matter

ASSUME ShAssumption ==
  /\ MaxTime \in Nat /\ MaxCalls \in Nat \ {0} /\ IsFiniteSet(Editors)
  /\ None \notin Editors \cup Sends \cup Keys \cup Contents
  /\ Rendered \notin Editors

VARIABLES
  attempt, pc, key, content, started, accepted, reply, replayed, calls, smtp,
  doc,       \* table SHDocument: the row, or None once deleted
  objects,   \* the PDFs in MinIO, named by the editor that rendered them
  dispatch,  \* table ShDocumentDispatch: the row of each send, or None
  op,        \* an editor's call: which, where it is, what it has read
  at,        \* where a send is inside its handler
  read,      \* the row the send has read
  mailed,    \* the PDF the send handed to SMTP
  claims,    \* the sends whose claim of the document was applied (history)
  reopened,  \* how often finalize has overwritten SENT (history)
  outrun,    \* a generatePdf has named another PDF in a row that was SENT since
             \* it had read it (history)
  now        \* the clock, in milliseconds

Delivery == INSTANCE EmailDelivery WITH Requests <- Sends

delivery == <<attempt, pc, key, content, started, accepted, reply, replayed,
              calls, smtp>>
document == <<doc, objects, dispatch, reopened, outrun>>
sending == <<at, read, mailed, claims>>
vars == <<delivery, document, op, sending, now>>

Kinds == {"update", "finalize", "generate", "delete"}
Pdfs == Editors \cup {Rendered, None}
Doc == [status : {"DRAFT", "FINALIZED", "SENT"},
        edits : 0..Cardinality(Editors),
        pdf : Pdfs,
        updatedAt : 0..MaxTime]
Dispatch == [pdf : Pdfs \ {None}, sent : BOOLEAN, error : BOOLEAN]

ASSUME NoRowAssumption == None \notin Doc \cup Dispatch

\* The document, its PDFs, its log and the calls have the shape of the code's.
TypeOK ==
  /\ Delivery!TypeOK
  /\ doc \in Doc \cup {None}
  /\ objects \subseteq Pdfs \ {None}
  /\ dispatch \in [Sends -> Dispatch \cup {None}]
  /\ op \in [Editors -> [kind : Kinds \cup {None}, read : Doc \cup {None},
                         at : {"idle", "object", "upload", "write", "done"}]]
  /\ at \in [Sends -> {"read", "buffer", "create", "archive", "claim", "send",
                       "smtp", "stamp", "audit", "threw", "returns"}]
  /\ read \in [Sends -> Doc \cup {None}]
  /\ mailed \in [Sends -> Pdfs]
  /\ claims \subseteq Sends
  /\ reopened \in 0..Cardinality(Editors)
  /\ outrun \in BOOLEAN
  /\ now \in 0..MaxTime

\* create leaves a DRAFT without a PDF; a generatePdf may have followed.
Init ==
  /\ Delivery!Init
  /\ doc = [status |-> "DRAFT", edits |-> 0, pdf |-> Rendered,
            updatedAt |-> 0]
  /\ objects = {Rendered} \ {None}
  /\ dispatch = [s \in Sends |-> None]
  /\ op = [e \in Editors |-> [kind |-> None, read |-> None, at |-> "idle"]]
  /\ at = [s \in Sends |-> "read"]
  /\ read = [s \in Sends |-> None]
  /\ mailed = [s \in Sends |-> None]
  /\ claims = {}
  /\ reopened = 0 /\ outrun = FALSE
  /\ now = 0

-----------------------------------------------------------------------------
\* update, finalize, generatePdf, delete.

\* The tests each call makes on the row it has read.
Permitted(kind, d) ==
  CASE kind = "update" -> d.status = "DRAFT"
    [] kind = "finalize" -> d.status = "DRAFT"
    [] kind = "generate" -> d.status # "SENT"
    [] kind = "delete" -> d.status = "DRAFT"

Move(e, place) == op' = [op EXCEPT ![e].at = place]

\* getOrThrow and the tests; an exception ends the call.
ReadForEdit(e) ==
  /\ op[e].at = "idle"
  /\ \E kind \in Kinds :
       LET next == IF doc = None \/ ~Permitted(kind, doc) THEN "done"
                   ELSE IF kind \in {"generate", "delete"} THEN "object"
                   ELSE "write"
       IN op' = [op EXCEPT ![e] = [kind |-> kind, read |-> doc, at |-> next]]
  /\ UNCHANGED <<delivery, document, sending, now>>

\* generatePdf and delete remove the object the row named when it was read;
\* an error of the removal is ignored.
RemoveObject(e) ==
  /\ op[e].at = "object"
  /\ objects' \in {objects, objects \ {op[e].read.pdf}}
  /\ Move(e, IF op[e].kind = "generate" THEN "upload" ELSE "write")
  /\ UNCHANGED <<delivery, doc, dispatch, reopened, outrun, sending, now>>

UploadPdf(e) ==
  /\ op[e].at = "upload"
  /\ \/ objects' = objects \cup {e} /\ Move(e, "write")
     \/ UNCHANGED objects /\ Move(e, "done")
  /\ UNCHANGED <<delivery, doc, dispatch, reopened, outrun, sending, now>>

Touched(d) == [d EXCEPT !.updatedAt = now]

\* A slip for the mutants of PROJECT.json: a patch that sets every column.
PatchesStatus(e) ==
  CASE op[e].kind = "update" -> [doc EXCEPT !.status = None]
    [] op[e].kind = "delete" -> None
    [] OTHER -> doc

\* The row written: update where id, with no test of its present status.
Written(e) ==
  CASE op[e].kind = "update" -> Touched([doc EXCEPT !.edits = @ + 1])
    [] op[e].kind = "finalize" -> Touched([doc EXCEPT !.status = "FINALIZED"])
    [] op[e].kind = "generate" -> Touched([doc EXCEPT !.pdf = e])
    [] op[e].kind = "delete" -> None

\* The last write of a call. A row that is gone makes it throw; the dispatch
\* rows of a deleted document cascade.
WriteDocument(e) ==
  /\ op[e].at = "write"
  /\ Move(e, "done")
  /\ IF doc = None
     THEN UNCHANGED <<doc, dispatch, reopened, outrun>>
     ELSE /\ doc' = Written(e)
          /\ dispatch' = IF op[e].kind = "delete"
                         THEN [s \in Sends |-> None] ELSE dispatch
          /\ reopened' = IF op[e].kind = "finalize" /\ doc.status = "SENT"
                         THEN reopened + 1 ELSE reopened
          /\ outrun' = (outrun \/ (/\ op[e].kind = "generate" /\ doc.status = "SENT"
                                   /\ op[e].read.status # "SENT"))
  /\ UNCHANGED <<delivery, objects, sending, now>>

-----------------------------------------------------------------------------
\* send, the work of a request that owns its delivery attempt.

InHandler(s, place) == pc[s] = "work" /\ at[s] = place
Step(s, place) == at' = [at EXCEPT ![s] = place]

\* The document must be FINALIZED and have a PDF.
ReadForSend(s) ==
  /\ InHandler(s, "read")
  /\ read' = [read EXCEPT ![s] = doc]
  /\ Step(s, IF doc # None /\ doc.status = "FINALIZED" /\ doc.pdf # None
             THEN "buffer" ELSE "threw")
  /\ UNCHANGED <<delivery, document, op, mailed, claims, now>>

\* resolveForSend and getFileBuffer: the PDF's bytes are read before anything
\* is claimed.
ReadBytes(s) ==
  /\ InHandler(s, "buffer")
  /\ \/ read[s].pdf \in objects /\ Step(s, "create")
     \/ Step(s, "threw")
  /\ UNCHANGED <<delivery, document, op, read, mailed, claims, now>>

StampsAtCreation(s) ==
  /\ InHandler(s, "create")
  /\ doc # None
  /\ dispatch' = [dispatch EXCEPT ![s] =
       [pdf |-> read[s].pdf, sent |-> TRUE, error |-> FALSE]]
  /\ Step(s, "archive")
  /\ UNCHANGED <<delivery, doc, objects, reopened, outrun, op, read, mailed, claims,
                 now>>

CreateDispatch(s) ==
  /\ InHandler(s, "create")
  /\ \/ /\ doc # None
        /\ dispatch' = [dispatch EXCEPT ![s] =
             [pdf |-> read[s].pdf, sent |-> FALSE, error |-> FALSE]]
        /\ Step(s, "archive") \/ Step(s, "threw")
     \/ UNCHANGED dispatch /\ Step(s, "threw")
  /\ UNCHANGED <<delivery, doc, objects, reopened, outrun, op, read, mailed, claims,
                 now>>

\* linkToShDocumentDispatch copies the attachments; it may fail.
ArchiveAttachments(s) ==
  /\ InHandler(s, "archive")
  /\ Step(s, "claim") \/ Step(s, "audit")
  /\ UNCHANGED <<delivery, document, op, read, mailed, claims, now>>

\* Slips the claim could have, for the mutants of PROJECT.json.
ClaimsAnyPdf(s) ==
  /\ doc.status = "FINALIZED"
  /\ doc.updatedAt = read[s].updatedAt
ClaimsById(s) ==
  doc.pdf = read[s].pdf

\* where: { id, status: 'FINALIZED', minioKey, updatedAt }
ClaimMatches(s) ==
  /\ doc.status = "FINALIZED"
  /\ doc.pdf = read[s].pdf
  /\ doc.updatedAt = read[s].updatedAt

\* The transaction that turns FINALIZED into SENT: applied, rolled back, or
\* applied with its answer lost.
ClaimDocument(s) ==
  /\ InHandler(s, "claim")
  /\ \/ /\ doc # None /\ ClaimMatches(s)
        /\ doc' = Touched([doc EXCEPT !.status = "SENT"])
        /\ claims' = claims \cup {s}
        /\ Step(s, "send") \/ Step(s, "audit")
     \/ UNCHANGED <<doc, claims>> /\ Step(s, "audit")
  /\ UNCHANGED <<delivery, objects, dispatch, reopened, outrun, op, read, mailed,
                 now>>

\* EmailService.send
StartSend(s) ==
  /\ InHandler(s, "send")
  /\ Delivery!BeforeSend(s)
  /\ Step(s, "smtp")
  /\ UNCHANGED <<document, op, read, mailed, claims, now>>

HandToSmtp(s) ==
  /\ Delivery!CallSmtp(s)
  /\ mailed' = [mailed EXCEPT ![s] = read[s].pdf]
  /\ UNCHANGED <<document, op, at, read, claims, now>>

SmtpDone(s) ==
  /\ \/ Delivery!SmtpResolves(s) /\ Step(s, "stamp")
     \/ Delivery!SmtpThrows(s) /\ Step(s, "audit")
  /\ UNCHANGED <<document, op, read, mailed, claims, now>>

\* beforeSend could not claim the attempt: its exception ends the try block.
ClaimAttempt(s) ==
  /\ Delivery!ClaimSending(s)
  /\ Step(s, IF pc'[s] = "work" THEN "audit" ELSE "smtp")
  /\ UNCHANGED <<document, op, read, mailed, claims, now>>

\* dispatch.sentAt
StampDispatch(s) ==
  /\ InHandler(s, "stamp")
  /\ \/ /\ dispatch[s] # None
        /\ dispatch' = [dispatch EXCEPT ![s].sent = TRUE]
        /\ Step(s, "returns") \/ Step(s, "audit")
     \/ UNCHANGED dispatch /\ Step(s, "audit")
  /\ UNCHANGED <<delivery, doc, objects, reopened, outrun, op, read, mailed, claims,
                 now>>

RestoresFinalized(s) ==
  /\ InHandler(s, "audit")
  /\ Step(s, "threw")
  /\ doc' = IF s \in claims /\ doc # None
            THEN Touched([doc EXCEPT !.status = "FINALIZED"]) ELSE doc
  /\ UNCHANGED <<delivery, objects, dispatch, reopened, outrun, op, read, mailed,
                 claims, now>>

\* catch: dispatch.error, best effort, and rethrow. The status stays.
AuditFailure(s) ==
  /\ InHandler(s, "audit")
  /\ Step(s, "threw")
  /\ \/ /\ dispatch[s] # None
        /\ dispatch' = [dispatch EXCEPT ![s].error = TRUE]
     \/ UNCHANGED dispatch
  /\ UNCHANGED <<delivery, doc, objects, reopened, outrun, op, read, mailed, claims,
                 now>>

LeaveHandler(s) ==
  /\ \/ at[s] = "returns" /\ Delivery!WorkReturns(s)
     \/ at[s] = "threw" /\ Delivery!WorkThrows(s)
  /\ UNCHANGED <<document, op, sending, now>>

\* What EmailDeliveryService.run does around the handler.
AroundHandler(s) ==
  /\ \/ Delivery!Arrive(s)
     \/ Delivery!CreateAttempt(s) \/ Delivery!LookUpAttempt(s)
     \/ Delivery!ReclaimAttempt(s)
     \/ Delivery!RecordSent(s) \/ Delivery!RecordFailure(s)
     \/ Delivery!SmtpDecides(s)
  /\ UNCHANGED <<document, op, sending, now>>

-----------------------------------------------------------------------------
Tick ==
  /\ now < MaxTime
  /\ now' = now + 1
  /\ UNCHANGED <<delivery, document, op, sending>>

\* The process dies with every call in it.
Crash ==
  /\ \/ Delivery!Crash
     \/ /\ \A s \in Sends : pc[s] \notin Delivery!Live
        /\ \E e \in Editors : op[e].at \notin {"idle", "done"}
        /\ UNCHANGED delivery
  /\ op' = [e \in Editors |-> IF op[e].at = "idle" THEN op[e]
                              ELSE [op[e] EXCEPT !.at = "done"]]
  /\ UNCHANGED <<document, sending, now>>

Next ==
  \/ \E e \in Editors :
       ReadForEdit(e) \/ RemoveObject(e) \/ UploadPdf(e) \/ WriteDocument(e)
  \/ \E s \in Sends :
       \/ ReadForSend(s) \/ ReadBytes(s) \/ CreateDispatch(s)
       \/ ArchiveAttachments(s) \/ ClaimDocument(s)
       \/ StartSend(s) \/ ClaimAttempt(s) \/ HandToSmtp(s) \/ SmtpDone(s)
       \/ StampDispatch(s) \/ AuditFailure(s) \/ LeaveHandler(s)
       \/ AroundHandler(s)
  \/ Tick
  \/ Crash

Spec == Init /\ [][Next]_vars

-----------------------------------------------------------------------------
\* Properties.

Mails == {s \in Sends : mailed[s] # None}

\* The test "allows only one SMTP send for concurrent different keys": a mail
\* leaves only on a claim of its own, and a document is claimed once, and once
\* more only for each time a stale finalize has taken it out of SENT.
OneMailPerClaim ==
  /\ Mails \subseteq claims
  /\ Cardinality(claims) <= 1 + reopened

\* "the durable claim prevents a duplicate retry": as long as no finalize
\* overwrites the status, a mailed document is SENT for good.
MailedStaysSent ==
  Mails # {} /\ reopened = 0 /\ doc # None => doc.status = "SENT"

\* The test "does not send the prepared bytes if the finalized PDF changed
\* before claim", for the whole life of a document: what was mailed is the PDF
\* that the document names, whatever is rendered between a send's first read and
\* its mail and afterwards. Only a finalize or a generatePdf that has read the
\* row before it was SENT, and writes after, may leave another one there.
MailedIsNamed ==
  reopened = 0 /\ ~outrun /\ doc # None => \A s \in Mails : doc.pdf = mailed[s]

\* The dispatch log is honest: a row says sent only for an accepted message
\* and names the PDF that was mailed; a successful answer has its row stamped,
\* unless the document and all its rows were deleted meanwhile.
DispatchLogHonest ==
  /\ \A s \in Sends : dispatch[s] # None =>
       /\ dispatch[s].sent => smtp[s] = "accepted"
       /\ mailed[s] # None => dispatch[s].pdf = mailed[s]
  /\ \A s \in Sends : reply[s] = "ok" /\ doc # None =>
       dispatch[replayed[s]] # None /\ dispatch[replayed[s]].sent

\* "the durable claim prevents a duplicate retry", and the test of concurrent
\* keys, taken for the whole life of a document: it is mailed once. The code
\* does not keep this, and no run checks it: README, "What the code does not keep".
MailedOnce == Cardinality(Mails) <= 1

\* A document is mailed under a claim of its own, and then counts as SENT.
MailingIsClaimed == TypeOK /\ OneMailPerClaim /\ MailedStaysSent
=============================================================================
