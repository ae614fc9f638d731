----------------------------- MODULE Attachments -----------------------------
(***************************************************************************)
(* The files staff attach to mails (backend/src/attachments, and the two   *)
(* operations of nominations/nomination-files.service.ts that file an      *)
(* upload at a terminal). An upload is a row of EmailAttachment and an     *)
(* object in MinIO. It is staged until it is filed: on a service request,  *)
(* at a terminal, or as the receipt of a service request. A send copies    *)
(* each of its files under its own dispatch before the mail leaves, and    *)
(* the hourly cleanup removes uploads nobody filed.                        *)
(*                                                                         *)
(* A call reads a row and tests it, and writes or deletes by id at a later *)
(* await; only the cleanup and fileAtTerminal repeat the test in the       *)
(* statement. The bounds are Calls and Sends: each acts once.              *)
(***************************************************************************)
EXTENDS FiniteSets

CONSTANTS Files,     \* uploads
          Requests,  \* service requests
          Calls,     \* calls of the operations on one file, and cleanups
          Sends,     \* sends and resends, each with a dispatch of its own
          None

VARIABLES
  row,      \* table EmailAttachment: name -> row, or None
  objects,  \* what is stored in MinIO
  receipt,  \* ServiceRequest.receiptAttachmentId
  op,       \* a call: which, where it is, what it acts on
  send,     \* a send: where it is, its files, the dispatch it repeats
  mail,     \* the files a send handed to SMTP, or None
  sent      \* the dispatches whose sentAt is set

vars == <<row, objects, receipt, op, send, mail, sent>>

\* A file is an upload, or the copy of one under the dispatch of a send.
Names == Files \cup (Sends \X Files)
Linked(n) == n \notin Files

\* A slip for the mutants of PROJECT.json: a copy is named after a copy.
KeepsName(n) == n
Original(n) == IF Linked(n) THEN n[2] ELSE n

Row == [request : Requests \cup {None}, terminal : BOOLEAN]
\* None is no value of anything else, and an upload is no copy.
ASSUME NoneAssumption ==
  /\ None \notin Names \cup Requests \cup Sends
  /\ \A r \in Row : r # None
  /\ \A files \in SUBSET Files : files # None
ASSUME NamesAssumption == Files \cap (Sends \X Files) = {}

NewRow == [request |-> None, terminal |-> FALSE]

Kinds == {"delete", "attach", "detach", "receipt", "purge"}
Places == {"idle", "object", "row", "write", "done"}
Call == [kind : Kinds \cup {None}, at : Places,
         file : Names \cup {None}, request : Requests \cup {None},
         seen : Names \cup {None}]
Sending == [at : {"idle", "archive", "stamp", "done"},
            files : SUBSET Names, todo : SUBSET Names, of : Sends \cup {None}]

\* Rows, objects and calls have the shape of the code's.
TypeOK ==
  /\ row \in [Names -> Row \cup {None}]
  /\ objects \subseteq Names
  /\ receipt \in [Requests -> Names \cup {None}]
  /\ op \in [Calls -> Call]
  /\ send \in [Sends -> Sending]
  /\ mail \in [Sends -> (SUBSET Files) \cup {None}]
  /\ sent \subseteq Sends

Init ==
  /\ row = [n \in Names |-> None]
  /\ objects = {}
  /\ receipt = [q \in Requests |-> None]
  /\ op = [c \in Calls |-> [kind |-> None, at |-> "idle", file |-> None,
                            request |-> None, seen |-> None]]
  /\ send = [s \in Sends |-> [at |-> "idle", files |-> {}, todo |-> {},
                              of |-> None]]
  /\ mail = [s \in Sends |-> None]
  /\ sent = {}

-----------------------------------------------------------------------------
\* The tests.

IsReceipt(n) == \E q \in Requests : receipt[q] = n

\* A slip for the mutants: the dispatch links are not looked at.
IgnoresDispatches(n) ==
  row[n] # None /\ row[n].request = None /\ ~row[n].terminal /\ ~IsReceipt(n)

\* An upload nobody filed: what delete, the cleanup and fileAtTerminal ask for.
Staged(n) ==
  /\ row[n] # None /\ ~Linked(n)
  /\ row[n].request = None /\ ~row[n].terminal /\ ~IsReceipt(n)

\* The tests of each operation on the row it has read. recordReceipt does not
\* look at the terminal; it looks at the receipt the request has.
Permitted(kind, n, q) ==
  /\ row[n] # None
  /\ CASE kind \in {"delete", "purge"} -> Staged(n)
       [] kind = "attach" -> /\ ~Linked(n) /\ ~row[n].terminal
                             /\ ~IsReceipt(n)
                             /\ row[n].request \in {None, q}
       [] kind = "detach" -> row[n].request = q /\ ~Linked(n)
       [] kind = "receipt" -> /\ ~Linked(n) /\ row[n].request = None
                              /\ \A p \in Requests \ {q} : receipt[p] # n
                              /\ receipt[q] \in {None, n}

FirstPlace(kind) ==
  CASE kind \in {"delete", "detach"} -> "object"
    [] kind \in {"attach", "receipt"} -> "write"
    [] kind = "purge" -> "row"

-----------------------------------------------------------------------------
\* Operations on one file.

\* upload stores the object under a fresh key, then creates the row. Nobody
\* knows the key in between; an error may leave the object alone.
Upload(f) ==
  /\ f \notin objects /\ row[f] = None
  /\ \A c \in Calls : op[c].file # f
  /\ objects' = objects \cup {f}
  /\ row' \in {row, [row EXCEPT ![f] = NewRow]}
  /\ UNCHANGED <<receipt, op, send, mail, sent>>

\* The row is read and tested; a call that is refused changes nothing. What
\* the cleanup takes for old is any staged row.
Read(c) ==
  /\ op[c].at = "idle"
  /\ \E kind \in Kinds, n \in Names, q \in Requests :
       /\ Permitted(kind, n, q)
       /\ op' = [op EXCEPT ![c] = [kind |-> kind, at |-> FirstPlace(kind),
                                   file |-> n, request |-> q,
                                   seen |-> receipt[q]]]
  /\ UNCHANGED <<row, objects, receipt, send, mail, sent>>

Goto(c, place) == op' = [op EXCEPT ![c].at = place]

\* delete, removeFromServiceRequest: the object first, best effort. The
\* cleanup comes here last.
RemoveObject(c) ==
  /\ op[c].at = "object"
  /\ objects' \in {objects, objects \ {op[c].file}}
  /\ Goto(c, IF op[c].kind = "purge" THEN "done" ELSE "row")
  /\ UNCHANGED <<row, receipt, send, mail, sent>>

\* Then the row, by id: it throws when the row is gone or, by the foreign key,
\* when it has become a receipt.
RemoveRow(c) ==
  /\ op[c].at = "row" /\ op[c].kind # "purge"
  /\ \/ /\ ~IsReceipt(op[c].file)
        /\ row' = [row EXCEPT ![op[c].file] = None]
     \/ UNCHANGED row
  /\ Goto(c, "done")
  /\ UNCHANGED <<objects, receipt, send, mail, sent>>

\* attachToServiceRequest: updateMany by id.
FileOnRequest(c) ==
  /\ op[c].at = "write" /\ op[c].kind = "attach"
  /\ row' = IF row[op[c].file] = None THEN row
            ELSE [row EXCEPT ![op[c].file].request = op[c].request]
  /\ Goto(c, "done")
  /\ UNCHANGED <<objects, receipt, send, mail, sent>>

\* recordReceipt: the request must be as it was read, the row must exist, and
\* no other request may have the same receipt (unique).
RecordReceipt(c) ==
  /\ op[c].at = "write" /\ op[c].kind = "receipt"
  /\ \/ /\ receipt[op[c].request] = op[c].seen
        /\ row[op[c].file] # None
        /\ \A p \in Requests \ {op[c].request} : receipt[p] # op[c].file
        /\ receipt' = [receipt EXCEPT ![op[c].request] = op[c].file]
     \/ UNCHANGED receipt
  /\ Goto(c, "done")
  /\ UNCHANGED <<row, objects, send, mail, sent>>

\* fileAtTerminal: one conditional updateMany.
FileAtTerminal(f) ==
  /\ Staged(f)
  /\ row' = [row EXCEPT ![f].terminal = TRUE]
  /\ UNCHANGED <<objects, receipt, op, send, mail, sent>>

\* Slips of the cleanup, for the mutants of PROJECT.json.
PurgesByIdAlone(n) == TRUE
PurgesObjectFirst(c) ==
  /\ op[c].at = "row" /\ op[c].kind = "purge"
  /\ objects' = objects \ {op[c].file}
  /\ row' = IF Staged(op[c].file) THEN [row EXCEPT ![op[c].file] = None] ELSE row
  /\ Goto(c, "done")
  /\ UNCHANGED <<receipt, send, mail, sent>>

\* where: every link is null
StillStaged(n) == Staged(n)

\* purgeStaged deletes a row it found stale if it still is, then its object.
PurgeRow(c) ==
  /\ op[c].at = "row" /\ op[c].kind = "purge"
  /\ IF StillStaged(op[c].file)
     THEN row' = [row EXCEPT ![op[c].file] = None] /\ Goto(c, "object")
     ELSE UNCHANGED row /\ Goto(c, "done")
  /\ UNCHANGED <<objects, receipt, send, mail, sent>>

-----------------------------------------------------------------------------
\* A send, and the resend of an earlier one.

Sendable(n) == row[n] # None /\ n \in objects /\ ~IsReceipt(n)

\* resolveForSend: the rows are found, then each object is read. Objects do not
\* come back, so reading all of them with the rows loses no outcome.
Begin(s, files, of) ==
  /\ send[s].at = "idle"
  /\ \A n \in files : Sendable(n)
  /\ send' = [send EXCEPT ![s] = [at |-> "archive", files |-> files,
                                  todo |-> files, of |-> of]]
  /\ UNCHANGED <<row, objects, receipt, op, mail, sent>>

StartSend(s) == \E files \in SUBSET Files : Begin(s, files, None)

CopiesOf(t) == {n \in {t} \X Files : row[n] # None}

\* resendMessage takes the files of a dispatch that is known to have been sent.
StartResend(s) ==
  \E t \in sent \ {s} : Begin(s, CopiesOf(t), t)

\* A slip for the mutants: archive skips what it does not find.
SkipsMissing(s) ==
  /\ send[s].at = "archive"
  /\ \E n \in send[s].todo :
       LET copy == <<s, Original(n)>>
       IN /\ send' = [send EXCEPT ![s].todo = @ \ {n}]
          /\ IF row[n] # None /\ n \in objects
             THEN /\ objects' = objects \cup {copy}
                  /\ row' = [row EXCEPT ![copy] = NewRow]
             ELSE UNCHANGED <<row, objects>>
  /\ UNCHANGED <<receipt, op, mail, sent>>

\* archive, file by file: the object is copied, then the row is created. A row
\* that is gone or an error ends the send, perhaps with the copy made.
Archive(s) ==
  /\ send[s].at = "archive"
  /\ \E n \in send[s].todo :
       LET copy == <<s, Original(n)>>
       IN \/ /\ row[n] # None /\ n \in objects
             /\ objects' = objects \cup {copy}
             /\ row' \in {row, [row EXCEPT ![copy] = NewRow]}
             /\ \/ row' # row /\ send' = [send EXCEPT ![s].todo = @ \ {n}]
                \/ send' = [send EXCEPT ![s].at = "done"]
          \/ /\ send' = [send EXCEPT ![s].at = "done"]
             /\ UNCHANGED <<row, objects>>
  /\ UNCHANGED <<receipt, op, mail, sent>>

\* EmailService.send: it throws before SMTP, or the message is handed over,
\* and then sendMail may still throw.
SendMail(s) ==
  /\ send[s].at = "archive" /\ send[s].todo = {}
  /\ \/ /\ mail' = [mail EXCEPT ![s] = {Original(n) : n \in send[s].files}]
        /\ \E place \in {"stamp", "done"} :
             send' = [send EXCEPT ![s].at = place]
     \/ UNCHANGED mail /\ send' = [send EXCEPT ![s].at = "done"]
  /\ UNCHANGED <<row, objects, receipt, op, sent>>

\* dispatch.sentAt
StampDispatch(s) ==
  /\ send[s].at = "stamp"
  /\ sent' \in {sent, sent \cup {s}}
  /\ send' = [send EXCEPT ![s].at = "done"]
  /\ UNCHANGED <<row, objects, receipt, op, mail>>

-----------------------------------------------------------------------------
Next ==
  \/ \E f \in Files : Upload(f) \/ FileAtTerminal(f)
  \/ \E c \in Calls :
       \/ Read(c) \/ RemoveObject(c) \/ RemoveRow(c)
       \/ FileOnRequest(c) \/ RecordReceipt(c) \/ PurgeRow(c)
  \/ \E s \in Sends :
       \/ StartSend(s) \/ StartResend(s) \/ Archive(s) \/ SendMail(s)
       \/ StampDispatch(s)

Spec == Init /\ [][Next]_vars

-----------------------------------------------------------------------------
\* Properties.

\* "Snapshot bytes and metadata per dispatch before SMTP", and "Linked rows are
\* permanent (audit)": from the moment a mail is handed over, a copy of each of
\* its files is stored under its dispatch, whatever becomes of the upload.
MailIsArchived ==
  \A s \in Sends : mail[s] # None =>
    \A f \in mail[s] : row[<<s, f>>] # None /\ <<s, f>> \in objects

\* "Exact resend": a resend mails the files the original mailed, although the
\* uploads may be gone.
ResendIsExact ==
  \A s \in Sends : mail[s] # None /\ send[s].of # None =>
    mail[s] = mail[send[s].of]

\* What AttachmentsProofs rests on. Calls act on uploads only, never on the copy
\* a dispatch links.
CallsOnUploads == \A c \in Calls : op[c].at # "idle" => op[c].file \in Files

\* A file that is no longer to be archived has been; nothing else has a copy.
CopiesOfSend(s) ==
  /\ send[s].todo \subseteq send[s].files
  /\ send[s].at = "idle" => send[s].files = {}
  /\ \A n \in send[s].files \ send[s].todo :
       row[<<s, Original(n)>>] # None /\ <<s, Original(n)>> \in objects
  /\ \A f \in Files : row[<<s, f>>] # None => \E n \in send[s].files : Original(n) = f

\* A mail is handed over after the last copy, with the files of its send.
MailOfSend(s) ==
  /\ mail[s] # None => /\ mail[s] = {Original(n) : n \in send[s].files}
                       /\ send[s].todo = {} /\ send[s].at \in {"stamp", "done"}
  /\ send[s].at = "stamp" \/ s \in sent => mail[s] # None

\* A resend repeats a mail that was sent: it has the copies of its dispatch.
ResendOfSent(s) ==
  send[s].of # None =>
    /\ send[s].of \in sent
    /\ {Original(n) : n \in send[s].files} = mail[send[s].of]

IInv ==
  /\ TypeOK
  /\ CallsOnUploads
  /\ \A s \in Sends : CopiesOfSend(s) /\ MailOfSend(s) /\ ResendOfSent(s)

Filed(n) ==
  /\ row[n] # None
  /\ Linked(n) \/ row[n].request # None \/ row[n].terminal \/ IsReceipt(n)

\* "so we never remove an attachment that got linked to a dispatch between the
\* read and now": the cleanup takes no row and no object of a file that is, or
\* is being, filed anywhere. What can lose a filed file is an explicit call.
CleanupSparesFiled ==
  [][\A c \in Calls, n \in Names :
       op[c].kind = "purge" /\ op'[c].at # op[c].at /\ Filed(n)
         => row'[n] = row[n] /\ (n \in objects => n \in objects')]_vars

\* No row is left without its object but by an explicit delete of that file,
\* so that a listed file can be read.
ListedIsReadable ==
  \A n \in Names : row[n] # None /\ n \notin objects =>
    \E c \in Calls : op[c].kind \in {"delete", "detach"} /\ op[c].file = n

\* What the last two rest on: only a delete, a detach or a cleanup removes an
\* object, and the cleanup does after the row.
RowGoesFirst ==
  \A c \in Calls :
    /\ op[c].at = "idle" => op[c].file = None
    /\ op[c].at = "object" => op[c].kind \in {"delete", "detach", "purge"}
    /\ op[c].kind = "purge" /\ op[c].at = "object" => row[op[c].file] = None

\* "A file filed against a service request is that request's document [...] it
\* is removed through the request's own endpoint", and the test "keeps a scan
\* once it is filed as a provider receipt": what is filed loses its object only
\* to removeFromServiceRequest. The code does not keep this (delete tests the row
\* it has read), and no run checks it.
FiledIsKept ==
  [][\A n \in Names : Filed(n) /\ n \in objects /\ n \notin objects' =>
       \E c \in Calls : op[c].kind = "detach" /\ op'[c].at # op[c].at]_vars

\* Every file that was mailed or is listed can be had: the copies of a dispatch,
\* the files of a resend, the rows of the list; and the invariant these follow
\* from.
FilesAreKept == IInv /\ MailIsArchived /\ ResendIsExact /\ ListedIsReadable
=============================================================================
