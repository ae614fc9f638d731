------------------------ MODULE ServiceRequestProofs ------------------------
(***************************************************************************)
(* The service request, for any set of calls. The argument: a call that    *)
(* finds the version it has read has read the row as it is, so what it     *)
(* tested then still holds; a request never returns to DRAFT, and only a   *)
(* draft has no dispatch and lets its terms be changed; and an order in    *)
(* storage shows the terms its send has read, until the row says SENT.     *)
(***************************************************************************)
EXTENDS ServiceRequest, TLAPS

\* A version tells what the row says.
ReadIsPast ==
  \A c \in Calls : row # None /\ op[c].read # None =>
    /\ op[c].read.version <= row.version
    /\ op[c].read.version = row.version => op[c].read = row

\* A call is where its kind takes it, and has read a row it was permitted on.
Placed(o) ==
  /\ o.at \notin {"idle", "done"} => o.read # None
  /\ o.at \in {"object", "delete"} => o.kind = "remove"
  /\ o.at = "write" /\ o.kind = "update" => o.read.status = "DRAFT"
  /\ o.at = "invalidate" => o.read.status = "DRAFT"
  /\ o.at \in {"write", "invalidate", "file"} => o.kind # "send"
  /\ o.at \in {"letters", "reread", "again", "issue", "buffer"} => o.kind = "send"
  /\ o.kind = "send" /\ o.at \notin {"idle", "done"} => o.read.status # "CANCELLED"
  /\ o.at \in {"archive", "mail"} => o.bytes \in Names

PlaceOfKind == \A c \in Calls : Placed(op[c])

\* The places of a call that has named its PDF in the row, if it ever does.
Stamped == {"drop", "cleanup", "again", "issue", "buffer", "archive", "mail",
            "sent", "audit", "done"}
Issued == {"buffer", "archive", "mail", "sent", "audit", "done"}

WasStamped(n) == n \in Calls => op[n].at \in Stamped

\* A dispatch is of the order its own send made, when it no longer was a draft.
DispatchOfSend ==
  /\ \A n \in Names : dispatch[n] # None =>
       /\ dispatch[n].pdf = n
       /\ n \in Calls => op[n].at \in Issued
  /\ row # None /\ row.status = "DRAFT" => \A n \in Names : dispatch[n] = None

\* The order in storage shows the terms that the send has read, and from the
\* transaction on the terms of the row.
OrderShowsTerms ==
  \A c \in Calls :
    /\ op[c].kind = "send" /\ op[c].at \in {"stamp", "drop", "again", "issue"} =>
         objects[c] \in {None, op[c].read.terms}
    /\ op[c].at = "buffer" /\ row # None =>
         row.status \in Locked /\ objects[c] \in {None, row.terms}
    /\ op[c].at \in {"archive", "mail"} /\ row # None =>
         row.status \in Locked /\ op[c].bytes = row.terms
    /\ mail[c] # None /\ row # None =>
         row.status \in Locked /\ mail[c].terms = row.terms

\* The PDF of the row, and one that was read with it, is that of a call which
\* has stamped it; a send that may still issue its order has.
PdfsStamped ==
  /\ row # None /\ row.pdf # None => WasStamped(row.pdf)
  /\ \A c \in Calls :
       /\ op[c].read # None /\ op[c].read.pdf # None /\ op[c].at # "done" =>
            WasStamped(op[c].read.pdf)
       /\ op[c].kind = "send" /\ op[c].at \in {"drop", "again", "issue"} =>
            op[c].read.pdf = c

\* A PDF that is about to be deleted belongs to no dispatch and never will: it
\* is not the one that the row names, by which its send would go on.
DroppedIsFree ==
  \A c \in Calls : op[c].old # None =>
    /\ op[c].at \in {"upload", "stamp"} =>
         /\ op[c].old = op[c].read.pdf
         /\ row # None /\ row.version = op[c].read.version => dispatch[op[c].old] = None
    /\ op[c].at = "drop" =>
         /\ WasStamped(op[c].old)
         /\ dispatch[op[c].old] = None
         /\ row # None => row.pdf # op[c].old

IInv ==
  /\ TypeOK /\ ReadIsPast /\ PlaceOfKind /\ DispatchOfSend /\ OrderShowsTerms
  /\ PdfsStamped /\ DroppedIsFree /\ ApprovalIsCurrent

\* The names of calls and of what was there before are no None.
LEMMA NamesApart == /\ None \notin Names /\ Earlier \in Names
                    /\ \A c \in Calls : c \in Names /\ c # None /\ c # Earlier
                    /\ None \in Optional /\ \A n \in Names : n \in Optional
BY NamesAssumption DEF Names, Optional

\* Adding to the version of a row leaves a row.
LEMMA VersionGrows == \A r \in Row : r.version + 1 \in Nat /\ r.version + 1 > r.version
BY DEF Row

LEMMA Initial == Init => IInv
<1> SUFFICES ASSUME Init PROVE IInv
  OBVIOUS
<1> USE NamesApart, NoRowAssumption
<1>1. row \in Row
  BY DEF Init, Row, Optional
<1>2. TypeOK
  <2>1. dispatch \in [Names -> Dispatch \cup {None}]
    BY DEF Init, Dispatch
  <2>2. objects \in [Names -> Optional]
    BY DEF Init, Optional
  <2>3. op \in [Calls -> Op]
    BY DEF Init, Op, Places, Optional
  <2>4. QED
    BY <1>1, <2>1, <2>2, <2>3 DEF Init, TypeOK
<1>3. ReadIsPast /\ PlaceOfKind /\ OrderShowsTerms /\ DroppedIsFree
  BY DEF Init, ReadIsPast, PlaceOfKind, Placed, OrderShowsTerms, DroppedIsFree
<1>4. DispatchOfSend
  BY DEF Init, DispatchOfSend
<1>5. PdfsStamped
  BY DEF Init, PdfsStamped, WasStamped
<1>6. ApprovalIsCurrent
  BY DEF Init, ApprovalIsCurrent
<1>7. QED
  BY <1>2, <1>3, <1>4, <1>5, <1>6 DEF IInv

-----------------------------------------------------------------------------
\* Types.

\* A step of a call leaves the others where they are.
OthersStay(c) == \A d \in Calls \ {c} : op'[d] = op[d]

\* Going on changes the place and nothing else that the call remembers.
LEMMA Goes ==
  ASSUME op \in [Calls -> Op], NEW c \in Calls, NEW place \in Places, Goto(c, place)
  PROVE  /\ op' \in [Calls -> Op] /\ OthersStay(c)
         /\ op'[c] = [op[c] EXCEPT !.at = place]
<1>1. op' = [op EXCEPT ![c] = [op[c] EXCEPT !.at = place]]
  BY DEF Goto
<1>2. [op[c] EXCEPT !.at = place] \in Op
  BY DEF Op
<1>3. QED
  BY <1>1, <1>2 DEF OthersStay

-----------------------------------------------------------------------------
\* The row.

\* A call that finds the status and the version it has read finds the row it
\* has read.
LEMMA UnchangedIsRead ==
  ASSUME IInv, NEW c \in Calls, Unchanged(c), op[c].at \notin {"idle", "done"}
  PROVE  row \in Row /\ op[c].read = row
<1>1. op[c].read # None
  BY DEF IInv, PlaceOfKind, Placed
<1>2. QED
  BY <1>1 DEF IInv, ReadIsPast, TypeOK, Unchanged

\* The steps that write the row to the end of a call that has read it as it is.
Writers(c) ==
  \/ op[c].at = "write" /\ op[c].kind \in Guarded
  \/ op[c].at \in {"invalidate", "stamp", "issue"}

\* What a write does: transition changes the status alone; any other write was
\* decided on the row as it is, keeps an approval of the terms, and never
\* changes a receipt. Only a draft's terms change.
RowWritten(c) ==
  /\ row \in Row /\ row' \in Row /\ row'.version = row.version + 1
  /\ \/ /\ op[c].at = "write" /\ op[c].kind \in {"cancel", "complete"}
        /\ row'.status \in {"CANCELLED", "COMPLETED"}
        /\ row'.terms = row.terms /\ row'.approval = row.approval
        /\ row'.pdf = row.pdf /\ row'.receipt = row.receipt
     \/ /\ Writers(c) /\ op[c].read = row
        /\ row'.status # row.status => op[c].at = "issue" /\ row'.status = "SENT"
        /\ op[c].at = "issue" => row'.status = "SENT"
        /\ row'.terms # row.terms => row.status = "DRAFT" /\ op[c].at = "write"
        /\ \/ row'.approval \in {None, row'.terms}
           \/ row'.approval = row.approval /\ row'.terms = row.terms
        /\ row'.pdf \in {None, row.pdf} \/ (op[c].at = "stamp" /\ row'.pdf = c)
        /\ op[c].at = "stamp" => row'.pdf = c
        /\ op[c].at = "write" /\ row.status = "DRAFT" /\ op[c].kind # "receipt" =>
             row'.pdf = None
        /\ op[c].at = "invalidate" => row'.pdf = None
        /\ row.receipt # None => row'.receipt = row.receipt

LEMMA RowSteps ==
  ASSUME IInv, NEW c \in Calls, Step(c)
  PROVE  \/ row' = row
         \/ row' = None /\ op[c].at = "delete"
         \/ RowWritten(c)
<1> USE NamesApart, VersionGrows
<1>1. CASE WriteRow(c)
  <2>1. op[c].at = "write"
    BY <1>1 DEF WriteRow, At
  <2>2. CASE op[c].kind \in {"cancel", "complete"} /\ row # None
             /\ row' = [row EXCEPT !.version = @ + 1,
                                   !.status = IF op[c].kind = "cancel"
                                              THEN "CANCELLED" ELSE "COMPLETED"]
    <3>1. row \in Row
      BY <2>2 DEF IInv, TypeOK
    <3>2. QED
      BY <2>1, <2>2, <3>1 DEF Row, RowWritten
  <2>3. ASSUME Unchanged(c), op[c].kind \in {"update", "reconcile"},
               row' = Saved(c, row)
        PROVE  RowWritten(c)
    <3>1. row \in Row /\ op[c].read = row
      BY <2>1, <2>3, UnchangedIsRead
    <3>2. op[c].kind = "update" => row.status = "DRAFT"
      BY <2>1, <3>1 DEF IInv, PlaceOfKind, Placed
    <3>3. /\ row' \in Row /\ row'.version = row.version + 1
          /\ row'.status = row.status /\ row'.approval = None
          /\ row'.terms = IF op[c].kind = "update" THEN c ELSE row.terms
          /\ row'.pdf = IF row.status = "DRAFT" THEN None ELSE row.pdf
          /\ row'.receipt = row.receipt
      BY <2>3, <3>1 DEF Saved, Row
    <3>4. QED
      BY <2>1, <2>3, <3>1, <3>2, <3>3 DEF RowWritten, Writers, Guarded
  <2>4. ASSUME Unchanged(c), op[c].kind = "approve",
               row' = [row EXCEPT !.version = @ + 1, !.pdf = None,
                                  !.approval = row.terms]
        PROVE  RowWritten(c)
    <3>1. row \in Row /\ op[c].read = row
      BY <2>1, <2>4, UnchangedIsRead
    <3>2. /\ row' \in Row /\ row'.version = row.version + 1
          /\ row'.status = row.status /\ row'.terms = row.terms
          /\ row'.approval = row.terms /\ row'.pdf = None
          /\ row'.receipt = row.receipt
      BY <2>4, <3>1 DEF Row
    <3>3. QED
      BY <2>1, <2>4, <3>1, <3>2 DEF RowWritten, Writers, Guarded
  <2>5. ASSUME Unchanged(c), op[c].kind = "receipt",
               row' = [row EXCEPT !.version = @ + 1, !.receipt = ReceiptOf(c)]
        PROVE  RowWritten(c)
    <3>1. row \in Row /\ op[c].read = row
      BY <2>1, <2>5, UnchangedIsRead
    <3>2. /\ ReceiptOf(c) \in Optional
          /\ row.receipt # None => ReceiptOf(c) = row.receipt
      BY <3>1 DEF ReceiptOf, Optional, Row
    <3>3. /\ row' \in Row /\ row'.version = row.version + 1
          /\ row'.status = row.status /\ row'.terms = row.terms
          /\ row'.approval = row.approval /\ row'.pdf = row.pdf
          /\ row'.receipt = ReceiptOf(c)
      BY <2>5, <3>1, <3>2 DEF Row
    <3>4. QED
      BY <2>1, <2>5, <3>1, <3>2, <3>3 DEF RowWritten, Writers, Guarded
  <2>6. QED
    BY <1>1, <2>2, <2>3, <2>4, <2>5 DEF WriteRow, Guarded
<1>2. CASE RemoveRow(c)
  BY <1>2 DEF RemoveRow, At
<1>3. CASE InvalidateDraftOrder(c) /\ row' # row
  <2>1. /\ op[c].at = "invalidate" /\ Unchanged(c)
        /\ row' = [row EXCEPT !.version = @ + 1, !.approval = None, !.pdf = None]
    BY <1>3 DEF InvalidateDraftOrder, At
  <2>2. row \in Row /\ op[c].read = row
    BY <2>1, UnchangedIsRead
  <2>3. /\ row' \in Row /\ row'.version = row.version + 1
        /\ row'.status = row.status /\ row'.terms = row.terms
        /\ row'.approval = None /\ row'.pdf = None /\ row'.receipt = row.receipt
    BY <2>1, <2>2 DEF Row
  <2>4. QED
    BY <2>1, <2>2, <2>3 DEF RowWritten, Writers
<1>4. CASE StampPdf(c) /\ row' # row
  <2>1. /\ op[c].at = "stamp" /\ Unchanged(c)
        /\ row' = [row EXCEPT !.version = @ + 1, !.pdf = c]
    BY <1>4 DEF StampPdf, At
  <2>2. row \in Row /\ op[c].read = row
    BY <2>1, UnchangedIsRead
  <2>3. /\ row' \in Row /\ row'.version = row.version + 1
        /\ row'.status = row.status /\ row'.terms = row.terms
        /\ row'.approval = row.approval /\ row'.pdf = c /\ row'.receipt = row.receipt
    BY <2>1, <2>2 DEF Row
  <2>4. QED
    BY <2>1, <2>2, <2>3 DEF RowWritten, Writers
<1>5. CASE IssueOrder(c) /\ row' # row
  <2>1. /\ op[c].at = "issue" /\ Unchanged(c)
        /\ row' = [row EXCEPT !.version = @ + 1, !.status = "SENT"]
    BY <1>5 DEF IssueOrder, At
  <2>2. row \in Row /\ op[c].read = row
    BY <2>1, UnchangedIsRead
  <2>3. /\ row' \in Row /\ row'.version = row.version + 1
        /\ row'.status = "SENT" /\ row'.terms = row.terms
        /\ row'.approval = row.approval /\ row'.pdf = row.pdf
        /\ row'.receipt = row.receipt
    BY <2>1, <2>2 DEF Row
  <2>4. QED
    BY <2>1, <2>2, <2>3 DEF RowWritten, Writers
<1>6. QED
  BY <1>1, <1>2, <1>3, <1>4, <1>5
     DEF Step, Read, DropOldPdf, RemovePdf, FileLetter, ResolveLetters,
         RereadForPdf, CountDispatches, UploadPdf, CleanUpPdf, ReadForIssue,
         ReadPdf, ArchiveLetters, SendMail, StampDispatch, AuditFailure

\* What a step of a call does to the calls: it moves on, and besides its place
\* it only changes what that place lets it.
Remembers(c) ==
  /\ op' \in [Calls -> Op] /\ OthersStay(c)
  /\ op[c].at # "done"
  /\ op[c].at # "idle" => op'[c].kind = op[c].kind
  /\ op[c].at \in Stamped \cup {"stamp"} => op'[c].at \in Stamped
  /\ op[c].at \in Issued => op'[c].at \in Issued
  /\ op[c].at \notin {"idle", "reread", "stamp", "again"} => op'[c].read = op[c].read
  /\ op'[c].read \in {op[c].read, row'}
  /\ op[c].at \notin {"count", "write", "invalidate"} => op'[c].old = op[c].old

\* Most steps only go on.
LEMMA GoesOn ==
  ASSUME TypeOK, NEW c \in Calls, NEW place \in Places, Goto(c, place),
         op[c].at \notin {"idle", "done"},
         op[c].at \in Stamped \cup {"stamp"} => place \in Stamped,
         op[c].at \in Issued => place \in Issued
  PROVE  Remembers(c) /\ op'[c] = [op[c] EXCEPT !.at = place]
<1>1. /\ op' \in [Calls -> Op] /\ OthersStay(c)
      /\ op'[c] = [op[c] EXCEPT !.at = place]
  BY Goes DEF TypeOK
<1>2. op[c] \in Op
  BY DEF TypeOK
<1>3. op'[c].at = place /\ op'[c].kind = op[c].kind /\ op'[c].read = op[c].read
      /\ op'[c].old = op[c].old
  BY <1>1, <1>2 DEF Op
<1>4. QED
  BY <1>1, <1>3 DEF Remembers

LEMMA CallsInductive ==
  ASSUME IInv, NEW c \in Calls, Step(c)
  PROVE  Remembers(c)
<1> USE NamesApart DEF IInv, TypeOK, Stamped, Issued
<1>b. \A place \in {"done", "drop", "delete", "invalidate", "reread", "count",
                    "upload", "stamp", "cleanup", "again", "issue", "buffer",
                    "archive", "audit", "mail", "sent"} : place \in Places
  BY DEF Places
<1>1. CASE Read(c)
  <2>1. op[c].at = "idle"
    BY <1>1 DEF Read, At
  <2>2. PICK kind \in Kinds :
          op' = [op EXCEPT ![c].kind = kind, ![c].read = row,
                           ![c].at = IF row # None /\ Permitted(kind, row)
                                     THEN FirstPlace(kind) ELSE "done"]
    BY <1>1 DEF Read
  <2> DEFINE place == IF row # None /\ Permitted(kind, row)
                      THEN FirstPlace(kind) ELSE "done"
  <2>3. place \in Places
    BY DEF FirstPlace, Places
  <2> HIDE DEF place
  <2>4. op' = [op EXCEPT ![c] = [op[c] EXCEPT !.kind = kind, !.read = row, !.at = place]]
    BY <2>2 DEF Op, place
  <2>5. [op[c] EXCEPT !.kind = kind, !.read = row, !.at = place] \in Op
    BY <2>3 DEF Op
  <2>6. QED
    BY <1>1, <2>1, <2>4, <2>5 DEF Read, Remembers, OthersStay, Op
<1>a. ASSUME op[c].at \in {"write", "invalidate"},
             op' = [op EXCEPT ![c].at = "drop", ![c].old = op[c].read.pdf]
      PROVE  Remembers(c)
  <2>1. op[c].read.pdf \in Optional
    <3>1. op[c].read \in Row
      BY <1>a DEF PlaceOfKind, Placed, Op
    <3>2. QED
      BY <3>1 DEF Row
  <2>2. op' = [op EXCEPT ![c] = [op[c] EXCEPT !.at = "drop", !.old = op[c].read.pdf]]
    BY <1>a DEF Op
  <2>3. [op[c] EXCEPT !.at = "drop", !.old = op[c].read.pdf] \in Op
    BY <1>b, <2>1 DEF Op
  <2>4. QED
    BY <1>a, <2>2, <2>3 DEF Remembers, OthersStay, Op
<1>2. CASE WriteRow(c)
  <2>1. op[c].at = "write"
    BY <1>2 DEF WriteRow, At
  <2>2. CASE Goto(c, "done")
    BY <2>1, <2>2, <1>b, GoesOn
  <2>3. CASE op' = [op EXCEPT ![c].at = "drop", ![c].old = op[c].read.pdf]
    BY <2>1, <2>3, <1>a
  <2>4. QED
    BY <1>2, <2>2, <2>3 DEF WriteRow
<1>3. CASE DropOldPdf(c)
  BY <1>3, <1>b, GoesOn DEF DropOldPdf, At
<1>4. CASE RemovePdf(c) \/ RemoveRow(c)
  BY <1>4, <1>b, GoesOn DEF RemovePdf, RemoveRow, At
<1>5. CASE FileLetter(c)
  BY <1>5, <1>b, GoesOn DEF FileLetter, At
<1>6. CASE InvalidateDraftOrder(c)
  BY <1>6, <1>a, <1>b, GoesOn DEF InvalidateDraftOrder, At
<1>7. CASE ResolveLetters(c)
  <2>1. op[c].at = "letters" /\ op' = [op EXCEPT ![c].at = "reread", ![c].mine = letters]
    BY <1>7 DEF ResolveLetters, At
  <2>2. op' = [op EXCEPT ![c] = [op[c] EXCEPT !.at = "reread", !.mine = letters]]
    BY <2>1 DEF Op
  <2>3. [op[c] EXCEPT !.at = "reread", !.mine = letters] \in Op
    BY <1>b DEF Op
  <2>4. QED
    BY <2>1, <2>2, <2>3 DEF Remembers, OthersStay, Op
<1>8. CASE RereadForPdf(c)
  <2>1. op[c].at = "reread"
    BY <1>8 DEF RereadForPdf, At
  <2>2. CASE Goto(c, "done")
    BY <2>1, <2>2, <1>b, GoesOn
  <2>3. CASE op' = [op EXCEPT ![c].at = "count", ![c].read = row]
    <3>1. op' = [op EXCEPT ![c] = [op[c] EXCEPT !.at = "count", !.read = row]]
      BY <2>3 DEF Op
    <3>2. [op[c] EXCEPT !.at = "count", !.read = row] \in Op
      BY <1>b DEF Op
    <3>3. QED
      BY <1>8, <2>1, <3>1, <3>2 DEF RereadForPdf, Remembers, OthersStay, Op
  <2>4. QED
    BY <1>8, <2>2, <2>3 DEF RereadForPdf
<1>9. CASE CountDispatches(c)
  <2> DEFINE old == IF Replaceable(op[c].read.pdf) THEN op[c].read.pdf ELSE None
  <2>1. op[c].at = "count" /\ op' = [op EXCEPT ![c].at = "upload", ![c].old = old]
    BY <1>9 DEF CountDispatches, At
  <2>2. old \in Optional
    <3>1. op[c].read \in Row
      BY <2>1 DEF PlaceOfKind, Placed, Op
    <3>2. QED
      BY <3>1 DEF Row, Optional
  <2> HIDE DEF old
  <2>3. op' = [op EXCEPT ![c] = [op[c] EXCEPT !.at = "upload", !.old = old]]
    BY <2>1 DEF Op
  <2>4. [op[c] EXCEPT !.at = "upload", !.old = old] \in Op
    BY <1>b, <2>2 DEF Op
  <2>5. QED
    BY <2>1, <2>3, <2>4 DEF Remembers, OthersStay, Op
<1>10. CASE UploadPdf(c)
  BY <1>10, <1>b, GoesOn DEF UploadPdf, At
<1>11. CASE StampPdf(c)
  <2>1. op[c].at = "stamp"
    BY <1>11 DEF StampPdf, At
  <2>2. CASE Goto(c, "cleanup")
    BY <2>1, <2>2, <1>b, GoesOn
  <2>3. CASE op' = [op EXCEPT ![c].at = "drop", ![c].read = row']
    <3>1. row' \in Row \cup {None}
      BY RowSteps DEF RowWritten
    <3>2. op' = [op EXCEPT ![c] = [op[c] EXCEPT !.at = "drop", !.read = row']]
      BY <2>3 DEF Op
    <3>3. \A r \in Row \cup {None} : [op[c] EXCEPT !.at = "drop", !.read = r] \in Op
      BY <1>b DEF Op
    <3>4. [op[c] EXCEPT !.at = "drop", !.read = row'] \in Op
      BY <3>1, <3>3
    <3>5. QED
      BY <2>1, <3>2, <3>4 DEF Remembers, OthersStay, Op
  <2>4. QED
    BY <1>11, <2>2, <2>3 DEF StampPdf
<1>12. CASE CleanUpPdf(c)
  BY <1>12, <1>b, GoesOn DEF CleanUpPdf, At
<1>13. CASE ReadForIssue(c)
  <2>1. op[c].at = "again"
    BY <1>13 DEF ReadForIssue, At
  <2>2. CASE Goto(c, "done")
    BY <2>1, <2>2, <1>b, GoesOn
  <2>3. CASE op' = [op EXCEPT ![c].at = "issue", ![c].read = row, ![c].copies = letters]
    <3>1. op' = [op EXCEPT ![c] = [op[c] EXCEPT !.at = "issue", !.read = row,
                                                 !.copies = letters]]
      BY <2>3 DEF Op
    <3>2. [op[c] EXCEPT !.at = "issue", !.read = row, !.copies = letters] \in Op
      BY <1>b DEF Op
    <3>3. QED
      BY <1>13, <2>1, <3>1, <3>2 DEF ReadForIssue, Remembers, OthersStay, Op
  <2>4. QED
    BY <1>13, <2>2, <2>3 DEF ReadForIssue
<1>14. CASE IssueOrder(c)
  BY <1>14, <1>b, GoesOn DEF IssueOrder, At
<1>15. CASE ReadPdf(c)
  <2>1. op[c].at = "buffer"
    BY <1>15 DEF ReadPdf, At
  <2>2. CASE Goto(c, "audit")
    BY <2>1, <2>2, <1>b, GoesOn
  <2>3. CASE op' = [op EXCEPT ![c].at = "archive", ![c].bytes = objects[c]]
    <3>1. op' = [op EXCEPT ![c] = [op[c] EXCEPT !.at = "archive", !.bytes = objects[c]]]
      BY <2>3 DEF Op
    <3>2. [op[c] EXCEPT !.at = "archive", !.bytes = objects[c]] \in Op
      BY <1>b DEF Op
    <3>3. QED
      BY <2>1, <3>1, <3>2 DEF Remembers, OthersStay, Op
  <2>4. QED
    BY <1>15, <2>2, <2>3 DEF ReadPdf
<1>16. CASE ArchiveLetters(c) \/ SendMail(c)
  BY <1>16, <1>b, GoesOn DEF ArchiveLetters, SendMail, At
<1>17. CASE StampDispatch(c) \/ AuditFailure(c)
  BY <1>17, <1>b, GoesOn DEF StampDispatch, AuditFailure, At
<1>20. QED
  BY <1>1, <1>2, <1>3, <1>4, <1>5, <1>6, <1>7, <1>8, <1>9, <1>10, <1>11,
     <1>12, <1>13, <1>14, <1>15, <1>16, <1>17 DEF Step

\* Every step keeps the shape of the tables, the storage and the calls.
LEMMA TypeInductive ==
  ASSUME IInv, NEW c \in Calls, Step(c)
  PROVE  TypeOK'
<1> USE NamesApart DEF IInv, TypeOK
<1>1. op' \in [Calls -> Op]
  BY CallsInductive DEF Remembers
<1>2. row' \in Row \cup {None}
  BY RowSteps DEF RowWritten
<1>3. letters' \subseteq Names
  BY DEF Step, Read, WriteRow, DropOldPdf, RemovePdf, RemoveRow, FileLetter,
         InvalidateDraftOrder, ResolveLetters, RereadForPdf, CountDispatches,
         UploadPdf, StampPdf, CleanUpPdf, ReadForIssue, IssueOrder, ReadPdf,
         ArchiveLetters, SendMail, StampDispatch, AuditFailure
<1>4. objects' \in [Names -> Optional]
  <2>1. CASE DropOldPdf(c)
    BY <2>1 DEF DropOldPdf
  <2>2. CASE RemovePdf(c)
    BY <2>2 DEF RemovePdf
  <2>3. CASE UploadPdf(c) /\ objects' # objects
    <3>1. op[c].read \in Row
      BY <2>3 DEF UploadPdf, At, PlaceOfKind, Placed, Op
    <3>2. op[c].read.terms \in Optional
      BY <3>1 DEF Row
    <3>3. QED
      BY <2>3, <3>2 DEF UploadPdf
  <2>4. CASE CleanUpPdf(c)
    BY <2>4 DEF CleanUpPdf
  <2>5. QED
    BY <2>1, <2>2, <2>3, <2>4
       DEF Step, Read, WriteRow, RemoveRow, FileLetter, InvalidateDraftOrder,
           ResolveLetters, RereadForPdf, CountDispatches, StampPdf, ReadForIssue,
           IssueOrder, ReadPdf, ArchiveLetters, SendMail, StampDispatch, AuditFailure
<1>5. dispatch' \in [Names -> Dispatch \cup {None}]
  <2>1. CASE RemoveRow(c)
    BY <2>1 DEF RemoveRow
  <2>2. CASE IssueOrder(c)
    <3>1. [pdf |-> c, sent |-> FALSE, error |-> FALSE] \in Dispatch
      BY DEF Dispatch
    <3>2. QED
      BY <2>2, <3>1 DEF IssueOrder
  <2>3. CASE StampDispatch(c)
    <3>1. dispatch[c] # None => [dispatch[c] EXCEPT !.sent = TRUE] \in Dispatch
      BY DEF Dispatch
    <3>2. QED
      BY <2>3, <3>1 DEF StampDispatch
  <2>4. CASE AuditFailure(c)
    <3>1. dispatch[c] # None => [dispatch[c] EXCEPT !.error = TRUE] \in Dispatch
      BY DEF Dispatch
    <3>2. QED
      BY <2>4, <3>1 DEF AuditFailure
  <2>5. QED
    BY <2>1, <2>2, <2>3, <2>4
       DEF Step, Read, WriteRow, DropOldPdf, RemovePdf, FileLetter,
           InvalidateDraftOrder, ResolveLetters, RereadForPdf, CountDispatches,
           UploadPdf, StampPdf, CleanUpPdf, ReadForIssue, ReadPdf,
           ArchiveLetters, SendMail
<1>6. mail' \in [Calls -> Mail \cup {None}]
  <2>1. CASE SendMail(c)
    <3>1. op[c].bytes \in Names /\ op[c].mine \in SUBSET Names
      BY <2>1 DEF SendMail, At, PlaceOfKind, Placed, Op
    <3>2. [terms |-> op[c].bytes, letters |-> op[c].mine] \in Mail
      BY <3>1 DEF Mail
    <3>3. QED
      BY <2>1, <3>2 DEF SendMail
  <2>2. QED
    BY <2>1
       DEF Step, Read, WriteRow, DropOldPdf, RemovePdf, RemoveRow, FileLetter,
           InvalidateDraftOrder, ResolveLetters, RereadForPdf, CountDispatches,
           UploadPdf, StampPdf, CleanUpPdf, ReadForIssue, IssueOrder, ReadPdf,
           ArchiveLetters, StampDispatch, AuditFailure
<1>7. QED
  BY <1>1, <1>2, <1>3, <1>4, <1>5, <1>6

-----------------------------------------------------------------------------
\* The parts of the invariant.

LEMMA ReadIsPastInductive ==
  ASSUME IInv, NEW c \in Calls, Step(c)
  PROVE  ReadIsPast'
<1> SUFFICES ASSUME NEW d \in Calls, row' # None, op'[d].read # None
             PROVE  /\ op'[d].read.version <= row'.version
                    /\ op'[d].read.version = row'.version => op'[d].read = row'
  BY DEF ReadIsPast
<1>1. row # None
  BY RowSteps, NoRowAssumption DEF RowWritten
<1>2. CASE op'[d].read = row'
  <2>1. row' \in Row
    BY TypeInductive DEF TypeOK
  <2>2. QED
    BY <1>2, <2>1 DEF Row
<1>3. CASE op'[d].read = op[d].read
  <2>1. row \in Row /\ op[d].read \in Row
    BY <1>1, <1>3 DEF IInv, TypeOK, Op
  <2>2. /\ op[d].read.version <= row.version
        /\ op[d].read.version = row.version => op[d].read = row
    BY <1>1, <1>3 DEF IInv, ReadIsPast
  <2>3. row' = row \/ row'.version = row.version + 1
    BY RowSteps DEF RowWritten
  <2>4. row.version \in Nat /\ op[d].read.version \in Nat
    BY <2>1 DEF Row
  <2>5. QED
    BY <1>3, <2>2, <2>3, <2>4
<1>4. QED
  BY <1>2, <1>3, CallsInductive DEF Remembers, OthersStay

\* A place that asks for nothing more than the place before.
LEMMA GoesPlaced ==
  ASSUME IInv, NEW c \in Calls, Goto(c, "done") \/ Goto(c, "drop") \/ Goto(c, "stamp") 
                                \/ Goto(c, "cleanup") \/ Goto(c, "sent") \/ Goto(c, "audit"),
         op[c].at \notin {"idle", "done"}
  PROVE  Placed(op'[c])
<1>1. Placed(op[c]) /\ op[c] \in Op /\ op \in [Calls -> Op]
  BY DEF IInv, PlaceOfKind, TypeOK
<1>2. PICK place \in {"done", "drop", "stamp", "cleanup", "sent", "audit"} :
        op'[c] = [op[c] EXCEPT !.at = place]
  BY <1>1 DEF Goto
<1>3. /\ op'[c].at = place /\ op'[c].kind = op[c].kind
      /\ op'[c].read = op[c].read /\ op'[c].bytes = op[c].bytes
  BY <1>1, <1>2 DEF Op
<1>4. QED
  BY <1>1, <1>3 DEF Placed

LEMMA PlaceOfKindInductive ==
  ASSUME IInv, NEW c \in Calls, Step(c)
  PROVE  PlaceOfKind'
<1>a. Placed(op[c])
  BY DEF IInv, PlaceOfKind
<1>b. op[c] \in Op /\ op \in [Calls -> Op] /\ op' \in [Calls -> Op]
  BY TypeInductive DEF IInv, TypeOK
<1>c. row # None => row.status \in {"DRAFT"} \cup Locked
  BY DEF IInv, TypeOK, Row, Locked
<1> SUFFICES Placed(op'[c])
  BY CallsInductive DEF IInv, PlaceOfKind, Remembers, OthersStay
<1>1. CASE Read(c)
  <2>1. PICK kind \in Kinds :
          /\ op'[c].kind = kind /\ op'[c].read = row
          /\ op'[c].at = IF row # None /\ Permitted(kind, row)
                         THEN FirstPlace(kind) ELSE "done"
    BY <1>1, <1>b DEF Read, Op
  <2>2. CASE op'[c].at = "done"
    BY <2>2 DEF Placed
  <2>3. CASE row # None /\ Permitted(kind, row) /\ op'[c].at = FirstPlace(kind)
    BY <2>1, <2>3, <1>c DEF Permitted, FirstPlace, Kinds, Locked, Placed
  <2>4. QED
    BY <2>1, <2>2, <2>3
<1>2. CASE WriteRow(c)
  <2>1. op[c].at = "write" /\ op'[c].at \in {"done", "drop"}
        /\ op'[c].kind = op[c].kind /\ op'[c].read = op[c].read
    BY <1>2, <1>b DEF WriteRow, At, Goto, Op
  <2>2. QED
    BY <1>a, <2>1 DEF Placed
<1>3. CASE DropOldPdf(c)
  <2>1. op'[c] = [op[c] EXCEPT !.at = IF op[c].kind = "send" THEN "again" ELSE "done"]
        /\ op[c].at = "drop"
    BY <1>3, <1>b DEF DropOldPdf, Goto, At
  <2>2. /\ op'[c].at = IF op[c].kind = "send" THEN "again" ELSE "done"
        /\ op'[c].kind = op[c].kind /\ op'[c].read = op[c].read
    BY <2>1, <1>b DEF Op
  <2>3. QED
    BY <1>a, <2>1, <2>2 DEF Placed
<1>4. CASE RemovePdf(c)
  <2>1. op'[c] = [op[c] EXCEPT !.at = "delete"] /\ op[c].at = "object"
    BY <1>4, <1>b DEF RemovePdf, Goto, At
  <2>2. op'[c].at = "delete" /\ op'[c].kind = op[c].kind /\ op'[c].read = op[c].read
    BY <2>1, <1>b DEF Op
  <2>3. QED
    BY <1>a, <2>1, <2>2 DEF Placed
<1>5. CASE RemoveRow(c) \/ UploadPdf(c) \/ CleanUpPdf(c) \/ StampDispatch(c)
           \/ AuditFailure(c) \/ SendMail(c)
  BY <1>5, GoesPlaced
     DEF RemoveRow, UploadPdf, CleanUpPdf, StampDispatch, AuditFailure, SendMail, At
<1>6. CASE FileLetter(c)
  <2>1. op[c].at = "file"
    BY <1>6 DEF FileLetter, At
  <2>2. CASE Goto(c, "done")
    BY <2>1, <2>2, GoesPlaced
  <2>3. CASE Goto(c, "invalidate") /\ op[c].read.status = "DRAFT"
    <3>1. op'[c] = [op[c] EXCEPT !.at = "invalidate"]
      BY <2>3, <1>b DEF Goto
    <3>2. op'[c].at = "invalidate" /\ op'[c].kind = op[c].kind /\ op'[c].read = op[c].read
      BY <3>1, <1>b DEF Op
    <3>3. QED
      BY <1>a, <2>1, <2>3, <3>2 DEF Placed
  <2>4. QED
    BY <1>6, <2>2, <2>3 DEF FileLetter
<1>7. CASE InvalidateDraftOrder(c)
  <2>1. op[c].at = "invalidate" /\ op'[c].at \in {"done", "drop"}
        /\ op'[c].kind = op[c].kind /\ op'[c].read = op[c].read
    BY <1>7, <1>b DEF InvalidateDraftOrder, At, Goto, Op
  <2>2. QED
    BY <1>a, <2>1 DEF Placed
<1>8. CASE ResolveLetters(c)
  <2>1. op[c].at = "letters" /\ op'[c].at = "reread"
        /\ op'[c].kind = op[c].kind /\ op'[c].read = op[c].read
    BY <1>8, <1>b DEF ResolveLetters, At, Op
  <2>2. QED
    BY <1>a, <2>1 DEF Placed
<1>9. CASE RereadForPdf(c)
  <2>1. op[c].at = "reread"
    BY <1>9 DEF RereadForPdf, At
  <2>2. CASE Goto(c, "done")
    BY <2>1, <2>2, GoesPlaced
  <2>3. CASE row # None /\ Permitted("send", row)
             /\ op' = [op EXCEPT ![c].at = "count", ![c].read = row]
    <3>1. op'[c].at = "count" /\ op'[c].kind = op[c].kind /\ op'[c].read = row
      BY <2>3, <1>b DEF Op
    <3>2. row.status # "CANCELLED"
      BY <2>3 DEF Permitted
    <3>3. QED
      BY <1>a, <2>3, <3>1, <3>2 DEF Placed
  <2>4. QED
    BY <1>9, <2>2, <2>3 DEF RereadForPdf
<1>10. CASE CountDispatches(c)
  <2>1. op[c].at = "count" /\ op'[c].at = "upload"
        /\ op'[c].kind = op[c].kind /\ op'[c].read = op[c].read
    BY <1>10, <1>b DEF CountDispatches, At, Op
  <2>2. QED
    BY <1>a, <2>1 DEF Placed
<1>11. CASE StampPdf(c)
  <2>1. op[c].at = "stamp"
    BY <1>11 DEF StampPdf, At
  <2>2. CASE Goto(c, "cleanup")
    BY <2>1, <2>2, GoesPlaced
  <2>3. CASE op' = [op EXCEPT ![c].at = "drop", ![c].read = row'] /\ RowWritten(c)
    <3>1. op'[c].at = "drop" /\ op'[c].kind = op[c].kind /\ op'[c].read = row'
      BY <2>3, <1>b DEF Op
    <3>2. row' # None /\ row'.status = op[c].read.status
      BY <2>1, <2>3, NoRowAssumption DEF RowWritten
    <3>3. QED
      BY <1>a, <2>1, <3>1, <3>2 DEF Placed
  <2>4. ASSUME Unchanged(c), row' = [row EXCEPT !.version = @ + 1, !.pdf = c]
        PROVE  RowWritten(c)
    <3>1. row \in Row
      BY <2>1, <2>4, UnchangedIsRead
    <3>2. row'.version = row.version + 1 /\ row'.pdf = c
      BY <2>4, <3>1 DEF Row
    <3>3. row' # row
      BY <3>1, <3>2, VersionGrows
    <3>4. row' # None
      <4>1. row' \in Row
        BY <2>4, <3>1, VersionGrows, NamesApart DEF Row
      <4>2. QED
        BY <4>1, NoRowAssumption
    <3>5. QED
      BY <3>3, <3>4, RowSteps
  <2>5. QED
    BY <1>11, <2>2, <2>3, <2>4 DEF StampPdf
<1>12. CASE ReadForIssue(c)
  <2>1. op[c].at = "again"
    BY <1>12 DEF ReadForIssue, At
  <2>2. CASE Goto(c, "done")
    BY <2>1, <2>2, GoesPlaced
  <2>3. CASE row # None /\ row.version = op[c].read.version
             /\ op' = [op EXCEPT ![c].at = "issue", ![c].read = row, ![c].copies = letters]
    <3>1. op'[c].at = "issue" /\ op'[c].kind = op[c].kind /\ op'[c].read = row
      BY <2>3, <1>b DEF Op
    <3>2. op[c].read = row
      BY <1>a, <2>1, <2>3 DEF IInv, ReadIsPast, Placed
    <3>3. QED
      BY <1>a, <2>1, <2>3, <3>1, <3>2 DEF Placed
  <2>4. QED
    BY <1>12, <2>2, <2>3 DEF ReadForIssue
<1>13. CASE IssueOrder(c)
  <2>1. op[c].at = "issue" /\ op'[c].at \in {"buffer", "done"}
        /\ op'[c].kind = op[c].kind /\ op'[c].read = op[c].read
    BY <1>13, <1>b DEF IssueOrder, At, Goto, Op
  <2>2. QED
    BY <1>a, <2>1 DEF Placed
<1>14. CASE ReadPdf(c)
  <2>1. op[c].at = "buffer"
    BY <1>14 DEF ReadPdf, At
  <2>2. CASE Goto(c, "audit")
    BY <2>1, <2>2, GoesPlaced
  <2>3. CASE objects[c] # None /\ op' = [op EXCEPT ![c].at = "archive", ![c].bytes = objects[c]]
    <3>1. /\ op'[c].at = "archive" /\ op'[c].kind = op[c].kind
          /\ op'[c].read = op[c].read /\ op'[c].bytes = objects[c]
      BY <2>3, <1>b DEF Op
    <3>2. objects[c] \in Names
      BY <2>3, NamesApart DEF IInv, TypeOK, Optional
    <3>3. QED
      BY <1>a, <2>1, <3>1, <3>2 DEF Placed
  <2>4. QED
    BY <1>14, <2>2, <2>3 DEF ReadPdf
<1>15. CASE ArchiveLetters(c)
  <2>1. op[c].at = "archive" /\ op'[c].at \in {"mail", "audit"}
        /\ op'[c].kind = op[c].kind /\ op'[c].read = op[c].read
        /\ op'[c].bytes = op[c].bytes
    BY <1>15, <1>b DEF ArchiveLetters, At, Goto, Op
  <2>2. QED
    BY <1>a, <2>1 DEF Placed
<1>16. QED
  BY <1>1, <1>2, <1>3, <1>4, <1>5, <1>6, <1>7, <1>8, <1>9, <1>10, <1>11,
     <1>12, <1>13, <1>14, <1>15 DEF Step

\* How a call comes to a place of the sending of its order.
LEMMA ComesBy ==
  ASSUME IInv, NEW c \in Calls, Step(c)
  PROVE  LET at == op'[c].at
         IN /\ at = "upload" => CountDispatches(c)
            /\ at = "stamp" => UploadPdf(c)
            /\ at = "drop" => StampPdf(c) \/ WriteRow(c) \/ InvalidateDraftOrder(c)
            /\ at = "again" => DropOldPdf(c)
            /\ at = "issue" => ReadForIssue(c)
            /\ at = "buffer" => IssueOrder(c)
            /\ at = "archive" => ReadPdf(c)
            /\ at = "mail" => ArchiveLetters(c)
<1> DEFINE at == op'[c].at
<1>a. op[c] \in Op /\ op \in [Calls -> Op]
  BY DEF IInv, TypeOK
<1>1. CASE Read(c)
  <2>1. PICK kind \in Kinds : at = IF row # None /\ Permitted(kind, row)
                                   THEN FirstPlace(kind) ELSE "done"
    BY <1>1, <1>a DEF Read, Op
  <2>2. QED
    BY <2>1 DEF FirstPlace
<1>2. CASE WriteRow(c)
  <2>1. at \in {"drop", "done"}
    BY <1>2, <1>a DEF WriteRow, Goto, Op
  <2>2. QED
    BY <1>2, <2>1
<1>3. CASE DropOldPdf(c)
  <2>1. at \in {"again", "done"}
    BY <1>3, <1>a DEF DropOldPdf, Goto, Op
  <2>2. QED
    BY <1>3, <2>1
<1>4. CASE RemovePdf(c) \/ RemoveRow(c) \/ FileLetter(c) \/ ResolveLetters(c)
           \/ RereadForPdf(c) \/ CleanUpPdf(c) \/ SendMail(c) \/ StampDispatch(c)
           \/ AuditFailure(c)
  <2>1. at \in {"delete", "done", "invalidate", "reread", "count", "sent", "audit"}
    BY <1>4, <1>a DEF RemovePdf, RemoveRow, FileLetter, ResolveLetters, RereadForPdf,
                      CleanUpPdf, SendMail, StampDispatch, AuditFailure, Goto, Op
  <2>2. QED
    BY <2>1
<1>5. CASE InvalidateDraftOrder(c)
  <2>1. at \in {"drop", "done"}
    BY <1>5, <1>a DEF InvalidateDraftOrder, Goto, Op
  <2>2. QED
    BY <1>5, <2>1
<1>6. CASE CountDispatches(c)
  <2>1. at = "upload"
    BY <1>6, <1>a DEF CountDispatches, Op
  <2>2. QED
    BY <1>6, <2>1
<1>7. CASE UploadPdf(c)
  <2>1. at \in {"stamp", "done"}
    BY <1>7, <1>a DEF UploadPdf, Goto, Op
  <2>2. QED
    BY <1>7, <2>1
<1>8. CASE StampPdf(c)
  <2>1. at \in {"drop", "cleanup"}
    BY <1>8, <1>a DEF StampPdf, Goto, Op
  <2>2. QED
    BY <1>8, <2>1
<1>9. CASE ReadForIssue(c)
  <2>1. at \in {"issue", "done"}
    BY <1>9, <1>a DEF ReadForIssue, Goto, Op
  <2>2. QED
    BY <1>9, <2>1
<1>10. CASE IssueOrder(c)
  <2>1. at \in {"buffer", "done"}
    BY <1>10, <1>a DEF IssueOrder, Goto, Op
  <2>2. QED
    BY <1>10, <2>1
<1>11. CASE ReadPdf(c)
  <2>1. at \in {"archive", "audit"}
    BY <1>11, <1>a DEF ReadPdf, Goto, Op
  <2>2. QED
    BY <1>11, <2>1
<1>12. CASE ArchiveLetters(c)
  <2>1. at \in {"mail", "audit"}
    BY <1>12, <1>a DEF ArchiveLetters, Goto, Op
  <2>2. QED
    BY <1>12, <2>1
<1>13. QED
  BY <1>1, <1>2, <1>3, <1>4, <1>5, <1>6, <1>7, <1>8, <1>9, <1>10, <1>11,
     <1>12 DEF Step

\* A recorded approval is cleared with the terms it is of.
LEMMA ApprovalInductive ==
  ASSUME IInv, NEW c \in Calls, Step(c)
  PROVE  ApprovalIsCurrent'
BY RowSteps, NoRowAssumption DEF RowWritten, IInv, ApprovalIsCurrent

\* A locked request stays locked, and its terms stay.
LEMMA LockedStands ==
  ASSUME IInv, NEW c \in Calls, Step(c), row # None, row.status \in Locked, row' # None
  PROVE  row'.status \in Locked /\ row'.terms = row.terms
BY RowSteps DEF RowWritten, Locked

\* A row is never created again.
LEMMA GoneIsGone ==
  ASSUME IInv, NEW c \in Calls, Step(c), row' # None
  PROVE  row # None
BY RowSteps, NoRowAssumption DEF RowWritten

\* What a step does to the rows of the dispatches.
LEMMA DispatchSteps ==
  ASSUME IInv, NEW c \in Calls, Step(c)
  PROVE  \A n \in Names : dispatch'[n] # None =>
           \/ dispatch[n] # None /\ dispatch'[n].pdf = dispatch[n].pdf
           \/ /\ n = c /\ dispatch'[n].pdf = c /\ op[c].at = "issue"
              /\ RowWritten(c) /\ op'[c].at \in Issued
<1> USE NamesApart
<1>a. dispatch \in [Names -> Dispatch \cup {None}]
  BY DEF IInv, TypeOK
<1>1. CASE RemoveRow(c)
  BY <1>1 DEF RemoveRow
<1>2. CASE IssueOrder(c) /\ dispatch' # dispatch
  <2>1. /\ op[c].at = "issue" /\ Unchanged(c)
        /\ row' = [row EXCEPT !.version = @ + 1, !.status = "SENT"]
        /\ dispatch' = [dispatch EXCEPT ![c] =
                          [pdf |-> c, sent |-> FALSE, error |-> FALSE]]
        /\ op'[c].at \in {"buffer", "done"}
    BY <1>2 DEF IssueOrder, At, Goto, IInv, TypeOK, Op
  <2>2. row \in Row
    BY <2>1, UnchangedIsRead
  <2>3. row' \in Row /\ row'.version = row.version + 1
    BY <2>1, <2>2, VersionGrows DEF Row
  <2>4. RowWritten(c)
    <3>1. row.version \in Nat
      BY <2>2 DEF Row
    <3>2. row' # row /\ row' # None
      BY <2>3, <3>1, NoRowAssumption
    <3>3. QED
      BY <3>2, RowSteps
  <2>5. QED
    BY <1>a, <2>1, <2>4 DEF Issued
<1>3. CASE StampDispatch(c)
  BY <1>3, <1>a DEF StampDispatch, Dispatch
<1>4. CASE AuditFailure(c)
  BY <1>4, <1>a DEF AuditFailure, Dispatch
<1>5. QED
  BY <1>1, <1>2, <1>3, <1>4
     DEF Step, Read, WriteRow, DropOldPdf, RemovePdf, FileLetter,
         InvalidateDraftOrder, ResolveLetters, RereadForPdf, CountDispatches,
         UploadPdf, StampPdf, CleanUpPdf, ReadForIssue, IssueOrder, ReadPdf,
         ArchiveLetters, SendMail

LEMMA DispatchInductive ==
  ASSUME IInv, NEW c \in Calls, Step(c)
  PROVE  DispatchOfSend'
<1>1. ASSUME NEW n \in Names, dispatch'[n] # None
      PROVE  dispatch'[n].pdf = n /\ (n \in Calls => op'[n].at \in Issued)
  <2>1. CASE dispatch[n] # None /\ dispatch'[n].pdf = dispatch[n].pdf
    BY <2>1, CallsInductive DEF IInv, DispatchOfSend, Remembers, OthersStay
  <2>2. QED
    BY <1>1, <2>1, DispatchSteps
<1>2. ASSUME row' # None, row'.status = "DRAFT", NEW n \in Names
      PROVE  dispatch'[n] = None
  <2>1. row # None /\ row.status = "DRAFT"
    BY <1>2, RowSteps, NoRowAssumption DEF RowWritten
  <2>2. dispatch[n] = None
    BY <2>1 DEF IInv, DispatchOfSend
  <2>3. RowWritten(c) => op[c].at # "issue"
    BY <1>2 DEF RowWritten
  <2>4. QED
    BY <2>2, <2>3, DispatchSteps
<1>3. QED
  BY <1>1, <1>2 DEF DispatchOfSend

\* What a step does to the orders in storage.
LEMMA ObjectSteps ==
  ASSUME IInv, NEW c \in Calls, Step(c)
  PROVE  \A n \in Names :
           \/ objects'[n] = objects[n]
           \/ /\ objects'[n] = None
              /\ \/ op[c].at = "drop" /\ n = op[c].old
                 \/ op[c].at = "cleanup" /\ n = c
                 \/ op[c].at = "object" /\ RemovePdf(c)
           \/ n = c /\ op[c].at = "upload" /\ objects'[n] = op[c].read.terms
<1> USE NamesApart DEF At
<1>a. objects \in [Names -> Optional]
  BY DEF IInv, TypeOK
<1>1. CASE DropOldPdf(c)
  BY <1>1, <1>a DEF DropOldPdf
<1>2. CASE RemovePdf(c)
  BY <1>2, <1>a DEF RemovePdf
<1>3. CASE UploadPdf(c)
  BY <1>3, <1>a DEF UploadPdf
<1>4. CASE CleanUpPdf(c)
  BY <1>4, <1>a DEF CleanUpPdf
<1>5. QED
  BY <1>1, <1>2, <1>3, <1>4
     DEF Step, Read, WriteRow, RemoveRow, FileLetter, InvalidateDraftOrder,
         ResolveLetters, RereadForPdf, CountDispatches, StampPdf, ReadForIssue,
         IssueOrder, ReadPdf, ArchiveLetters, SendMail, StampDispatch, AuditFailure

\* What a stamp leaves behind when it goes on: the row as it has written it.
LEMMA Stamps ==
  ASSUME IInv, NEW c \in Calls, StampPdf(c), op'[c].at = "drop"
  PROVE  /\ op[c].at = "stamp" /\ RowWritten(c) /\ op[c].read = row
         /\ op'[c].read = row' /\ row'.pdf = c /\ row'.terms = row.terms
         /\ op'[c].old = op[c].old /\ op'[c].kind = op[c].kind
         /\ UNCHANGED <<objects, dispatch>>
<1>1. op[c].at = "stamp" /\ op[c] \in Op /\ op \in [Calls -> Op] /\ UNCHANGED <<objects, dispatch>>
  BY DEF StampPdf, At, IInv, TypeOK
<1>2. /\ Unchanged(c) /\ row' = [row EXCEPT !.version = @ + 1, !.pdf = c]
      /\ op' = [op EXCEPT ![c].at = "drop", ![c].read = row']
  BY <1>1 DEF StampPdf, Goto, Op
<1>3. row \in Row /\ op[c].read = row
  BY <1>1, <1>2, UnchangedIsRead
<1>4. row.version \in Nat
  BY <1>3 DEF Row
<1>5. row' \in Row /\ row'.version = row.version + 1
  BY <1>2, <1>3, VersionGrows, NamesApart DEF Row
<1>6. RowWritten(c)
  BY <1>4, <1>5, RowSteps, NoRowAssumption DEF Step
<1>7. op'[c].read = row' /\ op'[c].old = op[c].old /\ op'[c].kind = op[c].kind
  BY <1>1, <1>2 DEF Op
<1>8. row'.pdf = c /\ row'.terms = row.terms
  BY <1>2, <1>3 DEF Row
<1>9. QED
  BY <1>1, <1>3, <1>6, <1>7, <1>8

\* The order is uploaded with the terms that were read, the row keeps them as
\* long as its version says so, and nothing but removal touches the order.
LEMMA OrderInductive ==
  ASSUME IInv, NEW c \in Calls, Step(c)
  PROVE  OrderShowsTerms'
<1> USE NamesApart
<1>a. op \in [Calls -> Op] /\ op' \in [Calls -> Op] /\ OrderShowsTerms
  BY TypeInductive DEF IInv, TypeOK
<1>b. Placed(op[c])
  BY DEF IInv, PlaceOfKind
<1>c. \A d \in Calls : op[d].at # "upload" \/ d # c => objects'[d] \in {objects[d], None}
  BY ObjectSteps
<1>d. \A d \in Calls \ {c} : op'[d] = op[d]
  BY CallsInductive DEF Remembers, OthersStay
<1>e. op[c].at # "idle" => op'[c].kind = op[c].kind
  BY CallsInductive DEF Remembers
<1>1. ASSUME NEW d \in Calls, op'[d].kind = "send",
             op'[d].at \in {"stamp", "drop", "again", "issue"}
      PROVE  objects'[d] \in {None, op'[d].read.terms}
  <2>1. CASE d # c
    BY <1>1, <2>1, <1>a, <1>c, <1>d DEF OrderShowsTerms
  <2>2. CASE d = c /\ UploadPdf(c)
    <3>1. op[c].at = "upload" /\ op'[c].at = "stamp"
      BY <1>1, <1>a, <2>2 DEF UploadPdf, At, Goto, Op
    <3>2. objects' = [objects EXCEPT ![c] = op[c].read.terms] /\ op'[c].read = op[c].read
      BY <2>2, <3>1, <1>a DEF UploadPdf, Goto, Op
    <3>3. QED
      BY <2>2, <3>2 DEF IInv, TypeOK
  <2>3. CASE d = c /\ StampPdf(c)
    <3>1. op'[c].at = "drop"
      BY <1>1, <1>a, <2>3 DEF StampPdf, Goto, Op
    <3>2. op[c].at = "stamp" /\ objects' = objects /\ op'[c].read.terms = op[c].read.terms
      BY <2>3, <3>1, Stamps
    <3>3. QED
      BY <1>1, <2>3, <3>2, <1>a, <1>e DEF OrderShowsTerms
  <2>4. CASE d = c /\ DropOldPdf(c)
    <3>1. op[c].at = "drop" /\ op'[c].read = op[c].read
      BY <2>4, <1>a DEF DropOldPdf, At, Goto, Op
    <3>2. QED
      BY <1>1, <2>4, <3>1, <1>a, <1>c, <1>e DEF OrderShowsTerms
  <2>5. CASE d = c /\ ReadForIssue(c)
    <3>1. op[c].at = "again" /\ op'[c].at = "issue"
      BY <1>1, <1>a, <2>5 DEF ReadForIssue, At, Goto, Op
    <3>2. row # None /\ row.version = op[c].read.version /\ op'[c].read = row
      BY <2>5, <3>1, <1>a DEF ReadForIssue, Goto, Op
    <3>3. op[c].read = row
      BY <3>1, <3>2, <1>b DEF Placed, IInv, ReadIsPast
    <3>4. QED
      BY <1>1, <2>5, <3>1, <3>2, <3>3, <1>a, <1>c, <1>e DEF OrderShowsTerms
  <2>6. CASE d = c /\ (WriteRow(c) \/ InvalidateDraftOrder(c))
    BY <1>1, <2>6, <1>b, <1>e DEF WriteRow, InvalidateDraftOrder, At, Placed
  <2>7. QED
    BY <1>1, <2>1, <2>2, <2>3, <2>4, <2>5, <2>6, ComesBy
<1>2. ASSUME NEW d \in Calls, op'[d].at = "buffer", row' # None
      PROVE  row'.status \in Locked /\ objects'[d] \in {None, row'.terms}
  <2>1. CASE d # c
    BY <1>2, <2>1, <1>a, <1>c, <1>d, GoneIsGone, LockedStands DEF OrderShowsTerms
  <2>2. CASE d = c
    <3>1. IssueOrder(c)
      BY <1>2, <2>2, ComesBy
    <3>2. op[c].at = "issue" /\ objects' = objects /\ op[c].kind = "send"
      BY <3>1, <1>b DEF IssueOrder, At, Placed
    <3>3. Unchanged(c) /\ row' = [row EXCEPT !.version = @ + 1, !.status = "SENT"]
      BY <1>2, <2>2, <3>1, <1>a DEF IssueOrder, Goto, Op
    <3>4. row \in Row /\ op[c].read = row
      BY <3>2, <3>3, UnchangedIsRead
    <3>5. row'.status = "SENT" /\ row'.terms = row.terms
      BY <3>3, <3>4 DEF Row
    <3>6. QED
      BY <2>2, <3>2, <3>4, <3>5, <1>a DEF OrderShowsTerms, Locked
  <2>3. QED
    BY <2>1, <2>2
<1>3. ASSUME NEW d \in Calls, op'[d].at \in {"archive", "mail"}, row' # None
      PROVE  row'.status \in Locked /\ op'[d].bytes = row'.terms
  <2>1. CASE d # c
    BY <1>3, <2>1, <1>a, <1>d, GoneIsGone, LockedStands DEF OrderShowsTerms
  <2>2. CASE d = c /\ ReadPdf(c)
    <3>1. /\ op[c].at = "buffer" /\ objects[c] # None /\ op'[c].bytes = objects[c]
      BY <1>3, <2>2, <1>a DEF ReadPdf, At, Goto, Op
    <3>2. QED
      BY <1>3, <2>2, <3>1, <1>a, GoneIsGone, LockedStands DEF OrderShowsTerms
  <2>3. CASE d = c /\ ArchiveLetters(c)
    <3>1. op[c].at = "archive" /\ op'[c].bytes = op[c].bytes
      BY <2>3, <1>a DEF ArchiveLetters, At, Goto, Op
    <3>2. QED
      BY <1>3, <2>3, <3>1, <1>a, GoneIsGone, LockedStands DEF OrderShowsTerms
  <2>4. QED
    BY <1>3, <2>1, <2>2, <2>3, ComesBy
<1>4. ASSUME NEW d \in Calls, mail'[d] # None, row' # None
      PROVE  row'.status \in Locked /\ mail'[d].terms = row'.terms
  <2>1. CASE mail'[d] = mail[d]
    BY <1>4, <2>1, <1>a, GoneIsGone, LockedStands DEF OrderShowsTerms
  <2>2. CASE SendMail(c) /\ mail'[d] # mail[d]
    <3>1. /\ d = c /\ op[c].at = "mail"
          /\ mail'[c] = [terms |-> op[c].bytes, letters |-> op[c].mine]
      BY <2>2 DEF SendMail, At, IInv, TypeOK
    <3>2. QED
      BY <1>4, <3>1, <1>a, GoneIsGone, LockedStands DEF OrderShowsTerms
  <2>3. QED
    BY <2>1, <2>2
       DEF Step, Read, WriteRow, DropOldPdf, RemovePdf, RemoveRow, FileLetter,
           InvalidateDraftOrder, ResolveLetters, RereadForPdf, CountDispatches,
           UploadPdf, StampPdf, CleanUpPdf, ReadForIssue, IssueOrder, ReadPdf,
           ArchiveLetters, StampDispatch, AuditFailure
<1>5. QED
  BY <1>1, <1>2, <1>3, <1>4 DEF OrderShowsTerms

\* WasStamped of the next state, for arguments of this one.
StampedNext(n) == n \in Calls => op'[n].at \in Stamped

LEMMA StampedStays ==
  ASSUME IInv, NEW c \in Calls, Step(c), NEW n, WasStamped(n)
  PROVE  StampedNext(n)
BY CallsInductive DEF WasStamped, StampedNext, Remembers, OthersStay

LEMMA PdfsInductive ==
  ASSUME IInv, NEW c \in Calls, Step(c)
  PROVE  PdfsStamped'
<1> USE NamesApart
<1>a. op \in [Calls -> Op] /\ PdfsStamped /\ Placed(op[c])
  BY DEF IInv, TypeOK, PlaceOfKind
<1>b. /\ \A d \in Calls \ {c} : op'[d] = op[d]
      /\ op[c].at # "done" /\ op'[c].read \in {op[c].read, row'}
      /\ op[c].at # "idle" => op'[c].kind = op[c].kind
  BY CallsInductive DEF Remembers, OthersStay
<1>1. ASSUME row' # None, row'.pdf # None PROVE StampedNext(row'.pdf)
  <2>1. CASE row' = row
    BY <1>1, <2>1, <1>a, StampedStays DEF PdfsStamped
  <2>2. CASE RowWritten(c) /\ row'.pdf = row.pdf
    BY <1>1, <2>2, <1>a, StampedStays, NoRowAssumption DEF PdfsStamped, RowWritten
  <2>3. CASE op[c].at = "stamp" /\ row'.pdf = c
    BY <2>3, CallsInductive DEF Remembers, StampedNext
  <2>4. QED
    BY <1>1, <2>1, <2>2, <2>3, RowSteps DEF RowWritten
<1>2. ASSUME NEW d \in Calls, op'[d].read # None, op'[d].read.pdf # None, op'[d].at # "done"
      PROVE  StampedNext(op'[d].read.pdf)
  <2>1. CASE op'[d].read = op[d].read /\ op[d].at # "done"
    BY <1>2, <2>1, <1>a, StampedStays DEF PdfsStamped
  <2>2. CASE op'[d].read = row'
    BY <1>1, <1>2, <2>2
  <2>3. QED
    BY <1>2, <2>1, <2>2, <1>b
<1>3. ASSUME NEW d \in Calls, op'[d].kind = "send", op'[d].at \in {"drop", "again", "issue"}
      PROVE  op'[d].read.pdf = d
  <2>1. CASE d # c
    BY <1>3, <2>1, <1>a, <1>b DEF PdfsStamped
  <2>2. CASE d = c /\ StampPdf(c)
    <3>1. op'[c].at = "drop"
      BY <1>3, <2>2, <1>a DEF StampPdf, Goto, Op
    <3>2. QED
      BY <2>2, <3>1, Stamps
  <2>3. CASE d = c /\ DropOldPdf(c)
    <3>1. op[c].at = "drop" /\ op'[c].read = op[c].read
      BY <2>3, <1>a DEF DropOldPdf, At, Goto, Op
    <3>2. QED
      BY <1>3, <2>3, <3>1, <1>a, <1>b DEF PdfsStamped
  <2>4. CASE d = c /\ ReadForIssue(c)
    <3>1. op[c].at = "again" /\ op'[c].at = "issue"
      BY <1>3, <1>a, <2>4 DEF ReadForIssue, At, Goto, Op
    <3>2. row # None /\ row.version = op[c].read.version /\ op'[c].read = row
      BY <2>4, <3>1, <1>a DEF ReadForIssue, Goto, Op
    <3>3. op[c].read = row
      BY <3>1, <3>2, <1>a DEF Placed, IInv, ReadIsPast
    <3>4. QED
      BY <1>3, <2>4, <3>1, <3>2, <3>3, <1>a, <1>b DEF PdfsStamped
  <2>5. CASE d = c /\ (WriteRow(c) \/ InvalidateDraftOrder(c))
    BY <1>3, <2>5, <1>a, <1>b DEF WriteRow, InvalidateDraftOrder, At, Placed
  <2>6. QED
    BY <1>3, <2>1, <2>2, <2>3, <2>4, <2>5, ComesBy
<1>4. QED
  BY <1>1, <1>2, <1>3 DEF PdfsStamped, WasStamped, StampedNext

\* What a write of a draft leaves to delete: the PDF it has taken off the row.
LEMMA Discards ==
  ASSUME IInv, NEW c \in Calls, Step(c), WriteRow(c) \/ InvalidateDraftOrder(c),
         op'[c].at = "drop"
  PROVE  /\ op'[c].old = op[c].read.pdf /\ op[c].read = row /\ op[c].at # "done"
         /\ RowWritten(c) /\ row.status = "DRAFT" /\ row'.pdf = None
         /\ UNCHANGED dispatch
<1>a. op[c] \in Op /\ op \in [Calls -> Op] /\ Placed(op[c]) /\ UNCHANGED dispatch
  BY DEF IInv, TypeOK, PlaceOfKind, WriteRow, InvalidateDraftOrder
<1>1. CASE WriteRow(c)
  <2>1. op[c].at = "write" /\ Unchanged(c) /\ op[c].kind \in Guarded
        /\ op[c].kind # "receipt" /\ op[c].read.status = "DRAFT"
        /\ op'[c].old = op[c].read.pdf
    BY <1>1, <1>a DEF WriteRow, At, Goto, Op
  <2>2. row \in Row /\ op[c].read = row
    BY <2>1, UnchangedIsRead
  <2>3. \/ row' = Saved(c, row)
        \/ row' = [row EXCEPT !.version = @ + 1, !.pdf = None, !.approval = row.terms]
    BY <1>1, <1>a, <2>1 DEF WriteRow, At, Goto, Guarded, Op
  <2>4. row.version \in Nat /\ row'.version = row.version + 1
    BY <2>2, <2>3 DEF Row, Saved
  <2>5. RowWritten(c)
    BY <2>1, <2>4, RowSteps
  <2>6. QED
    BY <2>1, <2>2, <2>5, <1>a DEF RowWritten, Guarded
<1>2. CASE InvalidateDraftOrder(c)
  <2>1. op[c].at = "invalidate" /\ Unchanged(c) /\ op'[c].old = op[c].read.pdf
        /\ row' = [row EXCEPT !.version = @ + 1, !.approval = None, !.pdf = None]
    BY <1>2, <1>a DEF InvalidateDraftOrder, At, Goto, Op
  <2>2. row \in Row /\ op[c].read = row
    BY <2>1, UnchangedIsRead
  <2>3. row.version \in Nat /\ row'.version = row.version + 1
    BY <2>1, <2>2 DEF Row
  <2>4. RowWritten(c)
    <3>1. row' # row
      BY <2>3
    <3>2. QED
      BY <2>1, <3>1, RowSteps
  <2>5. QED
    BY <2>1, <2>2, <2>4, <1>a DEF RowWritten, Placed
<1>3. QED
  BY <1>1, <1>2

\* No dispatch comes to name a PDF that a call is about to delete: to issue its
\* order, a send must find the row as it stamped it.
LEMMA DroppedInductive ==
  ASSUME IInv, NEW c \in Calls, Step(c)
  PROVE  DroppedIsFree'
<1> USE NamesApart
<1>a. /\ op \in [Calls -> Op] /\ op' \in [Calls -> Op] /\ PdfsStamped
      /\ DroppedIsFree /\ Placed(op[c])
  BY TypeInductive DEF IInv, TypeOK, PlaceOfKind
<1>b. \A d \in Calls \ {c} : op'[d] = op[d]
  BY CallsInductive DEF Remembers, OthersStay
<1>c. \A n \in Names : dispatch[n] = None /\ dispatch'[n] # None =>
        n = c /\ op[c].at = "issue" /\ RowWritten(c)
  BY DispatchSteps
<1>d. op[c].at = "issue" /\ RowWritten(c) => row.pdf = c
  BY <1>a DEF RowWritten, PdfsStamped, Placed
<1>1. ASSUME NEW d \in Calls, op'[d].old # None, op'[d].at \in {"upload", "stamp"}
      PROVE  /\ op'[d].old = op'[d].read.pdf
             /\ row' # None /\ row'.version = op'[d].read.version =>
                  dispatch'[op'[d].old] = None
  <2>1. CASE d # c
    <3>1. op'[d] = op[d] /\ op[d].old \in Names /\ op[d].old = op[d].read.pdf
      BY <1>1, <2>1, <1>a, <1>b DEF DroppedIsFree, Op, Optional
    <3>2. ASSUME row' # None, row'.version = op[d].read.version
          PROVE  dispatch'[op[d].old] = None
      <4>1. row \in Row /\ op[d].read \in Row
        BY <1>1, <2>1, <3>1, <3>2, GoneIsGone, <1>a DEF IInv, TypeOK, PlaceOfKind, Placed, Op
      <4>2. row.version \in Nat /\ op[d].read.version <= row.version
        BY <4>1, NoRowAssumption DEF IInv, ReadIsPast, Row
      <4>3. ~RowWritten(c)
        BY <3>2, <4>1, <4>2 DEF RowWritten, Row
      <4>4. row' = row
        BY <3>2, <4>3, RowSteps
      <4>5. dispatch[op[d].old] = None
        BY <1>1, <3>1, <3>2, <4>4, <1>a DEF DroppedIsFree
      <4>6. QED
        BY <3>1, <4>3, <4>5, <1>c
    <3>3. QED
      BY <3>1, <3>2
  <2>2. CASE d = c /\ CountDispatches(c)
    <3>1. op[c].at = "count" /\ UNCHANGED <<row, dispatch>>
      BY <2>2 DEF CountDispatches, At
    <3>2. /\ op'[c].read = op[c].read
          /\ op'[c].old = IF Replaceable(op[c].read.pdf) THEN op[c].read.pdf ELSE None
      BY <2>2, <1>a DEF CountDispatches, Op
    <3>3. op'[c].old = op[c].read.pdf /\ Replaceable(op[c].read.pdf)
      BY <1>1, <2>2, <3>2
    <3>4. op[c].read.pdf \in Names
      BY <1>1, <2>2, <3>3, <1>a DEF Op, Optional
    <3>5. dispatch[op[c].read.pdf] = None
      BY <3>3, <3>4 DEF Replaceable, IInv, DispatchOfSend
    <3>6. QED
      BY <2>2, <3>1, <3>2, <3>3, <3>5
  <2>3. CASE d = c /\ UploadPdf(c)
    <3>1. op[c].at = "upload" /\ UNCHANGED <<row, dispatch>>
          /\ op'[c].read = op[c].read /\ op'[c].old = op[c].old
      BY <2>3, <1>a DEF UploadPdf, At, Goto, Op
    <3>2. QED
      BY <1>1, <2>3, <3>1, <1>a DEF DroppedIsFree
  <2>4. QED
    BY <1>1, <2>1, <2>2, <2>3, ComesBy
<1>2. ASSUME NEW d \in Calls, op'[d].old # None, op'[d].at = "drop"
      PROVE  /\ StampedNext(op'[d].old) /\ dispatch'[op'[d].old] = None
             /\ row' # None => row'.pdf # op'[d].old
  <2>0. op'[d].old \in Names
    BY <1>2, <1>a DEF Op, Optional
  <2>1. CASE d # c
    <3>1. /\ op'[d] = op[d] /\ WasStamped(op[d].old) /\ dispatch[op[d].old] = None
          /\ row # None => row.pdf # op[d].old
      BY <1>2, <2>1, <1>a, <1>b DEF DroppedIsFree
    <3>2. dispatch'[op[d].old] = None
      BY <2>0, <3>1, <1>c, <1>d, NoRowAssumption DEF RowWritten
    <3>3. row' # None => row'.pdf # op[d].old
      BY <1>2, <3>1, RowSteps, GoneIsGone DEF RowWritten, WasStamped, Stamped
    <3>4. StampedNext(op[d].old)
      BY <3>1, StampedStays
    <3>5. QED
      BY <3>1, <3>2, <3>3, <3>4
  <2>2. CASE d = c /\ StampPdf(c)
    <3>1. /\ op[c].at = "stamp" /\ RowWritten(c) /\ op[c].read = row
          /\ row'.pdf = c /\ op'[c].old = op[c].old /\ UNCHANGED dispatch
      BY <1>2, <2>2, Stamps
    <3>2. op[c].old = row.pdf /\ dispatch[op[c].old] = None
      BY <1>2, <2>2, <3>1, <1>a, NoRowAssumption DEF DroppedIsFree, RowWritten
    <3>3. WasStamped(op[c].old)
      BY <1>2, <2>2, <3>1, <3>2, <1>a, NoRowAssumption DEF PdfsStamped, RowWritten
    <3>4. op[c].old # c
      BY <3>1, <3>3 DEF WasStamped, Stamped
    <3>5. QED
      BY <2>2, <3>1, <3>2, <3>3, <3>4, StampedStays
  <2>3. CASE d = c /\ (WriteRow(c) \/ InvalidateDraftOrder(c))
    <3>1. /\ op'[c].old = row.pdf /\ row \in Row /\ row.status = "DRAFT"
          /\ row'.pdf = None /\ UNCHANGED dispatch
      BY <1>2, <2>3, Discards DEF RowWritten
    <3>2. WasStamped(row.pdf)
      BY <1>2, <2>3, <3>1, <1>a, NoRowAssumption DEF PdfsStamped
    <3>3. \A n \in Names : dispatch[n] = None
      BY <3>1, NoRowAssumption DEF IInv, DispatchOfSend
    <3>4. QED
      BY <1>2, <2>0, <2>3, <3>1, <3>2, <3>3, StampedStays
  <2>4. QED
    BY <1>2, <2>1, <2>2, <2>3, ComesBy
<1>3. QED
  BY <1>1, <1>2 DEF DroppedIsFree, WasStamped, StampedNext

-----------------------------------------------------------------------------
\* The theorems.

LEMMA Inductive == IInv /\ [Next]_vars => IInv'
<1> SUFFICES ASSUME IInv, [Next]_vars PROVE IInv'
  OBVIOUS
<1>1. ASSUME NEW c \in Calls, Step(c) PROVE IInv'
  BY <1>1, TypeInductive, ReadIsPastInductive, PlaceOfKindInductive,
     DispatchInductive, OrderInductive, PdfsInductive, DroppedInductive,
     ApprovalInductive DEF IInv
<1>2. CASE UNCHANGED vars
  BY <1>2
     DEF vars, IInv, TypeOK, ReadIsPast, PlaceOfKind, DispatchOfSend, OrderShowsTerms,
         PdfsStamped, WasStamped, DroppedIsFree, ApprovalIsCurrent
<1>3. QED
  BY <1>1, <1>2 DEF Next

\* Every reachable state satisfies the invariant.
THEOREM Invariance == Spec => []IInv
BY Initial, Inductive, PTL DEF Spec

\* For any calls, in any order: the order that was mailed shows the terms the
\* request has from then on, and a recorded approval is of the present terms.
THEOREM TermsAgreed == Spec => []TermsAreAgreed
<1>1. IInv => TermsAreAgreed
  BY DEF IInv, TermsAreAgreed, OrderShowsTerms, MailShowsTerms
<1>2. QED
  BY <1>1, Invariance, PTL

\* Terms stay once the request has been sent, a cancelled request is not issued,
\* and a receipt is not replaced, by whatever calls had read the row before.
THEOREM DecisionsKept == Spec => DecisionsStand
<1>1. IInv /\ [Next]_vars =>
        /\ row # None /\ row.status \in Locked /\ row' # None => row'.terms = row.terms
        /\ row # None /\ row.status = "CANCELLED" /\ row' # None => row'.status # "SENT"
        /\ row # None /\ row.receipt # None /\ row' # None => row'.receipt = row.receipt
  <2> SUFFICES ASSUME IInv, [Next]_vars, row # None, row' # None
               PROVE  /\ row.status \in Locked => row'.terms = row.terms
                      /\ row.status = "CANCELLED" => row'.status # "SENT"
                      /\ row.receipt # None => row'.receipt = row.receipt
    OBVIOUS
  <2>1. CASE UNCHANGED vars
    BY <2>1 DEF vars
  <2>2. ASSUME NEW c \in Calls, Step(c), RowWritten(c)
        PROVE  /\ row.status \in Locked => row'.terms = row.terms
               /\ row.status = "CANCELLED" => row'.status # "SENT"
               /\ row.receipt # None => row'.receipt = row.receipt
    <3>1. op[c].at = "issue" => op[c].read.status # "CANCELLED"
      BY DEF IInv, PlaceOfKind, Placed
    <3>2. QED
      BY <2>2, <3>1 DEF RowWritten, Locked
  <2>3. QED
    BY <2>1, <2>2, RowSteps DEF Next
<1>2. QED
  BY <1>1, Invariance, PTL
     DEF Spec, DecisionsStand, TermsFrozen, CancelledIsNotIssued, ReceiptIsFinal

\* Nobody but remove deletes the order of a dispatch: neither a resend, nor an
\* edit, nor the send of another order that is under way.
THEOREM OrdersKept == Spec => DispatchedPdfKept
<1>1. IInv /\ [Next]_vars =>
        \A n \in Names : dispatch[n] # None =>
          LET pdf == dispatch[n].pdf
          IN objects[pdf] # None /\ objects'[pdf] = None =>
               \E c \in Calls : op[c].kind = "remove" /\ op'[c].at # op[c].at
  <2> SUFFICES ASSUME IInv, [Next]_vars, NEW n \in Names, dispatch[n] # None,
                      objects[dispatch[n].pdf] # None, objects'[dispatch[n].pdf] = None
               PROVE  \E c \in Calls : op[c].kind = "remove" /\ op'[c].at # op[c].at
    OBVIOUS
  <2>1. dispatch[n].pdf = n /\ (n \in Calls => op[n].at \in Issued)
    BY DEF IInv, DispatchOfSend
  <2>2. PICK c \in Calls : Step(c)
    BY <2>1 DEF Next, vars
  <2>3. CASE op[c].at = "drop" /\ n = op[c].old
    BY <2>1, <2>3, NamesApart DEF IInv, DroppedIsFree
  <2>4. CASE op[c].at = "cleanup" /\ n = c
    BY <2>1, <2>4 DEF Issued
  <2>5. CASE op[c].at = "object" /\ RemovePdf(c)
    <3>1. op[c].kind = "remove" /\ op'[c].at = "delete"
      BY <2>5 DEF IInv, TypeOK, PlaceOfKind, Placed, RemovePdf, Goto, Op
    <3>2. QED
      BY <2>5, <3>1
  <2>6. CASE op[c].at = "upload" /\ n = c
    BY <2>1, <2>6 DEF Issued
  <2>7. QED
    BY <2>1, <2>2, <2>3, <2>4, <2>5, <2>6, ObjectSteps
<1>2. QED
  BY <1>1, Invariance, PTL DEF Spec, DispatchedPdfKept
=============================================================================
