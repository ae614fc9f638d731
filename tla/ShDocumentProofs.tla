-------------------------- MODULE ShDocumentProofs --------------------------
(***************************************************************************)
(* One SH-XX document, for any sets of editors, sends and keys. The        *)
(* delivery service keeps its own invariant, as every step of this module  *)
(* is one of its steps or none. On top of it: a send mails under a claim   *)
(* of its own, and each claim but the first takes a document that a stale  *)
(* finalize has brought back.                                              *)
(***************************************************************************)
EXTENDS ShDocument, FiniteSetTheorems, TLAPS

Proved == INSTANCE EmailDeliveryProofs WITH Requests <- Sends

EditPlaces == {"idle", "object", "upload", "write", "done"}
SendPlaces == {"read", "buffer", "create", "archive", "claim", "send", "smtp",
               "stamp", "audit", "threw", "returns"}
Call == [kind : Kinds \cup {None}, read : Doc \cup {None}, at : EditPlaces]

\* The calls of editors that have not come to their end: each may write once.
Pending == {e \in Editors : op[e].at # "done"}

\* Where the request is and where its handler is.
HandlerPlaced(s) ==
  /\ pc[s] \in {"idle", "create", "lookup", "reclaim"} => at[s] = "read"
  /\ pc[s] \in {"claim", "call", "wait"} => at[s] = "smtp"
  /\ pc[s] = "work" => at[s] # "smtp"
  /\ pc[s] = "finish" => at[s] = "returns"

\* What a send has read, logged, claimed and mailed when it is there.
Prepared(s) ==
  /\ at[s] \notin {"read", "threw"} => read[s] # None /\ read[s].pdf # None
  /\ at[s] \in {"read", "buffer", "create"} => dispatch[s] = None
  /\ at[s] = "read" => mailed[s] = None
  /\ at[s] \in {"send", "smtp", "stamp", "returns"} => s \in claims
  /\ at[s] \in {"read", "buffer", "create", "archive", "claim"} => s \notin claims
  /\ mailed[s] # None => s \in claims /\ read[s] # None /\ mailed[s] = read[s].pdf

\* The log of a send: of the PDF it has read, and sent only when SMTP accepted it.
Logged(s) ==
  /\ dispatch[s] # None =>
       /\ read[s] # None /\ dispatch[s].pdf = read[s].pdf
       /\ dispatch[s].sent => smtp[s] = "accepted" /\ at[s] \in {"returns", "audit", "threw"}
  /\ at[s] \in {"stamp", "returns"} => smtp[s] = "accepted"
  /\ at[s] = "returns" /\ doc # None => dispatch[s] # None /\ dispatch[s].sent

\* A response that is saved or was given is of a send that returned.
Returned ==
  /\ \A k \in Keys : attempt[k].state = "SENT" =>
       attempt[k].response \in Sends /\ at[attempt[k].response] = "returns"
  /\ \A s \in Sends : reply[s] = "ok" =>
       replayed[s] \in Sends /\ at[replayed[s]] = "returns"

\* Every claim but the last has been overwritten by a finalize, and the last one
\* too when the document is not SENT.
ClaimsCounted ==
  /\ IsFiniteSet(claims) /\ Cardinality(claims) <= 1 + reopened
  /\ doc # None /\ doc.status # "SENT" => Cardinality(claims) <= reopened

\* An editor writes once.
WritesCounted ==
  /\ doc # None => doc.edits + Cardinality(Pending) <= Cardinality(Editors)
  /\ reopened + Cardinality(Pending) <= Cardinality(Editors)

\* A call that goes on after its test has read a row.
EditorsRead ==
  \A e \in Editors : op[e].at \in {"object", "upload", "write"} =>
    /\ op[e].kind \in Kinds /\ op[e].read # None
    /\ op[e].kind = "generate" => op[e].read.status # "SENT"

\* The document names the PDF of the send that has claimed it, as long as no call
\* that has read it before writes after.
ClaimedIsNamed ==
  reopened = 0 /\ ~outrun /\ doc # None => \A s \in claims : doc.pdf = read[s].pdf

IInv ==
  /\ TypeOK /\ Delivery!IInv /\ EditorsRead
  /\ \A s \in Sends : HandlerPlaced(s) /\ Prepared(s) /\ Logged(s)
  /\ Returned /\ ClaimsCounted /\ WritesCounted /\ ClaimedIsNamed

-----------------------------------------------------------------------------
\* The delivery service.

LEMMA DeliveryAssumptions == Proved!NoneAssumption /\ Proved!MaxCallsAssumption
BY ShAssumption DEF Proved!NoneAssumption, Proved!MaxCallsAssumption

\* The service of ShDocument is the one of EmailDeliveryProofs.
LEMMA SameInit == Delivery!Init => Proved!Init
BY DEF Delivery!Init, Proved!Init

LEMMA SameSteps ==
  ASSUME NEW s \in Sends
  PROVE  /\ Delivery!Step(s) => Proved!Step(s)
         /\ Delivery!Arrive(s) => Proved!Arrive(s)
         /\ Delivery!ArriveMalformed(s) => Proved!ArriveMalformed(s)
         /\ Delivery!SmtpDecides(s) => Proved!SmtpDecides(s)
<1> USE DEF Delivery!State, Proved!State, Delivery!Goto, Proved!Goto,
            Delivery!Answer, Proved!Answer, Delivery!SetState, Proved!SetState,
            Delivery!Applies, Proved!Applies, Delivery!DbOutcome, Proved!DbOutcome,
            Delivery!SameContent, Proved!SameContent, Delivery!Retryable,
            Proved!Retryable, Delivery!Blocked, Proved!Blocked,
            Delivery!ReclaimMatches, Proved!ReclaimMatches, Delivery!MayStart,
            Proved!MayStart, Delivery!DeliveryKnown, Proved!DeliveryKnown,
            Delivery!FailureState, Proved!FailureState, Delivery!request,
            Proved!request, Delivery!context, Proved!context, Delivery!world,
            Proved!world
<1>1. Delivery!Arrive(s) => Proved!Arrive(s)
  BY DEF Delivery!Arrive, Proved!Arrive
<1>2. Delivery!ArriveMalformed(s) => Proved!ArriveMalformed(s)
  BY DEF Delivery!ArriveMalformed, Proved!ArriveMalformed
<1>3. Delivery!CreateAttempt(s) => Proved!CreateAttempt(s)
  BY DEF Delivery!CreateAttempt, Proved!CreateAttempt
<1>4. Delivery!LookUpAttempt(s) => Proved!LookUpAttempt(s)
  BY DEF Delivery!LookUpAttempt, Proved!LookUpAttempt
<1>5. Delivery!ReclaimAttempt(s) => Proved!ReclaimAttempt(s)
  BY DEF Delivery!ReclaimAttempt, Proved!ReclaimAttempt
<1>6. Delivery!BeforeSend(s) => Proved!BeforeSend(s)
  BY DEF Delivery!BeforeSend, Proved!BeforeSend
<1>7. Delivery!ClaimSending(s) => Proved!ClaimSending(s)
  BY DEF Delivery!ClaimSending, Proved!ClaimSending
<1>8. Delivery!CallSmtp(s) => Proved!CallSmtp(s)
  BY DEF Delivery!CallSmtp, Proved!CallSmtp
<1>9. Delivery!SmtpResolves(s) => Proved!SmtpResolves(s)
  BY DEF Delivery!SmtpResolves, Proved!SmtpResolves
<1>10. Delivery!SmtpThrows(s) => Proved!SmtpThrows(s)
  BY DEF Delivery!SmtpThrows, Proved!SmtpThrows
<1>11. Delivery!WorkReturns(s) => Proved!WorkReturns(s)
  BY DEF Delivery!WorkReturns, Proved!WorkReturns
<1>12. Delivery!WorkThrows(s) => Proved!WorkThrows(s)
  BY DEF Delivery!WorkThrows, Proved!WorkThrows
<1>13. Delivery!RecordSent(s) => Proved!RecordSent(s)
  BY DEF Delivery!RecordSent, Proved!RecordSent
<1>14. Delivery!RecordFailure(s) => Proved!RecordFailure(s)
  BY DEF Delivery!RecordFailure, Proved!RecordFailure
<1>15. Delivery!SmtpDecides(s) => Proved!SmtpDecides(s)
  BY DEF Delivery!SmtpDecides, Proved!SmtpDecides
<1>16. QED
  BY <1>1, <1>2, <1>3, <1>4, <1>5, <1>6, <1>7, <1>8, <1>9, <1>10, <1>11, <1>12,
     <1>13, <1>14, <1>15
     DEF Delivery!Step, Proved!Step

LEMMA SameCrash == Delivery!Crash => Proved!Crash
BY DEF Delivery!Crash, Proved!Crash, Delivery!Live, Proved!Live, Delivery!Owning,
       Proved!Owning, Delivery!request, Proved!request, Delivery!context,
       Proved!context, Delivery!world, Proved!world

LEMMA SameNext == [Delivery!Next]_Delivery!vars => [Proved!Next]_Proved!vars
<1>1. Delivery!vars' = Delivery!vars => Proved!vars' = Proved!vars
  BY DEF Delivery!vars, Proved!vars
<1>2. Delivery!Next => Proved!Next
  BY SameSteps, SameCrash DEF Delivery!Next, Proved!Next
<1>3. QED
  BY <1>1, <1>2

\* The conjuncts of the invariant of the service.
LEMMA SameInvariant == Delivery!IInv <=> Proved!IInv
<1> USE DEF Delivery!State, Proved!State, Delivery!SameContent, Proved!SameContent,
            Delivery!DeliveryKnown, Proved!DeliveryKnown, Delivery!Owning,
            Proved!Owning
<1>1. Delivery!TypeOK <=> Proved!TypeOK
  BY DEF Delivery!TypeOK, Proved!TypeOK, Delivery!Row, Proved!Row, Delivery!States,
         Proved!States, Delivery!Places, Proved!Places, Delivery!Replies,
         Proved!Replies
<1>2. Delivery!OneOwner <=> Proved!OneOwner
  BY DEF Delivery!OneOwner, Proved!OneOwner
<1>3. \A s \in Sends : Delivery!BeforeWork(s) <=> Proved!BeforeWork(s)
  BY DEF Delivery!BeforeWork, Proved!BeforeWork
<1>4. \A s \in Sends : Delivery!OwnerKnows(s) <=> Proved!OwnerKnows(s)
  BY DEF Delivery!OwnerKnows, Proved!OwnerKnows
<1>5. \A s \in Sends : Delivery!CallsCounted(s) <=> Proved!CallsCounted(s)
  BY DEF Delivery!CallsCounted, Proved!CallsCounted
<1>6. Delivery!CallerOwns <=> Proved!CallerOwns
  BY DEF Delivery!CallerOwns, Proved!CallerOwns
<1>7. Delivery!SentSettled <=> Proved!SentSettled
  BY DEF Delivery!SentSettled, Proved!SentSettled, Delivery!Settled, Proved!Settled
<1>8. Delivery!RepliesSettled <=> Proved!RepliesSettled
  BY DEF Delivery!RepliesSettled, Proved!RepliesSettled, Delivery!Settled,
         Proved!Settled
<1>9. QED
  BY <1>1, <1>2, <1>3, <1>4, <1>5, <1>6, <1>7, <1>8 DEF Delivery!IInv, Proved!IInv

\* ... and so they are in the next state.
LEMMA SameInvariantNext == Delivery!IInv' <=> Proved!IInv'
<1> USE DEF Delivery!State, Proved!State, Delivery!SameContent, Proved!SameContent,
            Delivery!DeliveryKnown, Proved!DeliveryKnown, Delivery!Owning,
            Proved!Owning
<1>1. Delivery!TypeOK' <=> Proved!TypeOK'
  BY DEF Delivery!TypeOK, Proved!TypeOK, Delivery!Row, Proved!Row, Delivery!States,
         Proved!States, Delivery!Places, Proved!Places, Delivery!Replies,
         Proved!Replies
<1>2. Delivery!OneOwner' <=> Proved!OneOwner'
  BY DEF Delivery!OneOwner, Proved!OneOwner
<1>3. \A s \in Sends : Delivery!BeforeWork(s)' <=> Proved!BeforeWork(s)'
  BY DEF Delivery!BeforeWork, Proved!BeforeWork
<1>4. \A s \in Sends : Delivery!OwnerKnows(s)' <=> Proved!OwnerKnows(s)'
  BY DEF Delivery!OwnerKnows, Proved!OwnerKnows
<1>5. \A s \in Sends : Delivery!CallsCounted(s)' <=> Proved!CallsCounted(s)'
  BY DEF Delivery!CallsCounted, Proved!CallsCounted
<1>6. Delivery!CallerOwns' <=> Proved!CallerOwns'
  BY DEF Delivery!CallerOwns, Proved!CallerOwns
<1>7. Delivery!SentSettled' <=> Proved!SentSettled'
  BY DEF Delivery!SentSettled, Proved!SentSettled, Delivery!Settled, Proved!Settled
<1>8. Delivery!RepliesSettled' <=> Proved!RepliesSettled'
  BY DEF Delivery!RepliesSettled, Proved!RepliesSettled, Delivery!Settled,
         Proved!Settled
<1>9. QED
  BY <1>1, <1>2, <1>3, <1>4, <1>5, <1>6, <1>7, <1>8 DEF Delivery!IInv, Proved!IInv

\* The delivery service keeps its invariant, whatever handler it runs.
LEMMA DeliveryInductive ==
  ASSUME Delivery!IInv, [Delivery!Next]_Delivery!vars
  PROVE  Delivery!IInv'
<1>1. Proved!IInv /\ [Proved!Next]_Proved!vars => Proved!IInv'
  BY DeliveryAssumptions, Proved!Inductive DEF Proved!Inductive, Proved!NoneAssumption,
     Proved!MaxCallsAssumption
<1>2. QED
  BY <1>1, SameNext, SameInvariant, SameInvariantNext

LEMMA DeliveryInitial == Delivery!Init => Delivery!IInv
<1>1. Proved!Init => Proved!IInv
  BY DeliveryAssumptions, Proved!Initial DEF Proved!Initial, Proved!NoneAssumption,
     Proved!MaxCallsAssumption
<1>2. QED
  BY <1>1, SameInit, SameInvariant

-----------------------------------------------------------------------------
\* Steps.

EditorStep(e) == ReadForEdit(e) \/ RemoveObject(e) \/ UploadPdf(e) \/ WriteDocument(e)

\* Of a send in its handler: before it mails, and from there on.
Preparing(s) ==
  ReadForSend(s) \/ ReadBytes(s) \/ CreateDispatch(s) \/ ArchiveAttachments(s)
  \/ ClaimDocument(s)
Mailing(s) ==
  StartSend(s) \/ ClaimAttempt(s) \/ HandToSmtp(s) \/ SmtpDone(s) \/ StampDispatch(s)
  \/ AuditFailure(s)
Outside(s) == LeaveHandler(s) \/ AroundHandler(s)
SendStep(s) == Preparing(s) \/ Mailing(s) \/ Outside(s)

LEMMA Types ==
  ASSUME TypeOK
  PROVE  /\ doc \in Doc \cup {None} /\ objects \subseteq Pdfs \ {None}
         /\ dispatch \in [Sends -> Dispatch \cup {None}] /\ op \in [Editors -> Call]
         /\ at \in [Sends -> SendPlaces] /\ read \in [Sends -> Doc \cup {None}]
         /\ mailed \in [Sends -> Pdfs] /\ claims \subseteq Sends
         /\ reopened \in 0..Cardinality(Editors) /\ now \in 0..MaxTime
         /\ outrun \in BOOLEAN
         /\ pc \in [Sends -> Delivery!Places] /\ reply \in [Sends -> Delivery!Replies]
         /\ replayed \in [Sends -> Sends \cup {None}]
         /\ smtp \in [Sends -> {"none", "open", "accepted", "refused"}]
         /\ attempt \in [Keys -> Delivery!Row] /\ key \in [Sends -> Keys \cup {None}]
BY DEF TypeOK, Delivery!TypeOK, Call, SendPlaces, EditPlaces

LEMMA Names ==
  /\ None \notin Doc /\ None \notin Dispatch /\ None \notin Sends /\ None \notin Keys
  /\ None \notin Editors /\ MaxTime \in Nat
BY ShAssumption, NoRowAssumption

\* The service takes one of its own steps, or none.
LEMMA DeliverySteps == [Next]_vars => [Delivery!Next]_Delivery!vars
<1> SUFFICES ASSUME [Next]_vars PROVE [Delivery!Next]_Delivery!vars
  OBVIOUS
<1>1. UNCHANGED delivery => UNCHANGED Delivery!vars
  BY DEF delivery, Delivery!vars
<1>2. ASSUME NEW e \in Editors, EditorStep(e) PROVE UNCHANGED delivery
  BY <1>2 DEF EditorStep, ReadForEdit, RemoveObject, UploadPdf, WriteDocument
<1>3. ASSUME NEW s \in Sends, Preparing(s) PROVE UNCHANGED delivery
  BY <1>3 DEF Preparing, ReadForSend, ReadBytes, CreateDispatch, ArchiveAttachments,
              ClaimDocument
<1>4. ASSUME NEW s \in Sends, Mailing(s) PROVE Delivery!Next \/ UNCHANGED delivery
  BY <1>4 DEF Mailing, StartSend, ClaimAttempt, HandToSmtp, SmtpDone, StampDispatch,
              AuditFailure, Delivery!Next, Delivery!Step
<1>5. ASSUME NEW s \in Sends, Outside(s) PROVE Delivery!Next
  BY <1>5 DEF Outside, LeaveHandler, AroundHandler, Delivery!Next, Delivery!Step
<1>6. Tick \/ UNCHANGED vars => UNCHANGED delivery
  BY DEF Tick, vars
<1>7. Crash => Delivery!Next \/ UNCHANGED delivery
  BY DEF Crash, Delivery!Next
<1>8. QED
  BY <1>1, <1>2, <1>3, <1>4, <1>5, <1>6, <1>7
     DEF Next, EditorStep, Preparing, Mailing, Outside

\* What a step of one send does to the others: nothing. It never deletes the
\* document, and claims only for itself.
LEMMA SendFrame ==
  ASSUME TypeOK, NEW s \in Sends, SendStep(s)
  PROVE  /\ \A t \in Sends \ {s} :
              /\ pc'[t] = pc[t] /\ at'[t] = at[t] /\ read'[t] = read[t]
              /\ dispatch'[t] = dispatch[t] /\ mailed'[t] = mailed[t] /\ smtp'[t] = smtp[t]
         /\ UNCHANGED <<op, objects, reopened, outrun, now>>
         /\ \/ UNCHANGED <<doc, claims>>
            \/ /\ ClaimDocument(s) /\ doc # None /\ ClaimMatches(s)
               /\ claims' = claims \cup {s}
               /\ doc' = Touched([doc EXCEPT !.status = "SENT"])
<1>a. /\ pc \in [Sends -> Delivery!Places] /\ at \in [Sends -> SendPlaces]
      /\ read \in [Sends -> Doc \cup {None}] /\ mailed \in [Sends -> Pdfs]
      /\ dispatch \in [Sends -> Dispatch \cup {None}]
      /\ smtp \in [Sends -> {"none", "open", "accepted", "refused"}]
  BY Types
<1> USE DEF Step, InHandler, Delivery!Goto, Delivery!Answer, delivery, document, sending
<1>1. CASE Preparing(s)
  <2>1. CASE ClaimDocument(s)
    BY <1>a, <2>1 DEF ClaimDocument
  <2>2. CASE ReadForSend(s) \/ ReadBytes(s) \/ CreateDispatch(s) \/ ArchiveAttachments(s)
    BY <1>a, <2>2 DEF ReadForSend, ReadBytes, CreateDispatch, ArchiveAttachments
  <2>3. QED
    BY <1>1, <2>1, <2>2 DEF Preparing
<1>2. CASE Mailing(s)
  <2>1. CASE StartSend(s)
    BY <1>a, <2>1 DEF StartSend, Delivery!BeforeSend, Delivery!world
  <2>2. CASE ClaimAttempt(s)
    BY <1>a, <2>2 DEF ClaimAttempt, Delivery!ClaimSending, Delivery!world
  <2>3. CASE HandToSmtp(s)
    BY <1>a, <2>3 DEF HandToSmtp, Delivery!CallSmtp
  <2>4. CASE SmtpDone(s)
    BY <1>a, <2>4 DEF SmtpDone, Delivery!SmtpResolves, Delivery!SmtpThrows, Delivery!world
  <2>5. CASE StampDispatch(s) \/ AuditFailure(s)
    BY <1>a, <2>5 DEF StampDispatch, AuditFailure
  <2>6. QED
    BY <1>2, <2>1, <2>2, <2>3, <2>4, <2>5 DEF Mailing
<1>3. CASE Outside(s)
  <2>1. UNCHANGED <<document, op, sending, now>>
    BY <1>3 DEF Outside, LeaveHandler, AroundHandler
  <2>2. \A t \in Sends \ {s} : pc'[t] = pc[t] /\ smtp'[t] = smtp[t]
    BY <1>a, <1>3
       DEF Outside, LeaveHandler, AroundHandler, Delivery!WorkReturns, Delivery!WorkThrows,
           Delivery!Arrive, Delivery!CreateAttempt, Delivery!LookUpAttempt,
           Delivery!ReclaimAttempt, Delivery!RecordSent, Delivery!RecordFailure,
           Delivery!SmtpDecides, Delivery!world
  <2>3. QED
    BY <2>1, <2>2
<1>4. QED
  BY <1>1, <1>2, <1>3 DEF SendStep

\* A send in its handler keeps what its place says.
LEMMA SendKeeps ==
  ASSUME IInv, NEW s \in Sends, SendStep(s)
  PROVE  HandlerPlaced(s)' /\ Prepared(s)' /\ Logged(s)'
<1> USE Names
<1>a. /\ pc \in [Sends -> Delivery!Places] /\ at \in [Sends -> SendPlaces]
      /\ read \in [Sends -> Doc \cup {None}] /\ mailed \in [Sends -> Pdfs]
      /\ dispatch \in [Sends -> Dispatch \cup {None}]
      /\ smtp \in [Sends -> {"none", "open", "accepted", "refused"}]
      /\ HandlerPlaced(s) /\ Prepared(s) /\ Logged(s)
  BY Types DEF IInv
<1> USE DEF Step, InHandler, HandlerPlaced, Prepared, Logged, delivery, document, sending
<1>1. CASE ReadForSend(s)
  <2>1. /\ pc[s] = "work" /\ at[s] = "read" /\ read'[s] = doc
        /\ at'[s] = IF doc # None /\ doc.status = "FINALIZED" /\ doc.pdf # None
                    THEN "buffer" ELSE "threw"
        /\ UNCHANGED <<pc, smtp, dispatch, mailed, claims, doc>>
    BY <1>a, <1>1 DEF ReadForSend
  <2>2. QED
    BY <1>a, <2>1
<1>2. CASE ReadBytes(s)
  <2>1. /\ pc[s] = "work" /\ at[s] = "buffer" /\ at'[s] \in {"create", "threw"}
        /\ UNCHANGED <<pc, smtp, dispatch, mailed, claims, doc, read>>
    BY <1>a, <1>2 DEF ReadBytes
  <2>2. QED
    BY <1>a, <2>1
<1>3. CASE CreateDispatch(s)
  <2>1. /\ pc[s] = "work" /\ at[s] = "create" /\ at'[s] \in {"archive", "threw"}
        /\ \/ dispatch'[s] = [pdf |-> read[s].pdf, sent |-> FALSE, error |-> FALSE]
           \/ dispatch'[s] = None
        /\ UNCHANGED <<pc, smtp, mailed, claims, doc, read>>
    BY <1>a, <1>3 DEF CreateDispatch
  <2>2. QED
    BY <1>a, <2>1
<1>4. CASE ArchiveAttachments(s)
  <2>1. /\ pc[s] = "work" /\ at[s] = "archive" /\ at'[s] \in {"claim", "audit"}
        /\ UNCHANGED <<pc, smtp, dispatch, mailed, claims, doc, read>>
    BY <1>a, <1>4 DEF ArchiveAttachments
  <2>2. QED
    BY <1>a, <2>1
<1>5. CASE ClaimDocument(s)
  <2>1. /\ pc[s] = "work" /\ at[s] = "claim" /\ at'[s] \in {"send", "audit"}
        /\ claims \subseteq claims' /\ (at'[s] = "send" => s \in claims')
        /\ UNCHANGED <<pc, smtp, dispatch, mailed, read>>
    BY <1>a, <1>5 DEF ClaimDocument
  <2>2. QED
    BY <1>a, <2>1
<1>6. CASE StartSend(s)
  <2>1. /\ pc[s] = "work" /\ at[s] = "send" /\ at'[s] = "smtp" /\ pc'[s] = "claim"
        /\ UNCHANGED <<smtp, dispatch, mailed, claims, doc, read>>
    BY <1>a, <1>6 DEF StartSend, Delivery!BeforeSend, Delivery!Goto, Delivery!world
  <2>2. QED
    BY <1>a, <2>1
<1>7. CASE ClaimAttempt(s)
  <2>1. /\ pc[s] = "claim" /\ pc'[s] \in {"work", "call"}
        /\ at'[s] = IF pc'[s] = "work" THEN "audit" ELSE "smtp"
        /\ UNCHANGED <<smtp, dispatch, mailed, claims, doc, read>>
    BY <1>a, <1>7 DEF ClaimAttempt, Delivery!ClaimSending, Delivery!Goto, Delivery!world
  <2>2. QED
    BY <1>a, <2>1
<1>8. CASE HandToSmtp(s)
  <2>1. /\ pc[s] = "call" /\ pc'[s] = "wait" /\ mailed'[s] = read[s].pdf
        /\ smtp'[s] = "open" /\ UNCHANGED <<at, dispatch, claims, doc, read>>
    BY <1>a, <1>8 DEF HandToSmtp, Delivery!CallSmtp, Delivery!Goto
  <2>2. QED
    BY <1>a, <2>1
<1>9. CASE SmtpDone(s)
  <2>1. /\ pc[s] = "wait" /\ pc'[s] = "work" /\ at'[s] \in {"stamp", "audit"}
        /\ at'[s] = "stamp" => smtp[s] = "accepted"
        /\ UNCHANGED <<smtp, mailed, dispatch, claims, doc, read>>
    BY <1>a, <1>9 DEF SmtpDone, Delivery!SmtpResolves, Delivery!SmtpThrows, Delivery!Goto,
                      Delivery!world
  <2>2. QED
    BY <1>a, <2>1
<1>10. CASE StampDispatch(s)
  <2>1. /\ pc[s] = "work" /\ at[s] = "stamp" /\ at'[s] \in {"returns", "audit"}
        /\ \/ dispatch[s] # None /\ dispatch'[s] = [dispatch[s] EXCEPT !.sent = TRUE]
           \/ dispatch'[s] = dispatch[s] /\ at'[s] = "audit"
        /\ UNCHANGED <<pc, smtp, mailed, claims, doc, read>>
    BY <1>a, <1>10 DEF StampDispatch
  <2>2. dispatch[s] # None =>
          /\ [dispatch[s] EXCEPT !.sent = TRUE].sent
          /\ [dispatch[s] EXCEPT !.sent = TRUE].pdf = dispatch[s].pdf
          /\ [dispatch[s] EXCEPT !.sent = TRUE] \in Dispatch
    BY <1>a DEF Dispatch
  <2>3. QED
    BY <1>a, <2>1, <2>2
<1>11. CASE AuditFailure(s)
  <2>1. /\ pc[s] = "work" /\ at[s] = "audit" /\ at'[s] = "threw"
        /\ \/ dispatch[s] # None /\ dispatch'[s] = [dispatch[s] EXCEPT !.error = TRUE]
           \/ dispatch'[s] = dispatch[s]
        /\ UNCHANGED <<pc, smtp, mailed, claims, doc, read>>
    BY <1>a, <1>11 DEF AuditFailure
  <2>2. dispatch[s] # None =>
          /\ [dispatch[s] EXCEPT !.error = TRUE].sent = dispatch[s].sent
          /\ [dispatch[s] EXCEPT !.error = TRUE].pdf = dispatch[s].pdf
    BY <1>a DEF Dispatch
  <2>3. QED
    BY <1>a, <2>1, <2>2
<1>12. CASE LeaveHandler(s)
  <2>1. /\ pc[s] = "work" /\ pc'[s] \in {"finish", "record"}
        /\ pc'[s] = "finish" => at[s] = "returns"
        /\ UNCHANGED <<at, smtp, mailed, dispatch, claims, doc, read>>
    BY <1>a, <1>12 DEF LeaveHandler, Delivery!WorkReturns, Delivery!WorkThrows,
                       Delivery!Goto, Delivery!world
  <2>2. QED
    BY <1>a, <2>1
<1>13. CASE AroundHandler(s)
  <2>1. /\ UNCHANGED <<at, mailed, dispatch, claims, doc, read>>
        /\ smtp'[s] = smtp[s] \/ smtp[s] = "open"
    BY <1>a, <1>13
       DEF AroundHandler, Delivery!Arrive, Delivery!CreateAttempt, Delivery!LookUpAttempt,
           Delivery!ReclaimAttempt, Delivery!RecordSent, Delivery!RecordFailure,
           Delivery!SmtpDecides, Delivery!world
  <2>2. \/ pc[s] \in {"idle", "create", "lookup", "reclaim"}
           /\ pc'[s] \in {"create", "lookup", "reclaim", "work", "done"}
        \/ pc[s] \in {"finish", "record"} /\ pc'[s] \in {"record", "done"}
        \/ pc'[s] = pc[s]
    BY <1>a, <1>13
       DEF AroundHandler, Delivery!Arrive, Delivery!CreateAttempt, Delivery!LookUpAttempt,
           Delivery!ReclaimAttempt, Delivery!RecordSent, Delivery!RecordFailure,
           Delivery!SmtpDecides, Delivery!Goto, Delivery!Answer
  <2>3. QED
    BY <1>a, <2>1, <2>2
<1>14. QED
  BY <1>1, <1>2, <1>3, <1>4, <1>5, <1>6, <1>7, <1>8, <1>9, <1>10, <1>11, <1>12, <1>13
     DEF SendStep, Preparing, Mailing, Outside

\* There are finitely many editors, each counted once.
LEMMA Counted ==
  ASSUME TypeOK
  PROVE  /\ Cardinality(Editors) \in Nat
         /\ IsFiniteSet(Pending) /\ Cardinality(Pending) \in Nat
         /\ IsFiniteSet(claims)' => Cardinality(claims') \in Nat
         /\ \A e \in Pending : /\ Cardinality(Pending) >= 1
                               /\ Cardinality(Pending \ {e}) = Cardinality(Pending) - 1
         /\ \A P \in SUBSET Pending : Cardinality(P) \in Nat
                                      /\ Cardinality(P) <= Cardinality(Pending)
<1>1. IsFiniteSet(Editors) /\ Pending \subseteq Editors
  BY ShAssumption DEF Pending
<1>2. IsFiniteSet(Pending)
  BY <1>1, FS_Subset
<1>3. \A P \in SUBSET Pending : IsFiniteSet(P) /\ Cardinality(P) <= Cardinality(Pending)
  BY <1>2, FS_Subset
<1>4. \A S : IsFiniteSet(S) => Cardinality(S) \in Nat
  BY FS_CardinalityType
<1>5. \A e \in Pending : Cardinality(Pending \ {e}) = Cardinality(Pending) - 1
  BY <1>2, FS_RemoveElement
<1>6. \A e \in Pending : Cardinality(Pending) >= 1
  <2> SUFFICES ASSUME NEW e \in Pending PROVE Cardinality(Pending) >= 1
    OBVIOUS
  <2>1. Cardinality(Pending \ {e}) \in Nat
    BY <1>3, <1>4
  <2>2. QED
    BY <2>1, <1>5, <1>2, <1>4
<1>7. QED
  BY <1>1, <1>2, <1>3, <1>4, <1>5, <1>6

\* What an editor's call writes into the row it finds.
LEMMA Writes ==
  ASSUME TypeOK, EditorsRead, WritesCounted, NEW e \in Editors, WriteDocument(e),
         doc # None
  PROVE  /\ reopened' \in 0..Cardinality(Editors)
         /\ \/ doc' = None /\ reopened' = reopened /\ dispatch' = [s \in Sends |-> None]
            \/ /\ dispatch' = dispatch /\ doc' \in Doc
               /\ doc'.edits <= doc.edits + 1
               /\ \/ doc'.status = doc.status /\ reopened' = reopened
                  \/ /\ doc'.status = "FINALIZED"
                     /\ reopened' = IF doc.status = "SENT" THEN reopened + 1 ELSE reopened
<1>1. doc \in Doc /\ now \in 0..MaxTime /\ op \in [Editors -> Call]
      /\ reopened \in 0..Cardinality(Editors) /\ Cardinality(Editors) \in Nat
  BY Types, Counted
<1>2. op[e].at = "write" /\ op[e].kind \in Kinds
  BY DEF WriteDocument, EditorsRead
<1>3. doc.edits + 1 <= Cardinality(Editors) /\ reopened + 1 <= Cardinality(Editors)
  <2>1. e \in Pending
    BY <1>2 DEF Pending
  <2>2. Cardinality(Pending) \in Nat /\ Cardinality(Pending) >= 1
    BY <2>1, Counted
  <2>3. doc.edits \in Nat /\ reopened \in Nat
    BY <1>1 DEF Doc
  <2>4. QED
    BY <2>2, <2>3, <1>1 DEF WritesCounted
<1>4. /\ doc' = Written(e)
      /\ dispatch' = IF op[e].kind = "delete" THEN [s \in Sends |-> None] ELSE dispatch
      /\ reopened' = IF op[e].kind = "finalize" /\ doc.status = "SENT"
                     THEN reopened + 1 ELSE reopened
  BY DEF WriteDocument
<1>5. reopened' \in 0..Cardinality(Editors)
  BY <1>1, <1>3, <1>4
<1>6. CASE op[e].kind = "update"
  <2>1. doc' = [doc EXCEPT !.edits = doc.edits + 1, !.updatedAt = now]
    BY <1>1, <1>4, <1>6 DEF Written, Touched, Doc
  <2>a. doc.edits + 1 \in 0..Cardinality(Editors)
    BY <1>1, <1>3 DEF Doc
  <2>2. doc' \in Doc /\ doc'.edits = doc.edits + 1 /\ doc'.status = doc.status
    BY <2>1, <2>a, <1>1 DEF Doc
  <2>3. QED
    BY <1>1, <1>4, <1>5, <1>6, <2>2 DEF Doc
<1>7. CASE op[e].kind = "finalize"
  <2>1. doc' = [doc EXCEPT !.status = "FINALIZED", !.updatedAt = now]
    BY <1>1, <1>4, <1>7 DEF Written, Touched, Doc
  <2>2. doc' \in Doc /\ doc'.edits = doc.edits /\ doc'.status = "FINALIZED"
    BY <2>1, <1>1 DEF Doc
  <2>3. QED
    BY <1>1, <1>4, <1>5, <1>7, <2>2 DEF Doc
<1>8. CASE op[e].kind = "generate"
  <2>1. doc' = [doc EXCEPT !.pdf = e, !.updatedAt = now]
    BY <1>1, <1>4, <1>8 DEF Written, Touched, Doc
  <2>2. doc' \in Doc /\ doc'.edits = doc.edits /\ doc'.status = doc.status
    BY <2>1, <1>1 DEF Doc, Pdfs
  <2>3. QED
    BY <1>1, <1>4, <1>5, <1>8, <2>2 DEF Doc
<1>9. CASE op[e].kind = "delete"
  BY <1>4, <1>5, <1>9 DEF Written
<1>10. QED
  BY <1>2, <1>6, <1>7, <1>8, <1>9 DEF Kinds

\* What an editor's step does: it moves its own call, and only its last write
\* touches the row.
LEMMA EditorFrame ==
  ASSUME TypeOK, EditorsRead, NEW e \in Editors, EditorStep(e)
  PROVE  /\ UNCHANGED delivery /\ UNCHANGED sending /\ now' = now
         /\ op' \in [Editors -> Call] /\ objects' \subseteq Pdfs \ {None}
         /\ op[e].at # "done"
         /\ \A f \in Editors \ {e} : op'[f] = op[f]
         /\ op'[e].at \in {"object", "upload", "write"} =>
              /\ op'[e].kind \in Kinds /\ op'[e].read # None
              /\ op'[e].kind = "generate" => op'[e].read.status # "SENT"
         /\ outrun' \in BOOLEAN
         /\ \/ doc' = doc /\ dispatch' = dispatch /\ reopened' = reopened /\ outrun' = outrun
            \/ WriteDocument(e) /\ doc # None /\ op'[e].at = "done"
<1>a. /\ doc \in Doc \cup {None} /\ op \in [Editors -> Call]
      /\ objects \subseteq Pdfs \ {None} /\ outrun \in BOOLEAN
  BY Types
<1>b. e \in Pdfs \ {None}
  BY Names DEF Pdfs
<1> USE DEF EditPlaces, document
<1>1. CASE ReadForEdit(e)
  <2>1. /\ UNCHANGED delivery /\ UNCHANGED sending /\ now' = now
        /\ doc' = doc /\ dispatch' = dispatch /\ reopened' = reopened /\ objects' = objects
        /\ outrun' = outrun /\ op[e].at = "idle"
    BY <1>1 DEF ReadForEdit
  <2>2. PICK kind \in Kinds, next \in {"done", "object", "write"} :
          /\ op' = [op EXCEPT ![e] = [kind |-> kind, read |-> doc, at |-> next]]
          /\ doc = None => next = "done"
          /\ kind = "generate" /\ doc # None /\ doc.status = "SENT" => next = "done"
    BY <1>1 DEF ReadForEdit, Permitted
  <2>3. [kind |-> kind, read |-> doc, at |-> next] \in Call
    BY <1>a DEF Call
  <2>4. op' \in [Editors -> Call] /\ (\A f \in Editors \ {e} : op'[f] = op[f])
    BY <1>a, <2>2, <2>3
  <2>5. op'[e].kind = kind /\ op'[e].read = doc /\ op'[e].at = next
    BY <1>a, <2>2
  <2>6. objects' \subseteq Pdfs \ {None} /\ op[e].at # "done" /\ outrun' \in BOOLEAN
    BY <1>a, <2>1
  <2>7. QED
    BY <2>1, <2>2, <2>4, <2>5, <2>6
<1>2. ASSUME op[e].at \in {"object", "upload", "write"}, NEW place \in EditPlaces,
             Move(e, place)
      PROVE  /\ op' \in [Editors -> Call] /\ op[e].at # "done" /\ op'[e].at = place
             /\ \A f \in Editors \ {e} : op'[f] = op[f]
             /\ op'[e].kind \in Kinds /\ op'[e].read # None
             /\ op'[e].kind = "generate" => op'[e].read.status # "SENT"
  <2>1. op' = [op EXCEPT ![e] = [op[e] EXCEPT !.at = place]] /\ op[e] \in Call
    BY <1>a, <1>2 DEF Move
  <2>2. /\ [op[e] EXCEPT !.at = place] \in Call
        /\ [op[e] EXCEPT !.at = place].at = place
        /\ [op[e] EXCEPT !.at = place].kind = op[e].kind
        /\ [op[e] EXCEPT !.at = place].read = op[e].read
    BY <2>1 DEF Call
  <2>3. /\ op[e].kind \in Kinds /\ op[e].read # None
        /\ op[e].kind = "generate" => op[e].read.status # "SENT"
    BY <1>2 DEF EditorsRead
  <2>4. QED
    BY <1>a, <1>2, <2>1, <2>2, <2>3
<1>3. CASE RemoveObject(e)
  <2>1. /\ op[e].at = "object" /\ objects' \subseteq objects
        /\ Move(e, "upload") \/ Move(e, "write")
        /\ UNCHANGED delivery /\ UNCHANGED sending /\ now' = now
        /\ doc' = doc /\ dispatch' = dispatch /\ reopened' = reopened /\ outrun' = outrun
    BY <1>3 DEF RemoveObject
  <2>2. QED
    BY <1>a, <1>2, <2>1
<1>4. CASE UploadPdf(e)
  <2>1. /\ op[e].at = "upload" /\ objects' \subseteq objects \cup {e}
        /\ Move(e, "write") \/ Move(e, "done")
        /\ UNCHANGED delivery /\ UNCHANGED sending /\ now' = now
        /\ doc' = doc /\ dispatch' = dispatch /\ reopened' = reopened /\ outrun' = outrun
    BY <1>4 DEF UploadPdf
  <2>2. QED
    BY <1>a, <1>b, <1>2, <2>1
<1>5. CASE WriteDocument(e)
  <2>1. /\ op[e].at = "write" /\ Move(e, "done")
        /\ UNCHANGED delivery /\ UNCHANGED sending /\ now' = now /\ objects' = objects
        /\ \/ doc' = doc /\ dispatch' = dispatch /\ reopened' = reopened /\ outrun' = outrun
           \/ doc # None
    BY <1>5 DEF WriteDocument
  <2>2. outrun' \in BOOLEAN
    BY <1>5, <1>a DEF WriteDocument
  <2>3. QED
    BY <1>a, <1>2, <1>5, <2>1, <2>2
<1>6. QED
  BY <1>1, <1>3, <1>4, <1>5 DEF EditorStep

\* The shape of what a send writes.
LEMMA SendTypes ==
  ASSUME TypeOK, NEW s \in Sends, SendStep(s), Prepared(s), HandlerPlaced(s)
  PROVE  /\ at' \in [Sends -> SendPlaces] /\ read' \in [Sends -> Doc \cup {None}]
         /\ mailed' \in [Sends -> Pdfs] /\ dispatch' \in [Sends -> Dispatch \cup {None}]
         /\ claims' \subseteq Sends
<1> USE Names
<1>a. /\ at \in [Sends -> SendPlaces] /\ read \in [Sends -> Doc \cup {None}]
      /\ mailed \in [Sends -> Pdfs] /\ dispatch \in [Sends -> Dispatch \cup {None}]
      /\ claims \subseteq Sends /\ doc \in Doc \cup {None}
  BY Types
<1>b. \A place \in SendPlaces : [at EXCEPT ![s] = place] \in [Sends -> SendPlaces]
  BY <1>a
<1>c. read[s] # None => read[s].pdf \in Pdfs
  BY <1>a DEF Doc
<1> USE DEF Step, InHandler, document, sending
<1>1. CASE ReadForSend(s)
  <2>1. at' \in [Sends -> SendPlaces]
    BY <1>1, <1>b DEF ReadForSend, SendPlaces
  <2>2. read' \in [Sends -> Doc \cup {None}]
    BY <1>1, <1>a DEF ReadForSend
  <2>3. QED
    BY <1>1, <1>a, <2>1, <2>2 DEF ReadForSend
<1>2. CASE ReadBytes(s) \/ ArchiveAttachments(s) \/ ClaimDocument(s) \/ StartSend(s)
           \/ SmtpDone(s) \/ ClaimAttempt(s)
  <2>1. at' \in [Sends -> SendPlaces]
    BY <1>2, <1>b DEF ReadBytes, ArchiveAttachments, ClaimDocument, StartSend, SmtpDone,
                      ClaimAttempt, SendPlaces
  <2>2. claims' \subseteq Sends
    BY <1>2, <1>a DEF ReadBytes, ArchiveAttachments, ClaimDocument, StartSend, SmtpDone,
                      ClaimAttempt
  <2>3. QED
    BY <1>2, <1>a, <2>1, <2>2
       DEF ReadBytes, ArchiveAttachments, ClaimDocument, StartSend, SmtpDone, ClaimAttempt
<1>3. CASE CreateDispatch(s)
  <2>1. at[s] = "create" /\ read[s] # None /\ read[s].pdf \in Pdfs \ {None}
    BY <1>3, <1>c DEF CreateDispatch, Prepared
  <2>2. [pdf |-> read[s].pdf, sent |-> FALSE, error |-> FALSE] \in Dispatch
    BY <2>1 DEF Dispatch
  <2>3. dispatch' \in [Sends -> Dispatch \cup {None}]
    BY <1>3, <1>a, <2>2 DEF CreateDispatch
  <2>4. at' \in [Sends -> SendPlaces]
    BY <1>3, <1>b DEF CreateDispatch, SendPlaces
  <2>5. QED
    BY <1>3, <1>a, <2>3, <2>4 DEF CreateDispatch
<1>4. CASE HandToSmtp(s)
  <2>1. read[s].pdf \in Pdfs
    BY <1>4, <1>c DEF HandToSmtp, Delivery!CallSmtp, HandlerPlaced, Prepared
  <2>2. mailed' \in [Sends -> Pdfs]
    BY <1>4, <1>a, <2>1 DEF HandToSmtp
  <2>3. QED
    BY <1>4, <1>a, <2>2 DEF HandToSmtp
<1>5. CASE StampDispatch(s) \/ AuditFailure(s)
  <2>1. dispatch[s] # None =>
          /\ [dispatch[s] EXCEPT !.sent = TRUE] \in Dispatch
          /\ [dispatch[s] EXCEPT !.error = TRUE] \in Dispatch
    BY <1>a DEF Dispatch
  <2>2. \/ dispatch' = dispatch
        \/ /\ dispatch[s] # None
           /\ dispatch' = [dispatch EXCEPT ![s] = [dispatch[s] EXCEPT !.sent = TRUE]]
        \/ /\ dispatch[s] # None
           /\ dispatch' = [dispatch EXCEPT ![s] = [dispatch[s] EXCEPT !.error = TRUE]]
    BY <1>5, <1>a DEF StampDispatch, AuditFailure
  <2>3. dispatch' \in [Sends -> Dispatch \cup {None}]
    BY <1>a, <2>1, <2>2
  <2>4. at' \in [Sends -> SendPlaces]
    BY <1>5, <1>b DEF StampDispatch, AuditFailure, SendPlaces
  <2>5. QED
    BY <1>5, <1>a, <2>3, <2>4 DEF StampDispatch, AuditFailure
<1>6. CASE Outside(s)
  BY <1>6, <1>a DEF Outside, LeaveHandler, AroundHandler
<1>7. QED
  BY <1>1, <1>2, <1>3, <1>4, <1>5, <1>6 DEF SendStep, Preparing, Mailing

\* The process dies with every call in it, and all else stays.
LEMMA CrashFrame ==
  ASSUME TypeOK, Crash
  PROVE  /\ UNCHANGED document /\ UNCHANGED sending /\ now' = now
         /\ UNCHANGED <<attempt, reply, replayed, smtp, key>>
         /\ op' \in [Editors -> Call]
         /\ \A e \in Editors :
              op'[e].at = IF op[e].at = "idle" THEN "idle" ELSE "done"
         /\ \A s \in Sends : pc'[s] = pc[s] \/ pc'[s] = "dead"
<1>1. op \in [Editors -> Call] /\ pc \in [Sends -> Delivery!Places]
  BY Types
<1>2. op' = [e \in Editors |-> IF op[e].at = "idle" THEN op[e]
                               ELSE [op[e] EXCEPT !.at = "done"]]
  BY DEF Crash
<1>3. \A e \in Editors : /\ [op[e] EXCEPT !.at = "done"] \in Call
                         /\ [op[e] EXCEPT !.at = "done"].at = "done"
  BY <1>1 DEF Call, EditPlaces
<1>4. \A e \in Editors : 
          op'[e] \in Call /\ op'[e].at = IF op[e].at = "idle" THEN "idle" ELSE "done"
  BY <1>1, <1>2, <1>3
<1>5. op' \in [Editors -> Call]
  BY <1>2, <1>4
<1>6. UNCHANGED <<attempt, reply, replayed, smtp, key>>
  BY DEF Crash, Delivery!Crash, Delivery!request, Delivery!world, delivery
<1>7. \A s \in Sends : pc'[s] = pc[s] \/ pc'[s] = "dead"
  BY <1>1 DEF Crash, Delivery!Crash, delivery
<1>8. QED
  BY <1>4, <1>5, <1>6, <1>7 DEF Crash

\* The claim turns the row it has matched into a SENT one.
LEMMA ClaimWrites ==
  ASSUME TypeOK, doc # None, doc' = Touched([doc EXCEPT !.status = "SENT"])
  PROVE  doc' \in Doc /\ doc'.status = "SENT" /\ doc'.edits = doc.edits
<1>1. doc \in Doc /\ now \in 0..MaxTime
  BY Types
<1>2. doc' = [doc EXCEPT !.status = "SENT", !.updatedAt = now]
  BY <1>1 DEF Touched, Doc
<1>3. QED
  BY <1>1, <1>2 DEF Doc

\* Which steps there are.
LEMMA Cases ==
  [Next]_vars =>
    \/ \E e \in Editors : EditorStep(e)
    \/ \E s \in Sends : SendStep(s)
    \/ Tick \/ Crash \/ UNCHANGED vars
BY DEF Next, EditorStep, SendStep, Preparing, Mailing, Outside

ShapeNext ==
  /\ doc' \in Doc \cup {None} /\ objects' \subseteq Pdfs \ {None}
  /\ dispatch' \in [Sends -> Dispatch \cup {None}] /\ op' \in [Editors -> Call]
  /\ at' \in [Sends -> SendPlaces] /\ read' \in [Sends -> Doc \cup {None}]
  /\ mailed' \in [Sends -> Pdfs] /\ claims' \subseteq Sends
  /\ reopened' \in 0..Cardinality(Editors) /\ now' \in 0..MaxTime
  /\ outrun' \in BOOLEAN

\* The shape of the next state.
LEMMA TypesNext ==
  ASSUME IInv, [Next]_vars
  PROVE  Delivery!IInv' /\ TypeOK'
<1> USE Names
<1>a. Delivery!IInv'
  BY DeliverySteps, DeliveryInductive DEF IInv
<1>b. Delivery!TypeOK'
  BY <1>a DEF Delivery!IInv
<1>c. TypeOK /\ EditorsRead /\ WritesCounted
      /\ (\A s \in Sends : HandlerPlaced(s) /\ Prepared(s))
  BY DEF IInv
<1>d. /\ doc \in Doc \cup {None} /\ objects \subseteq Pdfs \ {None}
      /\ dispatch \in [Sends -> Dispatch \cup {None}] /\ op \in [Editors -> Call]
      /\ at \in [Sends -> SendPlaces] /\ read \in [Sends -> Doc \cup {None}]
      /\ mailed \in [Sends -> Pdfs] /\ claims \subseteq Sends
      /\ reopened \in 0..Cardinality(Editors) /\ now \in 0..MaxTime
      /\ outrun \in BOOLEAN
  BY <1>c, Types
<1>e. SUFFICES ShapeNext
  BY <1>a, <1>b DEF TypeOK, Call, EditPlaces, SendPlaces, ShapeNext
<1> USE DEF ShapeNext, document, sending
<1>1. CASE \E e \in Editors : EditorStep(e)
  <2> PICK e \in Editors : EditorStep(e)
    BY <1>1
  <2>1. /\ UNCHANGED sending /\ now' = now /\ outrun' \in BOOLEAN
        /\ op' \in [Editors -> Call] /\ objects' \subseteq Pdfs \ {None}
        /\ \/ doc' = doc /\ dispatch' = dispatch /\ reopened' = reopened
           \/ WriteDocument(e) /\ doc # None
    BY <1>c, EditorFrame
  <2>2. CASE doc' = doc /\ dispatch' = dispatch /\ reopened' = reopened
    BY <1>d, <2>1, <2>2
  <2>3. CASE WriteDocument(e) /\ doc # None
    <3>1. /\ reopened' \in 0..Cardinality(Editors)
          /\ \/ doc' = None /\ dispatch' = [s \in Sends |-> None]
             \/ doc' \in Doc /\ dispatch' = dispatch
      BY <1>c, <2>3, Writes
    <3>2. doc' \in Doc \cup {None} /\ dispatch' \in [Sends -> Dispatch \cup {None}]
      BY <1>d, <3>1
    <3>3. QED
      BY <1>d, <2>1, <3>1, <3>2
  <2>4. QED
    BY <2>1, <2>2, <2>3
<1>2. CASE \E s \in Sends : SendStep(s)
  <2> PICK s \in Sends : SendStep(s)
    BY <1>2
  <2>1. /\ UNCHANGED <<op, objects, reopened, outrun, now>>
        /\ \/ doc' = doc
           \/ doc # None /\ doc' = Touched([doc EXCEPT !.status = "SENT"])
    BY <1>c, SendFrame
  <2>2. doc' \in Doc \cup {None}
    BY <1>c, <1>d, <2>1, ClaimWrites
  <2>3. /\ at' \in [Sends -> SendPlaces] /\ read' \in [Sends -> Doc \cup {None}]
        /\ mailed' \in [Sends -> Pdfs] /\ dispatch' \in [Sends -> Dispatch \cup {None}]
        /\ claims' \subseteq Sends
    BY <1>c, SendTypes
  <2>4. QED
    BY <1>d, <2>1, <2>2, <2>3
<1>3. CASE Tick
  BY <1>3, <1>d DEF Tick
<1>4. CASE Crash
  BY <1>4, <1>c, <1>d, CrashFrame
<1>5. CASE UNCHANGED vars
  BY <1>5, <1>d DEF vars
<1>6. QED
  BY <1>1, <1>2, <1>3, <1>4, <1>5, Cases

\* A send that no step is of keeps what its place says, even when the document
\* and its log are deleted, or the process dies.
LEMMA Undisturbed ==
  ASSUME IInv, NEW s \in Sends,
         at'[s] = at[s], read'[s] = read[s], mailed'[s] = mailed[s], smtp'[s] = smtp[s],
         pc'[s] = pc[s] \/ pc'[s] = "dead",
         dispatch'[s] = dispatch[s] \/ (dispatch'[s] = None /\ doc' = None),
         claims \subseteq claims', s \in claims' => s \in claims,
         doc' # None => doc # None
  PROVE  HandlerPlaced(s)' /\ Prepared(s)' /\ Logged(s)'
<1>1. HandlerPlaced(s) /\ Prepared(s) /\ Logged(s)
  BY DEF IInv
<1>2. HandlerPlaced(s)'
  BY <1>1 DEF HandlerPlaced
<1>3. Prepared(s)'
  BY <1>1 DEF Prepared
<1>4. Logged(s)'
  BY <1>1 DEF Logged
<1>5. QED
  BY <1>2, <1>3, <1>4

LEMMA SendsNext ==
  ASSUME IInv, [Next]_vars, NEW t \in Sends
  PROVE  HandlerPlaced(t)' /\ Prepared(t)' /\ Logged(t)'
<1>a. TypeOK /\ EditorsRead /\ WritesCounted
  BY DEF IInv
<1> USE DEF document, sending, delivery
<1>1. CASE \E e \in Editors : EditorStep(e)
  <2> PICK e \in Editors : EditorStep(e)
    BY <1>1
  <2>1. /\ UNCHANGED <<at, read, mailed, claims, smtp, pc>>
        /\ \/ doc' = doc /\ dispatch' = dispatch
           \/ WriteDocument(e) /\ doc # None
    BY <1>a, EditorFrame
  <2>2. \/ doc' = doc /\ dispatch' = dispatch
        \/ doc # None /\ doc' = None /\ dispatch' = [s \in Sends |-> None]
        \/ doc # None /\ dispatch' = dispatch
    BY <1>a, <2>1, Writes
  <2>3. /\ dispatch'[t] = dispatch[t] \/ (dispatch'[t] = None /\ doc' = None)
        /\ doc' # None => doc # None
    BY <2>2
  <2>4. QED
    BY <2>1, <2>3, Undisturbed
<1>2. CASE \E s \in Sends : SendStep(s)
  <2> PICK s \in Sends : SendStep(s)
    BY <1>2
  <2>1. CASE s = t
    BY <2>1, SendKeeps
  <2>2. CASE s # t
    <3>1. /\ pc'[t] = pc[t] /\ at'[t] = at[t] /\ read'[t] = read[t]
          /\ dispatch'[t] = dispatch[t] /\ mailed'[t] = mailed[t] /\ smtp'[t] = smtp[t]
      BY <1>a, <2>2, SendFrame
    <3>2. /\ claims \subseteq claims' /\ (t \in claims' => t \in claims)
          /\ doc' # None => doc # None
      BY <1>a, <2>2, SendFrame
    <3>3. QED
      BY <3>1, <3>2, Undisturbed
  <2>3. QED
    BY <2>1, <2>2
<1>3. CASE Tick
  BY <1>3, Undisturbed DEF Tick
<1>4. CASE Crash
  <2>1. /\ UNCHANGED document /\ UNCHANGED sending /\ UNCHANGED smtp
        /\ pc'[t] = pc[t] \/ pc'[t] = "dead"
    BY <1>4, <1>a, CrashFrame
  <2>2. QED
    BY <2>1, Undisturbed
<1>5. CASE UNCHANGED vars
  BY <1>5, Undisturbed DEF vars
<1>6. QED
  BY <1>1, <1>2, <1>3, <1>4, <1>5, Cases

LEMMA EditorsReadNext == IInv /\ [Next]_vars => EditorsRead'
<1> SUFFICES ASSUME IInv, [Next]_vars, NEW f \in Editors,
                    op'[f].at \in {"object", "upload", "write"}
             PROVE  /\ op'[f].kind \in Kinds /\ op'[f].read # None
                    /\ op'[f].kind = "generate" => op'[f].read.status # "SENT"
  BY DEF EditorsRead
<1>a. TypeOK /\ EditorsRead
  BY DEF IInv
<1>1. op'[f] = op[f] => /\ op[f].kind \in Kinds /\ op[f].read # None
                        /\ op[f].kind = "generate" => op[f].read.status # "SENT"
  BY <1>a DEF EditorsRead
<1>2. CASE \E e \in Editors : EditorStep(e)
  BY <1>a, <1>1, <1>2, EditorFrame
<1>3. CASE \E s \in Sends : SendStep(s)
  BY <1>a, <1>1, <1>3, SendFrame
<1>4. CASE Tick \/ UNCHANGED vars
  BY <1>1, <1>4 DEF Tick, vars
<1>5. CASE Crash
  BY <1>a, <1>5, CrashFrame
<1>6. QED
  BY <1>1, <1>2, <1>3, <1>4, <1>5, Cases

LEMMA WritesCountedNext == IInv /\ [Next]_vars => WritesCounted'
<1> SUFFICES ASSUME IInv, [Next]_vars PROVE WritesCounted'
  OBVIOUS
<1>a. TypeOK /\ EditorsRead /\ WritesCounted
  BY DEF IInv
<1>b. /\ op \in [Editors -> Call] /\ doc \in Doc \cup {None}
      /\ reopened \in 0..Cardinality(Editors)
  BY <1>a, Types
<1>c. Cardinality(Editors) \in Nat /\ Cardinality(Pending) \in Nat
  BY <1>a, Counted
<1>d. doc # None => doc.edits \in Nat
  BY <1>b DEF Doc
<1>1. ASSUME Pending' \subseteq Pending, reopened' = reopened,
             doc' # None => doc # None /\ doc'.edits = doc.edits
      PROVE  WritesCounted'
  <2>1. Cardinality(Pending') \in Nat /\ Cardinality(Pending') <= Cardinality(Pending)
    BY <1>1, <1>a, Counted
  <2>2. QED
    BY <1>1, <1>a, <1>b, <1>c, <1>d, <2>1 DEF WritesCounted
<1>2. CASE \E e \in Editors : EditorStep(e)
  <2> PICK e \in Editors : EditorStep(e)
    BY <1>2
  <2>1. /\ op[e].at # "done" /\ (\A f \in Editors \ {e} : op'[f] = op[f])
        /\ \/ doc' = doc /\ reopened' = reopened
           \/ WriteDocument(e) /\ doc # None /\ op'[e].at = "done"
    BY <1>a, EditorFrame
  <2>2. Pending' \subseteq Pending
    BY <2>1 DEF Pending
  <2>3. CASE doc' = doc /\ reopened' = reopened
    BY <1>1, <2>2, <2>3
  <2>4. CASE WriteDocument(e) /\ doc # None /\ op'[e].at = "done"
    <3>1. e \in Pending /\ Pending' = Pending \ {e}
      BY <2>1, <2>4 DEF Pending
    <3>2. Cardinality(Pending') = Cardinality(Pending) - 1 /\ Cardinality(Pending') \in Nat
      BY <3>1, <1>a, Counted
    <3>3. /\ reopened' \in {reopened, reopened + 1}
          /\ doc' # None => doc' \in Doc /\ doc'.edits <= doc.edits + 1
      BY <2>4, <1>a, Writes
    <3>4. doc' # None => doc'.edits \in Nat
      BY <3>3 DEF Doc
    <3>5. reopened' + Cardinality(Pending') <= Cardinality(Editors)
      BY <1>a, <1>b, <1>c, <3>2, <3>3 DEF WritesCounted
    <3>6. doc' # None => doc'.edits + Cardinality(Pending') <= Cardinality(Editors)
      BY <1>a, <1>b, <1>c, <1>d, <2>4, <3>2, <3>3, <3>4 DEF WritesCounted
    <3>7. QED
      BY <3>5, <3>6 DEF WritesCounted
  <2>5. QED
    BY <2>1, <2>3, <2>4
<1>3. CASE \E s \in Sends : SendStep(s)
  <2>1. /\ UNCHANGED <<op, reopened>>
        /\ doc' # None => doc # None /\ doc'.edits = doc.edits
    BY <1>3, <1>a, SendFrame, ClaimWrites
  <2>2. QED
    BY <1>1, <2>1 DEF Pending
<1>4. CASE Tick \/ UNCHANGED vars
  BY <1>1, <1>4 DEF Tick, vars, document, Pending
<1>5. CASE Crash
  <2>1. UNCHANGED <<doc, reopened>> /\ Pending' \subseteq Pending
    BY <1>a, <1>5, CrashFrame DEF document, Pending
  <2>2. QED
    BY <1>1, <2>1
<1>6. QED
  BY <1>2, <1>3, <1>4, <1>5, Cases

LEMMA ClaimsCountedNext == IInv /\ [Next]_vars => ClaimsCounted'
<1> SUFFICES ASSUME IInv, [Next]_vars PROVE ClaimsCounted'
  OBVIOUS
<1>a. TypeOK /\ EditorsRead /\ WritesCounted /\ ClaimsCounted
  BY DEF IInv
<1>b. /\ doc \in Doc \cup {None} /\ reopened \in Nat
  BY <1>a, Types, Counted
<1>c. IsFiniteSet(claims) /\ Cardinality(claims) \in Nat
  BY <1>a, FS_CardinalityType DEF ClaimsCounted
<1> USE DEF ClaimsCounted
<1>1. CASE \E e \in Editors : EditorStep(e)
  <2> PICK e \in Editors : EditorStep(e)
    BY <1>1
  <2>1. /\ claims' = claims
        /\ \/ doc' = doc /\ reopened' = reopened
           \/ WriteDocument(e) /\ doc # None
    BY <1>a, EditorFrame DEF sending
  <2>2. CASE doc' = doc /\ reopened' = reopened
    BY <1>a, <2>1, <2>2
  <2>3. CASE WriteDocument(e) /\ doc # None
    <3>1. \/ doc' = None /\ reopened' = reopened
          \/ doc'.status = doc.status /\ reopened' = reopened
          \/ /\ doc'.status = "FINALIZED"
             /\ reopened' = IF doc.status = "SENT" THEN reopened + 1 ELSE reopened
      BY <1>a, <2>3, Writes
    <3>2. QED
      BY <1>a, <1>b, <1>c, <2>1, <2>3, <3>1
  <2>4. QED
    BY <2>1, <2>2, <2>3
<1>2. CASE \E s \in Sends : SendStep(s)
  <2> PICK s \in Sends : SendStep(s)
    BY <1>2
  <2>1. /\ reopened' = reopened
        /\ \/ doc' = doc /\ claims' = claims
           \/ /\ doc # None /\ ClaimMatches(s) /\ claims' = claims \cup {s}
              /\ doc' = Touched([doc EXCEPT !.status = "SENT"])
    BY <1>a, SendFrame
  <2>2. CASE doc' = doc /\ claims' = claims
    BY <1>a, <2>1, <2>2
  <2>3. CASE /\ doc # None /\ ClaimMatches(s) /\ claims' = claims \cup {s}
             /\ doc' = Touched([doc EXCEPT !.status = "SENT"])
    <3>1. doc'.status = "SENT" /\ doc.status = "FINALIZED"
      BY <1>a, <2>3, ClaimWrites DEF ClaimMatches
    <3>2. IsFiniteSet(claims') /\ Cardinality(claims') <= Cardinality(claims) + 1
          /\ Cardinality(claims') \in Nat
      <4>1. /\ IsFiniteSet(claims \cup {s})
            /\ Cardinality(claims \cup {s}) =
                 IF s \in claims THEN Cardinality(claims) ELSE Cardinality(claims) + 1
        BY <1>c, FS_AddElement
      <4>2. QED
        BY <1>c, <2>3, <4>1
    <3>3. Cardinality(claims) <= reopened
      BY <1>a, <2>3, <3>1
    <3>4. QED
      BY <1>b, <1>c, <2>1, <3>1, <3>2, <3>3
  <2>4. QED
    BY <2>1, <2>2, <2>3
<1>3. CASE Tick \/ UNCHANGED vars
  BY <1>a, <1>3 DEF Tick, vars, document, sending
<1>4. CASE Crash
  BY <1>a, <1>4, CrashFrame DEF document, sending
<1>5. QED
  BY <1>1, <1>2, <1>3, <1>4, Cases

\* A call that names another PDF finds a row that no send has claimed, or one that
\* was SENT since the call has read it.
LEMMA PdfWrites ==
  ASSUME TypeOK, EditorsRead, NEW e \in Editors, WriteDocument(e), doc # None,
         doc' # None
  PROVE  /\ doc'.pdf = doc.pdf \/ doc.status # "SENT" \/ outrun'
         /\ outrun => outrun'
         /\ reopened' = reopened \/ reopened' = reopened + 1
<1>1. doc \in Doc
  BY Types
<1>2. /\ op[e].at = "write" /\ doc' = Written(e) /\ op[e].kind \in Kinds
      /\ op[e].kind = "generate" => op[e].read.status # "SENT"
  BY DEF WriteDocument, EditorsRead
<1>3. /\ reopened' = reopened \/ reopened' = reopened + 1
      /\ outrun' = (outrun \/ (/\ op[e].kind = "generate" /\ doc.status = "SENT"
                               /\ op[e].read.status # "SENT"))
  BY DEF WriteDocument
<1>4. op[e].kind # "generate" => doc'.pdf = doc.pdf
  BY <1>1, <1>2 DEF Written, Touched, Doc, Kinds
<1>5. QED
  BY <1>2, <1>3, <1>4

\* A document that is not SENT, and was never brought back, has no claim.
LEMMA Unclaimed ==
  ASSUME ClaimsCounted, doc # None, doc.status # "SENT", reopened = 0
  PROVE  claims = {}
<1>1. IsFiniteSet(claims) /\ Cardinality(claims) <= 0
  BY DEF ClaimsCounted
<1>2. Cardinality(claims) = 0
  BY <1>1, FS_CardinalityType
<1>3. QED
  BY <1>1, <1>2, FS_EmptySet

LEMMA ClaimedIsNamedNext == IInv /\ [Next]_vars => ClaimedIsNamed'
<1> SUFFICES ASSUME IInv, [Next]_vars, reopened' = 0, ~outrun', doc' # None,
                    NEW t \in claims'
             PROVE  doc'.pdf = read'[t].pdf
  BY DEF ClaimedIsNamed
<1>a. /\ TypeOK /\ EditorsRead /\ ClaimsCounted /\ ClaimedIsNamed
      /\ \A s \in Sends : Prepared(s)
  BY DEF IInv
<1>b. reopened \in Nat /\ read \in [Sends -> Doc \cup {None}] /\ claims \subseteq Sends
  BY <1>a, Types, Counted
<1> USE DEF document, sending
<1>1. ASSUME reopened = 0, ~outrun, doc # None, doc'.pdf = doc.pdf, t \in claims,
             read'[t] = read[t]
      PROVE  doc'.pdf = read'[t].pdf
  BY <1>a, <1>1 DEF ClaimedIsNamed
<1>2. CASE \E e \in Editors : EditorStep(e)
  <2> PICK e \in Editors : EditorStep(e)
    BY <1>2
  <2>1. /\ UNCHANGED <<read, claims>>
        /\ \/ doc' = doc /\ reopened' = reopened /\ outrun' = outrun
           \/ WriteDocument(e) /\ doc # None
    BY <1>a, EditorFrame
  <2>2. CASE doc' = doc /\ reopened' = reopened /\ outrun' = outrun
    BY <1>1, <2>1, <2>2
  <2>3. CASE WriteDocument(e) /\ doc # None
    <3>1. /\ doc'.pdf = doc.pdf \/ doc.status # "SENT"
          /\ ~outrun /\ reopened = 0
      BY <1>a, <1>b, <2>3, PdfWrites
    <3>2. doc.status = "SENT"
      BY <1>a, <2>1, <2>3, <3>1, Unclaimed
    <3>3. QED
      BY <1>1, <2>1, <2>3, <3>1, <3>2
  <2>4. QED
    BY <2>1, <2>2, <2>3
<1>3. CASE \E s \in Sends : SendStep(s)
  <2> PICK s \in Sends : SendStep(s)
    BY <1>3
  <2>1. /\ reopened' = reopened /\ outrun' = outrun
        /\ \A r \in Sends \ {s} : read'[r] = read[r]
        /\ \/ doc' = doc /\ claims' = claims
           \/ /\ ClaimDocument(s) /\ doc # None /\ ClaimMatches(s)
              /\ claims' = claims \cup {s}
              /\ doc' = Touched([doc EXCEPT !.status = "SENT"])
    BY <1>a, SendFrame
  <2>2. CASE doc' = doc /\ claims' = claims
    <3>1. t = s => ~ReadForSend(s)
      BY <1>a, <2>2 DEF ReadForSend, InHandler, Prepared
    <3>2. ~ReadForSend(s) => UNCHANGED read
      BY DEF SendStep, Preparing, Mailing, Outside, ReadBytes, CreateDispatch,
             ArchiveAttachments, ClaimDocument, StartSend, ClaimAttempt, HandToSmtp,
             SmtpDone, StampDispatch, AuditFailure, LeaveHandler, AroundHandler
    <3>3. read'[t] = read[t]
      BY <1>b, <2>1, <2>2, <3>1, <3>2
    <3>4. QED
      BY <1>1, <2>1, <2>2, <3>3
  <2>3. CASE /\ ClaimDocument(s) /\ doc # None /\ ClaimMatches(s)
             /\ claims' = claims \cup {s}
             /\ doc' = Touched([doc EXCEPT !.status = "SENT"])
    <3>1. doc.status = "FINALIZED" /\ doc.pdf = read[s].pdf /\ UNCHANGED read
      BY <2>3 DEF ClaimMatches, ClaimDocument
    <3>2. t = s
      BY <1>a, <2>1, <2>3, <3>1, Unclaimed
    <3>3. doc'.pdf = doc.pdf
      <4>1. doc \in Doc /\ doc' = [doc EXCEPT !.status = "SENT", !.updatedAt = now]
        BY <1>a, <2>3, Types DEF Touched, Doc
      <4>2. QED
        BY <4>1 DEF Doc
    <3>4. QED
      BY <3>1, <3>2, <3>3
  <2>4. QED
    BY <2>1, <2>2, <2>3
<1>4. CASE Tick \/ UNCHANGED vars
  BY <1>1, <1>4 DEF Tick, vars
<1>5. CASE Crash
  BY <1>a, <1>1, <1>5, CrashFrame
<1>6. QED
  BY <1>2, <1>3, <1>4, <1>5, Cases

\* A response is saved by the send that has come to its end, and told to it or
\* to one that finds it saved.
RowKept(k) ==
  attempt'[k].state = "SENT" =>
    \/ attempt'[k] = attempt[k]
    \/ \E s \in Sends : pc[s] = "finish" /\ attempt'[k].response = s
ReplyFound(t) ==
  reply'[t] = "ok" =>
    \/ reply[t] = "ok" /\ replayed'[t] = replayed[t]
    \/ \E s \in Sends : pc[s] = "finish" /\ replayed'[t] = s
    \/ \E k \in Keys : attempt[k].state = "SENT" /\ replayed'[t] = attempt[k].response

LEMMA RowsKept ==
  ASSUME TypeOK, NEW s \in Sends, Delivery!Step(s), NEW k \in Keys
  PROVE  RowKept(k)
<1>a. attempt \in [Keys -> Delivery!Row] /\ attempt[k] \in Delivery!Row
  BY Types
<1> USE DEF RowKept, Delivery!State
<1>1. CASE UNCHANGED attempt
  BY <1>1
<1>2. ASSUME NEW state \in Delivery!States, NEW o, Delivery!SetState(s, o, state)
      PROVE  \/ attempt'[k] = attempt[k]
             \/ attempt'[k] = [attempt[k] EXCEPT !.state = state]
  BY <1>a, <1>2 DEF Delivery!SetState
<1>3. \A state \in Delivery!States : [attempt[k] EXCEPT !.state = state].state = state
  BY <1>a DEF Delivery!Row
<1>4. ASSUME NEW state \in Delivery!States \ {"SENT"}, NEW o, Delivery!SetState(s, o, state)
      PROVE  RowKept(k)
  BY <1>2, <1>3, <1>4
<1>5. CASE Delivery!CreateAttempt(s)
  <2>1. \/ attempt'[k] = attempt[k]
        \/ attempt'[k] = [state |-> "PREPARING", hash |-> content[s], response |-> None]
    BY <1>a, <1>5 DEF Delivery!CreateAttempt
  <2>2. QED
    BY <2>1
<1>6. CASE Delivery!ReclaimAttempt(s)
  BY <1>1, <1>4, <1>6 DEF Delivery!ReclaimAttempt, Delivery!States
<1>7. CASE Delivery!ClaimSending(s)
  BY <1>1, <1>4, <1>7 DEF Delivery!ClaimSending, Delivery!States
<1>8. CASE Delivery!RecordFailure(s)
  BY <1>4, <1>8 DEF Delivery!RecordFailure, Delivery!FailureState, Delivery!States
<1>9. CASE Delivery!RecordSent(s)
  <2>1. /\ pc[s] = "finish"
        /\ \/ attempt'[k] = attempt[k]
           \/ attempt'[k] = [attempt[k] EXCEPT !.state = "SENT", !.response = s]
    BY <1>a, <1>9 DEF Delivery!RecordSent
  <2>2. [attempt[k] EXCEPT !.state = "SENT", !.response = s].response = s
    BY <1>a DEF Delivery!Row
  <2>3. QED
    BY <2>1, <2>2
<1>10. CASE \/ Delivery!LookUpAttempt(s) \/ Delivery!BeforeSend(s) \/ Delivery!CallSmtp(s)
            \/ Delivery!SmtpResolves(s) \/ Delivery!SmtpThrows(s)
            \/ Delivery!WorkReturns(s) \/ Delivery!WorkThrows(s)
  BY <1>1, <1>10 DEF Delivery!LookUpAttempt, Delivery!BeforeSend, Delivery!CallSmtp,
                     Delivery!SmtpResolves, Delivery!SmtpThrows, Delivery!WorkReturns,
                     Delivery!WorkThrows
<1>11. QED
  BY <1>5, <1>6, <1>7, <1>8, <1>9, <1>10 DEF Delivery!Step

LEMMA RepliesFound ==
  ASSUME IInv, NEW s \in Sends, Delivery!Step(s), NEW t \in Sends
  PROVE  ReplyFound(t)
<1>a. /\ reply \in [Sends -> Delivery!Replies] /\ replayed \in [Sends -> Sends \cup {None}]
  BY Types DEF IInv
<1>b. pc[s] = "lookup" => key[s] \in Keys
  BY DEF IInv, Delivery!IInv, Delivery!BeforeWork
<1> USE DEF ReplyFound, Delivery!Answer
<1>1. CASE UNCHANGED <<reply, replayed>>
  BY <1>1
<1>2. ASSUME NEW text \in {"error", "conflict", "unconfirmed"}, Delivery!Answer(s, text),
             UNCHANGED replayed
      PROVE  ReplyFound(t)
  BY <1>a, <1>2
<1>3. CASE Delivery!LookUpAttempt(s)
  <2>1. CASE /\ Delivery!State(s) = "SENT" /\ Delivery!Answer(s, "ok")
             /\ replayed' = [replayed EXCEPT ![s] = attempt[key[s]].response]
             /\ key[s] \in Keys
    <3>1. CASE t = s
      BY <1>a, <2>1, <3>1 DEF Delivery!State
    <3>2. CASE t # s
      BY <1>a, <2>1, <3>2
    <3>3. QED
      BY <3>1, <3>2
  <2>2. QED
    BY <1>b, <1>1, <1>2, <1>3, <2>1 DEF Delivery!LookUpAttempt
<1>4. CASE Delivery!RecordSent(s)
  <2>1. CASE Delivery!Answer(s, "ok") /\ replayed' = [replayed EXCEPT ![s] = s]
    <3>1. pc[s] = "finish"
      BY <1>4 DEF Delivery!RecordSent
    <3>2. CASE t = s
      BY <1>a, <2>1, <3>1, <3>2
    <3>3. CASE t # s
      BY <1>a, <2>1, <3>3
    <3>4. QED
      BY <3>2, <3>3
  <2>2. QED
    BY <1>1, <1>4, <2>1 DEF Delivery!RecordSent
<1>5. CASE Delivery!CreateAttempt(s) \/ Delivery!ReclaimAttempt(s) \/ Delivery!RecordFailure(s)
  BY <1>1, <1>2, <1>5 DEF Delivery!CreateAttempt, Delivery!ReclaimAttempt,
                          Delivery!RecordFailure
<1>6. CASE \/ Delivery!ClaimSending(s) \/ Delivery!BeforeSend(s) \/ Delivery!CallSmtp(s)
           \/ Delivery!SmtpResolves(s) \/ Delivery!SmtpThrows(s)
           \/ Delivery!WorkReturns(s) \/ Delivery!WorkThrows(s)
  BY <1>1, <1>6 DEF Delivery!ClaimSending, Delivery!BeforeSend, Delivery!CallSmtp,
                    Delivery!SmtpResolves, Delivery!SmtpThrows, Delivery!WorkReturns,
                    Delivery!WorkThrows
<1>7. QED
  BY <1>3, <1>4, <1>5, <1>6 DEF Delivery!Step

\* A handler that has returned stays so.
LEMMA ReturnsStay ==
  ASSUME IInv, [Next]_vars, NEW t \in Sends, at[t] = "returns"
  PROVE  at'[t] = "returns"
<1>a. TypeOK /\ EditorsRead /\ HandlerPlaced(t) /\ at \in [Sends -> SendPlaces]
  BY Types DEF IInv
<1>1. CASE \E e \in Editors : EditorStep(e)
  BY <1>a, <1>1, EditorFrame DEF sending
<1>2. CASE \E s \in Sends : SendStep(s)
  <2> PICK s \in Sends : SendStep(s)
    BY <1>2
  <2>1. CASE s # t
    BY <1>a, <2>1, SendFrame
  <2>2. CASE s = t
    BY <1>a, <2>2
       DEF SendStep, Preparing, Mailing, Outside, ReadForSend, ReadBytes, CreateDispatch,
           ArchiveAttachments, ClaimDocument, StartSend, ClaimAttempt, HandToSmtp, SmtpDone,
           StampDispatch, AuditFailure, LeaveHandler, AroundHandler, InHandler, sending,
           HandlerPlaced, Delivery!ClaimSending, Delivery!SmtpResolves, Delivery!SmtpThrows
  <2>3. QED
    BY <2>1, <2>2
<1>3. CASE Tick \/ UNCHANGED vars
  BY <1>3 DEF Tick, vars, sending
<1>4. CASE Crash
  BY <1>a, <1>4, CrashFrame DEF sending
<1>5. QED
  BY <1>1, <1>2, <1>3, <1>4, Cases

LEMMA ReturnedNext == IInv /\ [Next]_vars => Returned'
<1> SUFFICES ASSUME IInv, [Next]_vars PROVE Returned'
  OBVIOUS
<1>a. TypeOK /\ Returned /\ (\A s \in Sends : HandlerPlaced(s))
  BY DEF IInv
<1>b. \A s \in Sends : at[s] = "returns" => at'[s] = "returns"
  BY ReturnsStay
<1>c. \A s \in Sends : pc[s] = "finish" => at'[s] = "returns"
  BY <1>a, <1>b DEF HandlerPlaced
<1>1. CASE (\A k \in Keys : RowKept(k)) /\ (\A t \in Sends : ReplyFound(t))
  <2>1. ASSUME NEW k \in Keys, attempt'[k].state = "SENT"
        PROVE  attempt'[k].response \in Sends /\ at'[attempt'[k].response] = "returns"
    BY <1>1, <2>1, <1>a, <1>b, <1>c DEF RowKept, Returned
  <2>2. ASSUME NEW t \in Sends, reply'[t] = "ok"
        PROVE  replayed'[t] \in Sends /\ at'[replayed'[t]] = "returns"
    BY <1>1, <2>2, <1>a, <1>b, <1>c DEF ReplyFound, Returned
  <2>3. QED
    BY <2>1, <2>2 DEF Returned
<1>2. ASSUME UNCHANGED <<attempt, reply, replayed>>
      PROVE  (\A k \in Keys : RowKept(k)) /\ (\A t \in Sends : ReplyFound(t))
  BY <1>2 DEF RowKept, ReplyFound
<1>3. ASSUME NEW s \in Sends, Delivery!Step(s)
      PROVE  (\A k \in Keys : RowKept(k)) /\ (\A t \in Sends : ReplyFound(t))
  BY <1>a, <1>3, RowsKept, RepliesFound
<1>4. CASE [Delivery!Next]_Delivery!vars
  <2>1. ASSUME NEW s \in Sends, Delivery!Arrive(s) \/ Delivery!SmtpDecides(s)
        PROVE  UNCHANGED <<attempt, reply, replayed>>
    BY <2>1 DEF Delivery!Arrive, Delivery!SmtpDecides
  <2>2. ASSUME NEW s \in Sends, Delivery!ArriveMalformed(s)
        PROVE  (\A k \in Keys : RowKept(k)) /\ (\A t \in Sends : ReplyFound(t))
    <3>1. reply \in [Sends -> Delivery!Replies]
      BY <1>a, Types
    <3>2. QED
      BY <2>2, <3>1 DEF Delivery!ArriveMalformed, Delivery!Answer, RowKept, ReplyFound
  <2>3. Delivery!Crash \/ UNCHANGED Delivery!vars => UNCHANGED <<attempt, reply, replayed>>
    BY DEF Delivery!Crash, Delivery!vars
  <2>4. QED
    BY <1>1, <1>2, <1>3, <1>4, <2>1, <2>2, <2>3 DEF Delivery!Next
<1>5. QED
  BY <1>4, DeliverySteps

LEMMA Initial == Init => IInv
<1> SUFFICES ASSUME Init PROVE IInv
  OBVIOUS
<1> USE Names
<1>1. Delivery!IInv /\ Delivery!TypeOK
  BY DeliveryInitial DEF Init, Delivery!IInv
<1>2. /\ doc = [status |-> "DRAFT", edits |-> 0, pdf |-> Rendered, updatedAt |-> 0]
      /\ objects = {Rendered} \ {None} /\ dispatch = [s \in Sends |-> None]
      /\ op = [e \in Editors |-> [kind |-> None, read |-> None, at |-> "idle"]]
      /\ at = [s \in Sends |-> "read"] /\ read = [s \in Sends |-> None]
      /\ mailed = [s \in Sends |-> None] /\ claims = {} /\ reopened = 0 /\ now = 0
      /\ outrun = FALSE /\ Delivery!Init
  BY DEF Init
<1>3. /\ Pending = Editors
      /\ Cardinality(Editors) \in Nat
  BY <1>2, ShAssumption, FS_CardinalityType DEF Pending
<1>4. TypeOK
  <2>1. doc \in Doc
    BY <1>2, <1>3 DEF Doc, Pdfs
  <2>2. op \in [Editors -> [kind : Kinds \cup {None}, read : Doc \cup {None},
                            at : {"idle", "object", "upload", "write", "done"}]]
    BY <1>2
  <2>3. mailed \in [Sends -> Pdfs] /\ objects \subseteq Pdfs \ {None}
    BY <1>2 DEF Pdfs
  <2>4. outrun \in BOOLEAN
    BY <1>2
  <2>5. QED
    BY <1>1, <1>2, <1>3, <2>1, <2>2, <2>3, <2>4 DEF TypeOK
<1>5. EditorsRead
  BY <1>2 DEF EditorsRead
<1>6. ASSUME NEW s \in Sends PROVE HandlerPlaced(s) /\ Prepared(s) /\ Logged(s)
  BY <1>2 DEF HandlerPlaced, Prepared, Logged, Delivery!Init
<1>7. Returned
  BY <1>2 DEF Returned, Delivery!Init
<1>8. ClaimsCounted
  BY <1>2, FS_EmptySet DEF ClaimsCounted
<1>9. WritesCounted
  BY <1>2, <1>3 DEF WritesCounted
<1>10. ClaimedIsNamed
  BY <1>2 DEF ClaimedIsNamed
<1>11. QED
  BY <1>1, <1>4, <1>5, <1>6, <1>7, <1>8, <1>9, <1>10 DEF IInv

LEMMA Inductive == IInv /\ [Next]_vars => IInv'
<1> SUFFICES ASSUME IInv, [Next]_vars PROVE IInv'
  OBVIOUS
<1>1. \A s \in Sends : HandlerPlaced(s)' /\ Prepared(s)' /\ Logged(s)'
  BY SendsNext
<1>2. QED
  BY <1>1, TypesNext, EditorsReadNext, ReturnedNext, ClaimsCountedNext, WritesCountedNext,
     ClaimedIsNamedNext
     DEF IInv

-----------------------------------------------------------------------------

\* The document, its log and the delivery service around every send, in every
\* reachable state.
THEOREM Invariance == Spec => []IInv
BY Initial, Inductive, PTL DEF Spec

\* SHDocumentsService.send runs inside the service as it is: whatever the
\* document's handler does, EmailDeliveryService sees steps of its own.
THEOREM DeliveryKept == Spec => Delivery!Spec
<1>1. Init => Delivery!Init
  BY DEF Init
<1>2. QED
  BY <1>1, DeliverySteps, PTL DEF Spec, Delivery!Spec

\* MailingIsClaimed: a mail leaves only on a claim of its own, a document is
\* claimed once and once more for each time a stale finalize took it out of
\* SENT, and a mailed one that no finalize has overwritten is SENT.
THEOREM MailingClaimed == Spec => []MailingIsClaimed
<1>1. IInv => MailingIsClaimed
  <2> SUFFICES ASSUME IInv PROVE MailingIsClaimed
    OBVIOUS
  <2>1. TypeOK /\ ClaimsCounted /\ (\A s \in Sends : Prepared(s))
    BY DEF IInv
  <2>2. Mails \subseteq claims
    BY <2>1 DEF Mails, Prepared
  <2>3. OneMailPerClaim
    BY <2>1, <2>2 DEF OneMailPerClaim, ClaimsCounted
  <2>4. ASSUME Mails # {}, reopened = 0, doc # None, doc.status # "SENT"
        PROVE  FALSE
    BY <2>1, <2>2, <2>4, Unclaimed
  <2>5. QED
    BY <2>1, <2>3, <2>4 DEF MailingIsClaimed, MailedStaysSent
<1>2. QED
  BY <1>1, Invariance, PTL

\* DispatchLogHonest: a row of the log says sent only for a message the mail
\* server accepted, and names the PDF that was mailed; who is told of success
\* has its row stamped, unless the document is gone.
THEOREM LogHonest == Spec => []DispatchLogHonest
<1>1. IInv => DispatchLogHonest
  <2> SUFFICES ASSUME IInv PROVE DispatchLogHonest
    OBVIOUS
  <2>1. Returned /\ (\A s \in Sends : Prepared(s) /\ Logged(s))
    BY DEF IInv
  <2>2. ASSUME NEW s \in Sends, dispatch[s] # None
        PROVE  /\ dispatch[s].sent => smtp[s] = "accepted"
               /\ mailed[s] # None => dispatch[s].pdf = mailed[s]
    BY <2>1, <2>2 DEF Prepared, Logged
  <2>3. ASSUME NEW s \in Sends, reply[s] = "ok", doc # None
        PROVE  dispatch[replayed[s]] # None /\ dispatch[replayed[s]].sent
    BY <2>1, <2>3 DEF Returned, Logged
  <2>4. QED
    BY <2>2, <2>3 DEF DispatchLogHonest
<1>2. QED
  BY <1>1, Invariance, PTL

\* MailedIsNamed: the PDF that was mailed is the one the document names, for as long
\* as no finalize and no generatePdf that has read the row before it was SENT writes
\* it after.
THEOREM MailedNamed == Spec => []MailedIsNamed
<1>1. IInv => MailedIsNamed
  BY DEF IInv, MailedIsNamed, ClaimedIsNamed, Mails, Prepared
<1>2. QED
  BY <1>1, Invariance, PTL
=============================================================================
