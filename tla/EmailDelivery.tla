---------------------------- MODULE EmailDelivery ----------------------------
(***************************************************************************)
(* The durable send attempt (backend/src/email): EmailSendInterceptor      *)
(* wraps the handler of every send endpoint in EmailDeliveryService.run,   *)
(* and EmailService.send tells it, through AsyncLocalStorage, when SMTP is *)
(* about to be called and when the server has accepted the message.        *)
(*                                                                         *)
(* One row of EmailSendAttempt per Idempotency-Key outlives the process.   *)
(* Every await of run is a separate action here, so that requests with the *)
(* same key interleave as they do in one Node process; any database write  *)
(* may fail before or after it is applied, SMTP may answer late or never,  *)
(* and the process may die between any two steps.                          *)
(*                                                                         *)
(* The wrapped handler (`work`) is left open: it may throw, return, call   *)
(* send, call it again, or swallow the exception of a send.                *)
(***************************************************************************)
EXTENDS Naturals

CONSTANTS Requests,  \* HTTP requests that carry an Idempotency-Key
          Keys,      \* the well-formed keys
          Contents,  \* what requestHash is taken of: user, URL and body
          None,      \* no key, content, row owner or answer
          MaxCalls   \* bound: SMTP calls one request may make

ASSUME NoneAssumption ==
  None \notin Requests /\ None \notin Keys /\ None \notin Contents
ASSUME MaxCallsAssumption == MaxCalls \in Nat \ {0}

VARIABLES
  attempt,   \* table EmailSendAttempt: Keys -> row
  pc,        \* where the handler of a request is
  key,       \* its Idempotency-Key header
  content,   \* its user, URL and body
  started,   \* AttemptContext.started
  accepted,  \* AttemptContext.accepted
  reply,     \* what the client was answered
  replayed,  \* the request whose saved response was the answer
  calls,     \* how many times the request has invoked SMTP
  smtp       \* what the mail server does with the request's message

vars == <<attempt, pc, key, content, started, accepted, reply, replayed,
          calls, smtp>>

States == {"ABSENT", "PREPARING", "SENDING", "SENT", "FAILED", "UNCERTAIN"}

\* A row: state, requestHash, and the request whose response is saved.
Row == [state : States,
        hash : Contents \cup {None},
        response : Requests \cup {None}]

Places == {"idle", "create", "lookup", "reclaim", "work", "claim", "call",
           "wait", "finish", "record", "done", "dead"}

\* The handler is inside context.run: it owns the attempt of its key.
Owning == {"work", "claim", "call", "wait", "finish", "record"}
Live == Owning \cup {"create", "lookup", "reclaim"}

Replies == {"nothing", "ok", "badRequest", "conflict", "unconfirmed", "error"}

\* A database statement: applied, refused, or applied with its answer lost.
DbOutcome == {"applied", "refused", "lost"}
Applies(o) == o # "refused"

\* Rows, contexts and answers have the shape the code gives them.
TypeOK ==
  /\ attempt \in [Keys -> Row]
  /\ pc \in [Requests -> Places]
  /\ key \in [Requests -> Keys \cup {None}]
  /\ content \in [Requests -> Contents \cup {None}]
  /\ started \in [Requests -> BOOLEAN]
  /\ accepted \in [Requests -> BOOLEAN]
  /\ reply \in [Requests -> Replies]
  /\ replayed \in [Requests -> Requests \cup {None}]
  /\ calls \in [Requests -> Nat]
  /\ smtp \in [Requests -> {"none", "open", "accepted", "refused"}]

Init ==
  /\ attempt = [k \in Keys |->
                  [state |-> "ABSENT", hash |-> None, response |-> None]]
  /\ pc = [r \in Requests |-> "idle"]
  /\ key = [r \in Requests |-> None]
  /\ content = [r \in Requests |-> None]
  /\ started = [r \in Requests |-> FALSE]
  /\ accepted = [r \in Requests |-> FALSE]
  /\ reply = [r \in Requests |-> "nothing"]
  /\ replayed = [r \in Requests |-> None]
  /\ calls = [r \in Requests |-> 0]
  /\ smtp = [r \in Requests |-> "none"]

-----------------------------------------------------------------------------
\* Parts of the steps.

Goto(r, place) == pc' = [pc EXCEPT ![r] = place]

Answer(r, text) ==
  /\ Goto(r, "done")
  /\ reply' = [reply EXCEPT ![r] = text]

\* An update of the row of r's key, under a database outcome.
SetState(r, o, state) ==
  attempt' = IF Applies(o)
             THEN [attempt EXCEPT ![key[r]].state = state]
             ELSE attempt

State(r) == attempt[key[r]].state

request == <<key, content>>
context == <<started, accepted>>
world == <<calls, smtp>>

\* Slips the code could have in the tests that follow, for the mutants of
\* PROJECT.json.
AnyContent(r) == TRUE
TakesOverPreparing(state) == state \in {"FAILED", "PREPARING"}
ClaimsBlindly(r) == TRUE
IgnoresMissingAcceptance(r) == TRUE
MisnamesFailure(r) == IF started[r] THEN "UNCONFIRMED" ELSE "FAILED"
FailsUnlessAccepted(r) == IF accepted[r] THEN "UNCERTAIN" ELSE "FAILED"

\* prior.requestHash === requestHash
SameContent(r) == attempt[key[r]].hash = content[r]
\* prior.state === 'FAILED': nothing was sent, so the key may run again.
Retryable(state) == state = "FAILED"
\* Any other unfinished state blocks the key.
Blocked(state) == ~(state = "SENT" \/ Retryable(state))
\* where: { id, state: 'FAILED' } of the claim
ReclaimMatches(r) == Retryable(State(r))
\* if (context.started) throw
MayStart(r) == ~started[r]
\* !(context.started && !context.accepted)
DeliveryKnown(r) == ~(started[r] /\ ~accepted[r])
\* context.started ? 'UNCERTAIN' : 'FAILED'
FailureState(r) == IF started[r] THEN "UNCERTAIN" ELSE "FAILED"

-----------------------------------------------------------------------------
\* EmailDeliveryService.run, up to the claim of the key.

\* The interceptor takes the header, the user, the URL and the body.
Arrive(r) ==
  /\ pc[r] = "idle"
  /\ Goto(r, "create")
  /\ \E k \in Keys : key' = [key EXCEPT ![r] = k]
  /\ \E c \in Contents : content' = [content EXCEPT ![r] = c]
  /\ UNCHANGED <<attempt, context, reply, replayed, world>>

\* A header that is missing or no UUID v4: BadRequestException.
ArriveMalformed(r) ==
  /\ pc[r] = "idle"
  /\ Answer(r, "badRequest")
  /\ UNCHANGED <<attempt, request, context, replayed, world>>

\* emailSendAttempt.create: the unique key decides who owns the attempt.
\* Any error but P2002 leaves run, even when the row was in fact written.
CreateAttempt(r) ==
  /\ pc[r] = "create"
  /\ \/ /\ State(r) # "ABSENT"
        /\ Goto(r, "lookup")
        /\ UNCHANGED <<attempt, reply>>
     \/ \E o \in DbOutcome :
          /\ State(r) = "ABSENT"
          /\ attempt' = IF Applies(o)
                        THEN [attempt EXCEPT ![key[r]] =
                                [state |-> "PREPARING", hash |-> content[r],
                                 response |-> None]]
                        ELSE attempt
          /\ IF o = "applied"
             THEN Goto(r, "work") /\ UNCHANGED reply
             ELSE Answer(r, "error")
     \/ Answer(r, "error") /\ UNCHANGED attempt
  /\ UNCHANGED <<request, context, replayed, world>>

\* A slip for the mutants: create again, until the key is free.
PollsAttempt(r) ==
  /\ pc[r] = "lookup"
  /\ Goto(r, "create")
  /\ UNCHANGED <<attempt, request, context, reply, replayed, world>>

\* emailSendAttempt.findUniqueOrThrow after P2002, and the three tests on it.
LookUpAttempt(r) ==
  /\ pc[r] = "lookup"
  /\ \/ /\ ~SameContent(r)
        /\ Answer(r, "conflict")
        /\ UNCHANGED replayed
     \/ /\ SameContent(r) /\ State(r) = "SENT"
        /\ Answer(r, "ok")
        /\ replayed' = [replayed EXCEPT ![r] = attempt[key[r]].response]
     \/ /\ SameContent(r) /\ Blocked(State(r))
        /\ Answer(r, "unconfirmed")
        /\ UNCHANGED replayed
     \/ /\ SameContent(r) /\ Retryable(State(r))
        /\ Goto(r, "reclaim")
        /\ UNCHANGED <<reply, replayed>>
     \/ Answer(r, "error") /\ UNCHANGED replayed
  /\ UNCHANGED <<attempt, request, context, world>>

\* updateMany where state FAILED: of two retries, one gets the attempt back.
ReclaimAttempt(r) ==
  /\ pc[r] = "reclaim"
  /\ \/ /\ ~ReclaimMatches(r)
        /\ Answer(r, "unconfirmed")
        /\ UNCHANGED attempt
     \/ \E o \in DbOutcome :
          /\ ReclaimMatches(r)
          /\ SetState(r, o, "PREPARING")
          /\ IF o = "applied"
             THEN Goto(r, "work") /\ UNCHANGED reply
             ELSE Answer(r, "error")
     \/ Answer(r, "error") /\ UNCHANGED attempt
  /\ UNCHANGED <<request, context, replayed, world>>

-----------------------------------------------------------------------------
\* The wrapped handler: work().

\* EmailService.send calls beforeSend, which notes the start before its await.
\* A second send in the same request throws here and changes nothing.
BeforeSend(r) ==
  /\ pc[r] = "work"
  /\ MayStart(r)
  /\ calls[r] < MaxCalls
  /\ started' = [started EXCEPT ![r] = TRUE]
  /\ Goto(r, "claim")
  /\ UNCHANGED <<attempt, request, accepted, reply, replayed, world>>

\* updateMany where state PREPARING -> SENDING; no row or an error throws
\* back into the handler.
ClaimSending(r) ==
  /\ pc[r] = "claim"
  /\ \/ State(r) # "PREPARING" /\ Goto(r, "work") /\ UNCHANGED attempt
     \/ \E o \in DbOutcome :
          /\ State(r) = "PREPARING"
          /\ SetState(r, o, "SENDING")
          /\ Goto(r, IF o = "applied" THEN "call" ELSE "work")
     \/ Goto(r, "work") /\ UNCHANGED attempt
  /\ UNCHANGED <<request, context, reply, replayed, world>>

\* transporter.sendMail
CallSmtp(r) ==
  /\ pc[r] = "call"
  /\ calls' = [calls EXCEPT ![r] = calls[r] + 1]
  /\ smtp' = [smtp EXCEPT ![r] = "open"]
  /\ Goto(r, "wait")
  /\ UNCHANGED <<attempt, request, context, reply, replayed>>

\* The answer of sendMail. It resolves only after the server has accepted,
\* and then accepted() is called; a refusal or a timeout throws.
SmtpResolves(r) ==
  /\ pc[r] = "wait"
  /\ smtp[r] = "accepted"
  /\ accepted' = [accepted EXCEPT ![r] = TRUE]
  /\ Goto(r, "work")
  /\ UNCHANGED <<attempt, request, started, reply, replayed, world>>

SmtpThrows(r) ==
  /\ pc[r] = "wait"
  /\ Goto(r, "work")
  /\ UNCHANGED <<attempt, request, context, reply, replayed, world>>

\* The handler returns. A send it swallowed the failure of is not success.
WorkReturns(r) ==
  /\ pc[r] = "work"
  /\ Goto(r, IF DeliveryKnown(r) THEN "finish" ELSE "record")
  /\ UNCHANGED <<attempt, request, context, reply, replayed, world>>

WorkThrows(r) ==
  /\ pc[r] = "work"
  /\ Goto(r, "record")
  /\ UNCHANGED <<attempt, request, context, reply, replayed, world>>

-----------------------------------------------------------------------------
\* EmailDeliveryService.run, after the handler.

\* The response is saved with SENT; an error of this write lands in catch.
RecordSent(r) ==
  /\ pc[r] = "finish"
  /\ \E o \in DbOutcome :
       /\ attempt' = IF Applies(o)
                     THEN [attempt EXCEPT ![key[r]].state = "SENT",
                                          ![key[r]].response = r]
                     ELSE attempt
       /\ IF o = "applied"
          THEN /\ Answer(r, "ok")
               /\ replayed' = [replayed EXCEPT ![r] = r]
          ELSE /\ Goto(r, "record")
               /\ UNCHANGED <<reply, replayed>>
  /\ UNCHANGED <<request, context, world>>

\* catch: the failure is recorded if the database lets it, and rethrown.
RecordFailure(r) ==
  /\ pc[r] = "record"
  /\ \E o \in DbOutcome : SetState(r, o, FailureState(r))
  /\ Answer(r, IF started[r] THEN "unconfirmed" ELSE "error")
  /\ UNCHANGED <<request, context, replayed, world>>

-----------------------------------------------------------------------------
\* Outside the handler.

\* The mail server takes or refuses an open message, whether or not the
\* process still waits for it.
SmtpDecides(r) ==
  /\ smtp[r] = "open"
  /\ \E d \in {"accepted", "refused"} : smtp' = [smtp EXCEPT ![r] = d]
  /\ UNCHANGED <<attempt, pc, request, context, reply, replayed, calls>>

\* The one Node process dies with every handler in it; the rows stay.
Crash ==
  /\ \E r \in Requests : pc[r] \in Live
  /\ pc' = [r \in Requests |-> IF pc[r] \in Live THEN "dead" ELSE pc[r]]
  /\ UNCHANGED <<attempt, request, context, reply, replayed, world>>

\* The steps the runtime takes on behalf of a request that has arrived.
Step(r) ==
  \/ CreateAttempt(r) \/ LookUpAttempt(r) \/ ReclaimAttempt(r)
  \/ BeforeSend(r) \/ ClaimSending(r) \/ CallSmtp(r)
  \/ SmtpResolves(r) \/ SmtpThrows(r)
  \/ WorkReturns(r) \/ WorkThrows(r)
  \/ RecordSent(r) \/ RecordFailure(r)

Next ==
  \/ \E r \in Requests :
       Arrive(r) \/ ArriveMalformed(r) \/ Step(r) \/ SmtpDecides(r)
  \/ Crash

Spec == Init /\ [][Next]_vars

\* Every await ends: Prisma answers or throws, and nodemailer resolves,
\* rejects or times out. Clients and the mail server owe nothing.
FairSpec == Spec /\ \A r \in Requests : WF_vars(Step(r))

-----------------------------------------------------------------------------
\* Properties.

Sent(k) == \E r \in Requests : key[r] = k /\ calls[r] > 0

\* One key reaches SMTP at most once, whoever retries and whatever fails:
\* "Durable at-most-once SMTP invocation per request".
AtMostOneInvocation ==
  /\ \A r \in Requests : calls[r] <= 1
  /\ \A r, q \in Requests :
       calls[r] > 0 /\ calls[q] > 0 /\ key[r] = key[q] => r = q

\* No two handlers are ever inside the same attempt.
OneOwner ==
  \A r, q \in Requests :
    pc[r] \in Owning /\ pc[q] \in Owning /\ key[r] = key[q] => r = q

\* The retryable state is only ever recorded for a key whose message was
\* never handed to SMTP, in this run or an earlier one.
FailedMeansUnsent ==
  \A k \in Keys : attempt[k].state = "FAILED" => ~Sent(k)

\* A client is told of success, at once or by a replay, only when the run the
\* answer comes from sent nothing or had its message accepted by the server.
SuccessMeansAccepted ==
  \A r, q \in Requests :
    reply[r] = "ok" /\ replayed[r] = q /\ calls[q] > 0 => smtp[q] = "accepted"

\* A replayed success is the answer of a run for the very same content.
ReplaysOwnContent ==
  \A r \in Requests :
    reply[r] = "ok" => /\ replayed[r] \in Requests
                       /\ key[replayed[r]] = key[r]
                       /\ content[replayed[r]] = content[r]

\* An attempt whose process died is never touched or taken over again: "an
\* abandoned PREPARING/SENDING attempt deliberately requires reconciliation".
Abandoned(k) ==
  /\ attempt[k].state \in {"PREPARING", "SENDING"}
  /\ \A r \in Requests : ~(pc[r] \in Owning /\ key[r] = k)

AbandonedStaysBlocked ==
  [][\A k \in Keys : Abandoned(k) => Abandoned(k)' /\ attempt'[k] = attempt[k]]_vars

\* Every request is answered, unless the process died under it.
EveryRequestEnds ==
  \A r \in Requests : pc[r] \in Live ~> pc[r] \in {"done", "dead"}

-----------------------------------------------------------------------------
\* The inductive invariant the theorems of EmailDeliveryProofs rest on. TLC
\* checks it beside the properties it implies.

\* Before the handler runs, a request has touched neither mail nor client.
BeforeWork(r) ==
  pc[r] \in {"idle", "create", "lookup", "reclaim"} =>
    /\ ~started[r] /\ ~accepted[r]
    /\ calls[r] = 0 /\ smtp[r] = "none"
    /\ reply[r] = "nothing"
    /\ pc[r] # "idle" => key[r] \in Keys /\ content[r] \in Contents
    /\ pc[r] = "idle" => key[r] = None
    /\ pc[r] = "reclaim" => SameContent(r) /\ State(r) # "ABSENT"

\* What the owner of an attempt knows of its row.
OwnerKnows(r) ==
  pc[r] \in Owning =>
    /\ key[r] \in Keys /\ content[r] \in Contents
    /\ attempt[key[r]].hash = content[r]
    /\ reply[r] = "nothing"
    /\ pc[r] \in {"claim", "call", "wait"} => started[r]
    /\ pc[r] = "claim" => State(r) = "PREPARING"
    /\ pc[r] \in {"call", "wait"} => State(r) = "SENDING"
    /\ pc[r] = "work" /\ ~started[r] => State(r) = "PREPARING"
    /\ pc[r] \in {"work", "finish"} => State(r) \in {"PREPARING", "SENDING"}
    /\ pc[r] = "finish" => DeliveryKnown(r)
    /\ pc[r] = "record" => State(r) \in {"PREPARING", "SENDING", "SENT"}

\* SMTP calls, acceptance, and what they exclude.
CallsCounted(r) ==
  /\ calls[r] \in {0, 1}
  /\ accepted[r] => smtp[r] = "accepted" /\ calls[r] = 1
  /\ smtp[r] # "none" <=> calls[r] = 1
  /\ calls[r] = 1 => started[r] /\ key[r] \in Keys
  /\ calls[r] = 1 => State(r) \in {"SENDING", "SENT", "UNCERTAIN"}
  /\ pc[r] \in {"claim", "call"} => calls[r] = 0
  /\ pc[r] = "wait" => calls[r] = 1

\* A key that has reached SMTP belongs to the request that called.
CallerOwns ==
  \A r, q \in Requests :
    /\ calls[r] > 0 /\ key[r] = key[q]
    /\ pc[q] \in Owning \/ calls[q] > 0
    => r = q

\* The run q is over and its outcome is known: what a saved response means.
Settled(q) == pc[q] \in {"record", "done", "dead"} /\ DeliveryKnown(q)

SentSettled ==
  \A k \in Keys : attempt[k].state = "SENT" =>
    \E q \in Requests : /\ attempt[k].response = q
                        /\ key[q] = k /\ content[q] = attempt[k].hash
                        /\ Settled(q)
                        /\ \A p \in Requests :
                             calls[p] > 0 /\ key[p] = k => p = q

RepliesSettled ==
  \A r \in Requests : reply[r] = "ok" =>
    /\ pc[r] = "done" /\ key[r] \in Keys
    /\ \E q \in Requests : /\ replayed[r] = q
                          /\ key[q] = key[r] /\ content[q] = content[r]
                          /\ Settled(q)

\* All of it: what every reachable state of the delivery service satisfies.
IInv ==
  /\ TypeOK
  /\ OneOwner
  /\ \A r \in Requests : BeforeWork(r) /\ OwnerKnows(r) /\ CallsCounted(r)
  /\ CallerOwns
  /\ SentSettled
  /\ RepliesSettled

-----------------------------------------------------------------------------
\* The promise of AtMostOnceMail, read off this state.

mailBar ==
  [k \in Keys |->
     IF \E r \in Requests : key[r] = k /\ smtp[r] = "accepted" THEN "accepted"
     ELSE IF Sent(k) THEN "open" ELSE "unsent"]

toldBar ==
  [r \in Requests |->
     CASE reply[r] = "nothing" -> "nothing"
       [] reply[r] = "ok" -> "success"
       [] OTHER -> "failure"]

Mail == INSTANCE AtMostOnceMail WITH asked <- key, mail <- mailBar,
                                     told <- toldBar

\* The delivery service implements AtMostOnceMail.
Promise == Mail!Spec

\* The safety of the delivery service: one owner and one SMTP call of a key, a
\* failure that may be repeated, a success that is true and is one's own; and
\* the invariant these follow from.
SendingIsSafe ==
  /\ IInv
  /\ AtMostOneInvocation /\ OneOwner
  /\ FailedMeansUnsent /\ SuccessMeansAccepted /\ ReplaysOwnContent
=============================================================================
