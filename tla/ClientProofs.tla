----------------------------- MODULE ClientProofs -----------------------------
(***************************************************************************)
(* What a tab of the browser does, in two parts.                           *)
(*                                                                         *)
(* Sending (SendClient), for any sets of calls, keys, bodies and users.    *)
(* The delivery service keeps its own invariant, as every step of that     *)
(* module is one of its steps or none. On top of it: the keys that were    *)
(* taken for a body are counted, as each success of it that the user is    *)
(* told of retires one at most.                                            *)
(*                                                                         *)
(* The papers of a port call (Papers), for any rows, sections, writes,     *)
(* calls and vessels. The timesheet: revisions order what the tab has, so  *)
(* that what arrives is never older than what it was told. The page of a   *)
(* request: its log only grows, a fetch that has read brings what was told *)
(* or more, and two rows with different terms have a change between them.  *)
(***************************************************************************)
EXTENDS SendClient, Papers, FiniteSetTheorems, TLAPS

Proved == INSTANCE EmailDeliveryProofs WITH Requests <- Calls,
                                            Contents <- Bodies \X Users

Places == {"idle"} \cup Waiting \cup Ended
Call == [at : Places, body : Bodies \cup {None}, key : Keys \cup {None},
         user : Users \cup {None}]

\* A call takes a key and a body together, when it starts.
CallTaken(c) ==
  /\ call[c].at = "idle" => call[c].key = None
  /\ call[c].at \in Waiting \cup {"ok"} => call[c].key # None
  /\ call[c].key # None => call[c].body \in Bodies

\* A request that has passed the guard has the key, the body and the user of its
\* call, and none has passed before that.
RequestOfCall(c) ==
  /\ call[c].at \in {"idle", "posted", "refresh", "reposted"} => pc[c] = "idle"
  /\ pc[c] # "idle" => /\ call[c].key \in Keys /\ key[c] = call[c].key
                       /\ content[c] = <<call[c].body, call[c].user>>

\* A key is of one body, and the key that is stored for a body is one of its.
KeyOfOneBody ==
  \A c, d \in Calls : call[c].key # None /\ call[c].key = call[d].key =>
    call[c].body = call[d].body
StoredIsTaken ==
  \A b \in Bodies : storage[b] # None =>
    \E c \in Calls : call[c].key = storage[b] /\ call[c].body = b

\* The key of a call is stored until a success of its body overtakes it.
KeptOrOvertaken(c) ==
  call[c].key # None => storage[call[c].body] = call[c].key \/ c \in overtaken

\* The keys taken for a body: one for each success, and one that is open.
KeysOf(b) == {call[c].key : c \in {d \in Calls : call[d].body = b /\ call[d].key # None}}
KeysCounted(b) ==
  Cardinality(KeysOf(b)) <= Cardinality(Told(b)) + IF storage[b] # None THEN 1 ELSE 0

\* The hash of a row was taken of a request that came with its key.
HashOfRequest ==
  /\ \A k \in Keys : attempt[k].state # "ABSENT" =>
       \E d \in Calls : key[d] = k /\ pc[d] # "idle" /\ content[d] = attempt[k].hash
  /\ \A c \in Calls : pc[c] = "lookup" => Delivery!State(c) # "ABSENT"

\* Who is answered conflict has met a request with its key and other content.
ConflictMet ==
  \A c \in Calls : reply[c] = "conflict" =>
    /\ pc[c] = "done" /\ key[c] # None
    /\ \E d \in Calls : key[d] = key[c] /\ pc[d] # "idle" /\ content[d] # content[c]

IInv ==
  /\ TypeOK /\ Delivery!IInv
  /\ \A c \in Calls : CallTaken(c) /\ RequestOfCall(c) /\ KeptOrOvertaken(c)
  /\ KeyOfOneBody /\ StoredIsTaken /\ HashOfRequest /\ ConflictMet
  /\ \A b \in Bodies : KeysCounted(b)

-----------------------------------------------------------------------------
\* The delivery service.

LEMMA DeliveryAssumptions == Proved!NoneAssumption /\ Proved!MaxCallsAssumption
BY ClientAssumption DEF Proved!NoneAssumption, Proved!MaxCallsAssumption

\* The service of SendClient is the one of EmailDeliveryProofs.
LEMMA SameInit == Delivery!Init => Proved!Init
BY DEF Delivery!Init, Proved!Init

LEMMA SameSteps ==
  ASSUME NEW s \in Calls
  PROVE  /\ Delivery!Step(s) => Proved!Step(s)
         /\ Delivery!Arrive(s) => Proved!Arrive(s)
         /\ Delivery!ArriveMalformed(s) => Proved!ArriveMalformed(s)
         /\ Delivery!SmtpDecides(s) => Proved!SmtpDecides(s)
<1> USE DEF Delivery!State, Proved!State, Delivery!Goto, Proved!Goto,
            Delivery!Answer, Proved!Answer, Delivery!SetState, Proved!SetState,
            Delivery!Applies, Proved!Applies, Delivery!DbOutcome, Proved!DbOutcome,
            Delivery!SameContent, Proved!SameContent, Delivery!Retryable,
            Proved!Retryable, Delivery!Blocked, Proved!Blocked,
            Delivery!ReclaimMatches, Proved!ReclaimMatches, Delivery!MayStart,
            Proved!MayStart, Delivery!DeliveryKnown, Proved!DeliveryKnown,
            Delivery!FailureState, Proved!FailureState, Delivery!request,
            Proved!request, Delivery!context, Proved!context, Delivery!world,
            Proved!world
<1>1. Delivery!Arrive(s) => Proved!Arrive(s)
  BY DEF Delivery!Arrive, Proved!Arrive
<1>2. Delivery!ArriveMalformed(s) => Proved!ArriveMalformed(s)
  BY DEF Delivery!ArriveMalformed, Proved!ArriveMalformed
<1>3. Delivery!CreateAttempt(s) => Proved!CreateAttempt(s)
  BY DEF Delivery!CreateAttempt, Proved!CreateAttempt
<1>4. Delivery!LookUpAttempt(s) => Proved!LookUpAttempt(s)
  BY DEF Delivery!LookUpAttempt, Proved!LookUpAttempt
<1>5. Delivery!ReclaimAttempt(s) => Proved!ReclaimAttempt(s)
  BY DEF Delivery!ReclaimAttempt, Proved!ReclaimAttempt
<1>6. Delivery!BeforeSend(s) => Proved!BeforeSend(s)
  BY DEF Delivery!BeforeSend, Proved!BeforeSend
<1>7. Delivery!ClaimSending(s) => Proved!ClaimSending(s)
  BY DEF Delivery!ClaimSending, Proved!ClaimSending
<1>8. Delivery!CallSmtp(s) => Proved!CallSmtp(s)
  BY DEF Delivery!CallSmtp, Proved!CallSmtp
<1>9. Delivery!SmtpResolves(s) => Proved!SmtpResolves(s)
  BY DEF Delivery!SmtpResolves, Proved!SmtpResolves
<1>10. Delivery!SmtpThrows(s) => Proved!SmtpThrows(s)
  BY DEF Delivery!SmtpThrows, Proved!SmtpThrows
<1>11. Delivery!WorkReturns(s) => Proved!WorkReturns(s)
  BY DEF Delivery!WorkReturns, Proved!WorkReturns
<1>12. Delivery!WorkThrows(s) => Proved!WorkThrows(s)
  BY DEF Delivery!WorkThrows, Proved!WorkThrows
<1>13. Delivery!RecordSent(s) => Proved!RecordSent(s)
  BY DEF Delivery!RecordSent, Proved!RecordSent
<1>14. Delivery!RecordFailure(s) => Proved!RecordFailure(s)
  BY DEF Delivery!RecordFailure, Proved!RecordFailure
<1>15. Delivery!SmtpDecides(s) => Proved!SmtpDecides(s)
  BY DEF Delivery!SmtpDecides, Proved!SmtpDecides
<1>16. QED
  BY <1>1, <1>2, <1>3, <1>4, <1>5, <1>6, <1>7, <1>8, <1>9, <1>10, <1>11, <1>12,
     <1>13, <1>14, <1>15
     DEF Delivery!Step, Proved!Step

LEMMA SameCrash == Delivery!Crash => Proved!Crash
BY DEF Delivery!Crash, Proved!Crash, Delivery!Live, Proved!Live, Delivery!Owning,
       Proved!Owning, Delivery!request, Proved!request, Delivery!context,
       Proved!context, Delivery!world, Proved!world

LEMMA SameNext == [Delivery!Next]_Delivery!vars => [Proved!Next]_Proved!vars
<1>1. Delivery!vars' = Delivery!vars => Proved!vars' = Proved!vars
  BY DEF Delivery!vars, Proved!vars
<1>2. Delivery!Next => Proved!Next
  BY SameSteps, SameCrash DEF Delivery!Next, Proved!Next
<1>3. QED
  BY <1>1, <1>2

\* The conjuncts of the invariant of the service.
LEMMA SameInvariant == Delivery!IInv <=> Proved!IInv
<1> USE DEF Delivery!State, Proved!State, Delivery!SameContent, Proved!SameContent,
            Delivery!DeliveryKnown, Proved!DeliveryKnown, Delivery!Owning,
            Proved!Owning
<1>1. Delivery!TypeOK <=> Proved!TypeOK
  BY DEF Delivery!TypeOK, Proved!TypeOK, Delivery!Row, Proved!Row, Delivery!States,
         Proved!States, Delivery!Places, Proved!Places, Delivery!Replies,
         Proved!Replies
<1>2. Delivery!OneOwner <=> Proved!OneOwner
  BY DEF Delivery!OneOwner, Proved!OneOwner
<1>3. \A s \in Calls : Delivery!BeforeWork(s) <=> Proved!BeforeWork(s)
  BY DEF Delivery!BeforeWork, Proved!BeforeWork
<1>4. \A s \in Calls : Delivery!OwnerKnows(s) <=> Proved!OwnerKnows(s)
  BY DEF Delivery!OwnerKnows, Proved!OwnerKnows
<1>5. \A s \in Calls : Delivery!CallsCounted(s) <=> Proved!CallsCounted(s)
  BY DEF Delivery!CallsCounted, Proved!CallsCounted
<1>6. Delivery!CallerOwns <=> Proved!CallerOwns
  BY DEF Delivery!CallerOwns, Proved!CallerOwns
<1>7. Delivery!SentSettled <=> Proved!SentSettled
  BY DEF Delivery!SentSettled, Proved!SentSettled, Delivery!Settled, Proved!Settled
<1>8. Delivery!RepliesSettled <=> Proved!RepliesSettled
  BY DEF Delivery!RepliesSettled, Proved!RepliesSettled, Delivery!Settled,
         Proved!Settled
<1>9. QED
  BY <1>1, <1>2, <1>3, <1>4, <1>5, <1>6, <1>7, <1>8 DEF Delivery!IInv, Proved!IInv

\* ... and so they are in the next state.
LEMMA SameInvariantNext == Delivery!IInv' <=> Proved!IInv'
<1> USE DEF Delivery!State, Proved!State, Delivery!SameContent, Proved!SameContent,
            Delivery!DeliveryKnown, Proved!DeliveryKnown, Delivery!Owning,
            Proved!Owning
<1>1. Delivery!TypeOK' <=> Proved!TypeOK'
  BY DEF Delivery!TypeOK, Proved!TypeOK, Delivery!Row, Proved!Row, Delivery!States,
         Proved!States, Delivery!Places, Proved!Places, Delivery!Replies,
         Proved!Replies
<1>2. Delivery!OneOwner' <=> Proved!OneOwner'
  BY DEF Delivery!OneOwner, Proved!OneOwner
<1>3. \A s \in Calls : Delivery!BeforeWork(s)' <=> Proved!BeforeWork(s)'
  BY DEF Delivery!BeforeWork, Proved!BeforeWork
<1>4. \A s \in Calls : Delivery!OwnerKnows(s)' <=> Proved!OwnerKnows(s)'
  BY DEF Delivery!OwnerKnows, Proved!OwnerKnows
<1>5. \A s \in Calls : Delivery!CallsCounted(s)' <=> Proved!CallsCounted(s)'
  BY DEF Delivery!CallsCounted, Proved!CallsCounted
<1>6. Delivery!CallerOwns' <=> Proved!CallerOwns'
  BY DEF Delivery!CallerOwns, Proved!CallerOwns
<1>7. Delivery!SentSettled' <=> Proved!SentSettled'
  BY DEF Delivery!SentSettled, Proved!SentSettled, Delivery!Settled, Proved!Settled
<1>8. Delivery!RepliesSettled' <=> Proved!RepliesSettled'
  BY DEF Delivery!RepliesSettled, Proved!RepliesSettled, Delivery!Settled,
         Proved!Settled
<1>9. QED
  BY <1>1, <1>2, <1>3, <1>4, <1>5, <1>6, <1>7, <1>8 DEF Delivery!IInv, Proved!IInv

\* The delivery service keeps its invariant, whatever handler it runs.
LEMMA DeliveryInductive ==
  ASSUME Delivery!IInv, [Delivery!Next]_Delivery!vars
  PROVE  Delivery!IInv'
<1>1. Proved!IInv /\ [Proved!Next]_Proved!vars => Proved!IInv'
  BY DeliveryAssumptions, Proved!Inductive DEF Proved!Inductive, Proved!NoneAssumption,
     Proved!MaxCallsAssumption
<1>2. QED
  BY <1>1, SameNext, SameInvariant, SameInvariantNext

LEMMA DeliveryInitial == Delivery!Init => Delivery!IInv
<1>1. Proved!Init => Proved!IInv
  BY DeliveryAssumptions, Proved!Initial DEF Proved!Initial, Proved!NoneAssumption,
     Proved!MaxCallsAssumption
<1>2. QED
  BY <1>1, SameInit, SameInvariant


\* Steps.

Starts(c) == \E b \in Bodies : Begin(c, b)
Moves(c) == StorageDenied(c) \/ ClientStep(c)

LEMMA Cases ==
  [Next]_vars =>
    \/ \E c \in Calls : Starts(c)
    \/ \E c \in Calls : Moves(c)
    \/ Reload \/ Backend \/ UNCHANGED vars
BY DEF Next, Starts, Moves

LEMMA Types ==
  ASSUME TypeOK
  PROVE  /\ call \in [Calls -> Call] /\ storage \in [Bodies -> Keys \cup {None}]
         /\ overtaken \subseteq Calls
         /\ pc \in [Calls -> Delivery!Places] /\ key \in [Calls -> Keys \cup {None}]
         /\ content \in [Calls -> (Bodies \X Users) \cup {None}]
         /\ reply \in [Calls -> Delivery!Replies] /\ attempt \in [Keys -> Delivery!Row]
BY DEF TypeOK, Delivery!TypeOK, Call, Places

LEMMA Names == None \notin Calls /\ None \notin Keys /\ None \notin Bodies
BY ClientAssumption

\* The service takes one of its own steps, or none.
LEMMA DeliverySteps == [Next]_vars => [Delivery!Next]_Delivery!vars
<1> SUFFICES ASSUME [Next]_vars PROVE [Delivery!Next]_Delivery!vars
  OBVIOUS
<1>1. UNCHANGED delivery => UNCHANGED Delivery!vars
  BY DEF delivery, Delivery!vars
<1>2. ASSUME NEW c \in Calls, Starts(c) PROVE UNCHANGED delivery
  BY <1>2 DEF Starts, Begin
<1>3. ASSUME NEW c \in Calls, Moves(c) PROVE Delivery!Arrive(c) \/ UNCHANGED delivery
  BY <1>3 DEF Moves, ClientStep, StorageDenied, Admitted, Unauthorized, Refreshed,
              ToldFailure, ToldSuccess, FetchFails
<1>4. Reload \/ UNCHANGED vars => UNCHANGED delivery
  BY DEF Reload, vars
<1>5. Backend => Delivery!Next
  BY DEF Backend, Delivery!Next
<1>6. QED
  BY <1>1, <1>2, <1>3, <1>4, <1>5, Cases DEF Delivery!Next

\* A call that goes on keeps its key and its body.
LEMMA Moved ==
  ASSUME TypeOK, NEW c \in Calls, NEW where \in Places, Goto(c, where)
  PROVE  /\ call' \in [Calls -> Call]
         /\ call'[c].at = where /\ call'[c].user = call[c].user
         /\ call'[c].key = call[c].key /\ call'[c].body = call[c].body
         /\ \A d \in Calls \ {c} : call'[d] = call[d]
<1>1. call \in [Calls -> Call]
  BY Types
<1>2. call' = [call EXCEPT ![c] = [call[c] EXCEPT !.at = where]] /\ call[c] \in Call
  BY <1>1 DEF Goto
<1>3. /\ [call[c] EXCEPT !.at = where] \in Call
      /\ [call[c] EXCEPT !.at = where].at = where
      /\ [call[c] EXCEPT !.at = where].key = call[c].key
      /\ [call[c] EXCEPT !.at = where].user = call[c].user
      /\ [call[c] EXCEPT !.at = where].body = call[c].body
  BY <1>2 DEF Call
<1>4. QED
  BY <1>1, <1>2, <1>3

\* What becomes of the storage and of the calls a success overtakes.
StorageKept == storage' = storage /\ overtaken' = overtaken
StorageResolved(c) ==
  /\ call[c].at = "sent" /\ call'[c].at = "ok"
  /\ storage' \in {storage, [storage EXCEPT ![call[c].body] = None]}
  /\ overtaken' = overtaken \cup {d \in Calls : call[d].body = call[c].body}

LEMMA MoveFrame ==
  ASSUME TypeOK, NEW c \in Calls, Moves(c)
  PROVE  /\ call' \in [Calls -> Call]
         /\ \A d \in Calls \ {c} : call'[d] = call[d]
         /\ call'[c].key = call[c].key /\ call'[c].body = call[c].body
         /\ call'[c].at \in Places \ {"idle"} /\ call[c].at # "ok"
         /\ call'[c].at \in Waiting \cup {"ok"} => call[c].at \in Waiting
         /\ call'[c].user # call[c].user => call[c].at = "refresh"
         /\ \/ call'[c].at \in {"refresh", "reposted"} /\ call[c].at \in {"posted", "refresh"}
            \/ call'[c].at \in {"failed", "ok"}
            \/ call'[c].at = "sent" /\ Admitted(c)
         /\ Admitted(c) \/ UNCHANGED delivery
         /\ StorageKept \/ StorageResolved(c)
<1> USE DEF At, Waiting, Ended, Places
<1>a. call \in [Calls -> Call]
  BY Types
<1>1. CASE Refreshed(c)
  <2>1. PICK u \in Users :
          call' = [call EXCEPT ![c] = [call[c] EXCEPT !.at = "reposted", !.user = u]]
    BY <1>1, <1>a DEF Refreshed
  <2>2. /\ [call[c] EXCEPT !.at = "reposted", !.user = u] \in Call
        /\ [call[c] EXCEPT !.at = "reposted", !.user = u].at = "reposted"
        /\ [call[c] EXCEPT !.at = "reposted", !.user = u].key = call[c].key
        /\ [call[c] EXCEPT !.at = "reposted", !.user = u].body = call[c].body
    BY <1>a DEF Call
  <2>3. /\ call' \in [Calls -> Call] /\ (\A d \in Calls \ {c} : call'[d] = call[d])
        /\ call'[c].at = "reposted" /\ call'[c].key = call[c].key
        /\ call'[c].body = call[c].body
    BY <1>a, <2>1, <2>2
  <2>4. call[c].at = "refresh" /\ UNCHANGED delivery /\ StorageKept
    BY <1>1 DEF Refreshed, StorageKept
  <2>5. QED
    BY <2>3, <2>4
<1>2. CASE StorageDenied(c)
  <2>1. call[c].at = "idle" /\ Goto(c, "failed") /\ UNCHANGED delivery /\ StorageKept
    BY <1>2 DEF StorageDenied, StorageKept
  <2>2. QED
    BY <2>1, Moved
<1>3. CASE Unauthorized(c)
  <2>1. /\ \/ call[c].at = "posted" /\ Goto(c, "refresh")
           \/ call[c].at = "reposted" /\ Goto(c, "failed")
        /\ UNCHANGED delivery /\ StorageKept
    BY <1>3 DEF Unauthorized, StorageKept
  <2>2. QED
    BY <2>1, Moved
<1>4. CASE Admitted(c)
  <2>1. call[c].at \in {"posted", "reposted"} /\ Goto(c, "sent") /\ StorageKept
    BY <1>4 DEF Admitted, StorageKept
  <2>2. QED
    BY <1>4, <2>1, Moved
<1>5. CASE ToldFailure(c) \/ FetchFails(c)
  <2>1. /\ call[c].at \in Waiting /\ Goto(c, "failed")
        /\ UNCHANGED delivery /\ StorageKept
    BY <1>5 DEF ToldFailure, FetchFails, StorageKept
  <2>2. QED
    BY <2>1, Moved
<1>6. CASE ToldSuccess(c)
  <2>1. call[c].at = "sent" /\ UNCHANGED delivery
    BY <1>6 DEF ToldSuccess
  <2>2. CASE ReceiptInvalid(c)
    <3>1. Goto(c, "failed") /\ StorageKept
      BY <2>2 DEF ReceiptInvalid, StorageKept
    <3>2. QED
      BY <2>1, <3>1, Moved
  <2>3. CASE Resolved(c)
    <3>1. /\ Goto(c, "ok")
          /\ storage' \in {storage, [storage EXCEPT ![call[c].body] = None]}
          /\ overtaken' = overtaken \cup {d \in Calls : call[d].body = call[c].body}
      BY <2>3 DEF Resolved
    <3>2. call'[c].at = "ok"
      BY <3>1, Moved
    <3>3. StorageResolved(c)
      BY <2>1, <3>1, <3>2 DEF StorageResolved
    <3>4. QED
      BY <2>1, <3>1, <3>3, Moved
  <2>4. QED
    BY <1>6, <2>2, <2>3 DEF ToldSuccess
<1>7. QED
  BY <1>1, <1>2, <1>3, <1>4, <1>5, <1>6 DEF Moves, ClientStep

\* A reload ends the calls that wait, and they keep key and body.
LEMMA ReloadFrame ==
  ASSUME TypeOK, Reload
  PROVE  /\ call' \in [Calls -> Call] /\ UNCHANGED delivery /\ StorageKept
         /\ \A c \in Calls :
              /\ call'[c].key = call[c].key /\ call'[c].body = call[c].body
              /\ call'[c].user = call[c].user
              /\ \/ call'[c] = call[c]
                 \/ call'[c].at = "failed" /\ call[c].at \in Waiting
<1>1. call \in [Calls -> Call]
  BY Types
<1>2. \A c \in Calls : /\ [call[c] EXCEPT !.at = "failed"] \in Call
                       /\ [call[c] EXCEPT !.at = "failed"].at = "failed"
                       /\ [call[c] EXCEPT !.at = "failed"].key = call[c].key
                       /\ [call[c] EXCEPT !.at = "failed"].user = call[c].user
                       /\ [call[c] EXCEPT !.at = "failed"].body = call[c].body
  BY <1>1 DEF Call, Places, Ended
<1>3. /\ call' = [c \in Calls |-> IF At(c, Waiting)
                                  THEN [call[c] EXCEPT !.at = "failed"] ELSE call[c]]
      /\ UNCHANGED delivery /\ StorageKept
  BY DEF Reload, StorageKept
<1>4. QED
  BY <1>1, <1>2, <1>3 DEF At

\* A call takes the key that is stored for its body, or stores a fresh one.
LEMMA StartFrame ==
  ASSUME TypeOK, NEW c \in Calls, Starts(c)
  PROVE  /\ call[c].at = "idle" /\ call' \in [Calls -> Call]
         /\ UNCHANGED delivery /\ overtaken' = overtaken
         /\ \A d \in Calls \ {c} : call'[d] = call[d]
         /\ \E b \in Bodies, k \in Keys :
              /\ call'[c].at = "posted" /\ call'[c].key = k /\ call'[c].body = b
              /\ storage' = [storage EXCEPT ![b] = k]
              /\ storage[b] = k \/ (storage[b] = None /\ Fresh(k))
<1>1. call \in [Calls -> Call] /\ storage \in [Bodies -> Keys \cup {None}]
  BY Types
<1>2. PICK b \in Bodies : Begin(c, b)
  BY DEF Starts
<1>3. PICK k \in Keys, u \in Users :
        /\ KeyFor(b, k) /\ storage' = [storage EXCEPT ![b] = k]
        /\ call' = [call EXCEPT ![c] = [at |-> "posted", body |-> b, key |-> k, user |-> u]]
  BY <1>2 DEF Begin
<1>4. [at |-> "posted", body |-> b, key |-> k, user |-> u] \in Call
  BY DEF Call, Places, Waiting
<1>5. call' \in [Calls -> Call] /\ (\A d \in Calls \ {c} : call'[d] = call[d])
  BY <1>1, <1>3, <1>4
<1>6. call'[c].at = "posted" /\ call'[c].key = k /\ call'[c].body = b
  BY <1>1, <1>3
<1>7. storage[b] = k \/ (storage[b] = None /\ Fresh(k))
  BY <1>3 DEF KeyFor
<1>8. call[c].at = "idle" /\ UNCHANGED delivery /\ overtaken' = overtaken
  BY <1>2 DEF Begin, At
<1>9. QED
  BY <1>3, <1>5, <1>6, <1>7, <1>8

\* The request that passes the guard brings the key and the content of its call.
LEMMA AdmittedFrame ==
  ASSUME TypeOK, NEW c \in Calls, Admitted(c)
  PROVE  /\ pc[c] = "idle" /\ pc'[c] = "create"
         /\ key'[c] = call[c].key /\ content'[c] = <<call[c].body, call[c].user>>
         /\ \A d \in Calls \ {c} :
              pc'[d] = pc[d] /\ key'[d] = key[d] /\ content'[d] = content[d]
         /\ UNCHANGED <<attempt, reply>>
         /\ call[c].at \in {"posted", "reposted"}
<1>1. /\ pc \in [Calls -> Delivery!Places] /\ key \in [Calls -> Keys \cup {None}]
      /\ content \in [Calls -> (Bodies \X Users) \cup {None}]
  BY Types
<1>2. QED
  BY <1>1 DEF Admitted, Delivery!Arrive, Delivery!Goto, At

\* The service never changes a request, nor lets one in by itself.
LEMMA BackendFrame ==
  ASSUME TypeOK, Backend
  PROVE  /\ UNCHANGED <<storage, call, overtaken, key, content>>
         /\ \A c \in Calls : /\ pc'[c] = "idle" <=> pc[c] = "idle"
                             /\ pc[c] = "done" => pc'[c] = "done"
<1>1. pc \in [Calls -> Delivery!Places]
  BY Types
<1>2. UNCHANGED <<storage, call, overtaken>>
  BY DEF Backend, tab
<1>3. ASSUME NEW c \in Calls, Delivery!Step(c)
      PROVE  /\ UNCHANGED <<key, content>>
             /\ \A d \in Calls : /\ pc'[d] = "idle" <=> pc[d] = "idle"
                                 /\ pc[d] = "done" => pc'[d] = "done"
  <2> USE DEF Delivery!Goto, Delivery!Answer, Delivery!request
  <2>1. CASE Delivery!CreateAttempt(c) \/ Delivery!LookUpAttempt(c) \/ Delivery!ReclaimAttempt(c)
    BY <1>1, <2>1
       DEF Delivery!CreateAttempt, Delivery!LookUpAttempt, Delivery!ReclaimAttempt
  <2>2. CASE \/ Delivery!BeforeSend(c) \/ Delivery!ClaimSending(c) \/ Delivery!CallSmtp(c)
             \/ Delivery!SmtpResolves(c) \/ Delivery!SmtpThrows(c)
    BY <1>1, <2>2
       DEF Delivery!BeforeSend, Delivery!ClaimSending, Delivery!CallSmtp,
           Delivery!SmtpResolves, Delivery!SmtpThrows
  <2>3. CASE \/ Delivery!WorkReturns(c) \/ Delivery!WorkThrows(c)
             \/ Delivery!RecordSent(c) \/ Delivery!RecordFailure(c)
    BY <1>1, <2>3
       DEF Delivery!WorkReturns, Delivery!WorkThrows, Delivery!RecordSent,
           Delivery!RecordFailure
  <2>4. QED
    BY <1>3, <2>1, <2>2, <2>3 DEF Delivery!Step
<1>4. ASSUME NEW c \in Calls, Delivery!SmtpDecides(c) PROVE UNCHANGED <<pc, key, content>>
  BY <1>4 DEF Delivery!SmtpDecides, Delivery!request
<1>5. ASSUME Delivery!Crash
      PROVE  /\ UNCHANGED <<key, content>>
             /\ \A d \in Calls : /\ pc'[d] = "idle" <=> pc[d] = "idle"
                                 /\ pc[d] = "done" => pc'[d] = "done"
  BY <1>1, <1>5 DEF Delivery!Crash, Delivery!request, Delivery!Live, Delivery!Owning
<1>6. QED
  BY <1>2, <1>3, <1>4, <1>5 DEF Backend

-----------------------------------------------------------------------------
\* Each conjunct in the next state.

LEMMA TypesNext ==
  ASSUME IInv, [Next]_vars
  PROVE  Delivery!IInv' /\ TypeOK'
<1>a. TypeOK /\ Delivery!IInv
  BY DEF IInv
<1>b. Delivery!IInv' /\ Delivery!TypeOK'
  BY <1>a, DeliverySteps, DeliveryInductive DEF Delivery!IInv
<1>c. /\ call \in [Calls -> Call] /\ storage \in [Bodies -> Keys \cup {None}]
      /\ overtaken \subseteq Calls
  BY <1>a, Types
<1> SUFFICES /\ call' \in [Calls -> Call] /\ storage' \in [Bodies -> Keys \cup {None}]
             /\ overtaken' \subseteq Calls
  BY <1>b DEF TypeOK, Call, Places
<1>1. CASE \E c \in Calls : Starts(c)
  BY <1>a, <1>c, <1>1, StartFrame
<1>2. CASE \E c \in Calls : Moves(c)
  BY <1>a, <1>c, <1>2, MoveFrame DEF StorageKept, StorageResolved
<1>3. CASE Reload
  BY <1>a, <1>c, <1>3, ReloadFrame DEF StorageKept
<1>4. CASE Backend
  BY <1>a, <1>c, <1>4, BackendFrame
<1>5. CASE UNCHANGED vars
  BY <1>c, <1>5 DEF vars, tab
<1>6. QED
  BY <1>1, <1>2, <1>3, <1>4, <1>5, Cases

LEMMA CallsNext ==
  ASSUME IInv, [Next]_vars, NEW d \in Calls
  PROVE  CallTaken(d)' /\ RequestOfCall(d)'
<1>a. TypeOK /\ CallTaken(d) /\ RequestOfCall(d)
  BY DEF IInv
<1>b. call[d] \in Call /\ d # None
  BY <1>a, Types, Names
<1> USE DEF CallTaken, RequestOfCall, Waiting, Ended, Places
<1>1. CASE \E c \in Calls : Starts(c)
  <2> PICK c \in Calls : Starts(c)
    BY <1>1
  <2>1. CASE c = d
    <3>1. /\ call'[d].at = "posted" /\ call'[d].key \in Keys /\ call'[d].body \in Bodies
          /\ call[d].at = "idle" /\ UNCHANGED <<pc, key, content>>
      BY <1>a, <2>1, StartFrame DEF delivery
    <3>2. QED
      BY <1>a, <3>1, Names
  <2>2. CASE c # d
    <3>1. call'[d] = call[d] /\ UNCHANGED <<pc, key, content>>
      BY <1>a, <2>2, StartFrame DEF delivery
    <3>2. QED
      BY <1>a, <3>1
  <2>3. QED
    BY <2>1, <2>2
<1>2. CASE \E c \in Calls : Moves(c)
  <2> PICK c \in Calls : Moves(c)
    BY <1>2
  <2>1. CASE c # d
    <3>1. call'[d] = call[d]
      BY <1>a, <2>1, MoveFrame
    <3>2. pc'[d] = pc[d] /\ key'[d] = key[d] /\ content'[d] = content[d]
      BY <1>a, <2>1, MoveFrame, AdmittedFrame DEF delivery
    <3>3. QED
      BY <1>a, <3>1, <3>2
  <2>2. CASE c = d
    <3>1. /\ call'[d].key = call[d].key /\ call'[d].body = call[d].body
          /\ call'[d].at \in Places \ {"idle"}
          /\ call'[d].at \in Waiting \cup {"ok"} => call[d].at \in Waiting
          /\ call'[d].user # call[d].user => call[d].at = "refresh"
          /\ \/ call'[d].at \in {"refresh", "reposted"} /\ call[d].at \in {"posted", "refresh"}
             \/ call'[d].at \in {"failed", "ok"}
             \/ call'[d].at = "sent" /\ Admitted(d)
          /\ Admitted(d) \/ UNCHANGED delivery
      BY <1>a, <2>2, MoveFrame
    <3>2. CallTaken(d)'
      BY <1>a, <3>1
    <3>3. CASE Admitted(d)
      <4>1. /\ pc'[d] = "create" /\ key'[d] = call[d].key
            /\ content'[d] = <<call[d].body, call[d].user>>
            /\ call[d].at \in {"posted", "reposted"}
        BY <1>a, <3>3, AdmittedFrame
      <4>2. call'[d].user = call[d].user /\ call[d].key \in Keys
        BY <1>a, <1>b, <3>1, <4>1 DEF Call
      <4>3. call'[d].at = "sent"
        BY <1>a, <1>b, <3>3, Types, Moved DEF Admitted
      <4>4. QED
        BY <3>1, <3>2, <4>1, <4>2, <4>3
    <3>4. CASE UNCHANGED delivery
      <4>1. UNCHANGED <<pc, key, content>>
        BY <3>4 DEF delivery
      <4>2. QED
        BY <1>a, <3>1, <3>2, <3>3, <4>1
    <3>5. QED
      BY <3>1, <3>3, <3>4
  <2>3. QED
    BY <2>1, <2>2
<1>3. CASE Reload
  <2>1. /\ call'[d].key = call[d].key /\ call'[d].body = call[d].body
        /\ call'[d].user = call[d].user /\ UNCHANGED <<pc, key, content>>
        /\ call'[d].at = call[d].at \/ call'[d].at = "failed"
    BY <1>a, <1>3, ReloadFrame DEF delivery
  <2>2. QED
    BY <1>a, <2>1
<1>4. CASE Backend
  <2>1. UNCHANGED <<call, key, content>> /\ (pc'[d] = "idle" <=> pc[d] = "idle")
    BY <1>a, <1>4, BackendFrame
  <2>2. QED
    BY <1>a, <2>1
<1>5. CASE UNCHANGED vars
  BY <1>a, <1>5 DEF vars, delivery, tab
<1>6. QED
  BY <1>1, <1>2, <1>3, <1>4, <1>5, Cases

\* But for a start, keys and bodies stay, a success stays told, and a key leaves
\* the storage by a success of its body only.
LEMMA Steady ==
  ASSUME TypeOK, [Next]_vars, ~\E c \in Calls : Starts(c)
  PROVE  /\ \A d \in Calls : /\ call'[d].key = call[d].key /\ call'[d].body = call[d].body
                             /\ call[d].at = "ok" => call'[d].at = "ok"
         /\ StorageKept \/ \E c \in Calls : StorageResolved(c)
<1>1. CASE \E c \in Calls : Moves(c)
  BY <1>1, MoveFrame
<1>2. CASE Reload
  BY <1>2, ReloadFrame DEF Waiting
<1>3. CASE Backend
  BY <1>3, BackendFrame DEF StorageKept
<1>4. CASE UNCHANGED vars
  BY <1>4 DEF vars, tab, StorageKept
<1>5. QED
  BY <1>1, <1>2, <1>3, <1>4, Cases

\* What a start adds: one key of one body, stored before or never taken.
LEMMA Started ==
  ASSUME IInv, NEW c \in Calls, Starts(c)
  PROVE  /\ call[c].key = None /\ overtaken' = overtaken
         /\ \A d \in Calls \ {c} : call'[d] = call[d]
         /\ \E b \in Bodies, k \in Keys :
              /\ call'[c].key = k /\ call'[c].body = b /\ call'[c].at = "posted"
              /\ storage' = [storage EXCEPT ![b] = k]
              /\ \/ /\ storage[b] = k
                    /\ \E d \in Calls \ {c} : call[d].key = k /\ call[d].body = b
                 \/ storage[b] = None /\ (\A d \in Calls : call[d].key # k)
<1>1. TypeOK /\ CallTaken(c) /\ StoredIsTaken
  BY DEF IInv
<1>2. call[c].at = "idle" /\ call[c].key = None
  BY <1>1, StartFrame DEF CallTaken
<1>3. PICK b \in Bodies, k \in Keys :
        /\ call'[c].at = "posted" /\ call'[c].key = k /\ call'[c].body = b
        /\ storage' = [storage EXCEPT ![b] = k]
        /\ storage[b] = k \/ (storage[b] = None /\ Fresh(k))
  BY <1>1, StartFrame
<1>4. storage[b] = k => \E d \in Calls \ {c} : call[d].key = k /\ call[d].body = b
  BY <1>1, <1>2, Names DEF StoredIsTaken
<1>5. overtaken' = overtaken /\ (\A d \in Calls \ {c} : call'[d] = call[d])
  BY <1>1, StartFrame
<1>6. QED
  BY <1>2, <1>3, <1>4, <1>5 DEF Fresh

LEMMA KeyOfOneBodyNext == IInv /\ [Next]_vars => KeyOfOneBody'
<1> SUFFICES ASSUME IInv, [Next]_vars PROVE KeyOfOneBody'
  OBVIOUS
<1>a. TypeOK /\ KeyOfOneBody
  BY DEF IInv
<1>1. CASE \E c \in Calls : Starts(c)
  <2> PICK c \in Calls : Starts(c)
    BY <1>1
  <2>1. \A d \in Calls \ {c} : call'[d] = call[d]
    BY Started
  <2>2. \A d \in Calls \ {c} : call'[c].key = call[d].key => call'[c].body = call[d].body
    BY <1>a, Started, Names DEF KeyOfOneBody
  <2>3. QED
    BY <1>a, <2>1, <2>2 DEF KeyOfOneBody
<1>2. CASE ~\E c \in Calls : Starts(c)
  BY <1>a, <1>2, Steady DEF KeyOfOneBody
<1>3. QED
  BY <1>1, <1>2

LEMMA StoredIsTakenNext == IInv /\ [Next]_vars => StoredIsTaken'
<1> SUFFICES ASSUME IInv, [Next]_vars, NEW b \in Bodies, storage'[b] # None
             PROVE  \E d \in Calls : call'[d].key = storage'[b] /\ call'[d].body = b
  BY DEF StoredIsTaken
<1>a. TypeOK /\ StoredIsTaken /\ storage \in [Bodies -> Keys \cup {None}]
  BY Types DEF IInv
<1>1. CASE \E c \in Calls : Starts(c)
  <2> PICK c \in Calls : Starts(c)
    BY <1>1
  <2>1. call[c].key = None /\ (\A d \in Calls \ {c} : call'[d] = call[d])
    BY Started
  <2>2. PICK bb \in Bodies, k \in Keys :
          /\ call'[c].key = k /\ call'[c].body = bb
          /\ storage' = [storage EXCEPT ![bb] = k]
    BY Started
  <2>3. CASE b = bb
    BY <1>a, <2>2, <2>3
  <2>4. CASE b # bb
    <3>1. storage'[b] = storage[b]
      BY <1>a, <2>2, <2>4
    <3>2. QED
      BY <1>a, <2>1, <3>1 DEF StoredIsTaken
  <2>5. QED
    BY <2>3, <2>4
<1>2. CASE ~\E c \in Calls : Starts(c)
  <2>1. storage'[b] = storage[b]
    BY <1>a, <1>2, Steady DEF StorageKept, StorageResolved
  <2>2. QED
    BY <1>a, <1>2, <2>1, Steady DEF StoredIsTaken
<1>3. QED
  BY <1>1, <1>2

LEMMA KeptNext == ASSUME IInv, [Next]_vars, NEW d \in Calls PROVE KeptOrOvertaken(d)'
<1>a. TypeOK /\ CallTaken(d) /\ KeptOrOvertaken(d) /\ storage \in [Bodies -> Keys \cup {None}]
  BY Types DEF IInv
<1>1. CASE \E c \in Calls : Starts(c)
  <2> PICK c \in Calls : Starts(c)
    BY <1>1
  <2>1. overtaken' = overtaken /\ (d # c => call'[d] = call[d])
    BY Started
  <2>2. PICK b \in Bodies, k \in Keys :
          /\ call'[c].key = k /\ call'[c].body = b
          /\ storage' = [storage EXCEPT ![b] = k]
          /\ storage[b] = k \/ storage[b] = None
    BY Started
  <2>3. CASE d = c
    BY <1>a, <2>2, <2>3 DEF KeptOrOvertaken
  <2>4. CASE d # c
    BY <1>a, <2>1, <2>2, <2>4 DEF KeptOrOvertaken, CallTaken
  <2>5. QED
    BY <2>3, <2>4
<1>2. CASE ~\E c \in Calls : Starts(c)
  <2>1. call'[d].key = call[d].key /\ call'[d].body = call[d].body
    BY <1>a, <1>2, Steady
  <2>2. CASE StorageKept
    BY <1>a, <2>1, <2>2 DEF StorageKept, KeptOrOvertaken
  <2>3. CASE \E c \in Calls : StorageResolved(c)
    <3> PICK c \in Calls : StorageResolved(c)
      BY <2>3
    <3>1. CASE call[d].body = call[c].body
      BY <2>1, <3>1 DEF StorageResolved, KeptOrOvertaken
    <3>2. CASE call[d].body # call[c].body
      <4>1. d \in overtaken => d \in overtaken'
        BY DEF StorageResolved
      <4>2. call[d].body \in Bodies => storage'[call[d].body] = storage[call[d].body]
        BY <1>a, <3>2 DEF StorageResolved
      <4>3. QED
        BY <1>a, <2>1, <4>1, <4>2 DEF KeptOrOvertaken, CallTaken
    <3>3. QED
      BY <3>1, <3>2
  <2>4. QED
    BY <1>a, <1>2, <2>2, <2>3, Steady
<1>3. QED
  BY <1>1, <1>2

\* There are finitely many calls, and so keys taken and successes told.
KeyTakers(b) == {d \in Calls : call[d].body = b /\ call[d].key # None}

LEMMA Finite ==
  ASSUME NEW b
  PROVE  /\ IsFiniteSet(KeysOf(b)) /\ Cardinality(KeysOf(b)) \in Nat
         /\ IsFiniteSet(Told(b)) /\ Cardinality(Told(b)) \in Nat
         /\ IsFiniteSet(Told(b)') /\ Cardinality(Told(b)') \in Nat
<1>1. IsFiniteSet(Calls)
  BY ClientAssumption
<1>2. IsFiniteSet(KeyTakers(b))
  BY <1>1, FS_Subset DEF KeyTakers
<1>3. [d \in KeyTakers(b) |-> call[d].key] \in Surjection(KeyTakers(b), KeysOf(b))
  BY DEF Surjection, KeyTakers, KeysOf
<1>4. IsFiniteSet(KeysOf(b))
  BY <1>2, <1>3, FS_Surjection
<1>5. Told(b) \subseteq Calls /\ Told(b)' \subseteq Calls
  BY DEF Told
<1>6. IsFiniteSet(Told(b)) /\ IsFiniteSet(Told(b)')
  BY <1>1, <1>5, FS_Subset
<1>7. QED
  BY <1>4, <1>6, FS_CardinalityType

LEMMA KeysCountedNext ==
  ASSUME IInv, [Next]_vars, NEW b \in Bodies
  PROVE  KeysCounted(b)'
<1>a. TypeOK /\ KeysCounted(b) /\ storage \in [Bodies -> Keys \cup {None}]
  BY Types DEF IInv
<1>b. /\ IsFiniteSet(KeysOf(b)) /\ Cardinality(KeysOf(b)) \in Nat
      /\ IsFiniteSet(Told(b)) /\ Cardinality(Told(b)) \in Nat
      /\ IsFiniteSet(Told(b)') /\ Cardinality(Told(b)') \in Nat
  BY Finite
<1>1. CASE \E c \in Calls : Starts(c)
  <2> PICK c \in Calls : Starts(c)
    BY <1>1
  <2>1. /\ call[c].key = None /\ call[c].at = "idle"
        /\ \A d \in Calls \ {c} : call'[d] = call[d]
    BY <1>a, Started, StartFrame
  <2>2. PICK bb \in Bodies, k \in Keys :
          /\ call'[c].key = k /\ call'[c].body = bb /\ call'[c].at = "posted"
          /\ storage' = [storage EXCEPT ![bb] = k]
          /\ \/ /\ storage[bb] = k
                /\ \E d \in Calls \ {c} : call[d].key = k /\ call[d].body = bb
             \/ storage[bb] = None /\ (\A d \in Calls : call[d].key # k)
    BY Started
  <2>3. Told(b)' = Told(b)
    BY <2>1, <2>2 DEF Told, At
  <2>4. CASE b # bb
    <3>1. KeysOf(b)' = KeysOf(b)
      BY <2>1, <2>2, <2>4 DEF KeysOf
    <3>2. storage'[b] = storage[b]
      BY <1>a, <2>2, <2>4
    <3>3. QED
      BY <1>a, <2>3, <3>1, <3>2 DEF KeysCounted
  <2>5. CASE b = bb
    <3>1. KeysOf(b)' = KeysOf(b) \cup {k}
      BY <2>1, <2>2, <2>5, Names DEF KeysOf
    <3>2. storage'[b] = k /\ k # None
      BY <1>a, <2>2, <2>5, Names
    <3>3. CASE storage[b] = k /\ (\E d \in Calls \ {c} : call[d].key = k /\ call[d].body = b)
      <4>1. k \in KeysOf(b)
        BY <3>2, <3>3 DEF KeysOf
      <4>2. KeysOf(b)' = KeysOf(b)
        BY <3>1, <4>1
      <4>3. QED
        BY <1>a, <2>3, <3>2, <3>3, <4>2 DEF KeysCounted
    <3>4. CASE storage[b] = None
      <4>1. Cardinality(KeysOf(b) \cup {k}) <= Cardinality(KeysOf(b)) + 1
            /\ Cardinality(KeysOf(b) \cup {k}) \in Nat
        <5>1. /\ IsFiniteSet(KeysOf(b) \cup {k})
              /\ Cardinality(KeysOf(b) \cup {k}) =
                   IF k \in KeysOf(b) THEN Cardinality(KeysOf(b))
                                      ELSE Cardinality(KeysOf(b)) + 1
          BY <1>b, FS_AddElement
        <5>2. QED
          BY <1>b, <5>1
      <4>2. Cardinality(KeysOf(b)) <= Cardinality(Told(b))
        BY <1>a, <1>b, <3>4 DEF KeysCounted
      <4>3. Cardinality(KeysOf(b)') <= Cardinality(Told(b)') + 1
        BY <1>b, <2>3, <3>1, <4>1, <4>2
      <4>4. QED
        BY <3>2, <4>3 DEF KeysCounted
    <3>5. QED
      BY <2>2, <2>5, <3>3, <3>4
  <2>6. QED
    BY <2>4, <2>5
<1>2. CASE ~\E c \in Calls : Starts(c)
  <2>1. \A d \in Calls : /\ call'[d].key = call[d].key /\ call'[d].body = call[d].body
                         /\ call[d].at = "ok" => call'[d].at = "ok"
    BY <1>a, <1>2, Steady
  <2>2. KeysOf(b)' = KeysOf(b) /\ Told(b) \subseteq Told(b)'
    BY <2>1 DEF KeysOf, Told, At
  <2>3. Cardinality(Told(b)) <= Cardinality(Told(b)')
    BY <1>b, <2>2, FS_Subset
  <2>4. CASE storage'[b] = storage[b]
    <3>1. Cardinality(KeysOf(b)') <= Cardinality(Told(b)') + IF storage[b] # None THEN 1 ELSE 0
      BY <1>a, <1>b, <2>2, <2>3 DEF KeysCounted
    <3>2. QED
      BY <2>4, <3>1 DEF KeysCounted
  <2>5. CASE storage'[b] # storage[b]
    <3>1. PICK c \in Calls : StorageResolved(c) /\ call[c].body = b
      BY <1>a, <1>2, <2>5, Steady DEF StorageKept, StorageResolved
    <3>2. c \notin Told(b) /\ c \in Told(b)'
      BY <2>1, <3>1 DEF StorageResolved, Told, At
    <3>3. Cardinality(Told(b) \cup {c}) = Cardinality(Told(b)) + 1
      BY <1>b, <3>2, FS_AddElement
    <3>4. Cardinality(Told(b) \cup {c}) <= Cardinality(Told(b)')
      BY <1>b, <2>2, <3>2, FS_Subset
    <3>5. Cardinality(KeysOf(b)) <= Cardinality(Told(b)) + 1
      BY <1>a, <1>b DEF KeysCounted
    <3>6. Cardinality(KeysOf(b)') <= Cardinality(Told(b)')
      BY <1>b, <2>2, <3>3, <3>4, <3>5
    <3>7. QED
      BY <1>b, <2>2, <3>6 DEF KeysCounted
  <2>6. QED
    BY <2>4, <2>5
<1>3. QED
  BY <1>1, <1>2

-----------------------------------------------------------------------------
\* What the service answers.

\* The row of a key keeps its hash once it is there, and a new one is of the
\* content of a request with that key.
HashKept(k) ==
  attempt'[k].state # "ABSENT" =>
    \/ attempt[k].state # "ABSENT" /\ attempt'[k].hash = attempt[k].hash
    \/ \E c \in Calls : pc[c] = "create" /\ key[c] = k /\ attempt'[k].hash = content[c]
RowStays(k) == attempt[k].state # "ABSENT" => attempt'[k].state # "ABSENT"

LEMMA RowsKept ==
  ASSUME IInv, NEW c \in Calls, Delivery!Step(c), NEW k \in Keys
  PROVE  HashKept(k) /\ RowStays(k)
<1>a. attempt \in [Keys -> Delivery!Row] /\ attempt[k] \in Delivery!Row
  BY Types DEF IInv
<1> USE DEF HashKept, RowStays, Delivery!State
<1>1. CASE UNCHANGED attempt
  BY <1>1
<1>2. \A state \in Delivery!States :
        /\ [attempt[k] EXCEPT !.state = state].state = state
        /\ [attempt[k] EXCEPT !.state = state].hash = attempt[k].hash
  BY <1>a DEF Delivery!Row
<1>3. ASSUME NEW state \in Delivery!States \ {"ABSENT"}, NEW o,
             Delivery!SetState(c, o, state), Delivery!State(c) # "ABSENT"
      PROVE  HashKept(k) /\ RowStays(k)
  <2>1. \/ attempt'[k] = attempt[k]
        \/ k = key[c] /\ attempt'[k] = [attempt[k] EXCEPT !.state = state]
    BY <1>a, <1>3 DEF Delivery!SetState
  <2>2. QED
    BY <1>2, <1>3, <2>1
<1>4. CASE Delivery!CreateAttempt(c)
  <2>1. \/ attempt'[k] = attempt[k]
        \/ /\ attempt'[k] = [state |-> "PREPARING", hash |-> content[c], response |-> None]
           /\ k = key[c] /\ pc[c] = "create"
    BY <1>a, <1>4 DEF Delivery!CreateAttempt
  <2>2. QED
    BY <2>1
<1>5. CASE Delivery!ReclaimAttempt(c)
  BY <1>1, <1>3, <1>5 DEF Delivery!ReclaimAttempt, Delivery!ReclaimMatches,
                          Delivery!Retryable, Delivery!States
<1>6. CASE Delivery!ClaimSending(c)
  BY <1>1, <1>3, <1>6 DEF Delivery!ClaimSending, Delivery!States
<1>b. pc[c] \in {"finish", "record"} => Delivery!State(c) # "ABSENT"
  BY DEF IInv, Delivery!IInv, Delivery!OwnerKnows, Delivery!Owning
<1>7. CASE Delivery!RecordFailure(c)
  BY <1>b, <1>3, <1>7 DEF Delivery!RecordFailure, Delivery!FailureState, Delivery!States
<1>10. CASE Delivery!RecordSent(c)
  <2>1. /\ pc[c] = "finish"
        /\ \/ attempt'[k] = attempt[k]
           \/ /\ k = key[c]
              /\ attempt'[k] = [attempt[k] EXCEPT !.state = "SENT", !.response = c]
    BY <1>a, <1>10 DEF Delivery!RecordSent
  <2>2. /\ [attempt[k] EXCEPT !.state = "SENT", !.response = c].state = "SENT"
        /\ [attempt[k] EXCEPT !.state = "SENT", !.response = c].hash = attempt[k].hash
    BY <1>a DEF Delivery!Row
  <2>3. QED
    BY <1>b, <2>1, <2>2
<1>8. CASE \/ Delivery!LookUpAttempt(c) \/ Delivery!BeforeSend(c) \/ Delivery!CallSmtp(c)
           \/ Delivery!SmtpResolves(c) \/ Delivery!SmtpThrows(c)
           \/ Delivery!WorkReturns(c) \/ Delivery!WorkThrows(c)
  BY <1>1, <1>8 DEF Delivery!LookUpAttempt, Delivery!BeforeSend, Delivery!CallSmtp,
                    Delivery!SmtpResolves, Delivery!SmtpThrows, Delivery!WorkReturns,
                    Delivery!WorkThrows
<1>9. QED
  BY <1>4, <1>5, <1>6, <1>7, <1>8, <1>10 DEF Delivery!Step

\* How a request comes to look up the row of its key, and to be told conflict.
LookupReached(c) ==
  pc'[c] = "lookup" =>
    \/ pc[c] = "lookup"
    \/ pc[c] = "create" /\ Delivery!State(c) # "ABSENT" /\ attempt' = attempt
ConflictFound(c) ==
  reply'[c] = "conflict" =>
    \/ reply[c] = "conflict"
    \/ pc[c] = "lookup" /\ ~Delivery!SameContent(c) /\ pc'[c] = "done"

LEMMA Answers ==
  ASSUME TypeOK, NEW c \in Calls, Delivery!Step(c), NEW d \in Calls
  PROVE  LookupReached(d) /\ ConflictFound(d)
<1>a. pc \in [Calls -> Delivery!Places] /\ reply \in [Calls -> Delivery!Replies]
  BY Types
<1> USE DEF LookupReached, ConflictFound, Delivery!Goto, Delivery!Answer
<1>1. CASE Delivery!CreateAttempt(c)
  BY <1>a, <1>1 DEF Delivery!CreateAttempt
<1>2. CASE Delivery!LookUpAttempt(c)
  BY <1>a, <1>2 DEF Delivery!LookUpAttempt
<1>3. CASE Delivery!ReclaimAttempt(c)
  BY <1>a, <1>3 DEF Delivery!ReclaimAttempt
<1>4. CASE \/ Delivery!BeforeSend(c) \/ Delivery!ClaimSending(c) \/ Delivery!CallSmtp(c)
           \/ Delivery!SmtpResolves(c) \/ Delivery!SmtpThrows(c)
  BY <1>a, <1>4
     DEF Delivery!BeforeSend, Delivery!ClaimSending, Delivery!CallSmtp,
         Delivery!SmtpResolves, Delivery!SmtpThrows
<1>5. CASE \/ Delivery!WorkReturns(c) \/ Delivery!WorkThrows(c)
           \/ Delivery!RecordSent(c) \/ Delivery!RecordFailure(c)
  BY <1>a, <1>5
     DEF Delivery!WorkReturns, Delivery!WorkThrows, Delivery!RecordSent,
         Delivery!RecordFailure
<1>6. QED
  BY <1>1, <1>2, <1>3, <1>4, <1>5 DEF Delivery!Step

\* A request that has come in stays what it is, and one that was answered stays
\* answered.
LEMMA RequestsStay ==
  ASSUME IInv, [Next]_vars, NEW d \in Calls, pc[d] # "idle"
  PROVE  /\ pc'[d] # "idle" /\ key'[d] = key[d] /\ content'[d] = content[d]
         /\ pc[d] = "done" => pc'[d] = "done"
<1>a. TypeOK
  BY DEF IInv
<1>1. CASE \E c \in Calls : Starts(c)
  BY <1>a, <1>1, StartFrame DEF delivery
<1>2. CASE \E c \in Calls : Moves(c)
  <2> PICK c \in Calls : Moves(c)
    BY <1>2
  <2>1. CASE Admitted(c)
    BY <1>a, <2>1, AdmittedFrame
  <2>2. CASE UNCHANGED delivery
    BY <2>2 DEF delivery
  <2>3. QED
    BY <1>a, <2>1, <2>2, MoveFrame
<1>3. CASE Reload
  BY <1>a, <1>3, ReloadFrame DEF delivery
<1>4. CASE Backend
  BY <1>a, <1>4, BackendFrame
<1>5. CASE UNCHANGED vars
  BY <1>5 DEF vars, delivery
<1>6. QED
  BY <1>1, <1>2, <1>3, <1>4, <1>5, Cases

\* All that a step does to the rows and the answers.
LEMMA Effects ==
  ASSUME IInv, [Next]_vars
  PROVE  /\ \A k \in Keys : HashKept(k) /\ RowStays(k)
         /\ \A d \in Calls : LookupReached(d) /\ ConflictFound(d)
<1>a. TypeOK
  BY DEF IInv
<1>b. ASSUME UNCHANGED <<attempt, reply>>, \A d \in Calls : pc'[d] = pc[d] \/ pc'[d] # "lookup"
      PROVE  /\ \A k \in Keys : HashKept(k) /\ RowStays(k)
             /\ \A d \in Calls : LookupReached(d) /\ ConflictFound(d)
  BY <1>b DEF HashKept, RowStays, LookupReached, ConflictFound
<1>1. CASE UNCHANGED delivery
  <2>1. UNCHANGED <<attempt, reply, pc>>
    BY <1>1 DEF delivery
  <2>2. QED
    BY <1>b, <2>1
<1>2. CASE \E c \in Calls : Admitted(c)
  <2>1. UNCHANGED <<attempt, reply>>
    BY <1>a, <1>2, AdmittedFrame
  <2>2. \A d \in Calls : pc'[d] = pc[d] \/ pc'[d] # "lookup"
    BY <1>a, <1>2, AdmittedFrame
  <2>3. QED
    BY <1>b, <2>1, <2>2
<1>3. CASE Backend
  <2>1. CASE \E c \in Calls : Delivery!Step(c)
    BY <1>a, <2>1, RowsKept, Answers
  <2>2. CASE \E c \in Calls : Delivery!SmtpDecides(c)
    <3>1. UNCHANGED <<attempt, reply, pc>>
      BY <2>2 DEF Delivery!SmtpDecides
    <3>2. QED
      BY <1>b, <3>1
  <2>3. CASE Delivery!Crash
    <3>1. pc \in [Calls -> Delivery!Places]
      BY <1>a, Types
    <3>2. /\ UNCHANGED <<attempt, reply>>
          /\ \A d \in Calls : pc'[d] = pc[d] \/ pc'[d] # "lookup"
      BY <2>3, <3>1 DEF Delivery!Crash
    <3>3. QED
      BY <1>b, <3>2
  <2>4. QED
    BY <1>3, <2>1, <2>2, <2>3 DEF Backend
<1>4. \/ UNCHANGED delivery \/ (\E c \in Calls : Admitted(c)) \/ Backend
  <2>1. (\E c \in Calls : Starts(c)) => UNCHANGED delivery
    BY <1>a, StartFrame
  <2>2. (\E c \in Calls : Moves(c)) => UNCHANGED delivery \/ \E c \in Calls : Admitted(c)
    BY <1>a, MoveFrame
  <2>3. Reload \/ UNCHANGED vars => UNCHANGED delivery
    BY DEF Reload, vars
  <2>4. QED
    BY <2>1, <2>2, <2>3, Cases
<1>5. QED
  BY <1>1, <1>2, <1>3, <1>4

LEMMA HashOfRequestNext == IInv /\ [Next]_vars => HashOfRequest'
<1> SUFFICES ASSUME IInv, [Next]_vars PROVE HashOfRequest'
  OBVIOUS
<1>a. HashOfRequest /\ (\A k \in Keys : HashKept(k) /\ RowStays(k))
      /\ (\A d \in Calls : LookupReached(d))
  BY Effects DEF IInv
<1>b. \A d \in Calls : pc[d] \in {"create", "lookup"} => key[d] \in Keys
  BY DEF IInv, Delivery!IInv, Delivery!BeforeWork
<1>c. \A d \in Calls : pc[d] # "idle" =>
        pc'[d] # "idle" /\ key'[d] = key[d] /\ content'[d] = content[d]
  BY RequestsStay
<1>1. ASSUME NEW k \in Keys, attempt'[k].state # "ABSENT"
      PROVE  \E d \in Calls : key'[d] = k /\ pc'[d] # "idle" /\ content'[d] = attempt'[k].hash
  <2>1. CASE attempt[k].state # "ABSENT" /\ attempt'[k].hash = attempt[k].hash
    <3>1. PICK d \in Calls : key[d] = k /\ pc[d] # "idle" /\ content[d] = attempt[k].hash
      BY <1>a, <2>1 DEF HashOfRequest
    <3>2. QED
      BY <1>c, <2>1, <3>1
  <2>2. CASE \E c \in Calls : pc[c] = "create" /\ key[c] = k /\ attempt'[k].hash = content[c]
    BY <1>c, <2>2
  <2>3. QED
    BY <1>a, <1>1, <2>1, <2>2 DEF HashKept
<1>2. ASSUME NEW c \in Calls, pc'[c] = "lookup"
      PROVE  attempt'[key'[c]].state # "ABSENT"
  <2>1. pc[c] \in {"create", "lookup"} /\ attempt[key[c]].state # "ABSENT"
    BY <1>a, <1>2 DEF LookupReached, HashOfRequest, Delivery!State
  <2>2. key[c] \in Keys /\ key'[c] = key[c]
    BY <1>b, <1>c, <2>1
  <2>3. QED
    BY <1>a, <2>1, <2>2 DEF RowStays
<1>3. QED
  BY <1>1, <1>2 DEF HashOfRequest, Delivery!State

LEMMA ConflictMetNext == IInv /\ [Next]_vars => ConflictMet'
<1> SUFFICES ASSUME IInv, [Next]_vars, NEW c \in Calls, reply'[c] = "conflict"
             PROVE  /\ pc'[c] = "done" /\ key'[c] # None
                    /\ \E d \in Calls : key'[d] = key'[c] /\ pc'[d] # "idle"
                                        /\ content'[d] # content'[c]
  BY DEF ConflictMet
<1>a. ConflictFound(c) /\ ConflictMet /\ HashOfRequest
  BY Effects DEF IInv
<1>b. \A d \in Calls : pc[d] # "idle" =>
        /\ pc'[d] # "idle" /\ key'[d] = key[d] /\ content'[d] = content[d]
        /\ pc[d] = "done" => pc'[d] = "done"
  BY RequestsStay
<1>c. pc[c] = "lookup" => key[c] \in Keys
  BY DEF IInv, Delivery!IInv, Delivery!BeforeWork
<1>1. CASE reply[c] = "conflict"
  BY <1>a, <1>b, <1>1 DEF ConflictMet
<1>2. CASE pc[c] = "lookup" /\ ~Delivery!SameContent(c) /\ pc'[c] = "done"
  <2>1. attempt[key[c]].state # "ABSENT" /\ attempt[key[c]].hash # content[c]
    BY <1>a, <1>2 DEF HashOfRequest, Delivery!State, Delivery!SameContent
  <2>2. PICK d \in Calls :
          key[d] = key[c] /\ pc[d] # "idle" /\ content[d] = attempt[key[c]].hash
    BY <1>a, <1>c, <1>2, <2>1 DEF HashOfRequest
  <2>3. QED
    BY <1>b, <1>c, <1>2, <2>1, <2>2, Names
<1>3. QED
  BY <1>a, <1>1, <1>2 DEF ConflictFound

LEMMA Initial == Init => IInv
<1> SUFFICES ASSUME Init PROVE IInv
  OBVIOUS
<1> USE Names
<1>1. Delivery!IInv /\ Delivery!TypeOK
  BY DeliveryInitial DEF Init, Delivery!IInv
<1>2. /\ storage = [b \in Bodies |-> None] /\ overtaken = {} /\ Delivery!Init
      /\ call = [c \in Calls |-> [at |-> "idle", body |-> None, key |-> None,
                                  user |-> None]]
  BY DEF Init
<1>3. TypeOK
  BY <1>1, <1>2 DEF TypeOK
<1>4. \A c \in Calls : CallTaken(c) /\ RequestOfCall(c) /\ KeptOrOvertaken(c)
  BY <1>2 DEF CallTaken, RequestOfCall, KeptOrOvertaken, Waiting, Delivery!Init
<1>5. KeyOfOneBody /\ StoredIsTaken
  BY <1>2 DEF KeyOfOneBody, StoredIsTaken
<1>6. HashOfRequest /\ ConflictMet
  BY <1>2 DEF HashOfRequest, ConflictMet, Delivery!Init
<1>7. ASSUME NEW b \in Bodies PROVE KeysCounted(b)
  <2>1. KeysOf(b) = {}
    BY <1>2 DEF KeysOf
  <2>2. Cardinality(KeysOf(b)) = 0 /\ Cardinality(Told(b)) \in Nat
    BY <2>1, FS_EmptySet, Finite
  <2>3. QED
    BY <2>2 DEF KeysCounted
<1>8. QED
  BY <1>1, <1>3, <1>4, <1>5, <1>6, <1>7 DEF IInv

LEMMA Inductive == IInv /\ [Next]_vars => IInv'
<1> SUFFICES ASSUME IInv, [Next]_vars PROVE IInv'
  OBVIOUS
<1>1. \A c \in Calls : CallTaken(c)' /\ RequestOfCall(c)' /\ KeptOrOvertaken(c)'
  BY CallsNext, KeptNext
<1>2. \A b \in Bodies : KeysCounted(b)'
  BY KeysCountedNext
<1>3. QED
  BY <1>1, <1>2, TypesNext, KeyOfOneBodyNext, StoredIsTakenNext, HashOfRequestNext,
     ConflictMetNext DEF IInv

-----------------------------------------------------------------------------

\* The calls, the storage and the requests they have become, in every reachable
\* state.
THEOREM Invariance == Spec => []IInv
BY Initial, Inductive, PTL DEF Spec

\* apiSend and the guard only let requests in: whatever the browser does, the
\* delivery service sees steps of its own.
THEOREM DeliveryKept == Spec => Delivery!Spec
<1>1. Init => Delivery!Init
  BY DEF Init
<1>2. QED
  BY <1>1, DeliverySteps, PTL DEF Spec, Delivery!Spec

\* UnresolvedIsKept: the key of a call that ended without success stays in the
\* storage, unless a send of the same body has succeeded since it took the key.
THEOREM UnresolvedKept == Spec => []UnresolvedIsKept
<1>1. IInv => UnresolvedIsKept
  BY DEF IInv, KeptOrOvertaken, UnresolvedIsKept
<1>2. QED
  BY <1>1, Invariance, PTL

\* ConflictNeedsOtherUser: a request is told conflict only when another with its
\* key and body came from another user.
THEOREM ConflictExplained == Spec => []ConflictNeedsOtherUser
<1>1. IInv => ConflictNeedsOtherUser
  <2> SUFFICES ASSUME IInv, NEW c \in Calls, reply[c] = "conflict"
               PROVE  \E d \in Calls : /\ call[d].key = call[c].key
                                       /\ call[d].body = call[c].body
                                       /\ key[d] = key[c] /\ content[d] # content[c]
    BY DEF ConflictNeedsOtherUser
  <2>1. pc[c] = "done"
    BY DEF IInv, ConflictMet
  <2>2. PICK d \in Calls : key[d] = key[c] /\ pc[d] # "idle" /\ content[d] # content[c]
    BY DEF IInv, ConflictMet
  <2>3. /\ call[c].key \in Keys /\ key[c] = call[c].key
        /\ call[d].key \in Keys /\ key[d] = call[d].key
    BY <2>1, <2>2 DEF IInv, RequestOfCall
  <2>4. call[d].body = call[c].body
    BY <2>2, <2>3, Names DEF IInv, KeyOfOneBody
  <2>5. QED
    BY <2>2, <2>3, <2>4
<1>2. QED
  BY <1>1, Invariance, PTL

\* SendsAreTold: the mails of a letter outnumber the successes the user was told
\* of by at most the one that is still open, however often a send is retried,
\* reloaded or answered too late.
THEOREM MailsTold == Spec => []SendsAreTold
<1>1. IInv => SendsAreTold
  <2> SUFFICES ASSUME IInv, NEW b \in Bodies
               PROVE  Cardinality(Mailed(b)) <= Cardinality(Told(b)) + 1
    BY DEF IInv, SendsAreTold, MailsAreTold
  <2>1. \A c \in Mailed(b) : /\ call[c].key # None /\ key[c] = call[c].key
                             /\ c \in Calls /\ call[c].body = b /\ calls[c] > 0
    <3> SUFFICES ASSUME NEW c \in Mailed(b)
                 PROVE  call[c].key # None /\ key[c] = call[c].key
      BY DEF Mailed
    <3>1. c \in Calls /\ calls[c] > 0
      BY DEF Mailed
    <3>2. pc[c] # "idle"
      BY <3>1 DEF IInv, Delivery!IInv, Delivery!BeforeWork
    <3>3. QED
      BY <3>1, <3>2, Names DEF IInv, RequestOfCall
  <2>2. \A c, d \in Mailed(b) : call[c].key = call[d].key => c = d
    BY <2>1 DEF IInv, Delivery!IInv, Delivery!CallerOwns
  <2>3. [c \in Mailed(b) |-> call[c].key] \in Injection(Mailed(b), KeysOf(b))
    <3>1. [c \in Mailed(b) |-> call[c].key] \in [Mailed(b) -> KeysOf(b)]
      BY <2>1 DEF KeysOf
    <3>2. QED
      BY <2>2, <3>1 DEF Injection, IsInjective
  <2>4. /\ Cardinality(Mailed(b)) <= Cardinality(KeysOf(b))
        /\ IsFiniteSet(Mailed(b)) /\ Cardinality(Mailed(b)) \in Nat
    BY <2>3, Finite, FS_Injection, FS_CardinalityType
  <2>5. Cardinality(KeysOf(b)) \in Nat /\ Cardinality(Told(b)) \in Nat
    BY Finite
  <2>6. Cardinality(KeysOf(b)) <= Cardinality(Told(b)) + 1
    BY <2>5 DEF IInv, KeysCounted
  <2>7. QED
    BY <2>4, <2>5, <2>6
<1>2. QED
  BY <1>1, Invariance, PTL
-----------------------------------------------------------------------------
\* The timesheet.

\* Nothing has been typed into a section that has a later number than the last.
FilledSoFar ==
  /\ \A d \in Dialogs : /\ doc.sections[d] <= edits /\ cache.sections[d] <= edits
                        /\ fetch # Null => fetch.sections[d] <= edits
                        /\ told[d] <= edits
  /\ saving # Null => \A d \in Dialogs :
       /\ saving.payload.sections[d] <= edits \/ saving.payload.sections[d] = Unsent
       /\ saving.answer # Null => saving.answer.sections[d] <= edits
  /\ editor # Null => editor.text <= edits

\* Nothing the tab has, or has asked to be saved, is behind what it was told.
NotBehind ==
  alone =>
    /\ \A d \in Dialogs : /\ doc.sections[d] >= told[d] /\ cache.sections[d] >= told[d]
                          /\ fetch # Null => fetch.sections[d] >= told[d]
    /\ saving # Null =>
         /\ \A d \in Dialogs : \/ saving.payload.sections[d] >= told[d]
                               \/ saving.payload.sections[d] = Unsent
         /\ saving.answer # Null => saving.answer = doc
    /\ editor # Null => editor.text >= told[editor.dialog]

\* Only the save of a section leaves a dialog open, and none leaves the drawer.
OneAtATime ==
  saving # Null => drawer = Null /\ (saving.kind # "section" => editor = Null)

\* What a drawer gets is composed from the save that opened it, or a later one.
DrawerFits ==
  drawer # Null =>
    /\ editor = Null /\ drawer.saved <= doc.rev
    /\ composing # Null => drawer.saved <= composing
    /\ drawer.text # Null => drawer.saved <= drawer.text

\* Sheets of one revision are one sheet, and what arrives is not older than what
\* is there, nor than what the tab was told.
Earlier(old, new) == old.rev <= new.rev /\ (old.rev = new.rev => old = new)
RevisionsAgree ==
  /\ Earlier(cache, doc)
  /\ fetch # Null => Earlier(cache, fetch) /\ Earlier(fetch, doc)
  /\ \A m \in mine : m <= cache.rev
  /\ saving # Null /\ saving.answer # Null =>
       /\ Earlier(saving.answer, doc) /\ saving.answer.rows = saving.payload.rows
       /\ cache.rev = saving.answer.rev => cache = saving.answer
       /\ fetch # Null /\ fetch.rev = saving.answer.rev => fetch = saving.answer
       /\ \A m \in mine : m < saving.answer.rev

\* While a save is under way the full rows are those it sends, those typed since,
\* or those of a sheet the tab was not told of.
FormKnown ==
  saving # Null =>
    \/ FullRows \subseteq saving.payload.rows \cup typed
    \/ cache.rev \notin mine /\ FullRows \subseteq cache.rows \cup typed

\* A save that is still on its way has what had been typed, and nothing behind what the
\* tab had been told when its answer was lost.
LostFits ==
  lost # Null => \A d \in Dialogs :
    LET text == lost.payload.sections[d]
    IN text = Unsent \/ (text <= edits /\ (alone => text >= lost.since[d]))

SofInv == SofTypeOK /\ FilledSoFar /\ NotBehind /\ OneAtATime /\ DrawerFits
          /\ RevisionsAgree /\ FormKnown

LEMMA SofNames ==
  /\ MaxEdits \in Nat /\ MaxEdits >= 1 /\ MaxWrites \in Nat /\ Unsent = MaxEdits + 1
  /\ Null \notin Nat /\ Null \notin Sheet /\ Null \notin Save /\ Null \notin Lost
  /\ Null \notin Draft /\ Null \notin Editor
BY SofAssumption DEF Unsent

LEMMA SofStarts == SofInit => SofInv /\ LostFits
<1> SUFFICES ASSUME SofInit PROVE SofInv /\ LostFits
  OBVIOUS
<1> USE SofNames
<1>1. PICK n \in {0, 1} : doc = Prefilled(n)
  BY DEF SofInit
<1>2. /\ doc \in Sheet /\ doc.rev = 0 /\ doc.sections \in [Dialogs -> 0..MaxEdits]
      /\ \A d \in Dialogs : doc.sections[d] = n
  BY <1>1 DEF Prefilled, Sheet
<1>3. /\ cache = doc /\ form = [r \in Rows |-> "absent"] /\ fetch = Null /\ editor = Null
      /\ saving = Null /\ lost = Null
      /\ composed = Null /\ composing = Null /\ drawer = Null
      /\ edits = 1 /\ mine = {0} /\ typed = {} /\ told = doc.sections /\ alone = TRUE
  BY DEF SofInit
<1>4. SofTypeOK
  BY <1>2, <1>3 DEF SofTypeOK
<1>5. FilledSoFar /\ NotBehind
  BY <1>2, <1>3 DEF FilledSoFar, NotBehind
<1>6. OneAtATime /\ DrawerFits /\ RevisionsAgree /\ FormKnown
  BY <1>2, <1>3 DEF OneAtATime, DrawerFits, RevisionsAgree, Earlier, FormKnown
<1>7. QED
  BY <1>3, <1>4, <1>5, <1>6 DEF SofInv, LostFits

\* What the sheets are made of.
LEMMA SheetsKnown ==
  ASSUME SofTypeOK
  PROVE  /\ doc \in Sheet /\ cache \in Sheet /\ (fetch # Null => fetch \in Sheet)
         /\ saving # Null => /\ saving \in Save /\ saving.payload \in Payload
                             /\ saving.answer # Null => saving.answer \in Sheet
         /\ editor # Null => editor.dialog \in Dialogs /\ editor.text \in 0..MaxEdits
         /\ drawer # Null => /\ drawer.saved \in 0..MaxWrites
                             /\ drawer.text \in 0..MaxWrites \cup {Null}
BY DEF SofTypeOK, Save, Editor, Draft

LEMMA SheetIs ==
  ASSUME NEW x \in Sheet
  PROVE  /\ x.rows \subseteq Rows /\ x.sections \in [Dialogs -> 0..MaxEdits]
         /\ x.rev \in 0..MaxWrites
BY DEF Sheet

\* Typing.
LEMMA RowSteps ==
  ASSUME SofInv, NEW r \in Rows, TypeRow(r) \/ RemoveRow(r) PROVE SofInv'
<1> USE SofNames
<1>a. /\ UNCHANGED lost
      /\ UNCHANGED doc /\ UNCHANGED cache /\ UNCHANGED fetch /\ UNCHANGED composed
      /\ UNCHANGED composing /\ UNCHANGED editor /\ UNCHANGED saving /\ UNCHANGED drawer
      /\ UNCHANGED edits /\ UNCHANGED mine /\ UNCHANGED told /\ UNCHANGED alone
  BY DEF TypeRow, RemoveRow, queries, history
<1>b. PICK kind \in {"absent", "part", "full"} : form' = [form EXCEPT ![r] = kind]
  BY DEF TypeRow, RemoveRow
<1>c. typed' \in SUBSET Rows /\ typed \subseteq typed' /\ (FullRows' \subseteq FullRows \cup typed')
  BY <1>b DEF TypeRow, RemoveRow, history, SofInv, SofTypeOK, FullRows
<1>1. SofTypeOK'
  BY <1>a, <1>b, <1>c DEF SofInv, SofTypeOK
<1>2. FilledSoFar' /\ NotBehind' /\ OneAtATime' /\ DrawerFits' /\ RevisionsAgree'
  BY <1>a DEF SofInv, FilledSoFar, NotBehind, OneAtATime, DrawerFits, RevisionsAgree, Earlier
<1>3. FormKnown'
  BY <1>a, <1>c DEF SofInv, FormKnown
<1>4. QED
  BY <1>1, <1>2, <1>3 DEF SofInv

LEMMA SectionSteps ==
  ASSUME SofInv, (\E d \in Dialogs : OpenSection(d)) \/ EditSection \/ CloseSection
  PROVE  SofInv'
<1> USE SofNames
<1>a. /\ UNCHANGED lost
      /\ UNCHANGED doc /\ UNCHANGED cache /\ UNCHANGED fetch /\ UNCHANGED composed
      /\ UNCHANGED composing /\ UNCHANGED form /\ UNCHANGED saving /\ UNCHANGED drawer
      /\ UNCHANGED mine /\ UNCHANGED told /\ UNCHANGED alone /\ UNCHANGED typed
  BY DEF OpenSection, EditSection, CloseSection, queries, history
<1>b. edits \in 1..MaxEdits /\ edits' \in 1..MaxEdits /\ edits <= edits'
  BY DEF OpenSection, EditSection, CloseSection, SofInv, SofTypeOK
<1>c. \/ editor' = Null
      \/ /\ editor' \in Editor /\ editor'.text <= edits' /\ drawer = Null
         /\ alone => editor'.text >= told[editor'.dialog]
         /\ saving # Null => saving.kind = "section"
  <2>1. CASE CloseSection
    BY <2>1 DEF CloseSection
  <2>2. ASSUME NEW d \in Dialogs, OpenSection(d)
        PROVE  /\ editor' \in Editor /\ editor'.text <= edits' /\ drawer = Null
               /\ alone => editor'.text >= told[editor'.dialog]
               /\ saving = Null
    <3>1. editor' = [dialog |-> d, text |-> cache.sections[d]] /\ drawer = Null /\ saving = Null
      BY <2>2 DEF OpenSection, Typing
    <3>2. /\ cache.sections[d] \in 0..MaxEdits /\ cache.sections[d] <= edits
          /\ alone => cache.sections[d] >= told[d]
      BY SheetIs DEF SofInv, SofTypeOK, FilledSoFar, NotBehind
    <3>3. cache.sections[d] <= edits'
      BY <1>b, <3>2
    <3>4. QED
      BY <3>1, <3>2, <3>3 DEF Editor
  <2>3. CASE EditSection
    <3>1. editor # Null /\ edits' = edits + 1 /\ editor' = [editor EXCEPT !.text = edits']
      BY <2>3 DEF EditSection
    <3>2. editor \in Editor /\ drawer = Null /\ (saving # Null => saving.kind = "section")
      BY <3>1 DEF SofInv, SofTypeOK, OneAtATime, DrawerFits
    <3>3. editor' \in Editor /\ editor'.text = edits' /\ editor'.dialog \in Dialogs
      BY <1>b, <3>1, <3>2 DEF Editor
    <3>4. told[editor'.dialog] \in Nat /\ told[editor'.dialog] <= edits
      BY <3>3 DEF SofInv, SofTypeOK, FilledSoFar
    <3>5. QED
      BY <1>b, <3>2, <3>3, <3>4
  <2>4. QED
    BY <2>1, <2>2, <2>3
<1>1. SofTypeOK'
  BY <1>a, <1>b, <1>c DEF SofInv, SofTypeOK
<1>2. FilledSoFar'
  <2>1. /\ doc.sections \in [Dialogs -> Nat] /\ cache.sections \in [Dialogs -> Nat]
        /\ (fetch # Null => fetch.sections \in [Dialogs -> Nat]) /\ told \in [Dialogs -> Nat]
        /\ saving # Null =>
             /\ saving.payload.sections \in [Dialogs -> Nat]
             /\ saving.answer # Null => saving.answer.sections \in [Dialogs -> Nat]
    BY DEF SofInv, SofTypeOK, Sheet, Save, Payload, Unsent
  <2>2. QED
    BY <1>a, <1>b, <1>c, <2>1 DEF SofInv, FilledSoFar
<1>3. NotBehind'
  BY <1>a, <1>c DEF SofInv, NotBehind
<1>4. OneAtATime' /\ DrawerFits'
  BY <1>a, <1>c DEF SofInv, OneAtATime, DrawerFits
<1>5. RevisionsAgree' /\ FormKnown'
  BY <1>a DEF SofInv, RevisionsAgree, Earlier, FormKnown, FullRows
<1>6. QED
  BY <1>1, <1>2, <1>3, <1>4, <1>5 DEF SofInv

\* Saving: what is sent is what the tab has.
LEMMA SubmitSteps ==
  ASSUME SofInv, SubmitForm \/ SubmitSection \/ SubmitMail PROVE SofInv'
<1> USE SofNames
<1>a. /\ UNCHANGED lost
      /\ UNCHANGED doc /\ UNCHANGED cache /\ UNCHANGED fetch /\ UNCHANGED composed
      /\ UNCHANGED composing /\ UNCHANGED form /\ UNCHANGED editor /\ UNCHANGED drawer
      /\ UNCHANGED mine /\ UNCHANGED told /\ UNCHANGED alone /\ UNCHANGED edits
      /\ typed' = {} /\ saving = Null
  BY DEF SubmitForm, SubmitSection, SubmitMail, Submit, queries
<1>b. \A d \in Dialogs :
        /\ BaseSections[d] \in 0..Unsent
        /\ BaseSections[d] <= edits \/ BaseSections[d] = Unsent
        /\ alone => BaseSections[d] >= told[d] \/ BaseSections[d] = Unsent
  <2> SUFFICES ASSUME NEW d \in Dialogs
               PROVE  /\ BaseSections[d] \in 0..Unsent
                      /\ BaseSections[d] <= edits \/ BaseSections[d] = Unsent
                      /\ alone => BaseSections[d] >= told[d] \/ BaseSections[d] = Unsent
    OBVIOUS
  <2>1. /\ cache.sections[d] \in 0..MaxEdits /\ cache.sections[d] <= edits
        /\ alone => cache.sections[d] >= told[d]
    BY SheetIs DEF SofInv, SofTypeOK, FilledSoFar, NotBehind
  <2>2. BaseSections[d] = IF cache.sections[d] = 0 THEN Unsent ELSE cache.sections[d]
    BY DEF BaseSections
  <2>3. QED
    BY <2>1, <2>2
<1>c. BaseSections = [d \in Dialogs |-> BaseSections[d]]
  BY DEF BaseSections
<1>d. \E kind \in {"form", "section", "mail"}, sections \in [Dialogs -> 0..Unsent] :
        /\ saving' = [kind |-> kind, answer |-> Null,
                      payload |-> [rows |-> FullRows, sections |-> sections]]
        /\ kind # "section" => editor = Null
        /\ drawer = Null
        /\ \A d \in Dialogs :
             /\ sections[d] <= edits \/ sections[d] = Unsent
             /\ alone => sections[d] >= told[d] \/ sections[d] = Unsent
  <2>1. CASE SubmitForm
    <3> DEFINE sections == [d \in Dialogs |-> Unsent]
    <3>1. sections \in [Dialogs -> 0..Unsent] /\ \A d \in Dialogs : sections[d] = Unsent
      OBVIOUS
    <3>2. /\ saving' = [kind |-> "form", answer |-> Null,
                        payload |-> [rows |-> FullRows, sections |-> sections]]
          /\ editor = Null /\ drawer = Null
      BY <2>1 DEF SubmitForm, Submit, Typing
    <3> HIDE DEF sections
    <3>3. QED
      BY <3>1, <3>2
  <2>2. CASE SubmitMail
    <3>1. /\ saving' = [kind |-> "mail", answer |-> Null,
                        payload |-> [rows |-> FullRows, sections |-> BaseSections]]
          /\ editor = Null /\ drawer = Null
      BY <2>2 DEF SubmitMail, Submit, Typing
    <3>2. BaseSections \in [Dialogs -> 0..Unsent]
      BY <1>b, <1>c
    <3>3. QED
      BY <1>b, <3>1, <3>2
  <2>3. CASE SubmitSection
    <3> DEFINE sections == [BaseSections EXCEPT ![editor.dialog] = editor.text]
    <3>1. /\ editor # Null
          /\ saving' = [kind |-> "section", answer |-> Null,
                        payload |-> [rows |-> FullRows, sections |-> sections]]
      BY <2>3 DEF SubmitSection, Submit
    <3>2. /\ editor.dialog \in Dialogs /\ editor.text \in 0..MaxEdits /\ editor.text <= edits
          /\ alone => editor.text >= told[editor.dialog]
          /\ drawer = Null
      BY <3>1, SheetsKnown DEF SofInv, FilledSoFar, NotBehind, DrawerFits
    <3>3. BaseSections \in [Dialogs -> 0..Unsent] /\ editor.text \in 0..Unsent
      BY <1>b, <1>c, <3>2
    <3>4. /\ sections \in [Dialogs -> 0..Unsent] /\ sections[editor.dialog] = editor.text
          /\ \A d \in Dialogs : d # editor.dialog => sections[d] = BaseSections[d]
      BY <3>2, <3>3
    <3> HIDE DEF sections
    <3>5. \A d \in Dialogs :
             /\ sections[d] <= edits \/ sections[d] = Unsent
             /\ alone => sections[d] >= told[d] \/ sections[d] = Unsent
      BY <1>b, <3>2, <3>4
    <3>6. QED
      BY <3>1, <3>2, <3>4, <3>5
  <2>4. QED
    BY <2>1, <2>2, <2>3
<1>e. PICK kind \in {"form", "section", "mail"}, sections \in [Dialogs -> 0..Unsent] :
        /\ saving' = [kind |-> kind, answer |-> Null,
                      payload |-> [rows |-> FullRows, sections |-> sections]]
        /\ kind # "section" => editor = Null
        /\ drawer = Null
        /\ \A d \in Dialogs :
             /\ sections[d] <= edits \/ sections[d] = Unsent
             /\ alone => sections[d] >= told[d] \/ sections[d] = Unsent
  BY <1>d
<1>f. /\ saving' \in Save /\ saving'.kind = kind /\ saving'.answer = Null
      /\ saving'.payload.rows = FullRows /\ saving'.payload.sections = sections
  BY <1>e DEF Save, Payload, FullRows
<1>1. SofTypeOK'
  BY <1>a, <1>f DEF SofInv, SofTypeOK
<1>2. FilledSoFar' /\ NotBehind'
  BY <1>a, <1>e, <1>f DEF SofInv, FilledSoFar, NotBehind
<1>3. OneAtATime' /\ DrawerFits' /\ RevisionsAgree'
  BY <1>a, <1>e, <1>f DEF SofInv, OneAtATime, DrawerFits, RevisionsAgree, Earlier
<1>4. FormKnown'
  BY <1>a, <1>f DEF FormKnown, FullRows
<1>5. QED
  BY <1>1, <1>2, <1>3, <1>4 DEF SofInv

\* A sheet that is written is the newest.
LEMMA StoredIs ==
  ASSUME SofInv, NEW new \in Payload, doc.rev < MaxWrites
  PROVE  /\ Stored(new) \in Sheet /\ Stored(new).rows = new.rows
         /\ Stored(new).rev = doc.rev + 1
         /\ \A d \in Dialogs :
              Stored(new).sections[d] = IF new.sections[d] = Unsent
                                        THEN doc.sections[d] ELSE new.sections[d]
<1> USE SofNames
<1>1. doc \in Sheet /\ new.rows \subseteq Rows /\ new.sections \in [Dialogs -> 0..Unsent]
  BY DEF SofInv, SofTypeOK, Payload
<1>2. doc.rev + 1 \in 0..MaxWrites /\ doc.sections \in [Dialogs -> 0..MaxEdits]
  BY <1>1, SheetIs
<1>3. [d \in Dialogs |-> IF new.sections[d] = Unsent THEN doc.sections[d] ELSE new.sections[d]]
        \in [Dialogs -> 0..MaxEdits]
  BY <1>1, <1>2
<1>4. QED
  BY <1>1, <1>2, <1>3 DEF Stored, Sheet

\* What is written makes what was there earlier.
LEMMA WrittenAgree ==
  ASSUME SofInv, doc' \in Sheet, doc'.rev = doc.rev + 1, UNCHANGED cache, UNCHANGED fetch
  PROVE  /\ doc.rev < doc'.rev
         /\ Earlier(cache, doc)' /\ (fetch # Null => Earlier(fetch, doc)') /\ cache.rev < doc'.rev
         /\ fetch # Null => fetch.rev < doc'.rev
         /\ saving # Null /\ saving.answer # Null =>
              saving.answer.rev < doc'.rev
<1> USE SofNames
<1>1. /\ doc.rev \in Nat /\ cache.rev \in Nat /\ (fetch # Null => fetch.rev \in Nat)
      /\ saving # Null /\ saving.answer # Null => saving.answer.rev \in Nat
  BY SheetsKnown, SheetIs DEF SofInv
<1>2. QED
  BY <1>1 DEF SofInv, RevisionsAgree, Earlier

LEMMA ApplyStep == ASSUME SofInv, Apply PROVE SofInv'
<1> USE SofNames
<1> DEFINE new == saving.payload
<1>a. /\ UNCHANGED lost
      /\ UNCHANGED cache /\ UNCHANGED fetch /\ UNCHANGED composed
      /\ UNCHANGED composing /\ UNCHANGED form /\ UNCHANGED editor /\ UNCHANGED drawer
      /\ UNCHANGED mine /\ UNCHANGED told /\ UNCHANGED alone /\ UNCHANGED edits
      /\ UNCHANGED typed /\ saving # Null /\ saving.answer = Null /\ doc' = Stored(new)
      /\ saving' = [saving EXCEPT !.answer = doc']
  BY DEF Apply, queries, history
<1>b. saving \in Save /\ new \in Payload
  BY <1>a, SheetsKnown DEF SofInv
<1>c. /\ doc' \in Sheet /\ doc'.rows = new.rows /\ doc'.rev = doc.rev + 1
      /\ \A d \in Dialogs : doc'.sections[d] = IF new.sections[d] = Unsent
                                               THEN doc.sections[d] ELSE new.sections[d]
  BY <1>a, <1>b, StoredIs DEF Apply
<1>d. /\ saving' \in Save /\ saving'.kind = saving.kind /\ saving'.payload = new
      /\ saving'.answer = doc' /\ saving' # Null
  BY <1>a, <1>b, <1>c DEF Save
<1> HIDE DEF new
<1>1. SofTypeOK'
  BY <1>a, <1>c, <1>d DEF SofInv, SofTypeOK
<1>2. FilledSoFar' /\ NotBehind'
  BY <1>a, <1>c, <1>d DEF SofInv, FilledSoFar, NotBehind, new
<1>3. OneAtATime' /\ DrawerFits'
  <2>1. doc.rev \in Nat /\ (drawer # Null => drawer.saved \in Nat)
    BY SheetsKnown, SheetIs DEF SofInv
  <2>2. QED
    BY <1>a, <1>c, <1>d, <2>1 DEF SofInv, OneAtATime, DrawerFits
<1>4. RevisionsAgree'
  <2>1. \A m \in mine : m <= cache.rev /\ m \in Nat
    BY DEF SofInv, SofTypeOK, RevisionsAgree
  <2>2. cache.rev \in Nat /\ doc'.rev \in Nat
    BY <1>c, SheetsKnown, SheetIs DEF SofInv
  <2>3. /\ Earlier(cache, doc)' /\ (fetch # Null => Earlier(fetch, doc)')
        /\ cache.rev < doc'.rev /\ (fetch # Null => fetch.rev < doc'.rev)
    BY <1>a, <1>c, WrittenAgree
  <2>4. \A m \in mine : m < doc'.rev
    BY <2>1, <2>2, <2>3
  <2>5. Earlier(doc, doc)'
    BY <2>2 DEF Earlier
  <2>6. QED
    BY <1>a, <1>c, <1>d, <2>2, <2>3, <2>4, <2>5, SheetsKnown, SheetIs
    DEF SofInv, RevisionsAgree, Earlier
<1>5. FormKnown'
  BY <1>a, <1>d DEF SofInv, FormKnown, FullRows, new
<1>6. QED
  BY <1>1, <1>2, <1>3, <1>4, <1>5 DEF SofInv

LEMMA ColleagueSavesStep == ASSUME SofInv, ColleagueSaves PROVE SofInv'
<1> USE SofNames
<1>a. /\ UNCHANGED cache /\ UNCHANGED fetch /\ UNCHANGED composed
      /\ UNCHANGED composing /\ UNCHANGED form /\ UNCHANGED editor /\ UNCHANGED drawer
      /\ UNCHANGED mine /\ UNCHANGED told /\ UNCHANGED edits /\ UNCHANGED saving
      /\ UNCHANGED typed /\ alone' = FALSE /\ lost' = Null
  BY DEF ColleagueSaves, queries
<1>b. PICK new \in Payload : /\ \A d \in Dialogs : new.sections[d] \in {1, Unsent}
                             /\ doc' = Stored(new)
  BY DEF ColleagueSaves
<1>c. /\ doc' \in Sheet /\ doc'.rev = doc.rev + 1
      /\ \A d \in Dialogs : doc'.sections[d] = IF new.sections[d] = Unsent
                                               THEN doc.sections[d] ELSE new.sections[d]
  BY <1>b, StoredIs DEF ColleagueSaves
<1>1. SofTypeOK'
  BY <1>a, <1>c DEF SofInv, SofTypeOK
<1>2. FilledSoFar' /\ NotBehind'
  <2>1. edits >= 1
    BY DEF SofInv, SofTypeOK
  <2>2. \A d \in Dialogs : doc'.sections[d] \in {1, doc.sections[d]}
    BY <1>b, <1>c
  <2>3. QED
    BY <1>a, <2>1, <2>2 DEF SofInv, FilledSoFar, NotBehind
<1>3. OneAtATime' /\ DrawerFits'
  <2>1. doc.rev \in Nat /\ (drawer # Null => drawer.saved \in Nat)
    BY SheetsKnown, SheetIs DEF SofInv
  <2>2. QED
    BY <1>a, <1>c, <2>1 DEF SofInv, OneAtATime, DrawerFits
<1>4. RevisionsAgree' /\ FormKnown'
  <2>1. doc'.rev \in Nat /\ doc.rev \in Nat /\ cache.rev \in Nat
        /\ (fetch # Null => fetch.rev \in Nat)
        /\ (saving # Null /\ saving.answer # Null => saving.answer.rev \in Nat)
    BY <1>c, SheetsKnown, SheetIs DEF SofInv
  <2>2. QED
    BY <1>a, <1>c, <2>1, WrittenAgree DEF SofInv, RevisionsAgree, Earlier, FormKnown, FullRows
<1>5. QED
  BY <1>1, <1>2, <1>3, <1>4 DEF SofInv

LEMMA ShowingIs ==
  ASSUME NEW S \in SUBSET Rows
  PROVE  /\ Showing(S) \in [Rows -> {"absent", "part", "full"}]
         /\ \A r \in Rows : Showing(S)[r] = "full" <=> r \in S
BY DEF Showing

LEMMA SavedStep == ASSUME SofInv, Saved PROVE SofInv'
<1> USE SofNames
<1> DEFINE sent == saving.answer
<1>a. /\ UNCHANGED lost
      /\ UNCHANGED doc /\ UNCHANGED edits /\ UNCHANGED typed /\ UNCHANGED alone
      /\ saving # Null /\ sent # Null /\ cache' = sent /\ saving' = Null
      /\ mine' = mine \cup {sent.rev} /\ told' = sent.sections
      /\ fetch' = Null /\ composed' = Null /\ composing' = Null
  BY DEF Saved, DropQueries
<1>b. /\ sent \in Sheet /\ sent.rows \subseteq Rows /\ sent.rev \in 0..MaxWrites
      /\ sent.sections \in [Dialogs -> 0..MaxEdits] /\ saving.payload.rows = sent.rows
      /\ saving.kind \in {"form", "section", "mail"} /\ saving.payload \in Payload
  BY <1>a, SheetsKnown, SheetIs DEF SofInv, RevisionsAgree, Save
<1>c. editor' = Null
  BY <1>a DEF Saved, EditorAfter, SofInv, OneAtATime
<1>d. drawer = Null /\ drawer' \in {Null, [saved |-> sent.rev, text |-> Null]}
  BY <1>a DEF Saved, SofInv, OneAtATime
<1>e. form' \in [Rows -> {"absent", "part", "full"}]
  <2>1. form' \in {Showing(sent.rows), form}
    BY <1>a, <1>b DEF Saved, FormAfter
  <2>2. QED
    BY <1>b, <2>1, ShowingIs DEF SofInv, SofTypeOK
<1>f. sent.rev <= doc.rev /\ Earlier(sent, doc) /\ (alone => sent = doc)
  BY <1>a DEF SofInv, RevisionsAgree, NotBehind, Earlier
<1> HIDE DEF sent
<1>1. SofTypeOK'
  <2>1. drawer' = Null \/ drawer' \in Draft
    BY <1>b, <1>d DEF Draft
  <2>2. mine' \subseteq 0..MaxWrites
    BY <1>a, <1>b DEF SofInv, SofTypeOK
  <2>3. QED
    BY <1>a, <1>b, <1>c, <1>e, <2>1, <2>2 DEF SofInv, SofTypeOK
<1>2. FilledSoFar'
  <2>1. \A d \in Dialogs : sent.sections[d] <= edits
    BY <1>a DEF SofInv, FilledSoFar, sent
  <2>2. QED
    BY <1>a, <1>c, <2>1 DEF SofInv, FilledSoFar
<1>3. NotBehind'
  <2>1. \A d \in Dialogs : sent.sections[d] \in Nat
    BY <1>b
  <2>2. alone => sent.sections = doc.sections
    BY <1>f
  <2>3. QED
    BY <1>a, <1>c, <2>1, <2>2 DEF NotBehind
<1>4. OneAtATime' /\ FormKnown'
  BY <1>a DEF OneAtATime, FormKnown
<1>5. DrawerFits'
  BY <1>a, <1>c, <1>d, <1>f DEF DrawerFits
<1>6. RevisionsAgree'
  <2>1. \A m \in mine' : m <= sent.rev
    BY <1>a, <1>b DEF SofInv, SofTypeOK, RevisionsAgree, sent
  <2>2. QED
    BY <1>a, <1>f, <2>1 DEF RevisionsAgree, Earlier
<1>7. QED
  BY <1>1, <1>2, <1>3, <1>4, <1>5, <1>6 DEF SofInv

\* What arrives at the cache.
LEMMA FetchedStep == ASSUME SofInv, Fetched PROVE SofInv'
<1> USE SofNames
<1>a. /\ UNCHANGED doc /\ UNCHANGED edits /\ UNCHANGED typed /\ UNCHANGED alone /\ UNCHANGED lost
      /\ UNCHANGED composed /\ UNCHANGED composing /\ UNCHANGED saving /\ UNCHANGED drawer
      /\ UNCHANGED mine /\ UNCHANGED told
      /\ fetch # Null /\ cache' = fetch /\ fetch' = Null /\ form' = FormAfter(fetch)
      /\ editor' = EditorAfter(fetch)
  BY DEF Fetched, history
<1>b. fetch \in Sheet /\ fetch.rows \subseteq Rows /\ fetch.sections \in [Dialogs -> 0..MaxEdits]
      /\ fetch.rev \in Nat /\ cache.rev \in Nat /\ Earlier(cache, fetch) /\ Earlier(fetch, doc)
  BY <1>a, SheetsKnown, SheetIs DEF SofInv, RevisionsAgree
<1>c. \/ editor' = editor
      \/ /\ editor # Null /\ editor' = [editor EXCEPT !.text = fetch.sections[editor.dialog]]
  BY <1>a DEF EditorAfter
<1>d. /\ editor = Null <=> editor' = Null
      /\ editor' # Null => /\ editor' \in Editor /\ editor'.dialog \in Dialogs
                           /\ \/ editor'.text = editor.text /\ editor'.dialog = editor.dialog
                              \/ editor'.text = fetch.sections[editor'.dialog]
  <2>1. editor # Null => editor \in Editor /\ editor.dialog \in Dialogs
    BY SheetsKnown DEF SofInv, SofTypeOK
  <2>2. CASE editor' = editor
    BY <2>1, <2>2
  <2>3. CASE editor # Null /\ editor' = [editor EXCEPT !.text = fetch.sections[editor.dialog]]
    BY <1>b, <2>1, <2>3 DEF Editor
  <2>4. QED
    BY <1>c, <2>2, <2>3
<1>e. /\ form' \in [Rows -> {"absent", "part", "full"}]
      /\ IF fetch.rows = cache.rows THEN FullRows' = FullRows ELSE FullRows' = fetch.rows
  <2>1. form' = IF fetch.rows = cache.rows THEN form ELSE Showing(fetch.rows)
    BY <1>a DEF FormAfter
  <2>2. form \in [Rows -> {"absent", "part", "full"}]
    BY DEF SofInv, SofTypeOK
  <2>3. form' = Showing(fetch.rows) => FullRows' = fetch.rows
    BY <1>b, ShowingIs DEF FullRows
  <2>4. QED
    BY <1>b, <2>1, <2>2, <2>3, ShowingIs DEF FullRows
<1>1. SofTypeOK'
  BY <1>a, <1>b, <1>d, <1>e DEF SofInv, SofTypeOK
<1>2. FilledSoFar' /\ NotBehind'
  BY <1>a, <1>d DEF SofInv, FilledSoFar, NotBehind
<1>3. OneAtATime' /\ DrawerFits'
  BY <1>a, <1>d DEF SofInv, OneAtATime, DrawerFits
<1>4. \/ cache' = cache
      \/ cache'.rev \notin mine
  <2>1. cache.rev = fetch.rev => cache = fetch
    BY <1>b DEF Earlier
  <2>2. cache.rev # fetch.rev => fetch.rev \notin mine
    <3>1. \A m \in mine : m <= cache.rev
      BY DEF SofInv, RevisionsAgree
    <3>2. cache.rev <= fetch.rev
      BY <1>b DEF Earlier
    <3>3. QED
      BY <1>b, <3>1, <3>2
  <2>3. QED
    BY <1>a, <2>1, <2>2
<1>5. RevisionsAgree'
  <2>1. \A m \in mine : m <= fetch.rev
    <3>1. \A m \in mine : m <= cache.rev /\ m \in Nat
      BY DEF SofInv, SofTypeOK, RevisionsAgree
    <3>2. cache.rev <= fetch.rev
      BY <1>b DEF Earlier
    <3>3. QED
      BY <1>b, <3>1, <3>2
  <2>2. QED
    BY <1>a, <1>b, <2>1 DEF SofInv, RevisionsAgree, Earlier
<1>6. FormKnown'
  <2> SUFFICES ASSUME saving # Null
               PROVE  \/ FullRows' \subseteq saving.payload.rows \cup typed
                      \/ fetch.rev \notin mine /\ FullRows' \subseteq fetch.rows \cup typed
    BY <1>a DEF FormKnown
  <2>1. CASE fetch = cache
    BY <1>e, <2>1 DEF SofInv, FormKnown
  <2>2. CASE fetch # cache
    BY <1>a, <1>e, <1>4, <2>2 DEF SofInv, FormKnown
  <2>3. QED
    BY <2>1, <2>2
<1>7. QED
  BY <1>1, <1>2, <1>3, <1>5, <1>6 DEF SofInv

\* The answers of the queries, and what fails.
LEMMA QuerySteps ==
  ASSUME SofInv, SaveFails \/ Refetch \/ RefetchFails PROVE SofInv'
<1> USE SofNames
<1>a. /\ UNCHANGED doc /\ UNCHANGED edits /\ UNCHANGED typed /\ UNCHANGED alone
      /\ UNCHANGED composed /\ UNCHANGED composing /\ UNCHANGED drawer /\ UNCHANGED cache
      /\ UNCHANGED mine /\ UNCHANGED told /\ UNCHANGED form /\ UNCHANGED editor
      /\ saving' \in {saving, Null}
      /\ fetch' \in {fetch, Null} \/ (fetch = Null /\ fetch' = doc /\ saving' = saving)
  BY DEF SaveFails, Refetch, RefetchFails, queries, history
<1>c. lost' = Null \/ lost' \in Lost
  <2>1. CASE SaveFails
    <3>1. saving.payload \in Payload /\ told \in [Dialogs -> 0..MaxEdits]
      BY <2>1, SheetsKnown DEF SaveFails, SofInv, SofTypeOK
    <3>2. lost' = lost \/ lost' = [payload |-> saving.payload, since |-> told]
      BY <2>1 DEF SaveFails
    <3>3. QED
      BY <3>1, <3>2 DEF Lost, SofInv, SofTypeOK
  <2>2. CASE Refetch \/ RefetchFails
    BY <2>2 DEF Refetch, RefetchFails, SofInv, SofTypeOK
  <2>3. QED
    BY <2>1, <2>2
<1>b. doc \in Sheet /\ doc.rev \in Nat
  BY SheetIs DEF SofInv, SofTypeOK
<1>1. SofTypeOK'
  BY <1>a, <1>b, <1>c DEF SofInv, SofTypeOK
<1>2. FilledSoFar' /\ NotBehind'
  BY <1>a DEF SofInv, FilledSoFar, NotBehind
<1>3. OneAtATime' /\ DrawerFits'
  BY <1>a DEF SofInv, OneAtATime, DrawerFits
<1>4. RevisionsAgree'
  BY <1>a, <1>b DEF SofInv, RevisionsAgree, Earlier
<1>5. FormKnown'
  BY <1>a DEF SofInv, FormKnown, FullRows
<1>6. QED
  BY <1>1, <1>2, <1>3, <1>4, <1>5 DEF SofInv

LEMMA DrawerSteps ==
  ASSUME SofInv, Compose \/ Composed \/ CloseDrawer PROVE SofInv'
<1> USE SofNames
<1>a. /\ UNCHANGED lost
      /\ UNCHANGED doc /\ UNCHANGED edits /\ UNCHANGED typed /\ UNCHANGED alone
      /\ UNCHANGED saving /\ UNCHANGED cache /\ UNCHANGED fetch
      /\ UNCHANGED mine /\ UNCHANGED told /\ UNCHANGED form /\ UNCHANGED editor
  BY DEF Compose, Composed, CloseDrawer, queries, history
<1>b. doc.rev \in 0..MaxWrites
  BY SheetIs DEF SofInv, SofTypeOK
<1>c. /\ composing' = Null \/ composing' \in {composing, doc.rev}
      /\ composed' \in {composed, composing}
  BY DEF Compose, Composed, CloseDrawer, queries
<1>d. drawer' # Null =>
        /\ drawer # Null /\ drawer' \in Draft /\ drawer'.saved = drawer.saved
        /\ drawer'.text \in {drawer.text, composing}
        /\ composing' \in {Null, composing, doc.rev}
  <2>1. drawer # Null => drawer \in Draft
    BY DEF SofInv, SofTypeOK
  <2>2. CASE Compose
    BY <2>1, <2>2 DEF Compose
  <2>3. CASE Composed
    <3>1. composing \in 0..MaxWrites
      BY <2>3 DEF Composed, SofInv, SofTypeOK
    <3>2. drawer' = drawer \/ (drawer # Null /\ drawer' = [drawer EXCEPT !.text = composing])
      BY <2>3 DEF Composed
    <3>3. composing' = Null
      BY <2>3 DEF Composed
    <3>4. QED
      BY <2>1, <3>1, <3>2, <3>3 DEF Draft
  <2>4. CASE CloseDrawer
    BY <2>4 DEF CloseDrawer
  <2>5. QED
    BY <2>2, <2>3, <2>4
<1>1. SofTypeOK'
  BY <1>a, <1>b, <1>c, <1>d DEF SofInv, SofTypeOK
<1>2. FilledSoFar' /\ NotBehind' /\ RevisionsAgree'
  BY <1>a DEF SofInv, FilledSoFar, NotBehind, RevisionsAgree, Earlier
<1>3. OneAtATime' /\ FormKnown'
  BY <1>a, <1>d DEF SofInv, OneAtATime, FormKnown, FullRows
<1>4. DrawerFits'
  BY <1>a, <1>d DEF SofInv, DrawerFits
<1>5. QED
  BY <1>1, <1>2, <1>3, <1>4 DEF SofInv

\* A save that was given up and is applied after all.
LEMMA ApplyLostStep == ASSUME SofInv, LostFits, ApplyLost PROVE SofInv' /\ LostFits'
<1> USE SofNames
<1> DEFINE new == lost.payload
<1>a. /\ UNCHANGED cache /\ UNCHANGED fetch /\ UNCHANGED composed
      /\ UNCHANGED composing /\ UNCHANGED form /\ UNCHANGED editor /\ UNCHANGED drawer
      /\ UNCHANGED mine /\ UNCHANGED told /\ UNCHANGED edits /\ UNCHANGED saving
      /\ UNCHANGED typed /\ lost # Null /\ lost' = Null /\ alone
      /\ doc' = Stored(new) /\ alone' \in BOOLEAN
      /\ alone' => told = lost.since /\ (saving # Null => saving.answer = Null)
  BY DEF ApplyLost, queries
<1>b. /\ new \in Payload /\ lost.since \in [Dialogs -> 0..MaxEdits]
      /\ new.sections \in [Dialogs -> 0..Unsent]
  BY <1>a DEF SofInv, SofTypeOK, Lost, Payload
<1>c. /\ doc' \in Sheet /\ doc'.rev = doc.rev + 1
      /\ \A d \in Dialogs : doc'.sections[d] = IF new.sections[d] = Unsent
                                               THEN doc.sections[d] ELSE new.sections[d]
  BY <1>a, <1>b, StoredIs DEF ApplyLost
<1>d. \A d \in Dialogs : \/ new.sections[d] = Unsent
                         \/ new.sections[d] <= edits /\ new.sections[d] >= lost.since[d]
  BY <1>a DEF LostFits
<1> HIDE DEF new
<1>1. SofTypeOK'
  BY <1>a, <1>c DEF SofInv, SofTypeOK
<1>2. FilledSoFar' /\ NotBehind'
  BY <1>a, <1>b, <1>c, <1>d DEF SofInv, FilledSoFar, NotBehind
<1>3. OneAtATime' /\ DrawerFits'
  <2>1. doc.rev \in Nat /\ (drawer # Null => drawer.saved \in Nat)
    BY SheetsKnown, SheetIs DEF SofInv
  <2>2. QED
    BY <1>a, <1>c, <2>1 DEF SofInv, OneAtATime, DrawerFits
<1>4. RevisionsAgree' /\ FormKnown'
  <2>1. doc'.rev \in Nat /\ doc.rev \in Nat /\ cache.rev \in Nat
        /\ (fetch # Null => fetch.rev \in Nat)
        /\ (saving # Null /\ saving.answer # Null => saving.answer.rev \in Nat)
    BY <1>c, SheetsKnown, SheetIs DEF SofInv
  <2>2. QED
    BY <1>a, <1>c, <2>1, WrittenAgree DEF SofInv, RevisionsAgree, Earlier, FormKnown, FullRows
<1>5. LostFits'
  BY <1>a DEF LostFits
<1>6. QED
  BY <1>1, <1>2, <1>3, <1>4, <1>5 DEF SofInv

\* What is still on its way stays as it was when it was given up.
LEMMA LostKeeps == ASSUME SofInv, LostFits, [SofNext]_sofVars PROVE LostFits'
<1> USE SofNames
<1>1. CASE SaveFails
  <2>1. /\ saving # Null /\ UNCHANGED edits /\ UNCHANGED alone
        /\ lost' = lost \/ lost' = [payload |-> saving.payload, since |-> told]
    BY <1>1 DEF SaveFails, history
  <2>2. CASE lost' = lost
    BY <2>1, <2>2 DEF LostFits
  <2>3. CASE lost' = [payload |-> saving.payload, since |-> told]
    <3>1. lost'.payload = saving.payload /\ lost'.since = told
      BY <2>3
    <3>2. \A d \in Dialogs :
            /\ saving.payload.sections[d] <= edits \/ saving.payload.sections[d] = Unsent
            /\ alone => \/ saving.payload.sections[d] >= told[d]
                        \/ saving.payload.sections[d] = Unsent
      BY <2>1 DEF SofInv, FilledSoFar, NotBehind
    <3>3. QED
      BY <2>1, <3>1, <3>2 DEF LostFits
  <2>4. QED
    BY <2>1, <2>2, <2>3
<1>2. CASE ApplyLost
  BY <1>2, ApplyLostStep
<1>3. CASE ColleagueSaves
  BY <1>3 DEF ColleagueSaves, LostFits
<1>4. CASE EditSection
  <2>1. edits \in Nat /\ edits' = edits + 1 /\ UNCHANGED lost /\ UNCHANGED alone
    BY <1>4 DEF EditSection, SofInv, SofTypeOK, history
  <2>2. lost # Null => lost.payload.sections \in [Dialogs -> 0..Unsent]
    BY DEF SofInv, SofTypeOK, Lost, Payload
  <2>3. QED
    BY <2>1, <2>2 DEF LostFits
<1>5. CASE ~(SaveFails \/ ApplyLost \/ ColleagueSaves \/ EditSection)
  <2>1. UNCHANGED lost /\ UNCHANGED edits /\ UNCHANGED alone
    BY <1>5 DEF SofNext, sofVars, TypeRow, RemoveRow, OpenSection, CloseSection,
       SubmitForm, SubmitSection, SubmitMail, Submit, Apply, Saved, Refetch, Fetched,
       RefetchFails, Compose, Composed, CloseDrawer, history
  <2>2. QED
    BY <2>1 DEF LostFits
<1>6. QED
  BY <1>1, <1>2, <1>3, <1>4, <1>5

LEMMA SofInductive ==
  SofInv /\ LostFits /\ [SofNext]_sofVars => SofInv' /\ LostFits'
<1>1. CASE UNCHANGED sofVars
  BY <1>1 DEF sofVars, SofInv, LostFits, SofTypeOK, FilledSoFar, NotBehind, OneAtATime, DrawerFits,
     RevisionsAgree, Earlier, FormKnown, FullRows
<1>2. QED
  BY <1>1, LostKeeps, ApplyLostStep, RowSteps, SectionSteps, SubmitSteps, ApplyStep, ColleagueSavesStep, SavedStep,
     FetchedStep, QuerySteps, DrawerSteps DEF SofNext

\* What the form keeps.
LEMMA FormKeeps ==
  ASSUME SofInv, [SofNext]_sofVars, cache' # cache \/ saving' # saving,
         cache.rev \in mine', cache'.rev \in mine', NEW r \in FullRows
  PROVE  form'[r] = "full" \/ (saving # Null /\ r \in typed)
<1> USE SofNames
<1>a. r \in Rows /\ form[r] = "full"
  BY DEF FullRows
<1>1. CASE UNCHANGED form
  BY <1>a, <1>1
<1>2. CASE Fetched
  <2>1. /\ fetch # Null /\ cache' = fetch /\ UNCHANGED mine /\ UNCHANGED saving
        /\ fetch \in Sheet /\ fetch.rev \in Nat /\ cache.rev \in Nat
    BY <1>2, SheetsKnown, SheetIs DEF Fetched, history, SofInv
  <2>2. /\ cache.rev <= fetch.rev /\ (cache.rev = fetch.rev => cache = fetch)
        /\ \A m \in mine : m <= cache.rev
    BY <2>1 DEF SofInv, RevisionsAgree, Earlier
  <2>3. fetch.rev <= cache.rev
    BY <2>1, <2>2
  <2>4. QED
    BY <2>1, <2>2, <2>3
<1>3. CASE Saved
  <2>1. /\ saving # Null /\ saving.answer # Null /\ cache' = saving.answer
        /\ mine' = mine \cup {saving.answer.rev}
        /\ saving.answer.rows = saving.payload.rows /\ saving.answer.rows \subseteq Rows
    BY <1>3, SheetsKnown, SheetIs DEF Saved, SofInv, RevisionsAgree
  <2>2. form' = form \/ form' = Showing(saving.payload.rows)
    BY <1>3, <2>1 DEF Saved, FormAfter
  <2>3. FullRows \subseteq saving.payload.rows \cup typed
    BY <2>1 DEF SofInv, FormKnown, RevisionsAgree
  <2>4. QED
    BY <1>a, <2>1, <2>2, <2>3, ShowingIs
<1>4. (\E q \in Rows : TypeRow(q) \/ RemoveRow(q)) => UNCHANGED cache /\ UNCHANGED saving
  BY DEF TypeRow, RemoveRow, queries
<1>5. QED
  BY <1>1, <1>2, <1>3, <1>4 DEF SofNext, sofVars, OpenSection, EditSection, CloseSection,
     SubmitForm, SubmitSection, SubmitMail, Submit, Apply, ColleagueSaves, SaveFails, ApplyLost,
     Refetch, RefetchFails, Compose, Composed, CloseDrawer, queries, history

-----------------------------------------------------------------------------
\* The page of a request.

\* What has been asked is finished with, and was filled by a form that was there.
AsksFilled ==
  /\ IsFiniteSet(asked)
  /\ OnRequest => sheet \in Wordings
  /\ \A a \in asked : a.kind \in {"update", "reconcile"} => a.text \in Wordings

\* The letter is written from the row that is shown, and tells of its terms.
LettersShown ==
  /\ drawn # Nothing => drawn = shows
  /\ \A a \in asked : a.kind = "send" => a.seen \in 1..Len(log) /\ a.text = log[a.seen].terms
  /\ \A a \in asked : a.answer # Nothing =>
       /\ a.answer \in 1..Len(log)
       /\ a.kind = "send" => a.seen <= a.answer

\* Rows with different terms have a change between them.
ChangesBetween ==
  \A i, j \in 1..Len(log) : i <= j /\ log[i].terms # log[j].terms =>
    \E v \in (i + 1)..j : log[v].terms # log[v - 1].terms

\* A fetch that has read brings what was told, or more.
LoadAhead == load \notin {Nothing, Asked} => load >= latest

RequestInv ==
  RequestTypeOK /\ AsksFilled /\ LettersShown /\ ChangesBetween /\ LoadAhead /\ PageKeepsUp

-----------------------------------------------------------------------------
\* The form of a new request.

\* A step is shown once those before it are valid, and what the page does not wait
\* for was made, or is under way, because an answer was lost or Enter came again.
StepsEarned ==
  /\ stage = "away" => step = 0
  /\ step >= 1 => wish.vessel # "none"
  /\ step >= 2 => wish.whole
  /\ behind > 0 \/ (made >= 1 /\ filing # "applied") => unheard \/ again

WishInv == WishTypeOK /\ WishFits /\ StepsEarned /\ RequestedOnce

\* All three, whichever of them the tab is at.
PapersInv ==
  route \in {"sof", "wish", "request"} /\ SofInv /\ LostFits /\ RequestInv /\ WishInv

LEMMA PageNames ==
  /\ MaxAsks \in Nat /\ MaxVersions \in Nat /\ MaxVersions >= 1 /\ Nothing \notin Nat
  /\ Asked = 0 /\ Nothing # Asked /\ Versions = 1..MaxVersions
BY PageAssumption DEF Asked, Versions

\* The log only grows.
LEMMA RewrittenIs ==
  ASSUME NEW kind \in Kinds, NEW q \in Request, NEW text,
         kind \in {"update", "reconcile"} => text \in Wordings
  PROVE  /\ Rewritten(kind, q, text) \in Request
         /\ kind # "update" => Rewritten(kind, q, text).terms = q.terms
<1>1. /\ q.status \in Statuses /\ q.terms \in Wordings /\ q.cost \in Wordings
      /\ q.approved \in BOOLEAN /\ q.letter \in BOOLEAN /\ q.receipt \in BOOLEAN
      /\ q.stamp \in Nat
      /\ q = [status |-> q.status, terms |-> q.terms, cost |-> q.cost,
              approved |-> q.approved, letter |-> q.letter, receipt |-> q.receipt,
              stamp |-> q.stamp]
  BY DEF Request
<1> DEFINE terms == IF kind = "update" THEN text ELSE q.terms
           cost == IF kind = "reconcile" THEN text ELSE q.cost
           approved == CASE kind = "approve" -> TRUE
                         [] kind \in {"update", "reconcile"} -> FALSE
                         [] kind \in {"file", "unfile"} -> q.approved /\ q.status # "DRAFT"
                         [] OTHER -> q.approved
           letter == kind = "file" \/ (q.letter /\ kind # "unfile")
           receipt == q.receipt \/ kind = "receipt"
           status == CASE kind = "complete" -> "COMPLETED"
                       [] kind = "cancel" -> "CANCELLED"
                       [] kind = "send" -> "SENT"
                       [] OTHER -> q.status
           stamp == IF kind \in {"file", "unfile"} /\ q.status # "DRAFT"
                    THEN q.stamp ELSE q.stamp + 1
<1>2. /\ terms \in Wordings /\ cost \in Wordings /\ letter \in BOOLEAN
      /\ receipt \in BOOLEAN /\ stamp \in Nat
  BY <1>1
<1>3. approved \in BOOLEAN
  <2>1. CASE kind = "approve"
    BY <2>1
  <2>2. CASE kind \in {"update", "reconcile"}
    BY <2>2
  <2>3. CASE kind \in {"file", "unfile"}
    BY <2>3
  <2>4. CASE kind \notin {"approve", "update", "reconcile", "file", "unfile"}
    BY <1>1, <2>4
  <2>5. QED
    BY <2>1, <2>2, <2>3, <2>4
<1>4. status \in Statuses
  BY <1>1 DEF Statuses
<1>5. Rewritten(kind, q, text) =
        [q EXCEPT !.terms = terms, !.cost = cost, !.approved = approved, !.letter = letter,
                  !.receipt = receipt, !.status = status, !.stamp = stamp]
  BY DEF Rewritten
<1> HIDE DEF approved, letter, receipt, status, stamp, cost
<1>6. Rewritten(kind, q, text) =
        [status |-> status, terms |-> terms, cost |-> cost, approved |-> approved,
         letter |-> letter, receipt |-> receipt, stamp |-> stamp]
  BY <1>1, <1>5
<1>7. QED
  BY <1>2, <1>3, <1>4, <1>6 DEF Request

\* A row is added to the log.
Grown ==
  /\ log' \in Seq(Request) /\ Len(log') = Len(log) + 1 /\ Len(log') <= MaxVersions
  /\ \A i \in 1..Len(log) : log'[i] = log[i]

LEMMA WritingGrows ==
  ASSUME RequestInv, NEW kind \in Kinds, NEW text, Writing(kind, text),
         kind \in {"update", "reconcile"} => text \in Wordings
  PROVE  /\ Grown
         /\ kind # "update" => log'[Len(log')].terms = log[Len(log)].terms
<1> USE PageNames
<1>1. log \in Seq(Request) /\ Len(log) \in 1..MaxVersions
  BY DEF RequestInv, RequestTypeOK
<1> DEFINE new == Rewritten(kind, Present, text)
<1>2. Len(log) < MaxVersions /\ log' = Append(log, new)
  BY DEF Writing
<1>3. Present \in Request /\ Present = log[Len(log)]
  BY <1>1 DEF Present
<1>4. new \in Request /\ (kind # "update" => new.terms = Present.terms)
  BY <1>3, RewrittenIs
<1> HIDE DEF new
<1>5. /\ log' \in Seq(Request) /\ Len(log') = Len(log) + 1 /\ log'[Len(log) + 1] = new
      /\ \A i \in 1..Len(log) : log'[i] = log[i]
  BY <1>1, <1>2, <1>4
<1>6. QED
  BY <1>1, <1>2, <1>3, <1>4, <1>5 DEF Grown

LEMMA ChangesGrow ==
  ASSUME RequestInv, Grown PROVE ChangesBetween'
<1>1. Len(log) \in Nat /\ Len(log) >= 1 /\ Len(log') = Len(log) + 1
  BY DEF RequestInv, RequestTypeOK, Grown, Versions
<1> SUFFICES ASSUME NEW i \in 1..Len(log'), NEW j \in 1..Len(log'), i <= j,
                    log'[i].terms # log'[j].terms
             PROVE  \E v \in (i + 1)..j : log'[v].terms # log'[v - 1].terms
  BY DEF ChangesBetween
<1>2. ASSUME NEW k \in 1..Len(log), i <= k, log[i].terms # log[k].terms
      PROVE  \E v \in (i + 1)..k : log'[v].terms # log'[v - 1].terms
  <2>0. i \in 1..Len(log)
    BY <1>1, <1>2
  <2>1. PICK v \in (i + 1)..k : log[v].terms # log[v - 1].terms
    BY <1>2, <2>0 DEF RequestInv, ChangesBetween
  <2>2. v \in 1..Len(log) /\ v - 1 \in 1..Len(log)
    BY <1>1, <1>2, <2>1
  <2>3. QED
    BY <2>1, <2>2 DEF Grown
<1>3. CASE j <= Len(log)
  <2>1. i \in 1..Len(log) /\ j \in 1..Len(log)
    BY <1>1, <1>3
  <2>2. log[i].terms # log[j].terms
    BY <2>1 DEF Grown
  <2>3. QED
    BY <1>2, <2>1, <2>2
<1>4. CASE j = Len(log) + 1
  <2>1. i \in 1..Len(log) /\ i <= Len(log)
    BY <1>1, <1>4
  <2>2. CASE log'[j].terms # log'[j - 1].terms
    BY <1>1, <1>4, <2>1, <2>2
  <2>3. CASE log'[j].terms = log'[j - 1].terms
    <3>1. j - 1 = Len(log) /\ Len(log) \in 1..Len(log)
      BY <1>1, <1>4
    <3>2. log[i].terms # log[Len(log)].terms
      BY <2>1, <2>3, <3>1 DEF Grown
    <3>3. PICK v \in (i + 1)..Len(log) : log'[v].terms # log'[v - 1].terms
      BY <1>2, <2>1, <3>1, <3>2
    <3>4. v \in (i + 1)..j
      BY <1>1, <1>4, <3>3
    <3>5. QED
      BY <3>3, <3>4
  <2>4. QED
    BY <2>2, <2>3
<1>5. QED
  BY <1>1, <1>3, <1>4

LEMMA RequestStarts == RequestInit => RequestInv
<1> SUFFICES ASSUME RequestInit PROVE RequestInv
  OBVIOUS
<1> USE PageNames
<1>1. PICK status \in {"DRAFT", "SENT"} :
        log = <<[status |-> status, terms |-> "first", cost |-> "first",
                 approved |-> FALSE, letter |-> TRUE, receipt |-> FALSE, stamp |-> 0]>>
  BY DEF RequestInit
<1>2. log \in Seq(Request) /\ Len(log) = 1
  BY <1>1 DEF Request, Statuses, Wordings
<1>3. /\ shows = 1 /\ load = Nothing /\ failed = FALSE
      /\ place = "page" /\ sheet = "first" /\ slip = FALSE /\ drawn = Nothing
      /\ asked = {} /\ latest = 1 /\ late = FALSE
  BY DEF RequestInit
<1>4. Cardinality(asked) = 0 /\ IsFiniteSet(asked)
  BY <1>3, FS_EmptySet
<1>5. RequestTypeOK
  <2>1. Len(log) \in Versions /\ shows \in 1..Len(log) /\ latest \in 1..Len(log)
    BY <1>2, <1>3
  <2>2. asked \subseteq Ask /\ Cardinality(asked) <= MaxAsks
    BY <1>3, <1>4
  <2>3. {failed, slip, late} \subseteq BOOLEAN /\ sheet \in Wordings
    BY <1>3 DEF Wordings
  <2>4. QED
    BY <1>2, <1>3, <2>1, <2>2, <2>3 DEF RequestTypeOK
<1>6. AsksFilled /\ LettersShown /\ ChangesBetween /\ LoadAhead /\ PageKeepsUp
  BY <1>2, <1>3, <1>4
  DEF AsksFilled, LettersShown, ChangesBetween, LoadAhead, PageKeepsUp, Wordings
<1>7. QED
  BY <1>5, <1>6 DEF RequestInv

\* Calls that lose the component that asked.
LEMMA OrphanedIs ==
  ASSUME RequestInv, NEW K
  PROVE  /\ Orphaned(K) \subseteq Ask /\ IsFiniteSet(Orphaned(K))
         /\ Cardinality(Orphaned(K)) <= MaxAsks
         /\ \A b \in Orphaned(K) : \E a \in asked :
              /\ b.kind = a.kind /\ b.text = a.text /\ b.seen = a.seen
              /\ b.answer = a.answer
<1> USE PageNames
<1> DEFINE f == [a \in asked |-> [a EXCEPT !.mine = @ /\ a.kind \notin K]]
<1>1. asked \subseteq Ask /\ IsFiniteSet(asked) /\ Cardinality(asked) <= MaxAsks
  BY DEF RequestInv, RequestTypeOK, AsksFilled
<1>2. f \in Surjection(asked, Orphaned(K))
  BY DEF Surjection, Orphaned
<1>3. \A a \in asked :
        /\ f[a] \in Ask
        /\ f[a].kind = a.kind /\ f[a].text = a.text /\ f[a].seen = a.seen
        /\ f[a].answer = a.answer
  BY <1>1 DEF Ask
<1>4. \A b \in Orphaned(K) : \E a \in asked : b = f[a]
  BY DEF Orphaned
<1> HIDE DEF f
<1>5. IsFiniteSet(Orphaned(K)) /\ Cardinality(Orphaned(K)) <= Cardinality(asked)
  BY <1>1, <1>2, FS_Surjection
<1>6. Cardinality(asked) \in Nat /\ Cardinality(Orphaned(K)) \in Nat
  BY <1>1, <1>5, FS_CardinalityType
<1>7. Cardinality(Orphaned(K)) <= MaxAsks
  BY <1>1, <1>5, <1>6
<1>8. QED
  BY <1>3, <1>4, <1>5, <1>7

\* One call less, or another in its place.
LEMMA AskedLess ==
  ASSUME RequestInv, NEW a \in asked, NEW b
  PROVE  /\ IsFiniteSet(asked \ {a}) /\ Cardinality(asked \ {a}) <= MaxAsks
         /\ IsFiniteSet((asked \ {a}) \cup {b})
         /\ Cardinality((asked \ {a}) \cup {b}) <= MaxAsks
<1> USE PageNames
<1>1. IsFiniteSet(asked) /\ Cardinality(asked) <= MaxAsks /\ Cardinality(asked) \in Nat
  BY FS_CardinalityType DEF RequestInv, RequestTypeOK, AsksFilled
<1> DEFINE S == asked \ {a}
<1>2. IsFiniteSet(S) /\ Cardinality(S) = Cardinality(asked) - 1
  BY <1>1, FS_RemoveElement
<1>3. Cardinality(S) \in Nat
  BY <1>2, FS_CardinalityType
<1> HIDE DEF S
<1>4. /\ IsFiniteSet(S \cup {b})
      /\ Cardinality(S \cup {b}) = IF b \in S THEN Cardinality(S) ELSE Cardinality(S) + 1
  BY <1>2, FS_AddElement
<1>5. Cardinality(S) <= MaxAsks /\ Cardinality(S \cup {b}) <= MaxAsks
  BY <1>1, <1>2, <1>3, <1>4
<1>6. QED
  BY <1>2, <1>4, <1>5 DEF S

\* Every call that is asked is one that was, but for its answer and its asker.
Remain ==
  \A b \in asked' : \E a \in asked :
    b.kind = a.kind /\ b.text = a.text /\ b.seen = a.seen /\ b.answer = a.answer

\* The backend writes.
WriteFrame ==
  /\ UNCHANGED shows /\ UNCHANGED load /\ UNCHANGED failed /\ UNCHANGED place
  /\ UNCHANGED sheet /\ UNCHANGED slip /\ UNCHANGED drawn /\ UNCHANGED latest
  /\ UNCHANGED late

LEMMA WriteKeeps ==
  ASSUME RequestInv, Grown, WriteFrame,
         asked' \subseteq Ask, IsFiniteSet(asked'), Cardinality(asked') <= MaxAsks,
         \A b \in asked' : \E a \in asked :
           /\ b.kind = a.kind /\ b.text = a.text /\ b.seen = a.seen
           /\ b.answer = a.answer \/ b.answer = Len(log')
  PROVE  RequestInv'
<1> USE PageNames
<1>a. /\ Len(log) \in 1..MaxVersions /\ Len(log') = Len(log) + 1
      /\ Len(log') \in 1..MaxVersions /\ 1..Len(log) \subseteq 1..Len(log')
      /\ Len(log') \in 1..Len(log') /\ \A i \in 1..Len(log) : log'[i] = log[i] /\ i <= Len(log')
  BY DEF RequestInv, RequestTypeOK, Grown
<1>1. RequestTypeOK'
  <2>1. shows \in 1..Len(log') /\ latest \in 1..Len(log') /\ load \in {Nothing, Asked} \cup 1..Len(log')
    BY <1>a DEF RequestInv, RequestTypeOK
  <2>2. QED
    BY <1>a, <2>1 DEF RequestInv, RequestTypeOK, WriteFrame, Grown
<1>2. AsksFilled'
  <2>1. UNCHANGED sheet /\ (OnRequest' <=> OnRequest)
    BY DEF WriteFrame, OnRequest
  <2>2. \A b \in asked' : b.kind \in {"update", "reconcile"} => b.text \in Wordings
    BY DEF RequestInv, AsksFilled
  <2>3. QED
    BY <2>1, <2>2 DEF RequestInv, AsksFilled
<1>3. LettersShown'
  <2> SUFFICES ASSUME NEW b \in asked'
               PROVE  /\ b.kind = "send" => b.seen \in 1..Len(log') /\ b.text = log'[b.seen].terms
                      /\ b.answer # Nothing => /\ b.answer \in 1..Len(log')
                                               /\ b.kind = "send" => b.seen <= b.answer
    BY DEF LettersShown, RequestInv, WriteFrame
  <2>1. PICK a \in asked : /\ b.kind = a.kind /\ b.text = a.text /\ b.seen = a.seen
                           /\ b.answer = a.answer \/ b.answer = Len(log')
    OBVIOUS
  <2>2. /\ a.kind = "send" => a.seen \in 1..Len(log) /\ a.text = log[a.seen].terms
        /\ a.answer # Nothing =>
             a.answer \in 1..Len(log) /\ (a.kind = "send" => a.seen <= a.answer)
    BY DEF RequestInv, LettersShown
  <2>3. QED
    BY <1>a, <2>1, <2>2
<1>4. LoadAhead' /\ PageKeepsUp'
  BY DEF RequestInv, LoadAhead, PageKeepsUp, WriteFrame
<1>5. ChangesBetween'
  BY ChangesGrow
<1>6. QED
  BY <1>1, <1>2, <1>3, <1>4, <1>5 DEF RequestInv

LEMMA ColleagueStep == ASSUME RequestInv, Colleague PROVE RequestInv'
<1>1. WriteFrame /\ UNCHANGED asked
  BY DEF Colleague, WriteFrame, query, forms, answers
<1>2. Grown
  BY WritingGrows DEF Colleague, Kinds, Wordings
<1>3. QED
  BY <1>1, <1>2, WriteKeeps DEF RequestInv, RequestTypeOK, AsksFilled

LEMMA AppliesStep == ASSUME RequestInv, NEW a \in asked, Applies(a) PROVE RequestInv'
<1> USE PageNames
<1>1. WriteFrame /\ Writing(a.kind, a.text) /\ a.answer = Nothing
      /\ asked' = (asked \ {a}) \cup {[a EXCEPT !.answer = Len(log')]}
  BY DEF Applies, WriteFrame, query, forms, answers
<1>2. asked \subseteq Ask /\ a \in Ask /\ a.kind \in Kinds
      /\ (a.kind \in {"update", "reconcile"} => a.text \in Wordings)
  BY DEF RequestInv, RequestTypeOK, AsksFilled, Ask
<1>3. Grown
  BY <1>1, <1>2, WritingGrows
<1> DEFINE b == [a EXCEPT !.answer = Len(log')]
<1>4. /\ b \in Ask /\ b.kind = a.kind /\ b.text = a.text /\ b.seen = a.seen
      /\ b.answer = Len(log')
  <2>1. Len(log') \in Versions
    BY <1>3 DEF Grown, RequestInv, RequestTypeOK
  <2>2. QED
    BY <1>2, <2>1 DEF Ask
<1> HIDE DEF b
<1>5. asked' = (asked \ {a}) \cup {b}
  BY <1>1 DEF b
<1>6. asked' \subseteq Ask /\ IsFiniteSet(asked') /\ Cardinality(asked') <= MaxAsks
  BY <1>2, <1>4, <1>5, AskedLess
<1>7. \A c \in asked' : \E d \in asked :
           /\ c.kind = d.kind /\ c.text = d.text /\ c.seen = d.seen
           /\ c.answer = d.answer \/ c.answer = Len(log')
  BY <1>4, <1>5
<1>8. QED
  BY <1>1, <1>3, <1>6, <1>7, WriteKeeps

\* Data arrives.
LEMMA SheetOfIs == ASSUME NEW q \in Request PROVE SheetOf(q) \in Wordings
BY DEF SheetOf, Request

LEMMA LandedIs ==
  ASSUME RequestInv, NEW v \in 1..Len(log), Landed(v)
  PROVE  /\ shows' = v /\ failed' = FALSE /\ UNCHANGED place /\ slip' \in BOOLEAN
         /\ sheet' \in Wordings \cup {Nothing}
         /\ place = "page" => sheet' \in Wordings
<1>1. log[v] \in Request /\ slip \in BOOLEAN /\ (OnRequest => sheet \in Wordings)
  BY DEF RequestInv, RequestTypeOK, AsksFilled
<1>2. SheetOf(log[v]) \in Wordings
  BY <1>1, SheetOfIs
<1>3. sheet' = CASE place = "away" -> Nothing
                 [] OnRequest /\ FormStays(log[shows], log[v]) -> sheet
                 [] OTHER -> SheetOf(log[v])
  BY DEF Landed
<1>4. sheet' \in Wordings \cup {Nothing} /\ (place = "page" => sheet' \in Wordings)
  <2>1. CASE place = "away"
    BY <1>3, <2>1 DEF OnRequest
  <2>2. CASE place # "away" /\ OnRequest /\ FormStays(log[shows], log[v])
    BY <1>1, <1>3, <2>2
  <2>3. CASE place # "away" /\ ~(OnRequest /\ FormStays(log[shows], log[v]))
    BY <1>2, <1>3, <2>3
  <2>4. QED
    BY <2>1, <2>2, <2>3
<1>5. QED
  BY <1>1, <1>4 DEF Landed

\* What arrives is shown, and the letter is written from it.
LEMMA LandKeeps ==
  ASSUME RequestInv, NEW v \in 1..Len(log), Landed(v), UNCHANGED log,
         drawn' \in {Nothing, v}, asked' \subseteq asked,
         load' \in {load, Nothing, Asked}, latest' \in {latest, v}, late' \in BOOLEAN,
         load' \notin {Nothing, Asked} => load' >= latest',
         v < latest' => late'
  PROVE  RequestInv'
<1> USE PageNames
<1>a. /\ shows' = v /\ failed' = FALSE /\ UNCHANGED place /\ slip' \in BOOLEAN
      /\ sheet' \in Wordings \cup {Nothing}
      /\ place = "page" => sheet' \in Wordings
  BY LandedIs
<1>b. IsFiniteSet(asked') /\ Cardinality(asked') <= MaxAsks
  <2>1. IsFiniteSet(asked) /\ Cardinality(asked) <= MaxAsks
    BY DEF RequestInv, RequestTypeOK, AsksFilled
  <2>2. IsFiniteSet(asked') /\ Cardinality(asked') <= Cardinality(asked)
    BY <2>1, FS_Subset
  <2>3. Cardinality(asked) \in Nat /\ Cardinality(asked') \in Nat
    BY <2>1, <2>2, FS_CardinalityType
  <2>4. QED
    BY <2>1, <2>2, <2>3
<1>1. RequestTypeOK'
  <2>1. v \in Versions
    BY DEF RequestInv, RequestTypeOK
  <2>2. QED
    BY <1>a, <1>b, <2>1 DEF RequestInv, RequestTypeOK
<1>2. AsksFilled'
  BY <1>a, <1>b DEF RequestInv, AsksFilled, OnRequest
<1>3. LettersShown'
  BY <1>a DEF RequestInv, LettersShown
<1>4. ChangesBetween' /\ LoadAhead' /\ PageKeepsUp'
  BY <1>a DEF RequestInv, ChangesBetween, LoadAhead, PageKeepsUp
<1>5. QED
  BY <1>1, <1>2, <1>3, <1>4 DEF RequestInv

LEMMA AnsweredStep == ASSUME RequestInv, NEW a \in asked, Answered(a) PROVE RequestInv'
<1> USE PageNames
<1> DEFINE v == a.answer
<1>1. v \in 1..Len(log) /\ Len(log) \in Nat /\ latest \in 1..Len(log)
  BY DEF Answered, RequestInv, RequestTypeOK, LettersShown, Versions
<1>2. /\ Landed(v) /\ UNCHANGED log /\ drawn' \in {Nothing, v} /\ asked' \subseteq asked
      /\ load' = LoadAfter(a.kind) /\ late' = (v < latest)
      /\ latest' = IF Counts(a.kind, v) /\ v > latest THEN v ELSE latest
  BY DEF Answered, LetterFrom
<1> HIDE DEF v
<1>3. load' \in {load, Asked}
  BY <1>2 DEF LoadAfter
<1>4. load' \notin {Nothing, Asked} => load' >= latest'
  <2>1. load' \notin {Nothing, Asked} =>
          /\ load' = load /\ ~(a.kind \in Invalidates /\ place = "page")
          /\ load \in 1..Len(log) /\ load >= latest
    BY <1>2, <1>3 DEF LoadAfter, RequestInv, RequestTypeOK, LoadAhead
  <2>2. load' \notin {Nothing, Asked} => (Counts(a.kind, v) => load >= v)
    BY <1>1, <2>1 DEF Counts
  <2>3. QED
    BY <1>1, <1>2, <2>1, <2>2
<1>5. v < latest' => late'
  <2>1. late' <=> v < latest
    BY <1>2
  <2>2. latest' = v \/ latest' = latest
    BY <1>2
  <2>3. ~(v < v)
    BY <1>1
  <2>4. QED
    BY <2>1, <2>2, <2>3
<1>6. latest' \in {latest, v} /\ late' \in BOOLEAN
  BY <1>2
<1>7. QED
  BY <1>1, <1>2, <1>3, <1>4, <1>5, <1>6, LandKeeps

LEMMA LoadLandsStep == ASSUME RequestInv, LoadLands PROVE RequestInv'
<1> USE PageNames
<1>1. /\ load \in 1..Len(log) /\ load >= latest /\ latest \in 1..Len(log)
      /\ Len(log) \in Nat
  BY DEF LoadLands, RequestInv, RequestTypeOK, LoadAhead, Versions
<1>2. /\ Landed(load) /\ UNCHANGED log /\ drawn' \in {Nothing, load} /\ asked' = asked
      /\ load' = Nothing /\ latest' = latest /\ late' = FALSE
  BY DEF LoadLands, LetterFrom
<1>3. ~(load < latest')
  BY <1>1, <1>2
<1>4. QED
  BY <1>1, <1>2, <1>3, LandKeeps

\* The user, and the fetch.
LEMMA LookKeeps ==
  ASSUME RequestInv, UNCHANGED log, UNCHANGED shows, UNCHANGED latest, UNCHANGED late,
         load' \in {load, Nothing, Asked, Len(log)}, failed' \in BOOLEAN,
         place' \in {"page", "away"}, slip' \in BOOLEAN,
         sheet' \in Wordings \cup {Nothing},
         place' = "page" /\ ~failed' => sheet' \in Wordings,
         drawn' \in {drawn, Nothing, shows},
         asked' \subseteq Ask, IsFiniteSet(asked'), Cardinality(asked') <= MaxAsks,
         \A b \in asked' :
           \/ \E a \in asked : /\ b.kind = a.kind /\ b.text = a.text /\ b.seen = a.seen
                               /\ b.answer = a.answer
           \/ /\ b.answer = Nothing
              /\ b.kind \in {"update", "reconcile"} => b.text \in Wordings
              /\ b.kind = "send" => b.seen = shows /\ b.text = log[shows].terms
  PROVE  RequestInv'
<1> USE PageNames
<1>a. /\ log \in Seq(Request) /\ Len(log) \in 1..MaxVersions /\ shows \in 1..Len(log)
      /\ latest \in 1..Len(log) /\ Len(log) \in 1..Len(log) /\ Len(log) >= latest
      /\ shows \in Versions
  BY DEF RequestInv, RequestTypeOK
<1>1. RequestTypeOK'
  <2>1. load' \in {Nothing, Asked} \cup 1..Len(log) /\ drawn' \in Versions \cup {Nothing}
    BY <1>a DEF RequestInv, RequestTypeOK
  <2>2. {failed', slip', late'} \subseteq BOOLEAN
    BY DEF RequestInv, RequestTypeOK
  <2>3. QED
    BY <1>a, <2>1, <2>2 DEF RequestTypeOK
<1>2. AsksFilled'
  BY DEF RequestInv, AsksFilled, OnRequest
<1>3. LettersShown'
  <2>1. drawn' # Nothing => drawn' = shows'
    BY DEF RequestInv, LettersShown
  <2> SUFFICES ASSUME NEW b \in asked'
               PROVE  /\ b.kind = "send" => b.seen \in 1..Len(log) /\ b.text = log[b.seen].terms
                      /\ b.answer # Nothing => /\ b.answer \in 1..Len(log)
                                               /\ b.kind = "send" => b.seen <= b.answer
    BY <2>1 DEF LettersShown
  <2>2. ASSUME NEW a \in asked, b.kind = a.kind, b.text = a.text, b.seen = a.seen,
               b.answer = a.answer
        PROVE  /\ b.kind = "send" => b.seen \in 1..Len(log) /\ b.text = log[b.seen].terms
               /\ b.answer # Nothing => /\ b.answer \in 1..Len(log)
                                        /\ b.kind = "send" => b.seen <= b.answer
    BY <2>2 DEF RequestInv, LettersShown
  <2>3. QED
    BY <1>a, <2>2
<1>4. LoadAhead'
  BY <1>a DEF RequestInv, LoadAhead
<1>5. ChangesBetween' /\ PageKeepsUp'
  BY DEF RequestInv, ChangesBetween, PageKeepsUp
<1>6. QED
  BY <1>1, <1>2, <1>3, <1>4, <1>5 DEF RequestInv

LEMMA LookSteps ==
  ASSUME RequestInv,
         \/ LoadAgain \/ LoadReads \/ LoadFails \/ LeaveRequest \/ ReturnToRequest
         \/ EditSheet \/ TypeReceipt \/ OpenDrawer \/ CloseSend
  PROVE  RequestInv'
<1> USE PageNames
<1>a. /\ asked \subseteq Ask /\ IsFiniteSet(asked) /\ Cardinality(asked) <= MaxAsks
      /\ failed \in BOOLEAN /\ slip \in BOOLEAN /\ place \in {"page", "away"}
      /\ sheet \in Wordings \cup {Nothing}
      /\ place = "page" /\ ~failed => sheet \in Wordings
      /\ drawn \in {drawn, Nothing, shows}
      /\ SheetOf(log[shows]) \in Wordings
  BY SheetOfIs DEF RequestInv, RequestTypeOK, AsksFilled, OnRequest
<1>b. /\ UNCHANGED log /\ UNCHANGED shows /\ UNCHANGED latest /\ UNCHANGED late
      /\ asked' = asked \/ \E K \in SUBSET Kinds : asked' = Orphaned(K)
  BY DEF LoadAgain, LoadReads, LoadFails, LeaveRequest, ReturnToRequest, EditSheet,
     TypeReceipt, OpenDrawer, CloseSend, query, forms, answers, Kinds
<1>c. /\ asked' \subseteq Ask /\ IsFiniteSet(asked') /\ Cardinality(asked') <= MaxAsks
      /\ \A b \in asked' : \E a \in asked :
           /\ b.kind = a.kind /\ b.text = a.text /\ b.seen = a.seen /\ b.answer = a.answer
  BY <1>a, <1>b, OrphanedIs
<1>d. /\ load' \in {load, Nothing, Asked, Len(log)} /\ failed' \in BOOLEAN
      /\ place' \in {"page", "away"} /\ slip' \in BOOLEAN
      /\ drawn' \in {drawn, Nothing, shows}
      /\ sheet' \in Wordings \cup {Nothing}
      /\ place' = "page" /\ ~failed' => sheet' \in Wordings
  <2>1. CASE LoadAgain \/ LoadReads
    BY <1>a, <2>1 DEF LoadAgain, LoadReads, forms
  <2>2. CASE LoadFails
    BY <1>a, <2>2 DEF LoadFails
  <2>3. CASE LeaveRequest
    BY <1>a, <2>3 DEF LeaveRequest, query
  <2>4. CASE ReturnToRequest
    BY <1>a, <2>4 DEF ReturnToRequest
  <2>5. CASE EditSheet
    BY <1>a, <2>5 DEF EditSheet, query, Wordings
  <2>6. CASE TypeReceipt \/ OpenDrawer \/ CloseSend
    BY <1>a, <2>6 DEF TypeReceipt, OpenDrawer, CloseSend, query
  <2>7. QED
    BY <2>1, <2>2, <2>3, <2>4, <2>5, <2>6
<1>e. QED
  BY <1>b, <1>c, <1>d, LookKeeps

LEMMA AskKeeps ==
  ASSUME RequestInv, NEW kind \in Kinds, NEW text \in Wordings \cup {Nothing},
         NEW seen \in Versions \cup {Nothing}, AskFor(kind, text, seen),
         kind \in {"update", "reconcile"} => text \in Wordings,
         kind = "send" => seen = shows /\ text = log[shows].terms
  PROVE  RequestInv'
<1> USE PageNames
<1> DEFINE b == [kind |-> kind, text |-> text, mine |-> TRUE, seen |-> seen, answer |-> Nothing]
<1>1. /\ Cardinality(asked) < MaxAsks /\ asked' = asked \cup {b}
      /\ UNCHANGED log /\ UNCHANGED shows /\ UNCHANGED latest /\ UNCHANGED late
      /\ UNCHANGED load /\ UNCHANGED failed /\ UNCHANGED place /\ UNCHANGED slip
      /\ UNCHANGED sheet /\ UNCHANGED drawn
  BY DEF AskFor, query, forms, answers
<1>2. /\ b \in Ask /\ b.kind = kind /\ b.text = text /\ b.seen = seen /\ b.answer = Nothing
  BY DEF Ask
<1>3. /\ asked \subseteq Ask /\ IsFiniteSet(asked)
      /\ failed \in BOOLEAN /\ slip \in BOOLEAN /\ place \in {"page", "away"}
      /\ sheet \in Wordings \cup {Nothing}
      /\ place = "page" /\ ~failed => sheet \in Wordings
  BY DEF RequestInv, RequestTypeOK, AsksFilled, OnRequest
<1> HIDE DEF b
<1>4. IsFiniteSet(asked') /\ Cardinality(asked') <= MaxAsks
  <2>1. /\ IsFiniteSet(asked \cup {b})
        /\ Cardinality(asked \cup {b}) = IF b \in asked THEN Cardinality(asked)
                                         ELSE Cardinality(asked) + 1
    BY <1>3, FS_AddElement
  <2>2. Cardinality(asked) \in Nat
    BY <1>3, FS_CardinalityType
  <2>3. QED
    BY <1>1, <2>1, <2>2
<1>5. \A c \in asked' :
           \/ \E a \in asked : /\ c.kind = a.kind /\ c.text = a.text /\ c.seen = a.seen
                               /\ c.answer = a.answer
           \/ /\ c.answer = Nothing
              /\ c.kind \in {"update", "reconcile"} => c.text \in Wordings
              /\ c.kind = "send" => c.seen = shows /\ c.text = log[shows].terms
  BY <1>1, <1>2
<1>6. asked' \subseteq Ask
  BY <1>1, <1>2, <1>3
<1>7. QED
  BY <1>1, <1>3, <1>4, <1>5, <1>6, LookKeeps

LEMMA ClickStep == ASSUME RequestInv, Click PROVE RequestInv'
<1>1. sheet \in Wordings
  BY DEF Click, Uncovered, RequestInv, AsksFilled
<1>2. PICK kind \in Kinds \ {"send"} :
        AskFor(kind, IF kind \in {"update", "reconcile"} THEN sheet ELSE Nothing, Nothing)
  BY DEF Click
<1> DEFINE text == IF kind \in {"update", "reconcile"} THEN sheet ELSE Nothing
<1>3. /\ text \in Wordings \cup {Nothing} /\ (kind \in {"update", "reconcile"} => text \in Wordings)
      /\ kind # "send" /\ kind \in Kinds
  BY <1>1, <1>2
<1>4. AskFor(kind, text, Nothing)
  BY <1>2
<1> HIDE DEF text
<1>5. QED
  BY <1>3, <1>4, AskKeeps

LEMMA SendOrderStep == ASSUME RequestInv, SendOrder PROVE RequestInv'
<1>1. drawn = shows /\ AskFor("send", log[shows].terms, shows)
  BY DEF SendOrder, RequestInv, LettersShown
<1>2. log[shows].terms \in Wordings /\ shows \in Versions /\ "send" \in Kinds
  <2>1. log[shows] \in Request /\ shows \in Versions
    <3>1. log \in Seq(Request) /\ Len(log) \in 1..MaxVersions /\ shows \in 1..Len(log)
      BY DEF RequestInv, RequestTypeOK, Versions
    <3>2. QED
      BY <3>1, PageNames
  <2>2. QED
    BY <2>1 DEF Request, Kinds
<1>3. QED
  BY <1>1, <1>2, AskKeeps

LEMMA CallFailsStep == ASSUME RequestInv, NEW a \in asked, CallFails(a) PROVE RequestInv'
<1>1. /\ asked' = asked \ {a}
      /\ UNCHANGED log /\ UNCHANGED shows /\ UNCHANGED latest /\ UNCHANGED late
      /\ UNCHANGED load /\ UNCHANGED failed /\ UNCHANGED place /\ UNCHANGED slip
      /\ UNCHANGED sheet /\ UNCHANGED drawn
  BY DEF CallFails, query, forms, answers
<1>2. /\ asked \subseteq Ask /\ failed \in BOOLEAN /\ slip \in BOOLEAN
      /\ place \in {"page", "away"} /\ sheet \in Wordings \cup {Nothing}
      /\ place = "page" /\ ~failed => sheet \in Wordings
  BY DEF RequestInv, RequestTypeOK, AsksFilled, OnRequest
<1>3. IsFiniteSet(asked') /\ Cardinality(asked') <= MaxAsks
  BY <1>1, AskedLess
<1>4. asked' \subseteq asked
  BY <1>1
<1>5. QED
  BY <1>1, <1>2, <1>3, <1>4, LookKeeps

LEMMA RequestInductive == RequestInv /\ [RequestNext]_requestVars => RequestInv'
<1>1. CASE UNCHANGED requestVars
  BY <1>1 DEF requestVars, query, forms, answers, RequestInv, RequestTypeOK, AsksFilled,
     LettersShown, ChangesBetween, LoadAhead, PageKeepsUp, OnRequest
<1>2. QED
  BY <1>1, ColleagueStep, AppliesStep, AnsweredStep, LoadLandsStep, LookSteps, ClickStep,
     SendOrderStep, CallFailsStep DEF RequestNext

\* What the letter of a call tells is what its order says, or the terms were changed.
LEMMA LettersFit == RequestInv => LetterFitsOrder
<1> SUFFICES ASSUME RequestInv, NEW a \in asked, a.kind = "send", a.answer # Nothing,
                    a.text # log[a.answer].terms
             PROVE  \E v \in (a.seen + 1)..a.answer : log[v].terms # log[v - 1].terms
  BY DEF LetterFitsOrder
<1>1. /\ a.seen \in 1..Len(log) /\ a.text = log[a.seen].terms
      /\ a.answer \in 1..Len(log) /\ a.seen <= a.answer
  BY DEF RequestInv, LettersShown
<1>2. QED
  BY <1>1 DEF RequestInv, ChangesBetween

\* What the forms of the page keep.
FormsStand ==
  OnRequest /\ OnRequest' =>
    /\ (/\ sheet = "mine"
        /\ (log[shows].status = "DRAFT") <=> (log'[shows'].status = "DRAFT")) => sheet' = "mine"
    /\ (slip /\ log[shows].stamp = log'[shows'].stamp) => slip'

LEMMA FormsKeep == ASSUME RequestInv, [RequestNext]_requestVars PROVE FormsStand
<1> USE PageNames
<1>1. CASE UNCHANGED sheet /\ UNCHANGED slip
  BY <1>1 DEF FormsStand
<1>2. CASE EditSheet
  BY <1>2 DEF EditSheet, FormsStand
<1>3. CASE TypeReceipt
  BY <1>3 DEF TypeReceipt, FormsStand
<1>4. CASE LoadFails \/ LeaveRequest \/ ReturnToRequest
  BY <1>4 DEF LoadFails, LeaveRequest, ReturnToRequest, FormsStand, OnRequest
<1>5. ASSUME NEW v \in 1..Len(log), Landed(v), UNCHANGED log PROVE FormsStand
  <2>1. /\ OnRequest /\ FormStays(log[shows], log[v]) => sheet' = sheet
        /\ shows' = v /\ log' = log
        /\ slip' <=> slip /\ log[v].stamp = log[shows].stamp
    BY <1>5 DEF Landed, OnRequest
  <2>2. QED
    BY <2>1 DEF FormsStand, FormStays
<1>6. CASE LoadLands
  <2>1. load \in 1..Len(log)
    BY <1>6 DEF LoadLands, RequestInv, RequestTypeOK
  <2>2. QED
    BY <1>5, <1>6, <2>1 DEF LoadLands
<1>7. ASSUME NEW a \in asked, Answered(a) PROVE FormsStand
  <2>1. a.answer \in 1..Len(log)
    BY <1>7 DEF Answered, RequestInv, LettersShown
  <2>2. QED
    BY <1>5, <1>7, <2>1 DEF Answered
<1>8. QED
  BY <1>1, <1>2, <1>3, <1>4, <1>6, <1>7
  DEF RequestNext, requestVars, forms, query, answers, Colleague, LoadAgain, LoadReads,
      OpenDrawer, CloseSend, Click, AskFor, SendOrder, Applies, CallFails

\* The form of a new request.
LEMMA NoWishIs == NoWish \in Wish /\ NoWish.vessel = "none" /\ NoWish.nomination = "none"
BY DEF NoWish, Wish

\* What a form that is not there has.
LEMMA UnmountedFits ==
  ASSUME stage' = "away", wish' = NoWish, step' = 0, filing' = "none", behind' = 0,
         made' = 0, unheard' = FALSE, again' = FALSE
  PROVE  WishInv'
<1>1. WishTypeOK'
  <2>1. wish' \in Wish
    BY NoWishIs
  <2>2. step' \in 0..Review /\ made' \in 0..MostMade /\ behind' \in 0..MostBehind
    BY DEF Review, MostMade, MostBehind
  <2>3. /\ stage' \in {"away", "form"} /\ filing' \in {"none", "asked", "applied"}
        /\ unheard' \in BOOLEAN /\ again' \in BOOLEAN
    OBVIOUS
  <2>4. QED
    BY <2>1, <2>2, <2>3 DEF WishTypeOK
<1>2. WishFits' /\ StepsEarned' /\ RequestedOnce'
  BY NoWishIs DEF WishFits, StepsEarned, RequestedOnce, Review
<1>3. QED
  BY <1>1, <1>2 DEF WishInv

LEMMA WishStarts == WishInit => WishInv
<1> SUFFICES ASSUME WishInit PROVE WishInv
  OBVIOUS
<1>1. /\ stage = "away" /\ wish = NoWish /\ step = 0 /\ filing = "none" /\ made = 0
      /\ behind = 0 /\ unheard = FALSE /\ again = FALSE
  BY DEF WishInit
<1>2. WishTypeOK
  <2>1. wish \in Wish
    BY <1>1, NoWishIs
  <2>2. step \in 0..Review /\ made \in 0..MostMade /\ behind \in 0..MostBehind
    BY <1>1 DEF Review, MostMade, MostBehind
  <2>3. /\ stage \in {"away", "form"} /\ filing \in {"none", "asked", "applied"}
        /\ unheard \in BOOLEAN /\ again \in BOOLEAN
    BY <1>1
  <2>4. QED
    BY <2>1, <2>2, <2>3 DEF WishTypeOK
<1>3. WishFits /\ StepsEarned /\ RequestedOnce
  BY <1>1, NoWishIs DEF WishFits, StepsEarned, RequestedOnce, Review
<1>4. QED
  BY <1>2, <1>3 DEF WishInv

\* The first two steps.
LEMMA WishChanges ==
  ASSUME WishInv, OpenStepper \/ ChooseVessel \/ ChooseNomination \/ EditDetails
  PROVE  /\ wish' \in Wish
         /\ wish'.nomination # "none" => VesselOf[wish'.nomination] = wish'.vessel
         /\ step >= 1 => wish'.vessel # "none"
         /\ step >= 2 => wish'.whole
<1>a. /\ wish \in Wish /\ step \in 0..4
      /\ wish.vessel \in Vessels \cup {"none"}
      /\ wish.nomination \in Nominations \cup {"none"} /\ wish.whole \in BOOLEAN
      /\ wish.nomination # "none" => VesselOf[wish.nomination] = wish.vessel
      /\ step >= 1 => wish.vessel # "none"
      /\ step >= 2 => wish.whole
  BY DEF WishInv, WishTypeOK, WishFits, StepsEarned, Review, Wish
<1>b. \A n \in Nominations : VesselOf[n] \in Vessels
  BY VesselOfNomination
<1>1. CASE OpenStepper
  <2>1. stage = "away" /\ step = 0
    BY <1>1 DEF OpenStepper, WishInv, StepsEarned
  <2>2. PICK v \in Vessels \cup {"none"} : wish' = [NoWish EXCEPT !.vessel = v]
    BY <1>1 DEF OpenStepper
  <2>3. wish' = [vessel |-> v, nomination |-> "none", whole |-> FALSE]
    BY <2>2 DEF NoWish
  <2>4. wish' \in Wish /\ wish'.nomination = "none"
    BY <2>3 DEF Wish
  <2>5. QED
    BY <2>1, <2>4
<1>2. CASE ChooseVessel
  <2>1. step = 0
    BY <1>2 DEF ChooseVessel, OnStep
  <2>2. PICK v \in Vessels \cup {"none"} :
          wish' = [wish EXCEPT !.vessel = v, !.nomination = "none"]
    BY <1>2 DEF ChooseVessel, WithVessel
  <2>3. wish' \in Wish /\ wish'.nomination = "none"
    BY <1>a, <2>2 DEF Wish
  <2>4. QED
    BY <2>1, <2>3
<1>3. CASE ChooseNomination
  <2>1. step = 0
    BY <1>3 DEF ChooseNomination, OnStep
  <2>2. ASSUME wish' = [wish EXCEPT !.nomination = "none"]
        PROVE  wish' \in Wish /\ wish'.nomination = "none"
    BY <1>a, <2>2 DEF Wish
  <2>3. ASSUME NEW n \in Nominations,
               wish' = [wish EXCEPT !.nomination = n, !.vessel = VesselOf[n]]
        PROVE  wish' \in Wish /\ VesselOf[wish'.nomination] = wish'.vessel
    BY <1>a, <1>b, <2>3 DEF Wish
  <2>4. \/ wish' = [wish EXCEPT !.nomination = "none"]
        \/ \E n \in Nominations :
              wish' = [wish EXCEPT !.nomination = n, !.vessel = VesselOf[n]]
    BY <1>3 DEF ChooseNomination
  <2>5. wish' \in Wish /\ (wish'.nomination # "none" => VesselOf[wish'.nomination] = wish'.vessel)
    BY <2>2, <2>3, <2>4
  <2>6. QED
    BY <2>1, <2>5
<1>4. CASE EditDetails
  <2>1. step = 1
    BY <1>4 DEF EditDetails, OnStep
  <2>2. PICK b \in BOOLEAN : wish' = [wish EXCEPT !.whole = b]
    BY <1>4 DEF EditDetails
  <2>3. wish' \in Wish /\ wish'.vessel = wish.vessel /\ wish'.nomination = wish.nomination
    BY <1>a, <2>2 DEF Wish
  <2>4. QED
    BY <1>a, <2>1, <2>3
<1>5. QED
  BY <1>1, <1>2, <1>3, <1>4

LEMMA WishInductive ==
  WishInv /\ [WishNext \/ RequestCreated]_wishVars => WishInv'
<1> SUFFICES ASSUME WishInv, [WishNext \/ RequestCreated]_wishVars PROVE WishInv'
  OBVIOUS
<1> USE DEF Review, MostMade, MostBehind
<1>a. /\ wish \in Wish /\ step \in 0..4 /\ made \in 0..2 /\ behind \in 0..1
      /\ unheard \in BOOLEAN /\ again \in BOOLEAN
      /\ stage \in {"away", "form"} /\ filing \in {"none", "asked", "applied"}
  BY DEF WishInv, WishTypeOK
<1>1. CASE UNCHANGED wishVars
  BY <1>1 DEF wishVars, creation, WishInv, WishTypeOK, WishFits, StepsEarned, RequestedOnce,
     StepValid
<1>2. CASE LeaveStepper \/ RequestCreated
  BY <1>2, UnmountedFits DEF LeaveStepper, RequestCreated, Unmounted
<1>3. CASE OpenStepper \/ ChooseVessel \/ ChooseNomination \/ EditDetails
  <2>1. /\ UNCHANGED filing /\ UNCHANGED behind /\ UNCHANGED made /\ UNCHANGED unheard
        /\ UNCHANGED again /\ UNCHANGED step
        /\ stage' \in {"away", "form"}
        /\ step # 0 => stage' = "form"
    BY <1>a, <1>3 DEF OpenStepper, ChooseVessel, ChooseNomination, EditDetails, OnStep,
       WishInv, StepsEarned, creation
  <2>2. /\ wish' \in Wish
        /\ wish'.nomination # "none" => VesselOf[wish'.nomination] = wish'.vessel
        /\ step >= 1 => wish'.vessel # "none"
        /\ step >= 2 => wish'.whole
    BY <1>3, WishChanges
  <2>3. QED
    BY <1>a, <2>1, <2>2 DEF WishInv, WishTypeOK, WishFits, StepsEarned, RequestedOnce, StepValid
<1>4. CASE NextStep \/ PriorStep
  BY <1>a, <1>4 DEF NextStep, PriorStep, Reachable, WishInv, WishTypeOK, WishFits, StepsEarned,
     RequestedOnce, StepValid, creation
<1>5. CASE ClickCreate \/ EnterVoucher \/ InsertRequest \/ RequestRefused \/ AnswerLost
  <2>1. UNCHANGED stage /\ UNCHANGED wish /\ UNCHANGED step
    BY <1>5 DEF ClickCreate, EnterVoucher, SubmitWish, InsertRequest, RequestRefused, AnswerLost
  <2>2. /\ filing' \in {"none", "asked", "applied"} /\ made' \in 0..2 /\ behind' \in 0..1
        /\ unheard' \in BOOLEAN /\ again' \in BOOLEAN
        /\ made' > 1 => unheard' \/ again'
        /\ behind' > 0 \/ (made' >= 1 /\ filing' # "applied") => unheard' \/ again'
    <3>1. /\ made > 1 => unheard \/ again
          /\ behind > 0 \/ (made >= 1 /\ filing # "applied") => unheard \/ again
      BY DEF WishInv, RequestedOnce, StepsEarned
    <3>2. CASE ClickCreate
      BY <1>a, <3>1, <3>2 DEF ClickCreate, SubmitWish, Free
    <3>3. CASE EnterVoucher
      <4>1. again' \in BOOLEAN /\ (again => again') /\ (filing # "none" => again')
        BY <1>a, <3>3 DEF EnterVoucher
      <4>2. /\ filing' = "asked" /\ UNCHANGED made /\ UNCHANGED unheard
            /\ IF filing = "asked" THEN behind < 1 /\ behind' = behind + 1
                                   ELSE UNCHANGED behind
        BY <3>3 DEF EnterVoucher, SubmitWish
      <4>3. QED
        BY <1>a, <3>1, <4>1, <4>2
    <3>4. CASE InsertRequest
      BY <1>a, <3>1, <3>4 DEF InsertRequest
    <3>5. CASE RequestRefused
      BY <1>a, <3>1, <3>5 DEF RequestRefused
    <3>6. CASE AnswerLost
      BY <1>a, <3>1, <3>6 DEF AnswerLost
    <3>7. QED
      BY <1>5, <3>2, <3>3, <3>4, <3>5, <3>6
  <2>3. QED
    BY <1>a, <2>1, <2>2 DEF WishInv, WishTypeOK, WishFits, StepsEarned, RequestedOnce, StepValid
<1>6. QED
  BY <1>1, <1>2, <1>3, <1>4, <1>5 DEF WishNext

\* Whichever the tab is at, each of the three takes a step of its own or none.
LEMMA PapersSteps ==
  PapersInv /\ [PapersNext]_paperVars =>
    /\ [SofNext]_sofVars /\ [RequestNext]_requestVars
    /\ [WishNext \/ RequestCreated]_wishVars
    /\ route' \in {"sof", "wish", "request"}
BY DEF PapersInv, PapersNext, paperVars

\* The papers keep their shape, the sheet and the page keep what was told, the drawers
\* show what is stored: whatever the three are doing.
THEOREM PapersInvariance == PapersSpec => []PapersInv
<1>1. PapersInit => PapersInv
  BY SofStarts, RequestStarts, WishStarts DEF PapersInit, PapersInv
<1>2. PapersInv /\ [PapersNext]_paperVars => PapersInv'
  BY PapersSteps, SofInductive, RequestInductive, WishInductive DEF PapersInv
<1>3. QED
  BY <1>1, <1>2, PTL DEF PapersSpec

\* What the user was told is saved is in the timesheet, or on the page of the request, for
\* any number of rows, writes and calls; and one form of a request makes one, unless an
\* answer was lost or Enter came again while one was being made.
THEOREM SavesKept == PapersSpec => []SavesStand
<1>1. SofInv => SheetKeepsSaves
  <2>1. SofInv => SofTypeOK /\ NotBehind
    BY DEF SofInv
  <2>2. SofInv => OwnSaveSurvives
    BY <2>1 DEF OwnSaveSurvives, NotBehind
  <2>3. QED
    BY <2>1, <2>2 DEF SheetKeepsSaves
<1>2. PapersInv => SavesStand
  BY <1>1 DEF PapersInv, RequestInv, WishInv, SavesStand
<1>3. QED
  BY <1>2, PapersInvariance, PTL

\* A mail's text is at least as new as the save that opened its drawer, and the letter that
\* goes with a purchase order tells of the terms it orders.
THEOREM MailsFitting == PapersSpec => []MailsFit
<1>1. SofInv => MailShowsSaved
  BY DEF SofInv, DrawerFits, MailShowsSaved
<1>2. PapersInv => MailsFit
  BY <1>1, LettersFit DEF PapersInv, MailsFit
<1>3. QED
  BY <1>2, PapersInvariance, PTL

\* No answer, fetch or remount takes from a form what was typed in it.
THEOREM TypingKept == PapersSpec => TypingStands
<1>1. PapersInv /\ [PapersNext]_paperVars =>
        [/\ cache' # cache \/ saving' # saving
         /\ {cache.rev, cache'.rev} \subseteq mine'
         => \A r \in FullRows : form'[r] = "full" \/ (saving # Null /\ r \in typed)]_sofVars
  <2> SUFFICES ASSUME PapersInv, [PapersNext]_paperVars,
                      cache' # cache \/ saving' # saving,
                      {cache.rev, cache'.rev} \subseteq mine', NEW r \in FullRows
               PROVE  form'[r] = "full" \/ (saving # Null /\ r \in typed)
    OBVIOUS
  <2>1. SofInv /\ [SofNext]_sofVars
    BY PapersSteps DEF PapersInv
  <2>2. cache.rev \in mine' /\ cache'.rev \in mine'
    OBVIOUS
  <2>3. QED
    BY <2>1, <2>2, FormKeeps
<1>2. PapersInv /\ [PapersNext]_paperVars => [FormsStand]_requestVars
  <2>1. PapersInv /\ [PapersNext]_paperVars => RequestInv /\ [RequestNext]_requestVars
    BY PapersSteps DEF PapersInv
  <2>2. QED
    BY <2>1, FormsKeep
<1>3. QED
  BY <1>1, <1>2, PapersInvariance, PTL
  DEF PapersSpec, TypingStands, TypedRowsSurvive, SheetStands, FormsStand
=============================================================================
