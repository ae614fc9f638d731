------------------------- MODULE EmailDeliveryProofs -------------------------
(***************************************************************************)
(* Proofs about the durable send attempt, for every set of requests, keys  *)
(* and contents. The argument is the inductive invariant IInv: an attempt  *)
(* has at most one owner, an owner knows the state of its row, and a key   *)
(* that has reached SMTP belongs for ever to the request that called.      *)
(***************************************************************************)
EXTENDS EmailDelivery, TLAPS

\* Each theorem below rewrites the steps' building blocks.
USE DEF Goto, Answer, SetState, Applies, DbOutcome, request, context, world,
        Owning, Live

-----------------------------------------------------------------------------
\* An update of the state column of one row leaves a well-formed table.
LEMMA StateColumn ==
  ASSUME attempt \in [Keys -> Row], NEW k \in Keys, NEW s \in States
  PROVE  [attempt EXCEPT ![k].state = s] \in [Keys -> Row]
BY DEF Row

\* So does an update of the state and response columns together.
LEMMA ResponseColumn ==
  ASSUME attempt \in [Keys -> Row], NEW k \in Keys, NEW s \in States,
         NEW q \in Requests
  PROVE  [attempt EXCEPT ![k].state = s, ![k].response = q] \in [Keys -> Row]
BY DEF Row

\* The request of a live handler carries a key: what an update of its row
\* needs to be well-typed.
LEMMA LiveHasKey ==
  ASSUME IInv, NEW r \in Requests, pc[r] \in Live
  PROVE  key[r] \in Keys /\ content[r] \in Contents
BY DEF IInv, BeforeWork, OwnerKnows

\* The steps of the handlers keep the table of attempts well-formed.
LEMMA AttemptTyped ==
  ASSUME IInv, NEW r \in Requests, Step(r)
  PROVE  attempt' \in [Keys -> Row]
<1> USE DEF IInv, TypeOK
<1>1. CASE CreateAttempt(r)
  <2>1. key[r] \in Keys /\ content[r] \in Contents
    BY <1>1, LiveHasKey DEF CreateAttempt
  <2>2. QED
    BY <1>1, <2>1 DEF CreateAttempt, Row, States
<1>2. CASE ReclaimAttempt(r)
  <2>1. key[r] \in Keys
    BY <1>2, LiveHasKey DEF ReclaimAttempt
  <2>2. QED
    BY <1>2, <2>1, StateColumn DEF ReclaimAttempt, States
<1>3. CASE ClaimSending(r)
  <2>1. key[r] \in Keys
    BY <1>3, LiveHasKey DEF ClaimSending
  <2>2. [attempt EXCEPT ![key[r]].state = "SENDING"] \in [Keys -> Row]
    BY <2>1, StateColumn DEF States
  <2>3. QED
    BY <1>3, <2>2 DEF ClaimSending
<1>4. CASE RecordSent(r)
  <2>1. key[r] \in Keys
    BY <1>4, LiveHasKey DEF RecordSent
  <2>2. [attempt EXCEPT ![key[r]].state = "SENT", ![key[r]].response = r]
          \in [Keys -> Row]
    BY <2>1, ResponseColumn DEF States
  <2>3. QED
    BY <1>4, <2>2 DEF RecordSent
<1>5. CASE RecordFailure(r)
  <2>1. key[r] \in Keys
    BY <1>5, LiveHasKey DEF RecordFailure
  <2>2. FailureState(r) \in States
    BY DEF FailureState, States
  <2>3. QED
    BY <1>5, <2>1, <2>2, StateColumn DEF RecordFailure
<1>6. QED
  BY <1>1, <1>2, <1>3, <1>4, <1>5
     DEF Step, LookUpAttempt, BeforeSend, CallSmtp, SmtpResolves, SmtpThrows,
         WorkReturns, WorkThrows

\* Every step keeps every variable in its type.
LEMMA TypeStep == IInv /\ [Next]_vars => TypeOK'
<1> SUFFICES ASSUME IInv, [Next]_vars PROVE TypeOK'
  OBVIOUS
<1> USE DEF IInv, TypeOK, Places, Replies
<1>1. ASSUME NEW r \in Requests, Arrive(r) PROVE TypeOK'
  <2>1. key' \in [Requests -> Keys \cup {None}]
    BY <1>1 DEF Arrive
  <2>2. content' \in [Requests -> Contents \cup {None}]
    BY <1>1 DEF Arrive
  <2>3. QED
    BY <1>1, <2>1, <2>2 DEF Arrive
<1>2. ASSUME NEW r \in Requests, ArriveMalformed(r) PROVE TypeOK'
  BY <1>2 DEF ArriveMalformed
<1>3. ASSUME NEW r \in Requests, Step(r) PROVE TypeOK'
  <2>1. attempt' \in [Keys -> Row]
    BY <1>3, AttemptTyped
  <2>2. CASE CreateAttempt(r)
    BY <2>1, <2>2 DEF CreateAttempt
  <2>3. CASE LookUpAttempt(r)
    <3>1. attempt[key[r]].response \in Requests \cup {None}
      BY <2>3, LiveHasKey DEF LookUpAttempt, Row
    <3>2. replayed' \in [Requests -> Requests \cup {None}]
      BY <2>3, <3>1 DEF LookUpAttempt
    <3>3. QED
      BY <2>1, <2>3, <3>2 DEF LookUpAttempt
  <2>4. CASE ReclaimAttempt(r)
    BY <2>1, <2>4 DEF ReclaimAttempt
  <2>5. CASE BeforeSend(r)
    BY <2>5 DEF BeforeSend
  <2>6. CASE ClaimSending(r)
    BY <2>1, <2>6 DEF ClaimSending
  <2>7. CASE CallSmtp(r)
    <3>1. calls' \in [Requests -> Nat]
      BY <2>7 DEF CallSmtp
    <3>2. QED
      BY <2>7, <3>1 DEF CallSmtp
  <2>8. CASE SmtpResolves(r) \/ SmtpThrows(r) \/ WorkReturns(r) \/ WorkThrows(r)
    BY <2>8 DEF SmtpResolves, SmtpThrows, WorkReturns, WorkThrows
  <2>9. CASE RecordSent(r)
    BY <2>1, <2>9 DEF RecordSent
  <2>10. CASE RecordFailure(r)
    BY <2>1, <2>10 DEF RecordFailure
  <2>11. QED
    BY <1>3, <2>2, <2>3, <2>4, <2>5, <2>6, <2>7, <2>8, <2>9, <2>10 DEF Step
<1>4. ASSUME NEW r \in Requests, SmtpDecides(r) PROVE TypeOK'
  <2>1. smtp' \in [Requests -> {"none", "open", "accepted", "refused"}]
    BY <1>4 DEF SmtpDecides
  <2>2. QED
    BY <1>4, <2>1 DEF SmtpDecides
<1>5. CASE Crash
  BY <1>5 DEF Crash
<1>6. CASE UNCHANGED vars
  BY <1>6 DEF vars
<1>7. QED
  BY <1>1, <1>2, <1>3, <1>4, <1>5, <1>6 DEF Next

-----------------------------------------------------------------------------
\* Every step keeps IInv: one case per action of Next, and under the actions
\* that change more than their own request one step per conjunct.
LEMMA Inductive == IInv /\ [Next]_vars => IInv'
<1> SUFFICES ASSUME IInv, [Next]_vars, TypeOK' PROVE IInv'
  BY TypeStep
<1> USE DEF IInv, TypeOK, BeforeWork, OwnerKnows, CallsCounted, State,
        SameContent
<1>1. ASSUME NEW r \in Requests, Arrive(r) PROVE IInv'
  BY <1>1 DEF Arrive, OneOwner, CallerOwns, SentSettled, RepliesSettled, Settled,
     DeliveryKnown
<1>2. ASSUME NEW r \in Requests, ArriveMalformed(r) PROVE IInv'
  BY <1>2 DEF ArriveMalformed, OneOwner, CallerOwns, SentSettled, RepliesSettled, Settled,
     DeliveryKnown
<1>3. ASSUME NEW r \in Requests, CreateAttempt(r) PROVE IInv'
  <2> USE <1>3 DEF CreateAttempt
  <2>1. OneOwner'
    BY DEF OneOwner
  <2>2. ASSUME NEW q \in Requests
        PROVE  BeforeWork(q)' /\ OwnerKnows(q)' /\ CallsCounted(q)'
    BY DEF OneOwner, CallerOwns, Row, DeliveryKnown
  <2>3. CallerOwns'
    BY DEF CallerOwns
  <2>4. SentSettled'
    BY DEF SentSettled, Settled, DeliveryKnown, Row
  <2>5. RepliesSettled'
    BY DEF RepliesSettled, SentSettled, Settled, DeliveryKnown, Row
  <2>6. QED
    BY <2>1, <2>2, <2>3, <2>4, <2>5
<1>4. ASSUME NEW r \in Requests, LookUpAttempt(r) PROVE IInv'
  <2> USE <1>4 DEF LookUpAttempt, Blocked, Retryable
  <2>1. OneOwner'
    BY DEF OneOwner
  <2>2. ASSUME NEW q \in Requests
        PROVE  BeforeWork(q)' /\ OwnerKnows(q)' /\ CallsCounted(q)'
    BY DEF OneOwner, CallerOwns, Row, DeliveryKnown
  <2>3. CallerOwns'
    BY DEF CallerOwns
  <2>4. SentSettled'
    BY DEF SentSettled, Settled, DeliveryKnown, Row
  <2>5. RepliesSettled'
    BY DEF RepliesSettled, SentSettled, Settled, DeliveryKnown, Row
  <2>6. QED
    BY <2>1, <2>2, <2>3, <2>4, <2>5
<1>5. ASSUME NEW r \in Requests, ReclaimAttempt(r) PROVE IInv'
  <2> USE <1>5 DEF ReclaimAttempt, ReclaimMatches, Retryable
  <2>1. OneOwner'
    BY DEF OneOwner
  <2>2. ASSUME NEW q \in Requests
        PROVE  BeforeWork(q)' /\ OwnerKnows(q)' /\ CallsCounted(q)'
    <3>1. BeforeWork(q)'
      <4>1. CASE pc[q] = "reclaim" /\ q # r
        <5>1. key[q] \in Keys /\ key[r] \in Keys
          BY <4>1, LiveHasKey
        <5>2. attempt'[key[q]].hash = attempt[key[q]].hash
          BY <5>1 DEF Row
        <5>3. State(q) # "ABSENT" => attempt'[key[q]].state # "ABSENT"
          BY <5>1 DEF Row
        <5>4. QED
          BY <4>1, <5>2, <5>3
      <4>2. CASE pc[q] # "reclaim" \/ q = r
        BY <4>2
      <4>3. QED
        BY <4>1, <4>2
    <3>2. OwnerKnows(q)'
      <4>1. CASE attempt' = attempt /\ pc' = [pc EXCEPT ![r] = "done"]
        BY <4>1 DEF DeliveryKnown
      <4>2. CASE /\ State(r) = "FAILED"
                 /\ attempt' = [attempt EXCEPT ![key[r]].state = "PREPARING"]
        <5>1. key[r] \in Keys
          BY LiveHasKey
        <5>2. pc[q] \in Owning => key[q] # key[r]
          BY <4>2
        <5>3. attempt'[key[r]].state = "PREPARING"
              /\ attempt'[key[r]].hash = attempt[key[r]].hash
          BY <4>2, <5>1 DEF Row
        <5>4. \A k \in Keys : k # key[r] => attempt'[k] = attempt[k]
          BY <4>2, <5>1
        <5>5. CASE q = r
          BY <5>1, <5>3, <5>5
        <5>6. CASE q # r
          BY <5>1, <5>2, <5>4, <5>6 DEF DeliveryKnown
        <5>7. QED
          BY <5>5, <5>6
      <4>3. QED
        BY <4>1, <4>2
    <3>3. CallsCounted(q)'
      BY DEF CallerOwns, Row, DeliveryKnown
    <3>4. QED
      BY <3>1, <3>2, <3>3
  <2>3. CallerOwns'
    BY DEF CallerOwns
  <2>4. SentSettled'
    BY DEF SentSettled, Settled, DeliveryKnown, Row
  <2>5. RepliesSettled'
    BY DEF RepliesSettled, SentSettled, Settled, DeliveryKnown, Row
  <2>6. QED
    BY <2>1, <2>2, <2>3, <2>4, <2>5
<1>6. ASSUME NEW r \in Requests, BeforeSend(r) PROVE IInv'
  BY <1>6 DEF BeforeSend, OneOwner, CallerOwns, SentSettled, RepliesSettled, Settled,
     DeliveryKnown, MayStart
<1>7. ASSUME NEW r \in Requests, ClaimSending(r) PROVE IInv'
  <2> USE <1>7 DEF ClaimSending
  <2>1. OneOwner'
    BY DEF OneOwner
  <2>2. ASSUME NEW q \in Requests
        PROVE  BeforeWork(q)' /\ OwnerKnows(q)' /\ CallsCounted(q)'
    BY DEF OneOwner, CallerOwns, Row, DeliveryKnown
  <2>3. CallerOwns'
    BY DEF CallerOwns
  <2>4. SentSettled'
    BY DEF SentSettled, Settled, DeliveryKnown, Row
  <2>5. RepliesSettled'
    BY DEF RepliesSettled, SentSettled, Settled, DeliveryKnown, Row
  <2>6. QED
    BY <2>1, <2>2, <2>3, <2>4, <2>5
<1>8. ASSUME NEW r \in Requests, CallSmtp(r) PROVE IInv'
  <2> USE <1>8 DEF CallSmtp
  <2>1. OneOwner'
    BY DEF OneOwner
  <2>2. ASSUME NEW q \in Requests
        PROVE  BeforeWork(q)' /\ OwnerKnows(q)' /\ CallsCounted(q)'
    <3>1. BeforeWork(q)'
      OBVIOUS
    <3>2. OwnerKnows(q)'
      BY DEF OneOwner, Row, DeliveryKnown
    <3>3. CallsCounted(q)'
      BY DEF CallerOwns, Row, DeliveryKnown
    <3>4. QED
      BY <3>1, <3>2, <3>3
  <2>3. CallerOwns'
    <3>1. SUFFICES ASSUME NEW p \in Requests, NEW q \in Requests,
                          calls'[p] > 0, key[p] = key[q],
                          pc'[q] \in Owning \/ calls'[q] > 0
                   PROVE  p = q
      BY DEF CallerOwns
    <3>2. CASE p = r
      BY <3>1, <3>2 DEF OneOwner, CallerOwns
    <3>3. CASE p # r
      BY <3>1, <3>3 DEF CallerOwns
    <3>4. QED
      BY <3>2, <3>3
  <2>4. SentSettled'
    BY DEF SentSettled, Settled, DeliveryKnown, Row
  <2>5. RepliesSettled'
    BY DEF RepliesSettled, SentSettled, Settled, DeliveryKnown, Row
  <2>6. QED
    BY <2>1, <2>2, <2>3, <2>4, <2>5
<1>9. ASSUME NEW r \in Requests, SmtpResolves(r) PROVE IInv'
  BY <1>9 DEF SmtpResolves, OneOwner, CallerOwns, SentSettled, RepliesSettled, Settled,
     DeliveryKnown
<1>10. ASSUME NEW r \in Requests, SmtpThrows(r) PROVE IInv'
  BY <1>10 DEF SmtpThrows, OneOwner, CallerOwns, SentSettled, RepliesSettled, Settled,
     DeliveryKnown
<1>11. ASSUME NEW r \in Requests, WorkReturns(r) PROVE IInv'
  BY <1>11 DEF WorkReturns, OneOwner, CallerOwns, SentSettled, RepliesSettled, Settled,
     DeliveryKnown
<1>12. ASSUME NEW r \in Requests, WorkThrows(r) PROVE IInv'
  BY <1>12 DEF WorkThrows, OneOwner, CallerOwns, SentSettled, RepliesSettled, Settled,
     DeliveryKnown
<1>13. ASSUME NEW r \in Requests, RecordSent(r) PROVE IInv'
  <2> USE <1>13 DEF RecordSent
  <2>1. OneOwner'
    BY DEF OneOwner
  <2>2. ASSUME NEW q \in Requests
        PROVE  BeforeWork(q)' /\ OwnerKnows(q)' /\ CallsCounted(q)'
    <3>1. BeforeWork(q)'
      OBVIOUS
    <3>2. OwnerKnows(q)'
      BY DEF OneOwner, Row, DeliveryKnown
    <3>3. CallsCounted(q)'
      BY DEF CallerOwns, Row, DeliveryKnown
    <3>4. QED
      BY <3>1, <3>2, <3>3
  <2>3. CallerOwns'
    BY DEF CallerOwns
  <2>4. SentSettled'
    <3>1. SUFFICES ASSUME NEW k \in Keys, attempt'[k].state = "SENT"
                   PROVE  \E q \in Requests :
                            /\ attempt'[k].response = q
                            /\ key[q] = k /\ content[q] = attempt'[k].hash
                            /\ Settled(q)'
                            /\ \A p \in Requests :
                                 calls[p] > 0 /\ key[p] = k => p = q
      BY DEF SentSettled
    <3>2. CASE attempt'[k] = attempt[k]
      <4>1. PICK q \in Requests :
              /\ attempt[k].response = q
              /\ key[q] = k /\ content[q] = attempt[k].hash
              /\ Settled(q)
              /\ \A p \in Requests : calls[p] > 0 /\ key[p] = k => p = q
        <5>1. SentSettled
          OBVIOUS
        <5>2. attempt[k].state = "SENT"
          BY <3>1, <3>2
        <5>3. QED
          BY <5>1, <5>2, Zenon DEF SentSettled
      <4>2. Settled(q)'
        BY <4>1 DEF Settled, DeliveryKnown
      <4>3. attempt'[k].response = q /\ content[q] = attempt'[k].hash
        BY <3>2, <4>1
      <4>4. WITNESS q \in Requests
      <4>5. QED
        BY <4>1, <4>2, <4>3, Zenon
    <3>3. CASE attempt'[k] # attempt[k]
      <4>1. k = key[r] /\ attempt'[k].response = r
                      /\ attempt'[k].hash = attempt[k].hash
        BY <3>1, <3>3 DEF Row
      <4>2. QED
        BY <4>1 DEF Settled, DeliveryKnown, CallerOwns
    <3>4. QED
      BY <3>2, <3>3
  <2>5. RepliesSettled'
    BY DEF RepliesSettled, SentSettled, Settled, DeliveryKnown, Row
  <2>6. QED
    BY <2>1, <2>2, <2>3, <2>4, <2>5
<1>14. ASSUME NEW r \in Requests, RecordFailure(r) PROVE IInv'
  <2> USE <1>14 DEF RecordFailure, FailureState
  <2>1. OneOwner'
    BY DEF OneOwner
  <2>2. ASSUME NEW q \in Requests
        PROVE  BeforeWork(q)' /\ OwnerKnows(q)' /\ CallsCounted(q)'
    BY DEF OneOwner, CallerOwns, Row, DeliveryKnown
  <2>3. CallerOwns'
    BY DEF CallerOwns
  <2>4. SentSettled'
    BY DEF SentSettled, Settled, DeliveryKnown, Row
  <2>5. RepliesSettled'
    BY DEF RepliesSettled, SentSettled, Settled, DeliveryKnown, Row
  <2>6. QED
    BY <2>1, <2>2, <2>3, <2>4, <2>5
<1>15. ASSUME NEW r \in Requests, SmtpDecides(r) PROVE IInv'
  BY <1>15 DEF SmtpDecides, OneOwner, CallerOwns, SentSettled, RepliesSettled, Settled,
     DeliveryKnown
<1>16. CASE Crash
  BY <1>16 DEF Crash, OneOwner, CallerOwns, SentSettled, RepliesSettled, Settled,
     DeliveryKnown
<1>17. CASE UNCHANGED vars
  BY <1>17 DEF vars, OneOwner, CallerOwns, SentSettled, RepliesSettled, Settled,
     DeliveryKnown
<1>18. QED
  BY <1>1, <1>2, <1>3, <1>4, <1>5, <1>6, <1>7, <1>8, <1>9, <1>10, <1>11, <1>12,
     <1>13, <1>14, <1>15, <1>16, <1>17 DEF Next, Step

\* An empty table and idle requests satisfy the inductive invariant.
LEMMA Initial == Init => IInv
BY NoneAssumption
   DEF Init, IInv, TypeOK, Row, States, Places, Replies, OneOwner, BeforeWork,
       OwnerKnows, CallsCounted, CallerOwns, SentSettled, RepliesSettled

\* Every reachable state of the delivery service satisfies the inductive
\* invariant: what owners know of their rows, and what the rows remember.
THEOREM Invariance == Spec => []IInv
<1>1. Init => IInv
  BY Initial
<1>2. IInv /\ [Next]_vars => IInv'
  BY Inductive
<1>3. QED
  BY <1>1, <1>2, PTL DEF Spec

-----------------------------------------------------------------------------
\* Every reachable state is well-formed.
THEOREM TypeCorrect == Spec => []TypeOK
<1>1. IInv => TypeOK
  BY DEF IInv
<1>2. QED
  BY <1>1, Invariance, PTL

\* The class comment of EmailDeliveryService: one key invokes SMTP at most
\* once, over all requests, retries, crashes and database failures.
THEOREM AtMostOnce == Spec => []AtMostOneInvocation
<1>1. IInv => AtMostOneInvocation
  BY DEF IInv, CallsCounted, CallerOwns, AtMostOneInvocation
<1>2. QED
  BY <1>1, Invariance, PTL

\* The unique key and the conditional updates make the attempt a lock.
THEOREM MutualExclusion == Spec => []OneOwner
<1>1. IInv => OneOwner
  BY DEF IInv
<1>2. QED
  BY <1>1, Invariance, PTL

\* A retry is let through only for a message that never reached SMTP.
THEOREM RetryIsSafe == Spec => []FailedMeansUnsent
<1>1. IInv => FailedMeansUnsent
  BY DEF IInv, TypeOK, CallsCounted, FailedMeansUnsent, Sent, State
<1>2. QED
  BY <1>1, Invariance, PTL

\* Success is reported, directly or by replay, only for a message the server
\* has accepted.
THEOREM SuccessIsHonest == Spec => []SuccessMeansAccepted
<1>1. IInv => SuccessMeansAccepted
  BY DEF IInv, TypeOK, CallsCounted, RepliesSettled, Settled, DeliveryKnown,
         SuccessMeansAccepted
<1>2. QED
  BY <1>1, Invariance, PTL

\* A replayed response belongs to the same key, user, URL and body.
THEOREM ReplayIsOwn == Spec => []ReplaysOwnContent
<1>1. IInv => ReplaysOwnContent
  BY DEF IInv, RepliesSettled, ReplaysOwnContent
<1>2. QED
  BY <1>1, Invariance, PTL

\* What EmailDeliveryService keeps throughout: one invocation of a key, one owner
\* of an attempt, and records that say what became of the message.
THEOREM SendingSafe == Spec => []SendingIsSafe
<1>1. IInv /\ AtMostOneInvocation /\ OneOwner /\ FailedMeansUnsent
        /\ SuccessMeansAccepted /\ ReplaysOwnContent => SendingIsSafe
  BY DEF SendingIsSafe
<1>2. QED
  BY <1>1, Invariance, AtMostOnce, MutualExclusion, RetryIsSafe, SuccessIsHonest,
     ReplayIsOwn, PTL

\* No step touches an attempt that has no owner and is not retryable, or gives
\* it an owner: what a dead process left behind waits for a person.
THEOREM AbandonedIsFrozen == Spec => AbandonedStaysBlocked
<1> DEFINE Frozen == \A k \in Keys :
                       Abandoned(k) => Abandoned(k)' /\ attempt'[k] = attempt[k]
<1>1. IInv /\ [Next]_vars => [Frozen]_vars
  <2> SUFFICES ASSUME IInv, Next, NEW k \in Keys, Abandoned(k)
               PROVE  Abandoned(k)' /\ attempt'[k] = attempt[k]
    OBVIOUS
  <2> DEFINE Owned(q) == pc[q] \in Owning /\ key[q] = k
  <2>1. ASSUME NEW r \in Requests, Step(r)
        PROVE  attempt'[k] = attempt[k] /\ \A q \in Requests : ~Owned(q)'
    <3>1. \A q \in Requests : pc[q] \in Owning => key[q] # k
      BY DEF Abandoned
    <3>2. pc[r] \in Live => key[r] \in Keys
      BY LiveHasKey
    <3>3. attempt \in [Keys -> Row] /\ pc \in [Requests -> Places]
      BY DEF IInv, TypeOK
    <3>4. key[r] = k => State(r) \in {"PREPARING", "SENDING"}
      BY DEF Abandoned, State
    <3>5. attempt'[k] = attempt[k]
      BY <2>1, <3>1, <3>2, <3>3, <3>4
         DEF Step, CreateAttempt, LookUpAttempt, ReclaimAttempt, BeforeSend,
             ClaimSending, CallSmtp, SmtpResolves, SmtpThrows, WorkReturns,
             WorkThrows, RecordSent, RecordFailure, ReclaimMatches, Retryable
    <3>6. key' = key /\ \A q \in Requests \ {r} : pc'[q] = pc[q]
      BY <2>1, <3>3
         DEF Step, CreateAttempt, LookUpAttempt, ReclaimAttempt, BeforeSend,
             ClaimSending, CallSmtp, SmtpResolves, SmtpThrows, WorkReturns,
             WorkThrows, RecordSent, RecordFailure
    <3>7. key[r] = k => pc'[r] \notin Owning
      BY <2>1, <3>1, <3>3, <3>4
         DEF Step, CreateAttempt, LookUpAttempt, ReclaimAttempt, BeforeSend,
             ClaimSending, CallSmtp, SmtpResolves, SmtpThrows, WorkReturns,
             WorkThrows, RecordSent, RecordFailure, ReclaimMatches, Retryable
    <3>8. QED
      BY <3>1, <3>5, <3>6, <3>7
  <2>2. ASSUME NEW r \in Requests,
               Arrive(r) \/ ArriveMalformed(r) \/ SmtpDecides(r)
        PROVE  attempt' = attempt /\ \A q \in Requests : ~Owned(q)'
    BY <2>2 DEF IInv, TypeOK, Abandoned, Arrive, ArriveMalformed, SmtpDecides
  <2>3. ASSUME Crash
        PROVE  attempt' = attempt /\ \A q \in Requests : ~Owned(q)'
    BY <2>3 DEF Crash, Abandoned
  <2>4. QED
    BY <2>1, <2>2, <2>3 DEF Next, Abandoned
<1>2. QED
  BY <1>1, Invariance, PTL DEF Spec, AbandonedStaysBlocked

-----------------------------------------------------------------------------
\* The refinement. What a message has come to, seen from AtMostOnceMail, is
\* moved only by the calls and by the mail server.
LEMMA MailUnchanged ==
  UNCHANGED <<key, calls, smtp>> => UNCHANGED mailBar
BY DEF mailBar, Sent

\* What a client has been told is read off the answers alone.
LEMMA ToldUnchanged == UNCHANGED reply => UNCHANGED toldBar
BY DEF toldBar

\* An answer is one of the two answers of AtMostOnceMail.
LEMMA AnswerTells ==
  ASSUME IInv, NEW r \in Requests, NEW text \in Replies \ {"nothing"},
         reply[r] = "nothing", reply' = [reply EXCEPT ![r] = text]
  PROVE  /\ toldBar[r] = "nothing"
         /\ toldBar' = [toldBar EXCEPT ![r] =
                          IF text = "ok" THEN "success" ELSE "failure"]
BY DEF IInv, TypeOK, Replies, toldBar

\* The message of a key is not open once the run that may have sent it, and
\* no other can have, is known to have ended well.
LEMMA SettledNotOpen ==
  ASSUME IInv, NEW k \in Keys, NEW q \in Requests, DeliveryKnown(q),
         \A p \in Requests : calls[p] > 0 /\ key[p] = k => p = q
  PROVE  mailBar[k] # "open"
BY DEF IInv, TypeOK, CallsCounted, DeliveryKnown, mailBar, Sent

\* Every step is one of AtMostOnceMail or leaves its state alone.
LEMMA StepRefines == IInv /\ [Next]_vars => [Mail!Next]_Mail!vars
<1> SUFFICES ASSUME IInv, [Next]_vars PROVE [Mail!Next]_Mail!vars
  OBVIOUS
<1> USE DEF IInv, TypeOK, Mail!vars
<1>1. ASSUME NEW r \in Requests, Arrive(r) PROVE [Mail!Next]_Mail!vars
  <2>1. PICK k \in Keys : key' = [key EXCEPT ![r] = k]
    BY <1>1 DEF Arrive
  <2>2. key[r] = None /\ toldBar[r] = "nothing"
    BY <1>1 DEF Arrive, BeforeWork, toldBar
  <2>3. UNCHANGED toldBar
    BY <1>1, ToldUnchanged DEF Arrive
  <2>4. UNCHANGED mailBar
    <3>1. calls[r] = 0 /\ smtp[r] = "none"
      BY <1>1 DEF Arrive, BeforeWork
    <3>2. UNCHANGED <<calls, smtp>>
      BY <1>1 DEF Arrive
    <3>3. \A q \in Requests : q # r => key'[q] = key[q]
      BY <2>1
    <3>4. QED
      BY <3>1, <3>2, <3>3 DEF mailBar, Sent
  <2>5. Mail!Ask(r, k)
    BY <2>1, <2>2, <2>3, <2>4 DEF Mail!Ask
  <2>6. QED
    BY <2>5 DEF Mail!Next
<1>2. ASSUME NEW r \in Requests, NEW text \in Replies \ {"nothing", "ok"},
             reply[r] = "nothing", reply' = [reply EXCEPT ![r] = text],
             UNCHANGED <<key, calls, smtp>>
      PROVE  Mail!Next
  <2>1. Mail!TellFailure(r)
    BY <1>2, AnswerTells, MailUnchanged DEF Mail!TellFailure
  <2>2. QED
    BY <2>1 DEF Mail!Next
<1>3. ASSUME NEW r \in Requests, reply[r] = "nothing",
             reply' = [reply EXCEPT ![r] = "ok"],
             UNCHANGED <<key, calls, smtp>>,
             key[r] \in Keys, mailBar[key[r]] # "open"
      PROVE  Mail!Next
  <2>1. key[r] # None
    BY <1>3, NoneAssumption
  <2>2. Mail!TellSuccess(r)
    BY <1>3, <2>1, AnswerTells, MailUnchanged DEF Mail!TellSuccess, Replies
  <2>3. QED
    BY <2>2 DEF Mail!Next
<1>4. ASSUME UNCHANGED <<key, calls, smtp, reply>> PROVE UNCHANGED Mail!vars
  BY <1>4, MailUnchanged, ToldUnchanged
<1>5. ASSUME NEW r \in Requests, ArriveMalformed(r) PROVE Mail!Next
  BY <1>5, <1>2 DEF ArriveMalformed, BeforeWork, Replies
<1>6. ASSUME NEW r \in Requests, CreateAttempt(r)
      PROVE  Mail!Next \/ UNCHANGED Mail!vars
  BY <1>6, <1>2, <1>4 DEF CreateAttempt, BeforeWork, Replies
<1>7. ASSUME NEW r \in Requests, LookUpAttempt(r)
      PROVE  Mail!Next \/ UNCHANGED Mail!vars
  <2>1. reply[r] = "nothing" /\ key[r] \in Keys
    BY <1>7, LiveHasKey DEF LookUpAttempt, BeforeWork
  <2>2. State(r) = "SENT" => mailBar[key[r]] # "open"
    BY <2>1, SettledNotOpen DEF SentSettled, Settled, State
  <2>3. QED
    BY <1>7, <2>1, <2>2, <1>2, <1>3, <1>4 DEF LookUpAttempt, Replies
<1>8. ASSUME NEW r \in Requests, ReclaimAttempt(r)
      PROVE  Mail!Next \/ UNCHANGED Mail!vars
  BY <1>8, <1>2, <1>4 DEF ReclaimAttempt, BeforeWork, Replies
<1>9. ASSUME NEW r \in Requests, CallSmtp(r) PROVE Mail!Next
  <2>1. key[r] \in Keys /\ calls[r] = 0
    BY <1>9 DEF CallSmtp, OwnerKnows, CallsCounted
  <2>2. \A q \in Requests : key[q] = key[r] => calls[q] = 0 /\ smtp[q] = "none"
    BY <1>9, <2>1 DEF CallSmtp, CallerOwns, CallsCounted
  <2>3. mailBar[key[r]] = "unsent"
    BY <2>1, <2>2 DEF mailBar, Sent
  <2>4. calls'[r] > 0 /\ smtp'[r] = "open" /\ UNCHANGED <<key, reply>>
    BY <1>9, <2>1 DEF CallSmtp
  <2>5. \A q \in Requests : q # r => calls'[q] = calls[q] /\ smtp'[q] = smtp[q]
    BY <1>9 DEF CallSmtp
  <2>6. mailBar' = [mailBar EXCEPT ![key[r]] = "open"]
    <3>1. mailBar'[key[r]] = "open"
      BY <2>1, <2>2, <2>4, <2>5 DEF mailBar, Sent
    <3>2. ASSUME NEW k \in Keys, k # key[r] PROVE mailBar'[k] = mailBar[k]
      BY <2>4, <2>5, <3>2 DEF mailBar, Sent
    <3>3. /\ mailBar = [k \in Keys |-> mailBar[k]]
          /\ mailBar' = [k \in Keys |-> mailBar'[k]]
      BY DEF mailBar
    <3>4. QED
      BY <3>1, <3>2, <3>3
  <2>7. Mail!Invoke(key[r])
    BY <2>3, <2>4, <2>6, ToldUnchanged DEF Mail!Invoke
  <2>8. QED
    BY <2>1, <2>7 DEF Mail!Next
<1>10. ASSUME NEW r \in Requests, RecordSent(r)
       PROVE  Mail!Next \/ UNCHANGED Mail!vars
  <2>1. reply[r] = "nothing" /\ key[r] \in Keys /\ DeliveryKnown(r)
    BY <1>10 DEF RecordSent, OwnerKnows
  <2>2. \A p \in Requests : calls[p] > 0 /\ key[p] = key[r] => p = r
    BY <1>10 DEF RecordSent, CallerOwns
  <2>3. mailBar[key[r]] # "open"
    BY <2>1, <2>2, SettledNotOpen
  <2>4. QED
    BY <1>10, <2>1, <2>3, <1>3, <1>4 DEF RecordSent
<1>11. ASSUME NEW r \in Requests, RecordFailure(r) PROVE Mail!Next
  <2>1. reply[r] = "nothing" /\ UNCHANGED <<key, calls, smtp>>
    BY <1>11 DEF RecordFailure, OwnerKnows
  <2>2. CASE started[r]
    BY <1>11, <2>1, <2>2, <1>2 DEF RecordFailure, Replies
  <2>3. CASE ~started[r]
    BY <1>11, <2>1, <2>3, <1>2 DEF RecordFailure, Replies
  <2>4. QED
    BY <2>2, <2>3
<1>12. ASSUME NEW r \in Requests, SmtpDecides(r)
       PROVE  Mail!Next \/ UNCHANGED Mail!vars
  <2>1. PICK d \in {"accepted", "refused"} : smtp' = [smtp EXCEPT ![r] = d]
    BY <1>12 DEF SmtpDecides
  <2>2. calls[r] = 1 /\ key[r] \in Keys /\ smtp[r] = "open"
    BY <1>12 DEF SmtpDecides, CallsCounted
  <2>3. UNCHANGED <<key, calls, toldBar>>
    BY <1>12, ToldUnchanged DEF SmtpDecides
  <2>4. \A q \in Requests : q # r => smtp'[q] = smtp[q]
    BY <2>1
  <2>5. \A q \in Requests : smtp[q] = "accepted" /\ key[q] = key[r] => FALSE
    BY <2>2 DEF CallsCounted, CallerOwns
  <2>6. mailBar[key[r]] = "open"
    BY <2>2, <2>5 DEF mailBar, Sent
  <2>7. CASE d = "accepted"
    <3>1. mailBar' = [mailBar EXCEPT ![key[r]] = "accepted"]
      BY <2>1, <2>2, <2>3, <2>4, <2>5, <2>7 DEF mailBar, Sent
    <3>2. Mail!Accept(key[r])
      BY <2>3, <2>6, <3>1 DEF Mail!Accept
    <3>3. QED
      BY <2>2, <3>2 DEF Mail!Next
  <2>8. CASE d = "refused"
    <3>1. \A q \in Requests : smtp'[q] = "accepted" <=> smtp[q] = "accepted"
      BY <2>1, <2>2, <2>8
    <3>2. UNCHANGED mailBar
      BY <2>3, <3>1 DEF mailBar, Sent
    <3>3. QED
      BY <2>3, <3>2
  <2>9. QED
    BY <2>7, <2>8
<1>13. QED
  BY <1>1, <1>4, <1>5, <1>6, <1>7, <1>8, <1>9, <1>10, <1>11, <1>12
     DEF Next, Step, BeforeSend, ClaimSending, SmtpResolves, SmtpThrows,
         WorkReturns, WorkThrows, Crash, vars

\* The delivery service implements AtMostOnceMail.
THEOREM Refinement == Spec => Promise
<1>1. Init => Mail!Init
  BY DEF Init, Mail!Init, mailBar, toldBar, Sent
<1>2. IInv /\ [Next]_vars => [Mail!Next]_Mail!vars
  BY StepRefines
<1>3. QED
  BY <1>1, <1>2, Invariance, PTL DEF Spec, Promise, Mail!Spec
=============================================================================
