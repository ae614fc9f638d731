--------------------------- MODULE PortCallProofs ---------------------------
(***************************************************************************)
(* The port call, and the seed that fills its tables.                      *)
(*                                                                         *)
(* The port call for any finite set of calls, any document types, clock    *)
(* and lay days. The argument has one part per module: a stamp is only put *)
(* on an accepted mail and never taken off, and counts of the log nest     *)
(* (Dispatch); what a call on the nomination has read was true once, and   *)
(* the histories remember it (Nomination); a quiet verdict points at a     *)
(* stamped ETA (PortCall).                                                 *)
(***************************************************************************)
EXTENDS PortCall, Seed, FiniteSetTheorems, WellFoundedInduction, TLAPS

Places == {"idle", "prepared", "logged", "mailed", "write", "flag", "done"}

\* What the place of a send says of its row and of its mail.
LogOfCall ==
  \A c \in Calls :
    /\ pc[c] \in {"idle", "prepared"} => log[c] = None
    /\ pc[c] = "prepared" => sending[c] # None
    /\ pc[c] \in {"logged", "mailed"} => log[c] # None /\ log[c].sentAt = None
    /\ pc[c] = "mailed" => c \in accepted
    /\ Sent(c) => c \in accepted

\* What a call counts stays countable, it does not count itself, and what a
\* counted document has counted is counted too.
Nested(c, type, counted) ==
  counted # None =>
    /\ c \notin counted
    /\ \A d \in counted :
         /\ log[d] # None /\ log[d].type = type
         /\ type # "CARGO_UPDATE" => log[d].sentAt # None
         /\ log[d].counted # None => log[d].counted \subseteq counted

CountsNest ==
  \A c \in Calls :
    /\ log[c] # None => Nested(c, log[c].type, log[c].counted)
    /\ pc[c] = "prepared" => Nested(c, sending[c].type, sending[c].counted)

\* A cancellation has been recorded only of a cancelled nomination, and a call
\* that may still cancel has read that none was.
CancelsOnce ==
  /\ \A c \in Calls : statusLog[c] # None =>
       row.status = "CANCELLED" /\ statusLog[c].after = {}
  /\ \A c \in Calls : seen[c] # None /\ seen[c].op = "cancel" =>
       seen[c].after = {}
  /\ \A c \in Calls : pc[c] = "write" => seen[c] # None

Reached == {stageLog[j].to : j \in 1..Len(stageLog)}

\* The stage, and any stage a transition has read, is in the history.
StagesReached ==
  /\ stage = "NONE" => stageLog = <<>>
  /\ stage # "NONE" => stage \in Reached
  /\ \A c \in Calls : seen[c] # None /\ seen[c].op = "advance" =>
       seen[c].stage # "NONE" /\ seen[c].stage \in Reached

\* A verdict that calls off the alert points at an ETA that was sent.
Quiet(v) ==
  v # None /\ ~v.stale =>
    /\ v.informed /\ v.last # None
    /\ \E c \in Calls : /\ log[c] # None /\ log[c].type = "ETA_ETB"
                        /\ log[c].sentAt = v.last /\ c \in accepted

VerdictsHold == Quiet(metadata) /\ \A c \in Calls : Quiet(due[c])

LogInv == LogTypeOK /\ pc \in [Calls -> Places] /\ LogOfCall /\ CountsNest
NominationInv ==
  NominationTypeOK /\ CancelsOnce /\ StagesReached /\ StagesInOrder
AlertInv == /\ due \in [Calls -> Verdict \cup {None}]
            /\ metadata \in Verdict \cup {None}
            /\ VerdictsHold

IInv == LogInv /\ NominationInv /\ AlertInv

-----------------------------------------------------------------------------
\* Nothing is logged, read or flagged when the program starts.
LEMMA Initial == Init => IInv
<1> SUFFICES ASSUME Init PROVE IInv
  OBVIOUS
<1>1. LogInv
  <2>1. /\ now = 0 /\ accepted = {}
        /\ pc = [c \in Calls |-> "idle"]
        /\ sending = [c \in Calls |-> None] /\ log = [c \in Calls |-> None]
    BY DEF Init, LogInit
  <2>2. LogTypeOK /\ pc \in [Calls -> Places]
    <3>1. 0 \in Time
      BY DispatchAssumption DEF Time
    <3>2. sending \in [Calls -> Draft \cup {None}]
      BY <2>1
    <3>3. log \in [Calls -> Row \cup {None}]
      BY <2>1
    <3>4. QED
      BY <2>1, <3>1, <3>2, <3>3 DEF LogTypeOK, Places
  <2>3. LogOfCall /\ CountsNest
    BY <2>1 DEF LogOfCall, CountsNest, Sent
  <2>4. QED
    BY <2>2, <2>3 DEF LogInv
<1>2. NominationTypeOK /\ CancelsOnce
  <2>2. "PRE_ARRIVAL" \in StageNames
    <3>1. Stages[1] = "PRE_ARRIVAL" /\ 1 \in 1..4
      BY DEF Stages
    <3>2. QED
      BY <3>1 DEF StageNames
  <2>3. stageLog \in Seq(Step)
    <3> DEFINE first == [from |-> "NONE", to |-> "PRE_ARRIVAL"]
    <3>1. first \in Step
      BY <2>2 DEF Step
    <3> HIDE DEF first
    <3>2. << >> \in Seq(Step) /\ <<first>> \in Seq(Step)
      BY <3>1
    <3>3. QED
      BY <3>2 DEF Init, NominationInit, first
  <2>4. NominationTypeOK
    BY <2>2, <2>3 DEF Init, NominationInit, NominationTypeOK
  <2>5. CancelsOnce
    BY DEF Init, LogInit, NominationInit, CancelsOnce
  <2>6. QED
    BY <2>4, <2>5
<1>3. StagesReached /\ StagesInOrder
  BY DEF Init, NominationInit, StagesReached, Reached, StagesInOrder
<1>4. AlertInv
  BY DEF Init, AlertInv, VerdictsHold, Quiet
<1>5. QED
  BY <1>1, <1>2, <1>3, <1>4 DEF IInv, NominationInv
-----------------------------------------------------------------------------
\* A step of a send: rows are added and stamped, and never changed otherwise.
LogGrows ==
  /\ \A d \in Calls : log[d] # None =>
       /\ log'[d] # None
       /\ log'[d].type = log[d].type /\ log'[d].counted = log[d].counted
       /\ log[d].sentAt # None => log'[d] = log[d]
  /\ accepted \subseteq accepted'

\* Nested of the next state, for arguments of this one.
NestedNext(c, type, counted) ==
  counted # None =>
    /\ c \notin counted
    /\ \A d \in counted :
         /\ log'[d] # None /\ log'[d].type = type
         /\ type # "CARGO_UPDATE" => log'[d].sentAt # None
         /\ log'[d].counted # None => log'[d].counted \subseteq counted

\* What was counted stays as it was counted while the log grows.
LEMMA NestingKept ==
  ASSUME LogGrows, NEW c, NEW type, NEW counted \in (SUBSET Calls) \cup {None},
         Nested(c, type, counted)
  PROVE  NestedNext(c, type, counted)
<1> SUFFICES ASSUME counted # None, NEW d \in counted
             PROVE  /\ log'[d] # None /\ log'[d].type = type
                    /\ type # "CARGO_UPDATE" => log'[d].sentAt # None
                    /\ log'[d].counted # None => log'[d].counted \subseteq counted
  BY DEF Nested, NestedNext
<1>1. d \in Calls
  OBVIOUS
<1>2. QED
  BY <1>1 DEF Nested, LogGrows

\* A document counts rows that are there, and whatever they have counted.
LEMMA CountingNests ==
  ASSUME LogInv, NEW c \in Calls, pc[c] = "idle", NEW type
  PROVE  Nested(c, type, Counted(type))
<1>1. c \notin Counted(type)
  BY DEF LogInv, LogOfCall, Counted, Logged
<1>2. ASSUME NEW d \in Counted(type), log[d].counted # None,
             NEW e \in log[d].counted
      PROVE  e \in Counted(type)
  <2>1. d \in Calls /\ log[d] # None /\ log[d].type = type
    BY DEF Counted, Logged
  <2>2. log[d] \in Row
    BY <2>1 DEF LogInv, LogTypeOK
  <2>3. e \in Calls
    BY <1>2, <2>2 DEF Row
  <2>4. Nested(d, type, log[d].counted)
    BY <2>1 DEF LogInv, CountsNest
  <2>5. log[e] # None /\ log[e].type = type
        /\ (type # "CARGO_UPDATE" => log[e].sentAt # None)
    BY <1>2, <2>4 DEF Nested
  <2>6. QED
    BY <2>3, <2>5 DEF Counted, Logged
<1>3. \A d \in Counted(type) :
        /\ log[d] # None /\ log[d].type = type
        /\ type # "CARGO_UPDATE" => log[d].sentAt # None
  BY DEF Counted, Logged
<1>4. QED
  BY <1>1, <1>2, <1>3 DEF Nested

\* Preparing a send touches neither the log nor what was accepted.
LEMMA Prepares ==
  ASSUME LogInv, NEW c \in Calls, NEW draft \in Draft, Prepare(c, draft),
         Nested(c, draft.type, draft.counted)
  PROVE  LogInv' /\ UNCHANGED <<now, log, accepted>>
<1>1. draft # None
  BY DispatchAssumption
<1>2. UNCHANGED <<now, log, accepted>> /\ pc[c] = "idle"
  BY DEF Prepare
<1>3. LogTypeOK' /\ (pc \in [Calls -> Places])'
  BY DEF Prepare, LogInv, LogTypeOK, Places
<1>4. \A d \in Calls : IF d = c THEN pc'[d] = "prepared" /\ sending'[d] = draft
                                ELSE pc'[d] = pc[d] /\ sending'[d] = sending[d]
  BY DEF Prepare, LogInv, LogTypeOK
<1>5. LogOfCall'
  BY <1>1, <1>2, <1>4 DEF LogInv, LogOfCall, Sent
<1>6. CountsNest'
  BY <1>2, <1>4 DEF LogInv, CountsNest, Nested
<1>7. QED
  BY <1>2, <1>3, <1>5, <1>6 DEF LogInv

LEMMA Starts ==
  ASSUME LogInv, NEW c \in Calls, Start(c)
  PROVE  LogInv' /\ UNCHANGED <<now, log, accepted>>
<1>1. CASE StartSubDocument(c)
  <2>1. PICK type \in Types, trial \in BOOLEAN :
          Prepare(c, [type |-> type, trial |-> trial,
                      counted |-> IF type \in Numbered THEN Counted(type)
                                  ELSE None])
    BY <1>1 DEF StartSubDocument
  <2> DEFINE counted == IF type \in Numbered THEN Counted(type) ELSE None
             draft == [type |-> type, trial |-> trial, counted |-> counted]
  <2>2. Nested(c, type, counted)
    <3>1. pc[c] = "idle"
      BY <2>1 DEF Prepare
    <3>2. CASE type \in Numbered
      BY <3>1, <3>2, CountingNests
    <3>3. CASE type \notin Numbered
      BY <3>3 DEF Nested
    <3>4. QED
      BY <3>2, <3>3
  <2>3. counted \in (SUBSET Calls) \cup {None}
    BY DEF Counted, Logged
  <2>4. draft \in Draft
    BY <2>3 DEF Draft
  <2>5. draft.type = type /\ draft.counted = counted
    OBVIOUS
  <2> HIDE DEF counted
  <2>6. Nested(c, draft.type, draft.counted)
    BY <2>2, <2>5
  <2>7. Prepare(c, draft)
    BY <2>1 DEF counted
  <2>8. QED
    BY <2>4, <2>6, <2>7, Prepares
<1>2. ASSUME NEW type \in Types, NEW trial \in BOOLEAN,
             Prepare(c, [type |-> type, trial |-> trial, counted |-> None])
      PROVE  LogInv' /\ UNCHANGED <<now, log, accepted>>
  <2> DEFINE draft == [type |-> type, trial |-> trial, counted |-> None]
  <2>1. draft \in Draft /\ Nested(c, draft.type, draft.counted)
    BY DEF Draft, Nested
  <2> HIDE DEF draft
  <2>2. Prepare(c, draft)
    BY <1>2 DEF draft
  <2>3. QED
    BY <2>1, <2>2, Prepares
<1>3. CASE StartEmail(c)
  BY <1>2, <1>3 DEF StartEmail
<1>4. CASE StartResend(c)
  <2>1. PICK o \in Calls :
          Sent(o) /\ Prepare(c, [type |-> log[o].type, trial |-> log[o].trial,
                                 counted |-> None])
    BY <1>4 DEF StartResend
  <2>2. log[o] \in Row
    BY <2>1 DEF LogInv, LogTypeOK, Sent
  <2>3. log[o].type \in Types /\ log[o].trial \in BOOLEAN
    BY <2>2 DEF Row
  <2>4. QED
    BY <1>2, <2>1, <2>3
<1>5. QED
  BY <1>1, <1>3, <1>4 DEF Start
\* The four ways a send goes on. Only CreateRow and StampSent write the log.
LEMMA Continues ==
  ASSUME LogInv, NEW c \in Calls, Continue(c)
  PROVE  LogInv' /\ LogGrows /\ UNCHANGED now
<1> USE DEF Places
<1>0. /\ now \in Time /\ sending \in [Calls -> Draft \cup {None}]
      /\ log \in [Calls -> Row \cup {None}] /\ accepted \subseteq Calls
      /\ pc \in [Calls -> Places] /\ LogOfCall /\ CountsNest
  BY DEF LogInv, LogTypeOK
<1>a. ASSUME LogGrows, \A d \in Calls \ {c} : log'[d] = log[d]
      PROVE  \A d \in Calls \ {c} : log'[d] # None =>
               NestedNext(d, log[d].type, log[d].counted)
  <2> SUFFICES ASSUME NEW d \in Calls \ {c}, log'[d] # None
               PROVE  NestedNext(d, log[d].type, log[d].counted)
    OBVIOUS
  <2>1. log'[d] = log[d] /\ log[d] # None /\ log[d] \in Row
    BY <1>0, <1>a
  <2>2. Nested(d, log[d].type, log[d].counted) 
    BY <1>0, <2>1 DEF CountsNest
  <2>3. log[d].counted \in (SUBSET Calls) \cup {None}
    BY <2>1 DEF Row
  <2>4. QED
    BY <1>a, <2>1, <2>2, <2>3, NestingKept
<1>b. ASSUME LogGrows, NEW d \in Calls, pc[d] = "prepared",
             sending'[d] = sending[d]
      PROVE  NestedNext(d, sending[d].type, sending[d].counted)
  <2>1. sending[d] \in Draft
    BY <1>0, <1>b DEF LogOfCall
  <2>2. sending[d].counted \in (SUBSET Calls) \cup {None}
    BY <2>1 DEF Draft
  <2>3. Nested(d, sending[d].type, sending[d].counted)
    BY <1>0, <1>b DEF CountsNest
  <2>4. QED
    BY <1>b, <2>2, <2>3, NestingKept
<1>1. CASE PrepareFails(c)
  <2>1. UNCHANGED <<now, log, accepted>> /\ LogGrows
    BY <1>1 DEF PrepareFails, LogGrows
  <2>2. LogTypeOK' /\ (pc \in [Calls -> Places])'
    BY <1>0, <1>1 DEF PrepareFails, LogTypeOK
  <2>3. pc'[c] = "done"
        /\ \A d \in Calls \ {c} : pc'[d] = pc[d] /\ sending'[d] = sending[d]
    BY <1>0, <1>1 DEF PrepareFails
  <2>4. LogOfCall'
    BY <1>0, <1>1, <2>1, <2>3 DEF PrepareFails, LogOfCall, Sent
  <2>5. CountsNest'
    BY <1>0, <2>1, <2>3 DEF CountsNest, Nested
  <2>6. QED
    BY <2>1, <2>2, <2>4, <2>5 DEF LogInv
<1>2. CASE CreateRow(c)
  <2> DEFINE new == [type |-> sending[c].type, trial |-> sending[c].trial,
                     counted |-> sending[c].counted, sentAt |-> None]
  <2>1. /\ UNCHANGED <<now, accepted>> /\ pc[c] = "prepared"
        /\ log' = [log EXCEPT ![c] = new]
        /\ sending' = [sending EXCEPT ![c] = None]
        /\ pc' \in [Calls -> Places] /\ pc'[c] \in {"logged", "done"}
        /\ \A d \in Calls \ {c} : pc'[d] = pc[d]
    BY <1>0, <1>2 DEF CreateRow
  <2>2. log[c] = None /\ sending[c] \in Draft
    BY <1>0, <2>1 DEF LogOfCall
  <2>3. new \in Row
    BY <2>2 DEF Draft, Row
  <2>4. /\ new # None /\ new.sentAt = None
        /\ new.type = sending[c].type /\ new.counted = sending[c].counted
    BY <2>3, DispatchAssumption
  <2> HIDE DEF new
  <2>5. /\ log'[c] = new
        /\ \A d \in Calls \ {c} : log'[d] = log[d] /\ sending'[d] = sending[d]
    BY <1>0, <2>1
  <2>6. LogTypeOK' /\ (pc \in [Calls -> Places])'
    BY <1>0, <2>1, <2>3 DEF LogTypeOK
  <2>7. LogGrows
    BY <2>1, <2>2, <2>5 DEF LogGrows
  <2>8. LogOfCall'
    BY <1>0, <2>1, <2>4, <2>5 DEF LogOfCall, Sent
  <2>9. NestedNext(c, new.type, new.counted)
    <3>1. Nested(c, sending[c].type, sending[c].counted)
      BY <1>0, <2>1 DEF CountsNest
    <3>2. sending[c].counted \in (SUBSET Calls) \cup {None}
      BY <2>2 DEF Draft
    <3>3. NestedNext(c, sending[c].type, sending[c].counted)
      BY <2>7, <3>1, <3>2, NestingKept
    <3>4. QED
      BY <2>4, <3>3
  <2>10. CountsNest'
    BY <1>a, <1>b, <2>1, <2>5, <2>7, <2>9 DEF CountsNest, Nested, NestedNext
  <2>11. QED
    BY <2>1, <2>6, <2>7, <2>8, <2>10 DEF LogInv
<1>3. CASE SendMail(c)
  <2>1. /\ UNCHANGED <<now, sending, log>> /\ pc[c] = "logged"
        /\ accepted \subseteq accepted' /\ accepted' \subseteq Calls
        /\ pc' \in [Calls -> Places]
        /\ \A d \in Calls \ {c} : pc'[d] = pc[d]
        /\ pc'[c] \in {"done", "mailed"}
        /\ pc'[c] = "mailed" => c \in accepted'
    BY <1>0, <1>3 DEF SendMail
  <2>2. LogTypeOK' /\ LogGrows
    BY <1>0, <2>1 DEF LogTypeOK, LogGrows
  <2>3. LogOfCall'
    BY <1>0, <2>1 DEF LogOfCall, Sent
  <2>4. CountsNest'
    BY <1>0, <2>1 DEF CountsNest, Nested
  <2>5. QED
    BY <2>1, <2>2, <2>3, <2>4 DEF LogInv
<1>4. CASE StampSent(c)
  <2>1. /\ UNCHANGED <<now, sending, accepted>> /\ pc[c] = "mailed"
        /\ log' = log \/ log' = [log EXCEPT ![c].sentAt = now]
        /\ pc' \in [Calls -> Places] /\ pc'[c] = "done"
        /\ \A d \in Calls \ {c} : pc'[d] = pc[d]
    BY <1>0, <1>4 DEF StampSent
  <2>2. log[c] \in Row /\ log[c].sentAt = None /\ c \in accepted
    BY <1>0, <2>1 DEF LogOfCall
  <2>3. /\ \A d \in Calls \ {c} : log'[d] = log[d]
        /\ log'[c] \in Row
        /\ log'[c].type = log[c].type /\ log'[c].counted = log[c].counted
    BY <1>0, <2>1, <2>2 DEF Row
  <2>4. log' \in [Calls -> Row \cup {None}]
    BY <1>0, <2>1, <2>3
  <2>5. LogTypeOK'
    BY <1>0, <2>1, <2>4 DEF LogTypeOK
  <2>6. LogGrows
    BY <2>1, <2>2, <2>3, DispatchAssumption DEF LogGrows
  <2>7. LogOfCall'
    BY <1>0, <2>1, <2>2, <2>3 DEF LogOfCall, Sent
  <2>8. NestedNext(c, log'[c].type, log'[c].counted)
    <3>1. Nested(c, log[c].type, log[c].counted)
      BY <1>0, <2>2, DispatchAssumption DEF CountsNest
    <3>2. log[c].counted \in (SUBSET Calls) \cup {None}
      BY <2>2 DEF Row
    <3>3. NestedNext(c, log[c].type, log[c].counted)
      BY <2>6, <3>1, <3>2, NestingKept
    <3>4. QED
      BY <2>3, <3>3
  <2>9. CountsNest'
    BY <1>a, <1>b, <2>1, <2>3, <2>6, <2>8 DEF CountsNest, Nested, NestedNext
  <2>10. QED
    BY <2>1, <2>5, <2>6, <2>7, <2>9 DEF LogInv
<1>5. QED
  BY <1>1, <1>2, <1>3, <1>4 DEF Continue

\* A step of another endpoint leaves the log alone.
LEMMA Elsewhere ==
  ASSUME LogInv, NEW c \in Calls, NEW place \in {"write", "flag", "done"},
         UNCHANGED <<now, sending, log, accepted>>,
         pc' = [pc EXCEPT ![c] = place]
  PROVE  LogInv' /\ LogGrows
<1>1. pc \in [Calls -> Places] /\ place \in Places
  BY DEF LogInv, Places
<1>2. LogTypeOK' /\ (pc \in [Calls -> Places])'
  BY <1>1 DEF LogInv, LogTypeOK
<1>3. pc'[c] = place /\ \A d \in Calls \ {c} : pc'[d] = pc[d]
  BY <1>1
<1>4. LogOfCall'
  BY <1>3 DEF LogInv, LogOfCall, Sent
<1>5. CountsNest'
  BY <1>3 DEF LogInv, CountsNest, Nested
<1>6. QED
  BY <1>2, <1>4, <1>5 DEF LogInv, LogGrows

\* No send ends up where a call on the nomination writes.
LEMMA SendsDoNotWrite ==
  ASSUME LogInv, NEW c \in Calls, Start(c) \/ Continue(c)
  PROVE  \A d \in Calls : pc'[d] = "write" => pc[d] = "write"
<1>1. pc \in [Calls -> Places]
  BY DEF LogInv
<1>2. CASE Start(c)
  <2>1. pc' = [pc EXCEPT ![c] = "prepared"]
    BY <1>2 DEF Start, StartSubDocument, StartEmail, StartResend, Prepare
  <2>2. QED
    BY <1>1, <2>1
<1>3. CASE Continue(c)
  <2>1. PICK place \in {"logged", "mailed", "done"} :
          pc' = [pc EXCEPT ![c] = place]
    <3>1. CASE PrepareFails(c)
      BY <3>1 DEF PrepareFails
    <3>2. CASE CreateRow(c)
      BY <3>2 DEF CreateRow
    <3>3. CASE SendMail(c)
      BY <3>3 DEF SendMail
    <3>4. CASE StampSent(c)
      BY <3>4 DEF StampSent
    <3>5. QED
      BY <1>3, <3>1, <3>2, <3>3, <3>4 DEF Continue
  <2>2. QED
    BY <1>1, <2>1
<1>4. QED
  BY <1>2, <1>3

-----------------------------------------------------------------------------
\* What CANCELLED and a stage after another come to.
LEMMA PresentedFacts ==
  /\ Presented \in Statuses
  /\ Presented # "CANCELLED" => row.status # "CANCELLED"
BY DEF Presented, Statuses

LEMMA FollowsFacts ==
  ASSUME NEW from, NEW to, FollowsStage(from, to)
  PROVE  /\ from \in StageNames /\ to \in StageNames /\ to # "NONE"
         /\ \E k \in 1..3 : from = Stages[k] /\ to = Stages[k + 1]
<1>1. PICK i \in 1..4, j \in 1..4 : Stages[i] = from /\ Stages[j] = to /\ j = i + 1
  BY DEF FollowsStage
<1>2. i \in 1..3
  BY <1>1
<1>3. Stages[j] # "NONE"
  BY DEF Stages
<1>4. QED
  BY <1>1, <1>2, <1>3 DEF StageNames

\* A history that is appended to keeps what it had.
LEMMA HistoryGrows ==
  ASSUME stageLog \in Seq(Step), NEW e \in Step,
         stageLog' = Append(stageLog, e)
  PROVE  /\ stageLog' \in Seq(Step)
         /\ Len(stageLog) \in Nat /\ Len(stageLog') = Len(stageLog) + 1
         /\ \A i \in 1..Len(stageLog) : stageLog'[i] = stageLog[i]
         /\ stageLog'[Len(stageLog) + 1] = e
         /\ Reached \subseteq Reached' /\ e.to \in Reached'
<1>1. /\ stageLog' \in Seq(Step)
      /\ Len(stageLog) \in Nat /\ Len(stageLog') = Len(stageLog) + 1
      /\ \A i \in 1..Len(stageLog) : stageLog'[i] = stageLog[i]
      /\ stageLog'[Len(stageLog) + 1] = e
  OBVIOUS
<1>2. 1..Len(stageLog) \subseteq 1..Len(stageLog')
      /\ Len(stageLog) + 1 \in 1..Len(stageLog')
  BY <1>1
<1>3. QED
  BY <1>1, <1>2 DEF Reached

\* The order of the history survives an entry that continues an earlier one.
LEMMA OrderKept ==
  ASSUME stageLog \in Seq(Step), StagesInOrder, NEW e \in Step,
         stageLog' = Append(stageLog, e),
         \/ stageLog = << >> /\ e = [from |-> "NONE", to |-> "PRE_ARRIVAL"]
         \/ \E k \in 1..3 : /\ Stages[k] \in Reached
                            /\ e = [from |-> Stages[k], to |-> Stages[k + 1]]
  PROVE  StagesInOrder'
<1>0. DOMAIN stageLog' = 1..Len(stageLog') /\ DOMAIN stageLog = 1..Len(stageLog)
  BY HistoryGrows
<1> SUFFICES ASSUME NEW i \in 1..Len(stageLog')
    PROVE  \/ i = 1 /\ stageLog'[i] = [from |-> "NONE", to |-> "PRE_ARRIVAL"]
           \/ \E j \in 1..(i - 1), k \in 1..3 :
                /\ stageLog'[j].to = Stages[k]
                /\ stageLog'[i] = [from |-> Stages[k], to |-> Stages[k + 1]]
  BY <1>0, Zenon DEF StagesInOrder
<1>1. /\ Len(stageLog) \in Nat /\ Len(stageLog') = Len(stageLog) + 1
      /\ \A n \in 1..Len(stageLog) : stageLog'[n] = stageLog[n]
      /\ stageLog'[Len(stageLog) + 1] = e
  BY HistoryGrows
<1>2. CASE i \in 1..Len(stageLog)
  <2>1. /\ stageLog'[i] = stageLog[i]
        /\ \A j \in 1..(i - 1) : stageLog'[j] = stageLog[j]
    BY <1>1, <1>2
  <2>2. QED
    BY <1>0, <1>2, <2>1 DEF StagesInOrder
<1>3. CASE i = Len(stageLog) + 1
  <2>1. CASE stageLog = << >> /\ e = [from |-> "NONE", to |-> "PRE_ARRIVAL"]
    BY <1>1, <1>3, <2>1
  <2>2. CASE \E k \in 1..3 : /\ Stages[k] \in Reached
                             /\ e = [from |-> Stages[k], to |-> Stages[k + 1]]
    <3>1. PICK k \in 1..3 : /\ Stages[k] \in Reached
                            /\ e = [from |-> Stages[k], to |-> Stages[k + 1]]
      BY <2>2
    <3>2. PICK j \in 1..Len(stageLog) : stageLog[j].to = Stages[k]
      BY <3>1 DEF Reached
    <3>3. j \in 1..(i - 1) /\ stageLog'[j].to = Stages[k] /\ stageLog'[i] = e
      BY <1>1, <1>3, <3>2
    <3>4. QED
      BY <3>1, <3>3
  <2>3. QED
    BY <2>1, <2>2
<1>4. i \in 1..Len(stageLog) \/ i = Len(stageLog) + 1
  BY <1>1
<1>5. QED
  BY <1>2, <1>3, <1>4, Zenon

\* The steps of the mail endpoints and of the alert leave the nomination alone.
LEMMA NominationKept ==
  ASSUME NominationInv, UNCHANGED nominationVars,
         \A d \in Calls : pc'[d] = "write" => pc[d] = "write"
  PROVE  NominationInv'
<1>1. UNCHANGED <<row, statusLog, stage, stageLog, seen>>
  BY DEF nominationVars
<1>2. CancelsOnce'
  BY <1>1 DEF NominationInv, CancelsOnce
<1>3. NominationTypeOK' /\ StagesReached' /\ StagesInOrder'
  BY <1>1 DEF NominationInv, NominationTypeOK, StagesReached, Reached, StagesInOrder
<1>4. QED
  BY <1>2, <1>3 DEF NominationInv

\* What a write leaves once its call is done: it has forgotten what it read.
LEMMA Finishes ==
  ASSUME LogInv, NominationInv, NEW c \in Calls, Finish(c)
  PROVE  /\ LogInv' /\ LogGrows
         /\ seen[c] \in Read /\ seen' \in [Calls -> Read \cup {None}]
         /\ seen[c] # None /\ pc'[c] = "done" /\ seen'[c] = None
         /\ \A d \in Calls \ {c} : pc'[d] = pc[d] /\ seen'[d] = seen[d]
<1>1. LogInv' /\ LogGrows
  BY Elsewhere DEF Finish
<1>2. pc \in [Calls -> Places] /\ seen \in [Calls -> Read \cup {None}]
  BY DEF LogInv, NominationInv, NominationTypeOK
<1>3. seen[c] # None
  BY DEF Finish, NominationInv, CancelsOnce
<1>4. QED
  BY <1>1, <1>2, <1>3 DEF Finish

\* The operations on the nomination and on its PEDR.
LEMMA Nominates ==
  ASSUME LogInv, NominationInv, NEW c \in Calls, NominationStep(c)
  PROVE  LogInv' /\ LogGrows /\ NominationInv'
<1>0. /\ NominationTypeOK /\ CancelsOnce /\ StagesReached /\ StagesInOrder
      /\ statusLog \in [Calls -> Cancellation \cup {None}]
      /\ row \in [status : {"NOMINATED", "CANCELLED"}, first : Dates, last : Dates]
      /\ stage \in StageNames \cup {"NONE"} /\ stageLog \in Seq(Step)
      /\ seen \in [Calls -> Read \cup {None}] /\ pc \in [Calls -> Places]
  BY DEF NominationInv, NominationTypeOK, LogInv
<1>1. CASE ReadNomination(c)
  <2>1. PICK op \in Ops :
          /\ Allowed(op)
          /\ seen' = [seen EXCEPT ![c] =
               [op |-> op, status |-> Presented, stage |-> stage,
                after |-> {d \in Calls : statusLog[d] # None}]]
    BY <1>1 DEF ReadNomination
  <2> DEFINE read == [op |-> op, status |-> Presented, stage |-> stage,
                      after |-> {d \in Calls : statusLog[d] # None}]
  <2>2. /\ UNCHANGED <<now, sending, log, accepted, row, statusLog, stage, stageLog>>
        /\ pc' = [pc EXCEPT ![c] = "write"]
    BY <1>1 DEF ReadNomination
  <2>3. LogInv' /\ LogGrows
    BY <2>2, Elsewhere
  <2>4. read \in Read
    BY <1>0, PresentedFacts DEF Read
  <2>5. /\ seen' \in [Calls -> Read \cup {None}] /\ seen'[c] = read /\ read # None
        /\ \A d \in Calls \ {c} : seen'[d] = seen[d] /\ pc'[d] = pc[d]
    BY <1>0, <2>1, <2>2, <2>4, NominationAssumption
  <2>6. read.op = op /\ read.stage = stage
        /\ read.after = {d \in Calls : statusLog[d] # None}
    OBVIOUS
  <2> HIDE DEF read
  <2>7. op = "cancel" => read.after = {}
    BY <1>0, <2>1, <2>6, PresentedFacts DEF Allowed, CancelsOnce
  <2>8. op = "advance" => stage # "NONE"
    BY <2>1 DEF Allowed
  <2>9. NominationTypeOK'
    BY <1>0, <2>2, <2>5 DEF NominationTypeOK
  <2>10. CancelsOnce'
    BY <1>0, <2>2, <2>5, <2>6, <2>7 DEF CancelsOnce
  <2>11. StagesReached' /\ StagesInOrder'
    <3>1. Reached' = Reached
      BY <2>2 DEF Reached
    <3>2. StagesReached'
      BY <1>0, <2>2, <2>5, <2>6, <2>8, <3>1 DEF StagesReached
    <3>3. StagesInOrder'
      BY <1>0, <2>2 DEF StagesInOrder
    <3>4. QED
      BY <3>2, <3>3
  <2>12. QED
    BY <2>3, <2>9, <2>10, <2>11 DEF NominationInv
<1>a. ASSUME Finish(c), UNCHANGED <<stage, stageLog>>
      PROVE  StagesReached' /\ StagesInOrder'
  <2>1. Reached' = Reached
    BY <1>a DEF Reached
  <2>2. StagesReached'
    BY <1>0, <1>a, <2>1, Finishes DEF StagesReached
  <2>3. StagesInOrder'
    BY <1>0, <1>a DEF StagesInOrder
  <2>4. QED
    BY <2>2, <2>3
<1>b. ASSUME Finish(c), UNCHANGED <<row, statusLog>>
      PROVE  CancelsOnce'
  BY <1>0, <1>b, Finishes DEF CancelsOnce
<1>2. CASE WriteFails(c)
  <2>1. Finish(c) /\ UNCHANGED <<row, statusLog, stage, stageLog>>
    BY <1>2 DEF WriteFails
  <2>2. NominationTypeOK'
    BY <1>0, <2>1, Finishes DEF NominationTypeOK
  <2>3. QED
    BY <1>a, <1>b, <2>1, <2>2, Finishes DEF NominationInv
<1>3. CASE Cancel(c)
  <2>1. /\ Finish(c) /\ seen[c].op = "cancel" /\ UNCHANGED <<stage, stageLog>>
        /\ row' = [row EXCEPT !.status = "CANCELLED"]
        /\ statusLog' = [statusLog EXCEPT ![c] =
             [from |-> seen[c].status, after |-> seen[c].after]]
    BY <1>3 DEF Cancel
  <2>2. seen[c] \in Read /\ seen[c] # None /\ seen[c].after = {}
    BY <1>0, <2>1, Finishes DEF CancelsOnce
  <2>3. [from |-> seen[c].status, after |-> seen[c].after] \in Cancellation
    BY <2>2 DEF Read, Cancellation
  <2>4. /\ row' \in [status : {"NOMINATED", "CANCELLED"}, first : Dates, last : Dates]
        /\ row'.status = "CANCELLED"
    BY <1>0, <2>1
  <2>5. /\ statusLog' \in [Calls -> Cancellation \cup {None}]
        /\ statusLog'[c].after = {}
        /\ \A d \in Calls \ {c} : statusLog'[d] = statusLog[d]
    BY <1>0, <2>1, <2>2, <2>3
  <2>6. NominationTypeOK'
    BY <1>0, <2>1, <2>4, <2>5, Finishes DEF NominationTypeOK
  <2>7. CancelsOnce'
    BY <1>0, <2>1, <2>4, <2>5, Finishes DEF CancelsOnce
  <2>8. QED
    BY <1>a, <2>1, <2>6, <2>7, Finishes DEF NominationInv
<1>4. CASE Update(c)
  <2>1. /\ Finish(c) /\ UNCHANGED <<statusLog, stage, stageLog>>
        /\ row' \in [status : {"NOMINATED", "CANCELLED"}, first : Dates, last : Dates]
        /\ row'.status = row.status
    BY <1>0, <1>4 DEF Update
  <2>2. NominationTypeOK'
    BY <1>0, <2>1, Finishes DEF NominationTypeOK
  <2>3. CancelsOnce'
    BY <1>0, <2>1, Finishes DEF CancelsOnce
  <2>4. QED
    BY <1>a, <2>1, <2>2, <2>3, Finishes DEF NominationInv
<1>c. ASSUME Finish(c), UNCHANGED <<row, statusLog>>, NEW e \in Step,
             stageLog' = Append(stageLog, e), stage' = e.to,
             \/ stageLog = << >> /\ e = [from |-> "NONE", to |-> "PRE_ARRIVAL"]
             \/ \E k \in 1..3 : /\ Stages[k] \in Reached
                                /\ e = [from |-> Stages[k], to |-> Stages[k + 1]]
      PROVE  LogInv' /\ LogGrows /\ NominationInv'
  <2>1. StagesInOrder'
    BY <1>0, <1>c, OrderKept
  <2>2. e.to \in StageNames /\ e.to # "NONE"
    BY <1>c DEF Step, StageNames, Stages
  <2>3. Reached \subseteq Reached' /\ stage' \in Reached'
    BY <1>0, <1>c, HistoryGrows
  <2>4. StagesReached'
    BY <1>0, <1>c, <2>2, <2>3, Finishes DEF StagesReached
  <2>5. NominationTypeOK'
    BY <1>0, <1>c, <2>2, Finishes, HistoryGrows DEF NominationTypeOK
  <2>6. QED
    BY <1>b, <1>c, <2>1, <2>4, <2>5, Finishes DEF NominationInv
<1>5. CASE OpenPedr(c)
  <2> DEFINE e == [from |-> "NONE", to |-> "PRE_ARRIVAL"]
  <2>1. /\ Finish(c) /\ UNCHANGED <<row, statusLog>> /\ stageLog = << >>
        /\ stageLog' = Append(stageLog, e) /\ stage' = e.to
    BY <1>0, <1>5 DEF OpenPedr, StagesReached
  <2>2. e \in Step
    <3>1. 1 \in 1..4 /\ Stages[1] = "PRE_ARRIVAL"
      BY DEF Stages
    <3>2. QED
      BY <3>1 DEF Step, StageNames
  <2>3. QED
    BY <1>c, <2>1, <2>2
<1>6. CASE Advance(c)
  <2>1. PICK to \in StageNames :
          /\ FollowsStage(seen[c].stage, to) /\ stage' = to
          /\ stageLog' = Append(stageLog, [from |-> seen[c].stage, to |-> to])
    BY <1>6 DEF Advance
  <2>2. /\ Finish(c) /\ UNCHANGED <<row, statusLog>>
        /\ seen[c].op = "advance" /\ seen[c] # None
    BY <1>6, Finishes DEF Advance
  <2> DEFINE e == [from |-> seen[c].stage, to |-> to]
  <2>3. seen[c].stage \in Reached
    BY <1>0, <2>2 DEF StagesReached
  <2>4. PICK k \in 1..3 : seen[c].stage = Stages[k] /\ to = Stages[k + 1]
    BY <2>1, FollowsFacts
  <2>5. e \in Step
    BY <2>1, FollowsFacts DEF Step
  <2>6. Stages[k] \in Reached /\ e = [from |-> Stages[k], to |-> Stages[k + 1]]
        /\ stageLog' = Append(stageLog, e) /\ stage' = e.to
    BY <2>1, <2>3, <2>4
  <2> HIDE DEF e
  <2>7. QED
    BY <1>c, <2>2, <2>5, <2>6
<1>7. QED
  BY <1>1, <1>2, <1>3, <1>4, <1>5, <1>6 DEF NominationStep

-----------------------------------------------------------------------------
\* A verdict stays true of a log that grows.
LEMMA VerdictKept ==
  ASSUME LogGrows, NEW v, Quiet(v)
  PROVE  v # None /\ ~v.stale =>
           /\ v.informed /\ v.last # None
           /\ \E c \in Calls : /\ log'[c] # None /\ log'[c].type = "ETA_ETB"
                               /\ log'[c].sentAt = v.last /\ c \in accepted'
<1> SUFFICES ASSUME v # None, ~v.stale
             PROVE  /\ v.informed /\ v.last # None
                    /\ \E c \in Calls :
                         /\ log'[c] # None /\ log'[c].type = "ETA_ETB"
                         /\ log'[c].sentAt = v.last /\ c \in accepted'
  OBVIOUS
<1>1. PICK c \in Calls : /\ log[c] # None /\ log[c].type = "ETA_ETB"
                         /\ log[c].sentAt = v.last /\ c \in accepted
  BY DEF Quiet
<1>2. v.informed /\ v.last # None
  BY DEF Quiet
<1>3. log'[c] = log[c] /\ c \in accepted'
  BY <1>1, <1>2 DEF LogGrows
<1>4. QED
  BY <1>1, <1>2, <1>3

\* Steps that are not of the alert.
LEMMA AlertKept ==
  ASSUME AlertInv, LogGrows, UNCHANGED <<due, metadata>>
  PROVE  AlertInv'
<1>1. Quiet(metadata) /\ \A c \in Calls : Quiet(due[c])
  BY DEF AlertInv, VerdictsHold
<1>2. Quiet(metadata)'
  BY <1>1, VerdictKept DEF Quiet
<1>3. \A c \in Calls : Quiet(due[c])'
  BY <1>1, VerdictKept DEF Quiet
<1>4. QED
  BY <1>2, <1>3 DEF AlertInv, VerdictsHold

\* A check that finds the last ETA fresh has found one that was accepted.
LEMMA Checks ==
  ASSUME LogInv, NominationInv, AlertInv, NEW c \in Calls, CheckEta(c)
  PROVE  LogInv' /\ NominationInv' /\ AlertInv'
<1>1. /\ UNCHANGED <<now, sending, log, accepted, nominationVars, metadata>>
      /\ pc' = [pc EXCEPT ![c] = "flag"]
  BY DEF CheckEta
<1>2. LogInv' /\ LogGrows
  BY <1>1, Elsewhere
<1>3. NominationInv'
  <2>1. pc \in [Calls -> Places]
    BY DEF LogInv
  <2>2. QED
    BY <1>1, <2>1, NominationKept
<1>4. PICK last \in LastSent :
        due' = [due EXCEPT ![c] =
          [stale |-> IsStale(last), last |-> last,
           informed |-> \E d \in EtaMails : Sent(d) /\ Fresh(log[d].sentAt)]]
  BY DEF CheckEta
<1> DEFINE fresh == \E d \in EtaMails : Sent(d) /\ Fresh(log[d].sentAt)
           v == [stale |-> IsStale(last), last |-> last, informed |-> fresh]
<1>5. last # None => \E d \in EtaMails : Sent(d) /\ log[d].sentAt = last
  BY DEF LastSent
<1>6. last \in Time \cup {None}
  <2>1. \A d \in EtaMails : log[d] \in Row
    BY DEF EtaMails, Logged, LogInv, LogTypeOK
  <2>2. QED
    BY <1>5, <2>1 DEF Row
<1>7. IsStale(last) \in BOOLEAN /\ fresh \in BOOLEAN
  BY DEF IsStale, Fresh
<1>8. v \in Verdict
  BY <1>6, <1>7 DEF Verdict
<1>9. ~IsStale(last) =>
        /\ last # None /\ fresh
        /\ \E d \in Calls : /\ log[d] # None /\ log[d].type = "ETA_ETB"
                            /\ log[d].sentAt = last /\ d \in accepted
  <2> SUFFICES ASSUME ~IsStale(last)
               PROVE  /\ last # None /\ fresh
                      /\ \E d \in Calls :
                           /\ log[d] # None /\ log[d].type = "ETA_ETB"
                           /\ log[d].sentAt = last /\ d \in accepted
    OBVIOUS
  <2>1. last # None /\ Fresh(last)
    BY DEF IsStale
  <2>2. PICK d \in EtaMails : Sent(d) /\ log[d].sentAt = last
    BY <1>5, <2>1
  <2>3. d \in Calls /\ log[d] # None /\ log[d].type = "ETA_ETB"
    BY DEF EtaMails, Logged
  <2>4. d \in accepted
    BY <2>2, <2>3 DEF LogInv, LogOfCall
  <2>5. QED
    BY <2>1, <2>2, <2>3, <2>4
<1>10. v.stale = IsStale(last) /\ v.last = last /\ v.informed = fresh
  OBVIOUS
<1>11. due' = [due EXCEPT ![c] = v]
  BY <1>4
<1> HIDE DEF v, fresh
<1>12. Quiet(v)
  BY <1>9, <1>10 DEF Quiet
<1>13. /\ due' \in [Calls -> Verdict \cup {None}]
       /\ due'[c] = v /\ \A d \in Calls \ {c} : due'[d] = due[d]
  BY <1>8, <1>11 DEF AlertInv
<1>14. \A d \in Calls : Quiet(due'[d])
  BY <1>12, <1>13 DEF AlertInv, VerdictsHold
<1>15. AlertInv'
  BY <1>1, <1>13, <1>14 DEF AlertInv, VerdictsHold, Quiet
<1>16. QED
  BY <1>2, <1>3, <1>15

LEMMA Flags ==
  ASSUME LogInv, NominationInv, AlertInv, NEW c \in Calls, WriteFlag(c)
  PROVE  LogInv' /\ NominationInv' /\ AlertInv'
<1>1. /\ UNCHANGED <<now, sending, log, accepted, nominationVars>>
      /\ pc' = [pc EXCEPT ![c] = "done"]
      /\ metadata' = metadata \/ metadata' = due[c]
      /\ due' = [due EXCEPT ![c] = None]
  BY DEF WriteFlag
<1>2. LogInv' /\ LogGrows
  BY <1>1, Elsewhere
<1>3. NominationInv'
  <2>1. pc \in [Calls -> Places]
    BY DEF LogInv
  <2>2. QED
    BY <1>1, <2>1, NominationKept
<1>4. Quiet(None)
  BY DEF Quiet
<1>5. /\ due' \in [Calls -> Verdict \cup {None}]
      /\ due'[c] = None /\ \A d \in Calls \ {c} : due'[d] = due[d]
  BY <1>1 DEF AlertInv
<1>6. Quiet(metadata') /\ \A d \in Calls : Quiet(due'[d])
  BY <1>1, <1>4, <1>5 DEF AlertInv, VerdictsHold
<1>7. metadata' \in Verdict \cup {None}
  BY <1>1 DEF AlertInv
<1>8. AlertInv'
  BY <1>1, <1>5, <1>6, <1>7 DEF AlertInv, VerdictsHold, Quiet
<1>9. QED
  BY <1>2, <1>3, <1>8

-----------------------------------------------------------------------------
\* The invariant holds of every step of the port call.
LEMMA Inductive == IInv /\ [Next]_vars => IInv'
<1> SUFFICES ASSUME IInv, [Next]_vars PROVE IInv'
  OBVIOUS
<1>0. LogInv /\ NominationInv /\ AlertInv
  BY DEF IInv
<1>1. CASE Tick /\ UNCHANGED <<nominationVars, due, metadata>>
  <2>1. /\ UNCHANGED <<pc, sending, log, accepted, nominationVars, due, metadata>>
        /\ now < MaxTime /\ now' = now + 1
    BY <1>1 DEF Tick
  <2>2. now' \in Time
    BY <1>0, <2>1, DispatchAssumption DEF LogInv, LogTypeOK, Time
  <2>3. LogInv'
    BY <1>0, <2>1, <2>2 DEF LogInv, LogTypeOK, LogOfCall, CountsNest, Nested, Sent
  <2>4. LogGrows
    BY <2>1 DEF LogGrows
  <2>5. NominationInv' /\ AlertInv'
    BY <1>0, <2>1, <2>4, NominationKept, AlertKept
  <2>6. QED
    BY <2>3, <2>5 DEF IInv
<1>2. ASSUME NEW c \in Calls, SendStep(c),
             UNCHANGED <<nominationVars, due, metadata>>
      PROVE  IInv'
  <2>1. Start(c) \/ Continue(c)
    BY <1>2 DEF SendStep
  <2>2. LogInv' /\ LogGrows
    <3>1. CASE Start(c)
      BY <1>0, <3>1, Starts DEF LogGrows
    <3>2. CASE Continue(c)
      BY <1>0, <3>2, Continues
    <3>3. QED
      BY <2>1, <3>1, <3>2
  <2>3. NominationInv'
    BY <1>0, <1>2, <2>1, SendsDoNotWrite, NominationKept
  <2>4. AlertInv'
    BY <1>0, <1>2, <2>2, AlertKept
  <2>5. QED
    BY <2>2, <2>3, <2>4 DEF IInv
<1>3. ASSUME NEW c \in Calls, NominationStep(c), UNCHANGED <<due, metadata>>
      PROVE  IInv'
  BY <1>0, <1>3, Nominates, AlertKept DEF IInv
<1>4. ASSUME NEW c \in Calls, CheckEta(c)
      PROVE  IInv'
  BY <1>0, <1>4, Checks DEF IInv
<1>5. ASSUME NEW c \in Calls, WriteFlag(c)
      PROVE  IInv'
  BY <1>0, <1>5, Flags DEF IInv
<1>6. CASE UNCHANGED vars
  <2>1. /\ UNCHANGED <<now, pc, sending, log, accepted, nominationVars>>
        /\ UNCHANGED <<due, metadata>>
    BY <1>6 DEF vars, logVars
  <2>2. LogInv'
    BY <1>0, <2>1 DEF LogInv, LogTypeOK, LogOfCall, CountsNest, Nested, Sent
  <2>3. LogGrows
    BY <2>1 DEF LogGrows
  <2>4. NominationInv' /\ AlertInv'
    BY <1>0, <2>1, <2>3, NominationKept, AlertKept
  <2>5. QED
    BY <2>2, <2>4 DEF IInv
<1>7. QED
  BY <1>1, <1>2, <1>3, <1>4, <1>5, <1>6 DEF Next

\* The inductive invariant holds throughout.
THEOREM Invariance == Spec => []IInv
BY Initial, Inductive, PTL DEF Spec

\* The log, the nomination and the alert keep the shape of the code's.
THEOREM TypeCorrect == Spec => []TypeOK
<1>1. IInv => TypeOK
  BY DEF IInv, LogInv, NominationInv, AlertInv, TypeOK, Places
<1>2. QED
  BY <1>1, Invariance, PTL

\* A second cancellation is recorded only by a call that overlapped the first.
THEOREM CancellationsOverlapping == Spec => []CancellationsOverlap
<1>1. IInv => CancellationsOverlap
  BY DEF IInv, NominationInv, CancelsOnce, CancellationsOverlap
<1>2. QED
  BY <1>1, Invariance, PTL

\* The history of the stages has no gap and one beginning.
THEOREM StagesOrdered == Spec => []StagesInOrder
<1>1. IInv => StagesInOrder
  BY DEF IInv, NominationInv
<1>2. QED
  BY <1>1, Invariance, PTL

\* No ship is shown in port or away but by a real message that was accepted.
THEOREM StatusEarned == Spec => []StatusIsEarned
<1>1. ASSUME IInv, NEW type, OperationalSent(type)
      PROVE  \E c \in Logged : log[c].type = type /\ ~log[c].trial /\ c \in accepted
  <2>1. PICK c \in Calls : Sent(c) /\ log[c].type = type /\ ~log[c].trial
    BY <1>1 DEF OperationalSent
  <2>2. c \in accepted /\ c \in Logged
    BY <1>1, <2>1 DEF IInv, LogInv, LogOfCall, Sent, Logged
  <2>3. QED
    BY <2>1, <2>2
<1>2. /\ Presented = "IN_PORT" => OperationalSent("PREARRIVAL")
      /\ Presented = "FULL_AWAY" => OperationalSent("SOF")
  BY DEF Presented
<1>3. IInv => StatusIsEarned
  BY <1>1, <1>2 DEF StatusIsEarned
<1>4. QED
  BY <1>3, Invariance, PTL

\* The alert is called off only by an ETA that was accepted in time.
THEOREM QuietInformed == Spec => []QuietIsInformed
<1>1. IInv => QuietIsInformed
  BY DEF IInv, AlertInv, VerdictsHold, Quiet, QuietIsInformed, EtaMails, Logged
<1>2. QED
  BY <1>1, Invariance, PTL

\* Documents that do not overlap are numbered in order, without a tie.
THEOREM NumbersFollowing == Spec => []NumbersFollow
<1>1. ASSUME IInv, NEW c \in Logged, log[c].counted # None,
             NEW d \in log[c].counted, log[d].counted # None
      PROVE  Number(d) < Number(c)
  <2>1. c \in Calls /\ log[c] # None
    BY DEF Logged
  <2>2. Nested(c, log[c].type, log[c].counted)
    BY <1>1, <2>1 DEF IInv, LogInv, CountsNest
  <2>3. log[c].counted \in SUBSET Calls
    BY <1>1, <2>1 DEF IInv, LogInv, LogTypeOK, Row
  <2>4. d \in Calls /\ log[d] # None /\ log[d].counted \subseteq log[c].counted
    BY <1>1, <2>2, <2>3 DEF Nested
  <2>5. d \notin log[d].counted
    BY <1>1, <2>4 DEF IInv, LogInv, CountsNest, Nested
  <2>6. IsFiniteSet(log[c].counted)
    BY <2>3, DispatchAssumption, FS_Subset
  <2>7. log[d].counted # log[c].counted
    BY <1>1, <2>5
  <2>8. /\ Cardinality(log[c].counted) \in Nat /\ Cardinality(log[d].counted) \in Nat
        /\ Cardinality(log[d].counted) < Cardinality(log[c].counted)
    BY <2>4, <2>6, <2>7, FS_Subset, FS_CardinalityType
  <2>9. QED
    BY <2>8 DEF Number
<1>2. IInv => NumbersFollow
  BY <1>1 DEF NumbersFollow
<1>3. QED
  BY <1>2, Invariance, PTL

\* A filter of the list never selects a nomination shown otherwise: this is a
\* fact of the clauses in any state.
THEOREM FiltersHonest == Spec => []FiltersAreHonest
<1>1. ASSUME IInv, NEW s \in Statuses, Listed(s)
      PROVE  Presented = s
  <2>1. row.status \in {"NOMINATED", "CANCELLED"}
    BY <1>1 DEF IInv, NominationInv, NominationTypeOK
  <2>2. QED
    BY <1>1, <2>1
    DEF Statuses, Listed, StatusWhere, Presented, InPortWhere, FullAwayWhere,
        SqlAnd, SqlNot, Sql, SqlBefore, Past
<1>2. IInv => FiltersAreHonest
  BY <1>1 DEF FiltersAreHonest
<1>3. QED
  BY <1>2, Invariance, PTL

\* The log, the history and the numbers tell what happened: TypeOK and the three
\* facts above at once, for sendSubDocument, transition and present.
THEOREM RecordTrue == Spec => []RecordIsTrue
<1>1. TypeOK /\ StatusIsEarned /\ CancellationsOverlap /\ NumbersFollow
        => RecordIsTrue
  BY DEF RecordIsTrue
<1>2. QED
  BY <1>1, TypeCorrect, StatusEarned, CancellationsOverlapping, NumbersFollowing, PTL

-----------------------------------------------------------------------------
(***************************************************************************)
(* The seed, which fills the tables that the port call works on, for any   *)
(* block of it, any finite tables and any number of runs and of inserts.   *)
(* The argument has three parts: the history `before` is of runs that had  *)
(* ended, so that a run that looked in vain overlaps with whoever has made *)
(* a record since (RunsInv); what an undisturbed run has found or missed   *)
(* is still so (SeenStill); and a number that is drawn and not yet used    *)
(* is none that will be drawn (DrawnOnce).                                 *)
(***************************************************************************)

SeedRun == [at : {"idle", "begun", "found", "missing", "kept", "patched", "done",
                  "refused", "dead", "behind"},
            row : 0..MaxRows, disturbed : BOOLEAN, taken : BOOLEAN, clash : BOOLEAN]
Over == {e \in Runs : runs[e].at \notin Active \cup {"idle"}}

SeedTypes ==
  /\ block \in Blocks
  /\ rows \in Seq(Entry) /\ Len(rows) <= MaxRows
  /\ runs \in [Runs -> SeedRun]
  /\ seq \in 0..MaxKey /\ drawn \in [Apps -> 0..MaxKey]
  /\ before \in [Runs -> SUBSET Runs] /\ hurried \in BOOLEAN

\* Who is through with the seed's record has left one, unless it was taken.
LeftOrTaken ==
  \A r \in Runs : runs[r].at \in {"found", "kept", "patched", "done", "behind"} =>
                    runs[r].taken \/ ~Missing

\* A record a run has made has the seed's key, or was taken from that run.
MadeOrTaken ==
  \A i \in DOMAIN rows :
    /\ rows[i] = Gone \/ rows[i].by # "nobody"
    /\ rows[i].by \in Runs => /\ runs[rows[i].by].at # "idle"
                              /\ HasKey(i) \/ runs[rows[i].by].taken

\* Who had ended when a run began has ended.
BeforeOver == \A r \in Runs : before[r] \subseteq Over /\ r \notin before[r]

\* A run that has looked in vain overlaps with whoever has made a record since.
LookedFirst ==
  \A r \in Runs : runs[r].at = "missing" =>
    \A i \in DOMAIN rows : HasKey(i) /\ rows[i].by \in Runs =>
      runs[rows[i].by].taken \/ Overlap(rows[i].by, r)

\* What a run that nobody has disturbed has seen is still so.
SeenStill ==
  \A r \in Runs : runs[r].at \in {"begun", "found", "missing"} /\ ~runs[r].disturbed =>
    /\ runs[r].at = "missing" => Missing
    /\ runs[r].at = "found" => HasKey(runs[r].row)
    /\ ~runs[r].clash => \A i \in DOMAIN rows : rows[i].second => HasKey(i)

\* Numbers that are drawn and not yet used are none that will be drawn.
DrawnOnce == block.numbered /\ ~hurried => \A a \in Apps : drawn[a] <= seq

RunsInv == LeftOrTaken /\ MadeOrTaken /\ BeforeOver /\ LookedFirst /\ SeenStill
           /\ OneRow /\ RefusedHasCause
SeedInv == SeedTypes /\ RunsInv /\ DrawnOnce /\ NumbersAreFree

\* What the proofs use of a block.
Known(b) == /\ b.second \in BOOLEAN /\ b.key.unique \in BOOLEAN
            /\ b.numbered => ~b.key.edited

LEMMA BlocksKnown == \A b \in Blocks : Known(b)
<1> DEFINE Keys == {Id, Name, Code, Serial, Fact}
<1>1. \A k \in Keys : k.unique \in BOOLEAN
  <2>1. /\ Id.unique = TRUE /\ Name.unique = FALSE /\ Code.unique = TRUE
        /\ Serial.unique = TRUE /\ Fact.unique = FALSE
    BY DEF Id, Name, Code, Serial, Fact, Key
  <2>2. QED
    BY <2>1
<1> HIDE DEF Keys
<1>2. \A k \in Keys : /\ Known(FindOrCreate(k)) /\ Known(Kept(FindOrCreate(k)))
                      /\ Known(Upsert(k)) /\ Known(Kept(Upsert(k)))
  BY <1>1 DEF Known, FindOrCreate, Upsert, Block, Kept
<1>3. /\ Known(Users) /\ Known(MainBranches) /\ Known(Vessels)
      /\ Known(Nominations) /\ Known(BranchTemplates)
  BY DEF Known, Users, MainBranches, Vessels, Nominations, BranchTemplates, FindOrCreate,
         Upsert, Kept, Block, Serial, Code, Key
<1>4. QED
  BY <1>2, <1>3 DEF Keys, Blocks, FlagStates, Catalogs, Services, Ports, Piers, Operators,
     Owners, Charterers, Shippers, Agents, Suppliers, Contacts, OtherBranches, EmailGroups,
     NominationClients, Pedrs, InstructionClient, MessageGroups, ClientSlots, ContactLinks,
     DefaultClients, SubDocuments, Events, Documents, EmailDispatches, ShDocuments,
     ShDispatches, FleetVessels, AuditLogs

LEMMA SeedNames ==
  /\ "users" \notin Runs /\ "nobody" \notin Runs /\ SeedKey \in 0..MaxKey
  /\ MaxRows \in Nat /\ MaxKey \in Nat
  /\ Gone \in Entry /\ NoRun \in SeedRun
BY SeedAssumption DEF SeedKey, Gone, NoRun, Entry, SeedRun

LEMMA SeedStarts == SeedInit => SeedInv
<1> SUFFICES ASSUME SeedInit PROVE SeedInv
  OBVIOUS
<1> USE SeedNames
<1>1. rows = << >> /\ Len(rows) = 0 /\ DOMAIN rows = {} /\ rows \in Seq(Entry)
  BY DEF SeedInit
<1>2. SeedTypes
  <2>1. /\ block \in Blocks /\ seq = 0 /\ hurried = FALSE
        /\ drawn = [a \in Apps |-> 0] /\ runs = [r \in Runs |-> NoRun]
        /\ before = [r \in Runs |-> {}]
    BY DEF SeedInit
  <2>2. runs \in [Runs -> SeedRun] /\ before \in [Runs -> SUBSET Runs]
    BY <2>1
  <2>3. seq \in 0..MaxKey /\ drawn \in [Apps -> 0..MaxKey] /\ Len(rows) <= MaxRows
    BY <1>1, <2>1
  <2>4. QED
    BY <1>1, <2>1, <2>2, <2>3 DEF SeedTypes
<1>3. \A r \in Runs : runs[r].at = "idle" /\ before[r] = {}
  BY DEF SeedInit, NoRun
<1>4. RunsInv
  BY <1>1, <1>3 DEF RunsInv, LeftOrTaken, MadeOrTaken, BeforeOver, LookedFirst, SeenStill,
     OneRow, RefusedHasCause
<1>5. DrawnOnce /\ NumbersAreFree
  BY <1>1 DEF SeedInit, DrawnOnce, NumbersAreFree
<1>6. QED
  BY <1>2, <1>4, <1>5 DEF SeedInv

LEMMA HasKeyIs ==
  /\ \A i : HasKey(i) <=> i \in DOMAIN rows /\ rows[i].key = SeedKey
  /\ \A i : HasKey(i)' <=> i \in DOMAIN rows' /\ rows'[i].key = SeedKey
BY DEF HasKey, Live, Gone, SeedKey

\* What a run notices of the steps of others.
Notices(r, took, new) ==
  /\ new.at = runs[r].at /\ new.row = runs[r].row /\ new.clash = runs[r].clash
  /\ new.disturbed <=> runs[r].disturbed \/ runs[r].at \in Active
  /\ new.taken <=> runs[r].taken \/ (took /\ runs[r].at # "idle")

LEMMA AllNotice ==
  ASSUME runs \in [Runs -> SeedRun], NEW took \in BOOLEAN
  PROVE  /\ Noticed(took) \in [Runs -> SeedRun]
         /\ \A r \in Runs : Notices(r, took, Noticed(took)[r])
<1>1. \A r \in Runs :
        [runs[r] EXCEPT !.disturbed = @ \/ runs[r].at \in Active,
                        !.taken = @ \/ (took /\ runs[r].at # "idle")] \in SeedRun
  BY DEF SeedRun
<1>2. Noticed(took) \in [Runs -> SeedRun]
  BY <1>1 DEF Noticed
<1>3. ASSUME NEW r \in Runs PROVE Notices(r, took, Noticed(took)[r])
  <2>1. Noticed(took)[r] = [runs[r] EXCEPT !.disturbed = @ \/ runs[r].at \in Active,
                                           !.taken = @ \/ (took /\ runs[r].at # "idle")]
    BY DEF Noticed
  <2>2. runs[r] \in SeedRun
    OBVIOUS
  <2>3. QED
    BY <2>1, <2>2 DEF Notices, SeedRun
<1>4. QED
  BY <1>2, <1>3

\* A user's step adds records of no run, keeps who made one, takes the seed's key
\* from a record only when the runs notice, and respects the index.
UsersWrite(took) ==
  /\ rows' \in Seq(Entry) /\ Len(rows') <= MaxRows
  /\ \A i \in DOMAIN rows :
       /\ i \in DOMAIN rows' /\ (HasKey(i) => took \/ HasKey(i)')
       /\ rows'[i] \in {Gone, rows[i]} \/ (rows[i] # Gone /\ rows'[i].by = rows[i].by)
  /\ \A i \in DOMAIN rows' \ DOMAIN rows : rows'[i].by = "users"
  /\ block.key.unique =>
       \A i, j \in DOMAIN rows' : HasKey(i)' /\ HasKey(j)' => i = j

LEMMA UserKeeps ==
  ASSUME SeedTypes, RunsInv, NEW took \in BOOLEAN, runs' = Noticed(took),
         UNCHANGED block, UNCHANGED before, UsersWrite(took)
  PROVE  RunsInv'
<1> USE SeedNames
<1>a. /\ runs \in [Runs -> SeedRun] /\ runs' \in [Runs -> SeedRun]
      /\ \A r \in Runs : Notices(r, took, runs'[r])
  BY AllNotice DEF SeedTypes
<1>b. \A i \in DOMAIN rows' : rows'[i].by \in Runs =>
        /\ i \in DOMAIN rows /\ rows'[i].by = rows[i].by
        /\ HasKey(i) => runs'[rows[i].by].taken \/ HasKey(i)'
        /\ ~HasKey(i) => runs'[rows[i].by].taken
  <2> SUFFICES ASSUME NEW i \in DOMAIN rows', rows'[i].by \in Runs
               PROVE  /\ i \in DOMAIN rows /\ rows'[i].by = rows[i].by
                      /\ HasKey(i) => runs'[rows[i].by].taken \/ HasKey(i)'
                      /\ ~HasKey(i) => runs'[rows[i].by].taken
    OBVIOUS
  <2>1. i \in DOMAIN rows /\ rows'[i].by = rows[i].by
    BY DEF UsersWrite, Gone
  <2>2. /\ runs[rows[i].by].at # "idle"
        /\ HasKey(i) \/ runs[rows[i].by].taken
    BY <2>1 DEF RunsInv, MadeOrTaken
  <2>3. QED
    BY <1>a, <2>1, <2>2 DEF UsersWrite, Notices
<1>1. LeftOrTaken'
  <2> SUFFICES ASSUME NEW r \in Runs, ~runs'[r].taken, Missing',
                      runs'[r].at \in {"found", "kept", "patched", "done", "behind"}
               PROVE  FALSE
    BY DEF LeftOrTaken
  <2>1. ~runs[r].taken /\ ~took /\ ~Missing
    BY <1>a DEF Notices, RunsInv, LeftOrTaken
  <2>2. PICK i \in DOMAIN rows : HasKey(i)
    BY <2>1 DEF Missing
  <2>3. QED
    BY <2>1, <2>2 DEF UsersWrite, Missing
<1>2. MadeOrTaken'
  <2> SUFFICES ASSUME NEW i \in DOMAIN rows'
               PROVE  /\ rows'[i] = Gone \/ rows'[i].by # "nobody"
                      /\ rows'[i].by \in Runs => /\ runs'[rows'[i].by].at # "idle"
                                                 /\ HasKey(i)' \/ runs'[rows'[i].by].taken
    BY DEF MadeOrTaken
  <2>1. rows'[i] = Gone \/ rows'[i].by # "nobody"
    BY DEF UsersWrite, RunsInv, MadeOrTaken
  <2>2. ASSUME rows'[i].by \in Runs PROVE runs'[rows'[i].by].at # "idle"
    BY <1>a, <1>b, <2>2 DEF RunsInv, MadeOrTaken, Notices
  <2>3. QED
    BY <1>b, <2>1, <2>2
<1>3. BeforeOver'
  BY <1>a DEF RunsInv, BeforeOver, Over, Notices
<1>4. LookedFirst'
  <2> SUFFICES ASSUME NEW r \in Runs, runs'[r].at = "missing", NEW i \in DOMAIN rows',
                      rows'[i].by \in Runs, ~runs'[rows'[i].by].taken
               PROVE  rows'[i].by \notin before[r] /\ r \notin before[rows'[i].by]
    BY DEF LookedFirst, Overlap
  <2>1. i \in DOMAIN rows /\ rows'[i].by = rows[i].by /\ HasKey(i)
    BY <1>b
  <2>2. runs[r].at = "missing" /\ ~runs[rows[i].by].taken
    BY <1>a, <2>1 DEF Notices
  <2>3. QED
    BY <2>1, <2>2 DEF RunsInv, LookedFirst, Overlap
<1>5. SeenStill'
  BY <1>a DEF SeenStill, Notices, Active
<1>6. OneRow'
  <2> SUFFICES ASSUME NEW i \in DOMAIN rows', NEW j \in DOMAIN rows', i # j,
                      HasKey(i)', HasKey(j)'
               PROVE  /\ ~block.key.unique
                      /\ {rows'[i].by, rows'[j].by} \subseteq Runs =>
                           \/ runs'[rows'[i].by].taken \/ runs'[rows'[j].by].taken
                           \/ /\ rows'[i].by \notin before[rows'[j].by]
                              /\ rows'[j].by \notin before[rows'[i].by]
    BY DEF OneRow, Overlap
  <2>1. ~block.key.unique
    BY DEF UsersWrite
  <2>2. ASSUME rows'[i].by \in Runs, rows'[j].by \in Runs,
               ~runs'[rows'[i].by].taken, ~runs'[rows'[j].by].taken
        PROVE  /\ rows'[i].by \notin before[rows'[j].by]
               /\ rows'[j].by \notin before[rows'[i].by]
    <3>1. /\ i \in DOMAIN rows /\ rows'[i].by = rows[i].by /\ HasKey(i)
          /\ j \in DOMAIN rows /\ rows'[j].by = rows[j].by /\ HasKey(j)
      BY <1>b, <2>2
    <3>2. ~runs[rows[i].by].taken /\ ~runs[rows[j].by].taken
      BY <1>a, <2>2, <3>1 DEF Notices
    <3>3. QED
      BY <2>2, <3>1, <3>2 DEF RunsInv, OneRow, Overlap
  <2>3. QED
    BY <2>1, <2>2
<1>7. RefusedHasCause'
  BY <1>a DEF RunsInv, RefusedHasCause, Notices
<1>8. QED
  BY <1>1, <1>2, <1>3, <1>4, <1>5, <1>6, <1>7 DEF RunsInv

\* A run goes on, and changes no record but in columns that the properties of its
\* key do not depend on.
GoesOnTo(r, new) ==
  /\ new \in SeedRun /\ runs' = [runs EXCEPT ![r] = new]
  /\ runs[r].at \in Active /\ new.at \notin {"idle", "begun"}
  /\ new.taken = runs[r].taken /\ new.disturbed = runs[r].disturbed
  /\ new.clash = runs[r].clash
  /\ new.at \in {"found", "missing"} => runs[r].at = "begun"
  /\ new.at = "missing" => Missing
  /\ new.at = "found" => HasKey(new.row)
  /\ new.at \in {"found", "kept", "patched", "done", "behind"} => new.taken \/ ~Missing
  /\ new.at = "refused" => new.disturbed \/ new.clash

KeysStay ==
  /\ rows' \in Seq(Entry) /\ Len(rows') <= MaxRows /\ DOMAIN rows' = DOMAIN rows
  /\ \A i \in DOMAIN rows :
       /\ rows'[i].key = rows[i].key /\ rows'[i].second = rows[i].second
       /\ rows'[i].by = rows[i].by /\ (rows[i] = Gone => rows'[i] = Gone)

LEMMA RunKeeps ==
  ASSUME SeedTypes, RunsInv, NEW r \in Runs, NEW new, GoesOnTo(r, new), KeysStay,
         UNCHANGED block, UNCHANGED before
  PROVE  RunsInv'
<1> USE SeedNames
<1>a. /\ runs \in [Runs -> SeedRun] /\ runs' \in [Runs -> SeedRun] /\ runs'[r] = new
      /\ \A q \in Runs \ {r} : runs'[q] = runs[q]
      /\ \A q \in Runs : /\ runs'[q].taken = runs[q].taken /\ runs'[q].clash = runs[q].clash
                         /\ runs'[q].disturbed = runs[q].disturbed
                         /\ runs[q].at # "idle" => runs'[q].at # "idle"
  BY DEF SeedTypes, GoesOnTo
<1>b. (\A i : HasKey(i)' <=> HasKey(i)) /\ (Missing' <=> Missing)
  BY HasKeyIs DEF KeysStay, Missing
<1>1. LeftOrTaken'
  BY <1>a, <1>b DEF RunsInv, LeftOrTaken, GoesOnTo
<1>2. MadeOrTaken'
  BY <1>a, <1>b DEF RunsInv, MadeOrTaken, KeysStay
<1>3. BeforeOver'
  <2>1. Over \subseteq Over'
    BY <1>a DEF Over, GoesOnTo, Active
  <2>2. QED
    BY <2>1 DEF RunsInv, BeforeOver
<1>4. LookedFirst'
  <2> SUFFICES ASSUME NEW q \in Runs, runs'[q].at = "missing", NEW i \in DOMAIN rows',
                      HasKey(i)', rows'[i].by \in Runs
               PROVE  \/ runs'[rows'[i].by].taken
                      \/ rows'[i].by \notin before[q] /\ q \notin before[rows'[i].by]
    BY DEF LookedFirst, Overlap
  <2>1. i \in DOMAIN rows /\ rows'[i].by = rows[i].by /\ HasKey(i) /\ ~Missing
    BY <1>b DEF KeysStay, Missing
  <2>2. runs[q].at = "missing"
    BY <1>a, <2>1 DEF GoesOnTo
  <2>3. QED
    BY <1>a, <2>1, <2>2 DEF RunsInv, LookedFirst, Overlap
<1>5. SeenStill'
  <2> SUFFICES ASSUME NEW q \in Runs, runs'[q].at \in {"begun", "found", "missing"},
                      ~runs'[q].disturbed
               PROVE  /\ runs'[q].at = "missing" => Missing'
                      /\ runs'[q].at = "found" => HasKey(runs[q].row)'
                      /\ ~runs'[q].clash => \A i \in DOMAIN rows' : rows'[i].second => HasKey(i)'
    BY DEF SeenStill
  <2>1. runs[q].at \in {"begun", "found", "missing"} /\ ~runs[q].disturbed
    BY <1>a DEF GoesOnTo
  <2>2. ~runs'[q].clash => \A i \in DOMAIN rows' : rows'[i].second => HasKey(i)'
    BY <1>a, <1>b, <2>1 DEF RunsInv, SeenStill, KeysStay
  <2>3. /\ runs'[q].at = "missing" => Missing
        /\ runs'[q].at = "found" => HasKey(runs'[q].row)
    BY <1>a, <2>1 DEF RunsInv, SeenStill, GoesOnTo
  <2>4. /\ runs'[q].at = "found" => HasKey(runs[q].row)'
    BY <1>b, <2>3, HasKeyIs DEF KeysStay
  <2>5. QED
    BY <1>b, <2>2, <2>3, <2>4
<1>6. OneRow'
  BY <1>a, <1>b DEF RunsInv, OneRow, KeysStay, Overlap
<1>7. RefusedHasCause'
  BY <1>a DEF RunsInv, RefusedHasCause, GoesOnTo
<1>8. QED
  BY <1>1, <1>2, <1>3, <1>4, <1>5, <1>6, <1>7 DEF RunsInv

\* A run that may insert has seen that there is no such record, or still overlaps
\* with whoever has made one since.
MayInsert(r) ==
  /\ runs[r].at \in {"begun", "missing"}
  /\ runs[r].at = "begun" => Missing

\* What is refused to a run that nobody has disturbed has users' second value.
LEMMA RefusalHasCause ==
  ASSUME RunsInv, NEW r \in Runs, MayInsert(r),
         ~Accepted(SeedKey, block.second, DOMAIN rows)
  PROVE  runs[r].disturbed \/ runs[r].clash
<1> SUFFICES ASSUME ~runs[r].disturbed, ~runs[r].clash PROVE FALSE
  OBVIOUS
<1>1. Missing /\ \A i \in DOMAIN rows : rows[i].second => HasKey(i)
  BY DEF RunsInv, SeenStill, MayInsert
<1>2. \A i \in DOMAIN rows : rows[i].key # SeedKey /\ ~rows[i].second
  BY <1>1, HasKeyIs DEF Missing
<1>3. QED
  BY <1>2 DEF Accepted

\* The records after one was appended.
LEMMA Appended ==
  ASSUME rows \in Seq(Entry), NEW entry \in Entry, rows' = Append(rows, entry),
         Len(rows) < MaxRows
  PROVE  /\ rows' \in Seq(Entry) /\ Len(rows') <= MaxRows
         /\ DOMAIN rows' = DOMAIN rows \cup {Len(rows) + 1}
         /\ Len(rows) + 1 \notin DOMAIN rows
         /\ \A i \in DOMAIN rows : rows'[i] = rows[i]
         /\ rows'[Len(rows) + 1] = entry
BY SeedNames

\* The run has inserted the record n.
Inserted(r, n) ==
  /\ rows' \in Seq(Entry) /\ Len(rows') <= MaxRows
  /\ DOMAIN rows' = DOMAIN rows \cup {n} /\ n \notin DOMAIN rows
  /\ \A i \in DOMAIN rows : rows'[i] = rows[i]
  /\ rows'[n].key = SeedKey /\ rows'[n].by = r
  /\ runs' \in [Runs -> SeedRun] /\ runs'[r].at = "kept"
  /\ runs'[r].taken <=> runs[r].taken
  /\ \A q \in Runs \ {r} : Notices(q, FALSE, runs'[q])

LEMMA InsertDoes ==
  ASSUME SeedTypes, NEW r \in Runs, rows' = Append(rows, SeedRow(r)),
         Len(rows) < MaxRows,
         runs' = [Noticed(FALSE) EXCEPT ![r].at = "kept",
                                        ![r].disturbed = runs[r].disturbed]
  PROVE  Inserted(r, Len(rows) + 1)
<1> USE SeedNames
<1> DEFINE N == Noticed(FALSE)
           new == [N[r] EXCEPT !.at = "kept", !.disturbed = runs[r].disturbed]
<1>1. SeedRow(r) \in Entry /\ SeedRow(r).key = SeedKey /\ SeedRow(r).by = r
  BY BlocksKnown DEF SeedRow, Entry, SeedTypes, Known
<1>2. /\ rows' \in Seq(Entry) /\ Len(rows') <= MaxRows
      /\ DOMAIN rows' = DOMAIN rows \cup {Len(rows) + 1} /\ Len(rows) + 1 \notin DOMAIN rows
      /\ \A i \in DOMAIN rows : rows'[i] = rows[i]
      /\ rows'[Len(rows) + 1] = SeedRow(r)
  BY <1>1, Appended DEF SeedTypes
<1>3. /\ N \in [Runs -> SeedRun] /\ runs \in [Runs -> SeedRun]
      /\ \A q \in Runs : Notices(q, FALSE, N[q])
  BY AllNotice DEF SeedTypes
<1> HIDE DEF N
<1>4. runs' = [N EXCEPT ![r] = new]
  BY <1>3 DEF N, SeedRun
<1>5. N[r] \in SeedRun /\ runs[r] \in SeedRun
  BY <1>3
<1>6. new \in SeedRun /\ new.at = "kept" /\ new.taken = N[r].taken
  BY <1>5 DEF SeedRun
<1>7. N[r].taken <=> runs[r].taken
  BY <1>3 DEF Notices
<1> HIDE DEF new
<1>8. /\ runs' \in [Runs -> SeedRun] /\ runs'[r] = new
      /\ \A q \in Runs \ {r} : runs'[q] = N[q]
  BY <1>3, <1>4, <1>6
<1>9. QED
  BY <1>1, <1>2, <1>3, <1>6, <1>7, <1>8 DEF Inserted

LEMMA InsertKeeps ==
  ASSUME SeedTypes, RunsInv, NEW r \in Runs, MayInsert(r), UNCHANGED block,
         UNCHANGED before, Accepted(SeedKey, block.second, DOMAIN rows),
         NEW n, Inserted(r, n)
  PROVE  RunsInv'
<1> USE SeedNames
<1>b. /\ DOMAIN rows' = DOMAIN rows \cup {n} /\ n \notin DOMAIN rows
      /\ \A i \in DOMAIN rows : rows'[i] = rows[i]
      /\ rows'[n].key = SeedKey /\ rows'[n].by = r
  BY DEF Inserted
<1>c. \A q \in Runs : /\ q # r => runs'[q].at = runs[q].at
                      /\ runs'[q].taken <=> runs[q].taken
  BY DEF Inserted, Notices
<1>d. runs'[r].at = "kept" /\ \A q \in Runs : q # r => Notices(q, FALSE, runs'[q])
  BY DEF Inserted
<1>e. /\ n \in DOMAIN rows' /\ HasKey(n)'
      /\ \A i \in DOMAIN rows : HasKey(i)' <=> HasKey(i)
      /\ ~Missing'
  <2>1. \A i : HasKey(i)' <=> i \in DOMAIN rows' /\ rows'[i].key = SeedKey
    BY HasKeyIs
  <2>2. \A i : HasKey(i) <=> i \in DOMAIN rows /\ rows[i].key = SeedKey
    BY HasKeyIs
  <2>3. QED
    BY <1>b, <2>1, <2>2 DEF Missing
<1>1. LeftOrTaken'
  BY <1>e DEF LeftOrTaken
<1>2. MadeOrTaken'
  <2>1. \A q \in Runs : runs[q].at # "idle" => runs'[q].at # "idle"
    BY <1>c, <1>d
  <2> SUFFICES ASSUME NEW i \in DOMAIN rows'
               PROVE  /\ rows'[i] = Gone \/ rows'[i].by # "nobody"
                      /\ rows'[i].by \in Runs => /\ runs'[rows'[i].by].at # "idle"
                                                 /\ HasKey(i)' \/ runs'[rows'[i].by].taken
    BY DEF MadeOrTaken
  <2>2. CASE i = n
    BY <1>b, <1>d, <1>e, <2>2
  <2>3. CASE i \in DOMAIN rows
    <3>1. /\ rows[i] = Gone \/ rows[i].by # "nobody"
          /\ rows[i].by \in Runs => /\ runs[rows[i].by].at # "idle"
                                    /\ HasKey(i) \/ runs[rows[i].by].taken
      BY <2>3 DEF RunsInv, MadeOrTaken
    <3>2. QED
      BY <1>b, <1>c, <1>e, <2>1, <2>3, <3>1
  <2>4. QED
    BY <1>b, <2>2, <2>3
<1>3. r \notin Over /\ Over \subseteq Over' /\ BeforeOver'
  <2>1. r \notin Over
    BY DEF Over, MayInsert, Active
  <2>2. Over \subseteq Over'
    BY <1>c, <1>d, <2>1 DEF Over
  <2>3. QED
    BY <2>1, <2>2 DEF RunsInv, BeforeOver
<1>4. LookedFirst'
  <2> SUFFICES ASSUME NEW q \in Runs, runs'[q].at = "missing", NEW i \in DOMAIN rows',
                      HasKey(i)', rows'[i].by \in Runs
               PROVE  \/ runs'[rows'[i].by].taken
                      \/ rows'[i].by \notin before[q] /\ q \notin before[rows'[i].by]
    BY DEF LookedFirst, Overlap
  <2>1. q # r /\ runs[q].at = "missing"
    BY <1>c, <1>d
  <2>2. CASE i \in DOMAIN rows
    BY <1>b, <1>c, <1>e, <2>1, <2>2 DEF RunsInv, LookedFirst, Overlap
  <2>3. CASE i = n
    <3>1. q \notin Over
      BY <2>1 DEF Over, Active
    <3>2. QED
      BY <1>b, <1>3, <2>3, <3>1 DEF RunsInv, BeforeOver
  <2>4. QED
    BY <1>b, <2>2, <2>3
<1>5. SeenStill'
  BY <1>c, <1>d DEF SeenStill, Active, Notices
<1>6. OneRow'
  <2>1. ASSUME NEW i \in DOMAIN rows, HasKey(i)
        PROVE  /\ ~block.key.unique
               /\ rows[i].by \in Runs => \/ runs[rows[i].by].taken
                                         \/ Overlap(rows[i].by, r)
    <3>1. ~block.key.unique
      BY <2>1 DEF Accepted, HasKey, SeedKey
    <3>2. runs[r].at = "missing"
      BY <2>1 DEF MayInsert, Missing
    <3>3. QED
      BY <2>1, <3>1, <3>2 DEF RunsInv, LookedFirst
  <2> SUFFICES ASSUME NEW i \in DOMAIN rows', NEW j \in DOMAIN rows', i # j,
                      HasKey(i)', HasKey(j)'
               PROVE  /\ ~block.key.unique
                      /\ {rows'[i].by, rows'[j].by} \subseteq Runs =>
                           \/ runs'[rows'[i].by].taken \/ runs'[rows'[j].by].taken
                           \/ /\ rows'[i].by \notin before[rows'[j].by]
                              /\ rows'[j].by \notin before[rows'[i].by]
    BY DEF OneRow, Overlap
  <2>2. CASE i = n
    BY <1>b, <1>c, <1>e, <2>1, <2>2 DEF Overlap
  <2>3. CASE j = n
    BY <1>b, <1>c, <1>e, <2>1, <2>3 DEF Overlap
  <2>4. CASE i # n /\ j # n
    BY <1>b, <1>c, <1>e, <2>4 DEF RunsInv, OneRow, Overlap
  <2>5. QED
    BY <2>2, <2>3, <2>4
<1>7. RefusedHasCause'
  BY <1>c, <1>d DEF RunsInv, RefusedHasCause, Notices
<1>8. QED
  BY <1>1, <1>2, <1>3, <1>4, <1>5, <1>6, <1>7 DEF RunsInv

LEMMA BeginKeeps ==
  ASSUME SeedTypes, RunsInv, NEW r \in Runs, Begin(r)
  PROVE  RunsInv' /\ runs' \in [Runs -> SeedRun] /\ before' \in [Runs -> SUBSET Runs]
         /\ runs'[r].at = "begun" /\ (\A q \in Runs \ {r} : runs'[q] = runs[q])
         /\ before' = [before EXCEPT ![r] = Over]
<1> USE SeedNames
<1> DEFINE clash == \E i \in DOMAIN rows : rows[i].second /\ ~HasKey(i)
           new == [runs[r] EXCEPT !.at = "begun", !.clash = clash]
<1>a. /\ runs \in [Runs -> SeedRun] /\ before \in [Runs -> SUBSET Runs]
      /\ runs[r].at = "idle" /\ UNCHANGED rows /\ UNCHANGED block
      /\ before' = [before EXCEPT ![r] = Over]
  BY DEF Begin, SeedTypes, Over, database
<1>b. runs' = [runs EXCEPT ![r] = new]
  BY <1>a DEF Begin, SeedRun
<1>c. /\ new \in SeedRun /\ new.at = "begun" /\ new.taken = runs[r].taken
      /\ new.clash <=> clash
  BY <1>a DEF SeedRun
<1> HIDE DEF new
<1>d. /\ runs' \in [Runs -> SeedRun] /\ runs'[r] = new
      /\ \A q \in Runs \ {r} : runs'[q] = runs[q]
      /\ before' \in [Runs -> SUBSET Runs] /\ before'[r] = Over
      /\ \A q \in Runs \ {r} : before'[q] = before[q]
  BY <1>a, <1>b, <1>c DEF Over
<1>e. (\A i : HasKey(i)' <=> HasKey(i)) /\ (Missing' <=> Missing)
  BY <1>a DEF HasKey, Live, Missing
<1>f. \A i \in DOMAIN rows : rows[i].by # r
  BY <1>a DEF RunsInv, MadeOrTaken
<1>1. LeftOrTaken' /\ RefusedHasCause'
  BY <1>c, <1>d, <1>e DEF RunsInv, LeftOrTaken, RefusedHasCause
<1>2. MadeOrTaken'
  BY <1>a, <1>d, <1>e, <1>f DEF RunsInv, MadeOrTaken
<1>3. BeforeOver'
  <2>1. r \notin Over /\ Over \subseteq Over'
    BY <1>a, <1>d DEF Over
  <2>2. QED
    BY <1>d, <2>1 DEF RunsInv, BeforeOver
<1>4. LookedFirst'
  BY <1>a, <1>c, <1>d, <1>e, <1>f DEF RunsInv, LookedFirst, Overlap
<1>5. SeenStill'
  <2> SUFFICES ASSUME NEW q \in Runs, runs'[q].at \in {"begun", "found", "missing"},
                      ~runs'[q].disturbed
               PROVE  /\ runs'[q].at = "missing" => Missing
                      /\ runs'[q].at = "found" => HasKey(runs'[q].row)
                      /\ ~runs'[q].clash => \A i \in DOMAIN rows : rows[i].second => HasKey(i)
    BY <1>a, <1>e DEF SeenStill
  <2>1. CASE q = r
    BY <1>c, <1>d, <2>1
  <2>2. CASE q # r
    BY <1>d, <2>2 DEF RunsInv, SeenStill
  <2>3. QED
    BY <2>1, <2>2
<1>6. OneRow'
  BY <1>a, <1>d, <1>e, <1>f DEF RunsInv, OneRow, Overlap
<1>7. QED
  BY <1>a, <1>c, <1>d, <1>1, <1>2, <1>3, <1>4, <1>5, <1>6 DEF RunsInv

\* The order of the numbers, as a set of pairs.
LEMMA NumbersDescend == IsWellFoundedOn({ss \in Nat \X Nat : ss[1] < ss[2]}, Nat)
<1>1. OpToRel(<, Nat) = {ss \in Nat \X Nat : ss[1] < ss[2]}
  BY DEF OpToRel
<1>2. QED
  BY <1>1, NatLessThanWellFounded

\* A set of numbers with a bound has the least of its bounds as its maximum.
LEMMA MaxIs ==
  ASSUME NEW top \in Nat, NEW S \in SUBSET (0..top), S # {}
  PROVE  Max(S) \in S /\ \A n \in S : n <= Max(S)
<1> DEFINE R == {ss \in Nat \X Nat : ss[1] < ss[2]}
           Above == {n \in Nat : \A m \in S : m <= n}
<1>1. top \in Above /\ Above \subseteq Nat
  OBVIOUS
<1>2. PICK b \in Above : \A n \in Above : ~(<<n, b>> \in R)
  <2> HIDE DEF Above, R
  <2>1. Above # {} /\ Above \subseteq Nat
    BY <1>1
  <2>2. IsWellFoundedOn(R, Nat)
    BY NumbersDescend DEF R
  <2>3. QED
    BY <2>1, <2>2, WFMin
<1>3. b \in S
  <2> SUFFICES ASSUME b \notin S PROVE FALSE
    OBVIOUS
  <2>1. b \in Nat /\ \A m \in S : m \in Nat /\ m < b
    BY <1>2
  <2>2. b - 1 \in Nat /\ b - 1 < b
    <3>1. PICK m \in S : TRUE
      OBVIOUS
    <3>2. QED
      BY <2>1, <3>1
  <2>3. b - 1 \in Above
    BY <2>1, <2>2
  <2>4. QED
    BY <1>2, <2>1, <2>2, <2>3
<1>4. \E x \in S : \A y \in S : x >= y
  BY <1>3, <1>2
<1>5. QED
  BY <1>4 DEF Max

-----------------------------------------------------------------------------
\* The steps of a run.

\* A run that goes on within its block.
LEMMA RunStep ==
  ASSUME SeedInv, NEW r \in Runs, NEW new, GoesOnTo(r, new), KeysStay,
         block.numbered => new.at # "done",
         runs[r].at \in {"kept", "patched"} => new.at \in {"kept", "patched", "behind", "done"},
         UNCHANGED block, UNCHANGED before, UNCHANGED seq, UNCHANGED drawn,
         UNCHANGED hurried
  PROVE  SeedInv'
<1>a. SeedTypes /\ RunsInv /\ DrawnOnce /\ NumbersAreFree
  BY DEF SeedInv
<1>b. /\ runs' \in [Runs -> SeedRun] /\ runs'[r] = new
      /\ \A q \in Runs \ {r} : runs'[q] = runs[q]
  BY <1>a DEF SeedTypes, GoesOnTo
<1>1. SeedTypes'
  BY <1>a, <1>b DEF SeedTypes, KeysStay
<1>2. RunsInv'
  BY <1>a, RunKeeps
<1>3. DrawnOnce'
  BY <1>a DEF DrawnOnce
<1>4. NumbersAreFree'
  <2> SUFFICES ASSUME block.numbered, ~hurried,
                      ~(\A i \in DOMAIN rows' : rows'[i].key <= seq)
               PROVE  \E q \in Runs :
                        \/ runs'[q].at \in {"kept", "patched"}
                        \/ /\ runs'[q].at = "behind"
                           /\ \A e \in Runs : runs'[e].at = "done" => q \notin before[e]
    BY DEF NumbersAreFree
  <2>1. ~(\A i \in DOMAIN rows : rows[i].key <= seq)
    BY DEF KeysStay
  <2>2. PICK q \in Runs :
          \/ runs[q].at \in {"kept", "patched"}
          \/ /\ runs[q].at = "behind"
             /\ \A e \in Runs : runs[e].at = "done" => q \notin before[e]
    BY <1>a, <2>1 DEF NumbersAreFree
  <2>3. CASE q = r
    <3>1. runs[r].at \in {"kept", "patched"} /\ new.at \in {"kept", "patched", "behind"}
      BY <2>2, <2>3 DEF GoesOnTo, Active
    <3>2. \A e \in Runs : r \notin before[e]
      BY <1>a, <3>1 DEF RunsInv, BeforeOver, Over, Active
    <3>3. QED
      BY <1>b, <3>1, <3>2
  <2>4. CASE q # r
    BY <1>b, <2>2, <2>4
  <2>5. QED
    BY <2>3, <2>4
<1>5. QED
  BY <1>1, <1>2, <1>3, <1>4 DEF SeedInv

\* A run that goes elsewhere, as it is.
LEMMA GoesElsewhere ==
  ASSUME SeedInv, NEW r \in Runs, runs[r].at \in Active,
         NEW place \in {"missing", "kept", "patched", "done", "refused", "dead", "behind"},
         Goto(r, place),
         place = "missing" => runs[r].at = "begun" /\ Missing,
         place \in {"kept", "patched", "done", "behind"} => runs[r].taken \/ ~Missing,
         place = "refused" => runs[r].disturbed \/ runs[r].clash
  PROVE  GoesOnTo(r, [runs[r] EXCEPT !.at = place])
<1>1. runs \in [Runs -> SeedRun]
  BY DEF SeedInv, SeedTypes
<1>2. runs' = [runs EXCEPT ![r] = [runs[r] EXCEPT !.at = place]]
  BY <1>1 DEF Goto, SeedRun
<1>3. runs[r] \in SeedRun
  BY <1>1
<1>4. QED
  BY <1>2, <1>3 DEF GoesOnTo, SeedRun

\* Columns are set.
SetsColumns(i) ==
  \/ rows'[i] = rows[i]
  \/ rows[i] # Gone /\ rows'[i] = [rows[i] EXCEPT !.set = "seed"]

LEMMA ColumnsKeepKeys ==
  ASSUME SeedTypes, rows' = [i \in DOMAIN rows |-> rows'[i]],
         \A i \in DOMAIN rows : SetsColumns(i)
  PROVE  KeysStay
<1>1. rows \in Seq(Entry)
  BY DEF SeedTypes
<1>2. \A i \in DOMAIN rows :
        /\ rows'[i] \in Entry /\ rows'[i].key = rows[i].key
        /\ rows'[i].second = rows[i].second /\ rows'[i].by = rows[i].by
        /\ rows[i] = Gone => rows'[i] = Gone
  <2> SUFFICES ASSUME NEW i \in DOMAIN rows
               PROVE  /\ rows'[i] \in Entry /\ rows'[i].key = rows[i].key
                      /\ rows'[i].second = rows[i].second /\ rows'[i].by = rows[i].by
                      /\ rows[i] = Gone => rows'[i] = Gone
    OBVIOUS
  <2>1. rows[i] \in Entry /\ SetsColumns(i)
    BY <1>1
  <2>2. QED
    BY <2>1 DEF SetsColumns, Entry
<1>3. rows' \in Seq(Entry) /\ Len(rows') = Len(rows)
  BY <1>1, <1>2
<1>4. QED
  BY <1>1, <1>2, <1>3 DEF KeysStay, SeedTypes

LEMMA KeysAsTheyWere == ASSUME SeedTypes, UNCHANGED rows PROVE KeysStay
BY DEF SeedTypes, KeysStay

LEMMA GoesOn ==
  ASSUME SeedInv, NEW r \in Runs, runs[r].at \in Active, KeysStay,
         NEW place \in {"missing", "kept", "patched", "done", "refused", "dead", "behind"},
         Goto(r, place),
         place = "missing" => runs[r].at = "begun" /\ Missing,
         place \in {"kept", "patched", "done", "behind"} => runs[r].taken \/ ~Missing,
         place = "refused" => runs[r].disturbed \/ runs[r].clash,
         block.numbered => place # "done",
         runs[r].at \in {"kept", "patched"} => place \in {"kept", "patched", "behind", "done"},
         UNCHANGED block, UNCHANGED before, UNCHANGED seq, UNCHANGED drawn,
         UNCHANGED hurried
  PROVE  SeedInv'
<1> DEFINE new == [runs[r] EXCEPT !.at = place]
<1>1. GoesOnTo(r, new)
  BY GoesElsewhere
<1>2. new.at = place
  BY DEF SeedInv, SeedTypes, SeedRun
<1> HIDE DEF new
<1>3. QED
  BY <1>1, <1>2, RunStep

LEMMA BeginStep == ASSUME SeedInv, NEW r \in Runs, Begin(r) PROVE SeedInv'
<1>a. SeedTypes /\ RunsInv /\ DrawnOnce /\ NumbersAreFree
  BY DEF SeedInv
<1>b. /\ runs[r].at = "idle" /\ UNCHANGED block /\ UNCHANGED rows /\ UNCHANGED seq
      /\ UNCHANGED drawn /\ UNCHANGED hurried
  BY DEF Begin, database
<1>c. /\ RunsInv' /\ runs' \in [Runs -> SeedRun] /\ before' \in [Runs -> SUBSET Runs]
      /\ runs'[r].at = "begun" /\ \A q \in Runs \ {r} : runs'[q] = runs[q]
      /\ before' = [before EXCEPT ![r] = Over]
  BY <1>a, BeginKeeps
<1>1. \A q \in Runs \ {r} : before'[q] = before[q]
  BY <1>a, <1>c DEF SeedTypes
<1>2. SeedTypes' /\ DrawnOnce'
  BY <1>a, <1>b, <1>c DEF SeedTypes, DrawnOnce
<1>3. NumbersAreFree'
  BY <1>a, <1>b, <1>c, <1>1 DEF NumbersAreFree
<1>4. QED
  BY <1>c, <1>2, <1>3 DEF SeedInv

LEMMA LookStep == ASSUME SeedInv, NEW r \in Runs, Look(r) PROVE SeedInv'
<1> USE SeedNames
<1>a. SeedTypes /\ runs \in [Runs -> SeedRun] /\ runs[r] \in SeedRun
  BY DEF SeedInv, SeedTypes
<1>b. /\ runs[r].at = "begun" /\ UNCHANGED block /\ UNCHANGED rows /\ UNCHANGED seq
      /\ UNCHANGED drawn /\ UNCHANGED hurried /\ UNCHANGED before /\ KeysStay
      /\ runs[r].at \in Active
  BY <1>a, KeysAsTheyWere DEF Look, database, Active
<1>1. CASE \E i \in DOMAIN rows :
             /\ Finds(i) /\ runs' = [runs EXCEPT ![r].at = "found", ![r].row = i]
  <2>1. PICK i \in DOMAIN rows :
          /\ HasKey(i) /\ runs' = [runs EXCEPT ![r].at = "found", ![r].row = i]
    BY <1>1 DEF Finds
  <2> DEFINE new == [runs[r] EXCEPT !.at = "found", !.row = i]
  <2>2. i \in 0..MaxRows /\ ~Missing
    BY <1>a, <2>1 DEF SeedTypes, Missing
  <2>3. runs' = [runs EXCEPT ![r] = new]
    BY <1>a, <2>1 DEF SeedRun
  <2>4. /\ new \in SeedRun /\ new.at = "found" /\ new.row = i
        /\ new.taken = runs[r].taken /\ new.disturbed = runs[r].disturbed
        /\ new.clash = runs[r].clash
    BY <1>a, <2>2 DEF SeedRun
  <2> HIDE DEF new
  <2>5. GoesOnTo(r, new)
    BY <1>b, <2>1, <2>2, <2>3, <2>4 DEF GoesOnTo
  <2>6. QED
    BY <1>b, <2>4, <2>5, RunStep
<1>2. CASE (\A i \in DOMAIN rows : ~Finds(i)) /\ Goto(r, "missing")
  <2>1. Missing
    BY <1>2 DEF Finds, Missing
  <2>2. QED
    BY <1>b, <1>2, <2>1, GoesOn
<1>3. QED
  BY <1>1, <1>2 DEF Look

LEMMA InsertStep ==
  ASSUME SeedInv, NEW r \in Runs, MayInsert(r), Insert(r), UNCHANGED block,
         UNCHANGED before, UNCHANGED seq, UNCHANGED drawn, UNCHANGED hurried
  PROVE  SeedInv'
<1>a. SeedTypes /\ RunsInv /\ DrawnOnce
  BY DEF SeedInv
<1>1. CASE Accepted(SeedKey, block.second, DOMAIN rows)
  <2>1. PICK n : Inserted(r, n)
    BY <1>a, <1>1, InsertDoes DEF Insert
  <2>2. RunsInv'
    BY <1>a, <1>1, <2>1, InsertKeeps
  <2>3. SeedTypes' /\ DrawnOnce' /\ NumbersAreFree'
    BY <1>a, <2>1 DEF SeedTypes, Inserted, DrawnOnce, NumbersAreFree
  <2>4. QED
    BY <2>2, <2>3 DEF SeedInv
<1>2. CASE ~Accepted(SeedKey, block.second, DOMAIN rows)
  <2>1. runs[r].disturbed \/ runs[r].clash
    BY <1>a, <1>2, RefusalHasCause
  <2>2. Goto(r, "refused") /\ UNCHANGED rows
    BY <1>2 DEF Insert, Refusal
  <2>3. KeysStay /\ runs[r].at \in Active /\ runs[r].at \notin {"kept", "patched"}
    BY <1>a, <2>2, KeysAsTheyWere DEF MayInsert, Active
  <2>4. QED
    BY <2>1, <2>2, <2>3, GoesOn
<1>3. QED
  BY <1>1, <1>2

LEMMA CreateStep == ASSUME SeedInv, NEW r \in Runs, Create(r) PROVE SeedInv'
BY InsertStep DEF Create, MayInsert

LEMMA KeepStep == ASSUME SeedInv, NEW r \in Runs, Keep(r) PROVE SeedInv'
<1>a. SeedTypes /\ RunsInv
  BY DEF SeedInv
<1>b. /\ runs[r].at = "found" /\ runs[r].at \in Active /\ UNCHANGED block /\ UNCHANGED seq
      /\ UNCHANGED drawn /\ UNCHANGED hurried /\ UNCHANGED before
  BY DEF Keep, Active
<1>c. runs[r].taken \/ ~Missing
  BY <1>a, <1>b DEF RunsInv, LeftOrTaken
<1>1. CASE "found" \in block.writes /\ ~Live(runs[r].row)
  <2>1. Goto(r, "refused") /\ UNCHANGED rows
    BY <1>1 DEF Keep, Refusal
  <2>2. runs[r].disturbed
    <3>1. ~HasKey(runs[r].row)
      BY <1>1 DEF HasKey
    <3>2. QED
      BY <1>a, <1>b, <3>1 DEF RunsInv, SeenStill
  <2>3. KeysStay
    BY <1>a, <2>1, KeysAsTheyWere
  <2>4. QED
    BY <1>b, <2>1, <2>2, <2>3, GoesOn
<1>2. CASE ~("found" \in block.writes /\ ~Live(runs[r].row))
  <2>1. /\ rows' = [rows EXCEPT ![runs[r].row] = IF @ = Gone THEN @ ELSE Written(@)]
        /\ Goto(r, "kept")
    BY <1>2 DEF Keep
  <2>2. \A i \in DOMAIN rows : SetsColumns(i)
    BY <2>1 DEF SetsColumns, Written
  <2>3. rows' = [i \in DOMAIN rows |-> rows'[i]]
    BY <1>a, <2>1 DEF SeedTypes
  <2>4. KeysStay
    BY <1>a, <2>2, <2>3, ColumnsKeepKeys
  <2>5. QED
    BY <1>b, <1>c, <2>1, <2>4, GoesOn
<1>3. QED
  BY <1>1, <1>2

LEMMA InsertOrUpdateStep ==
  ASSUME SeedInv, NEW r \in Runs, InsertOrUpdate(r) PROVE SeedInv'
<1>a. SeedTypes
  BY DEF SeedInv
<1>b. /\ runs[r].at = "begun" /\ runs[r].at \in Active /\ UNCHANGED block /\ UNCHANGED seq
      /\ UNCHANGED drawn /\ UNCHANGED hurried /\ UNCHANGED before
  BY DEF InsertOrUpdate, Active
<1>1. CASE \E i \in DOMAIN rows :
             /\ Finds(i)
             /\ rows' = [rows EXCEPT ![i] = Written(@)] /\ Goto(r, "kept")
  <2>1. PICK i \in DOMAIN rows :
             /\ HasKey(i)
             /\ rows' = [rows EXCEPT ![i] = Written(@)] /\ Goto(r, "kept")
    BY <1>1 DEF Finds
  <2>2. rows[i] # Gone /\ ~Missing
    BY <2>1 DEF HasKey, Live, Missing
  <2>3. \A j \in DOMAIN rows : SetsColumns(j)
    BY <2>1, <2>2 DEF SetsColumns, Written
  <2>4. rows' = [j \in DOMAIN rows |-> rows'[j]]
    BY <1>a, <2>1 DEF SeedTypes
  <2>5. KeysStay
    BY <1>a, <2>3, <2>4, ColumnsKeepKeys
  <2>6. QED
    BY <1>b, <2>1, <2>2, <2>5, GoesOn
<1>2. CASE (\A i \in DOMAIN rows : ~Finds(i)) /\ Insert(r)
  <2>1. MayInsert(r)
    BY <1>b, <1>2 DEF MayInsert, Missing, Finds
  <2>2. QED
    BY <1>b, <1>2, <2>1, InsertStep
<1>3. QED
  BY <1>1, <1>2 DEF InsertOrUpdate

LEMMA PatchStep == ASSUME SeedInv, NEW r \in Runs, Patch(r) PROVE SeedInv'
<1>a. SeedTypes /\ RunsInv
  BY DEF SeedInv
<1>b. /\ runs[r].at = "kept" /\ runs[r].at \in Active /\ UNCHANGED block /\ UNCHANGED seq
      /\ UNCHANGED drawn /\ UNCHANGED hurried /\ UNCHANGED before /\ Goto(r, "patched")
      /\ rows' = [i \in DOMAIN rows |->
                    IF HasKey(i) THEN [rows[i] EXCEPT !.set = "seed"] ELSE rows[i]]
  BY DEF Patch, Active
<1>1. runs[r].taken \/ ~Missing
  BY <1>a, <1>b DEF RunsInv, LeftOrTaken
<1>2. \A i \in DOMAIN rows : SetsColumns(i)
  BY <1>b DEF SetsColumns, HasKey, Live
<1>3. rows' = [i \in DOMAIN rows |-> rows'[i]]
  BY <1>b
<1>4. KeysStay
  BY <1>a, <1>2, <1>3, ColumnsKeepKeys
<1>5. QED
  BY <1>b, <1>1, <1>4, GoesOn

LEMMA DiesStep == ASSUME SeedInv, NEW r \in Runs, Dies(r) PROVE SeedInv'
<1>a. SeedTypes /\ RunsInv
  BY DEF SeedInv
<1>b. /\ runs[r].at \in Active /\ UNCHANGED block /\ UNCHANGED rows /\ UNCHANGED seq
      /\ UNCHANGED drawn /\ UNCHANGED hurried /\ UNCHANGED before /\ KeysStay
  BY <1>a, KeysAsTheyWere DEF Dies, database
<1>1. CASE runs[r].at \in {"kept", "patched"}
  <2>1. Goto(r, "behind")
    BY <1>1 DEF Dies
  <2>2. runs[r].taken \/ ~Missing
    BY <1>a, <1>1 DEF RunsInv, LeftOrTaken
  <2>3. QED
    BY <1>b, <1>1, <2>1, <2>2, GoesOn
<1>2. CASE runs[r].at \notin {"kept", "patched"}
  <2>1. Goto(r, "dead")
    BY <1>2 DEF Dies
  <2>2. QED
    BY <1>b, <1>2, <2>1, GoesOn
<1>3. QED
  BY <1>1, <1>2

\* setval goes to the highest of the numbers in use.
LEMMA SetValTops ==
  ASSUME SeedTypes, SetVal
  PROVE  seq' \in 0..MaxKey /\ \A i \in DOMAIN rows : rows[i].key <= seq'
<1> USE SeedNames
<1> DEFINE S == {rows[i].key : i \in {j \in DOMAIN rows : Live(j)}} \cup {SeedKey}
<1>1. \A i \in DOMAIN rows : rows[i].key \in 0..MaxKey
  <2>1. \A i \in DOMAIN rows : rows[i] \in Entry
    BY DEF SeedTypes
  <2>2. QED
    BY <2>1 DEF Entry
<1>2. S \in SUBSET (0..MaxKey) /\ S # {}
  BY <1>1
<1>3. /\ SeedKey \in S /\ seq' = Max(S)
      /\ \A i \in DOMAIN rows : Live(i) => rows[i].key \in S
  BY DEF SetVal
<1> HIDE DEF S
<1>4. seq' \in S /\ \A n \in S : n <= seq'
  BY <1>2, <1>3, MaxIs
<1>5. ASSUME NEW i \in DOMAIN rows PROVE rows[i].key <= seq'
  <2>1. CASE Live(i)
    BY <1>3, <1>4, <2>1
  <2>2. CASE ~Live(i)
    BY <1>2, <1>4, <2>2 DEF Live, Gone
  <2>3. QED
    BY <2>1, <2>2
<1>6. QED
  BY <1>2, <1>4, <1>5

LEMMA DoneStep == ASSUME SeedInv, NEW r \in Runs, Done(r) PROVE SeedInv'
<1>a. SeedTypes /\ RunsInv
  BY DEF SeedInv
<1>b. /\ runs[r].at \in {"kept", "patched"} /\ runs[r].at \in Active /\ UNCHANGED block
      /\ UNCHANGED rows /\ UNCHANGED drawn /\ UNCHANGED before /\ Goto(r, "done") /\ KeysStay
  BY <1>a, KeysAsTheyWere DEF Done, Patched, Active
<1>c. runs[r].taken \/ ~Missing
  BY <1>a, <1>b DEF RunsInv, LeftOrTaken
<1>1. CASE ~block.numbered
  <2>1. UNCHANGED seq /\ UNCHANGED hurried
    BY <1>1 DEF Done
  <2>2. QED
    BY <1>b, <1>c, <1>1, <2>1, GoesOn
<1>2. CASE block.numbered
  <2>1. SetVal /\ hurried' = (hurried \/ \E a \in Apps : drawn[a] # 0)
    BY <1>2 DEF Done
  <2>2. seq' \in 0..MaxKey /\ \A i \in DOMAIN rows : rows[i].key <= seq'
    BY <1>a, <2>1, SetValTops
  <2> DEFINE new == [runs[r] EXCEPT !.at = "done"]
  <2>3. GoesOnTo(r, new)
    BY <1>b, <1>c, GoesElsewhere
  <2> HIDE DEF new
  <2>4. RunsInv'
    BY <1>a, <1>b, <2>3, RunKeeps
  <2>5. SeedTypes'
    BY <1>a, <1>b, <2>1, <2>2, <2>3 DEF SeedTypes, GoesOnTo
  <2>6. DrawnOnce'
    <3>1. hurried' <=> hurried \/ \E a \in Apps : drawn[a] # 0
      BY <2>1
    <3>2. ~hurried' => \A a \in Apps : drawn[a] = 0
      BY <3>1
    <3>3. 0 <= seq'
      BY <2>2, SeedNames
    <3>4. QED
      BY <1>b, <3>2, <3>3 DEF DrawnOnce
  <2>7. NumbersAreFree'
    BY <1>b, <2>2 DEF NumbersAreFree
  <2>8. QED
    BY <2>4, <2>5, <2>6, <2>7 DEF SeedInv
<1>3. QED
  BY <1>1, <1>2

-----------------------------------------------------------------------------
\* The steps of the users.

LEMMA UsersStep ==
  ASSUME SeedInv, NEW took \in BOOLEAN, runs' = Noticed(took), UsersWrite(took),
         block.numbered /\ ~hurried /\ (\A i \in DOMAIN rows : rows[i].key <= seq)
           => \A i \in DOMAIN rows' : rows'[i].key <= seq,
         drawn' \in [Apps -> 0..MaxKey],
         \A a \in Apps : drawn'[a] = 0 \/ drawn'[a] = drawn[a],
         UNCHANGED block, UNCHANGED before, UNCHANGED seq, UNCHANGED hurried
  PROVE  SeedInv'
<1>a. SeedTypes /\ RunsInv /\ DrawnOnce /\ NumbersAreFree
  BY DEF SeedInv
<1>b. runs' \in [Runs -> SeedRun] /\ \A r \in Runs : runs'[r].at = runs[r].at
  BY <1>a, AllNotice DEF SeedTypes, Notices
<1>1. RunsInv'
  BY <1>a, UserKeeps
<1>2. SeedTypes'
  BY <1>a, <1>b DEF SeedTypes, UsersWrite
<1>3. DrawnOnce'
  BY <1>a, SeedNames DEF DrawnOnce, SeedTypes
<1>4. NumbersAreFree'
  BY <1>a, <1>b DEF NumbersAreFree
<1>5. QED
  BY <1>1, <1>2, <1>3, <1>4 DEF SeedInv

\* A record of the users is appended.
LEMMA AppendIsWrite ==
  ASSUME SeedTypes, RunsInv, NEW key \in 0..MaxKey, NEW second \in BOOLEAN,
         Len(rows) < MaxRows, Accepted(key, second, DOMAIN rows),
         rows' = Append(rows, UserRow(key, second))
  PROVE  /\ UsersWrite(FALSE)
         /\ \A i \in DOMAIN rows' :
              (i \in DOMAIN rows /\ rows'[i] = rows[i]) \/ rows'[i].key = key
<1> USE SeedNames
<1> DEFINE entry == UserRow(key, second)
           n == Len(rows) + 1
<1>1. entry \in Entry /\ entry.key = key /\ entry.by = "users"
  BY DEF UserRow, Entry
<1> HIDE DEF entry
<1>2. /\ rows' \in Seq(Entry) /\ Len(rows') <= MaxRows
      /\ DOMAIN rows' = DOMAIN rows \cup {n} /\ n \notin DOMAIN rows
      /\ (\A i \in DOMAIN rows : rows'[i] = rows[i]) /\ rows'[n] = entry
  BY <1>1, Appended DEF SeedTypes, entry
<1> HIDE DEF n
<1>3. \A i : HasKey(i)' <=> i \in DOMAIN rows' /\ rows'[i].key = SeedKey
  BY HasKeyIs
<1>4. \A i : HasKey(i) <=> i \in DOMAIN rows /\ rows[i].key = SeedKey
  BY HasKeyIs
<1>5. ASSUME block.key.unique, NEW i \in DOMAIN rows', NEW j \in DOMAIN rows',
             HasKey(i)', HasKey(j)', i # j
      PROVE  FALSE
  <2>1. CASE i \in DOMAIN rows /\ j \in DOMAIN rows
    BY <1>2, <1>3, <1>4, <1>5, <2>1 DEF RunsInv, OneRow
  <2>2. ASSUME NEW k \in DOMAIN rows, rows'[k].key = SeedKey, key = SeedKey PROVE FALSE
    <3>1. Live(k) /\ rows[k].key = SeedKey
      BY <1>2, <2>2 DEF Live, Gone, SeedKey
    <3>2. QED
      BY <1>5, <2>2, <3>1 DEF Accepted, SeedKey
  <2>3. QED
    BY <1>1, <1>2, <1>3, <1>5, <2>1, <2>2
<1>6. UsersWrite(FALSE)
  BY <1>1, <1>2, <1>3, <1>4, <1>5 DEF UsersWrite
<1>7. QED
  BY <1>1, <1>2, <1>6

LEMMA UserCreatesStep == ASSUME SeedInv, UserCreates PROVE SeedInv'
<1>a. SeedTypes /\ RunsInv
  BY DEF SeedInv
<1>1. /\ runs' = Noticed(FALSE) /\ UNCHANGED block /\ UNCHANGED seq /\ UNCHANGED drawn
      /\ UNCHANGED before /\ UNCHANGED hurried /\ ~block.numbered /\ Len(rows) < MaxRows
  BY DEF UserCreates
<1>2. PICK key \in {0, SeedKey}, second \in BOOLEAN :
        Accepted(key, second, DOMAIN rows) /\ rows' = Append(rows, UserRow(key, second))
  BY DEF UserCreates
<1>3. key \in 0..MaxKey
  BY <1>2, SeedNames
<1>4. UsersWrite(FALSE)
  BY <1>a, <1>1, <1>2, <1>3, AppendIsWrite
<1>5. drawn' \in [Apps -> 0..MaxKey]
  BY <1>a, <1>1 DEF SeedTypes
<1>6. QED
  BY <1>1, <1>4, <1>5, UsersStep

LEMMA DrawStep == ASSUME SeedInv, NEW a \in Apps, Draw(a) PROVE SeedInv'
<1> USE SeedNames
<1>a. SeedTypes /\ RunsInv /\ DrawnOnce /\ NumbersAreFree
  BY DEF SeedInv
<1>b. /\ UNCHANGED block /\ UNCHANGED rows /\ UNCHANGED runs /\ UNCHANGED before
      /\ UNCHANGED hurried /\ seq < MaxKey /\ seq' = seq + 1
      /\ drawn' = [drawn EXCEPT ![a] = seq']
  BY DEF Draw
<1>1. seq \in 0..MaxKey /\ seq' \in 0..MaxKey /\ seq < seq'
  BY <1>a, <1>b DEF SeedTypes
<1>2. /\ drawn \in [Apps -> 0..MaxKey] /\ drawn' \in [Apps -> 0..MaxKey]
      /\ drawn'[a] = seq' /\ \A b \in Apps \ {a} : drawn'[b] = drawn[b]
  BY <1>a, <1>b, <1>1 DEF SeedTypes
<1>3. SeedTypes'
  BY <1>a, <1>b, <1>1, <1>2 DEF SeedTypes
<1>4. RunsInv'
  BY <1>a, <1>b DEF RunsInv, LeftOrTaken, MadeOrTaken, BeforeOver, Over, LookedFirst,
     SeenStill, OneRow, RefusedHasCause, Missing, HasKey, Live, Overlap
<1>5. DrawnOnce'
  <2> SUFFICES ASSUME block.numbered, ~hurried, NEW b \in Apps PROVE drawn'[b] <= seq'
    BY <1>b DEF DrawnOnce
  <2>1. drawn[b] \in 0..MaxKey /\ drawn[b] <= seq
    BY <1>a, <1>2 DEF DrawnOnce
  <2>2. QED
    BY <1>1, <1>2, <2>1
<1>6. NumbersAreFree'
  <2>1. ASSUME NEW i \in DOMAIN rows, rows[i].key <= seq PROVE rows[i].key <= seq'
    <3>1. rows[i] \in Entry
      BY <1>a DEF SeedTypes
    <3>2. rows[i].key \in 0..MaxKey
      BY <3>1 DEF Entry
    <3>3. QED
      BY <1>1, <2>1, <3>2
  <2>2. QED
    BY <1>a, <1>b, <2>1 DEF NumbersAreFree
<1>7. QED
  BY <1>3, <1>4, <1>5, <1>6 DEF SeedInv

LEMMA AppInsertsStep == ASSUME SeedInv, NEW a \in Apps, AppInserts(a) PROVE SeedInv'
<1> USE SeedNames
<1>a. SeedTypes /\ RunsInv /\ DrawnOnce /\ NumbersAreFree
  BY DEF SeedInv
<1>b. /\ UNCHANGED block /\ UNCHANGED seq /\ UNCHANGED before /\ UNCHANGED hurried
      /\ drawn' = [drawn EXCEPT ![a] = 0]
  BY DEF AppInserts
<1>1. /\ drawn' \in [Apps -> 0..MaxKey] /\ drawn[a] \in 0..MaxKey
      /\ \A b \in Apps : drawn'[b] = 0 \/ drawn'[b] = drawn[b]
  BY <1>a, <1>b DEF SeedTypes
<1>2. CASE Accepted(drawn[a], FALSE, DOMAIN rows)
  <2>1. /\ Len(rows) < MaxRows /\ runs' = Noticed(FALSE)
        /\ rows' = Append(rows, UserRow(drawn[a], FALSE))
    BY <1>2 DEF AppInserts
  <2>2. /\ UsersWrite(FALSE)
        /\ \A i \in DOMAIN rows' :
             (i \in DOMAIN rows /\ rows'[i] = rows[i]) \/ rows'[i].key = drawn[a]
    BY <1>a, <1>1, <1>2, <2>1, AppendIsWrite
  <2>3. block.numbered /\ ~hurried => drawn[a] <= seq
    BY <1>a DEF DrawnOnce
  <2>4. block.numbered /\ ~hurried /\ (\A i \in DOMAIN rows : rows[i].key <= seq)
          => \A i \in DOMAIN rows' : rows'[i].key <= seq
    BY <2>2, <2>3
  <2>5. QED
    BY <1>b, <1>1, <2>1, <2>2, <2>4, UsersStep
<1>3. CASE ~Accepted(drawn[a], FALSE, DOMAIN rows)
  <2>1. UNCHANGED rows /\ UNCHANGED runs
    BY <1>3 DEF AppInserts
  <2>2. SeedTypes'
    BY <1>a, <1>b, <1>1, <2>1 DEF SeedTypes
  <2>3. RunsInv'
    BY <1>a, <1>b, <2>1 DEF RunsInv, LeftOrTaken, MadeOrTaken, BeforeOver, Over,
       LookedFirst, SeenStill, OneRow, RefusedHasCause, Missing, HasKey, Live, Overlap
  <2>4. DrawnOnce' /\ NumbersAreFree'
    BY <1>a, <1>b, <1>1, <2>1 DEF DrawnOnce, NumbersAreFree, SeedTypes
  <2>5. QED
    BY <2>2, <2>3, <2>4 DEF SeedInv
<1>4. QED
  BY <1>2, <1>3

\* A record is edited.
LEMMA EditIsWrite ==
  ASSUME SeedTypes, RunsInv, NEW i \in DOMAIN rows, Live(i), NEW new \in Entry,
         new.by = rows[i].by, Accepted(new.key, new.second, DOMAIN rows \ {i}),
         rows' = [rows EXCEPT ![i] = new]
  PROVE  UsersWrite(HasKey(i) /\ new.key # SeedKey)
<1> USE SeedNames
<1>1. /\ rows \in Seq(Entry) /\ rows' \in Seq(Entry) /\ Len(rows') = Len(rows)
      /\ DOMAIN rows' = DOMAIN rows /\ rows'[i] = new
      /\ \A j \in DOMAIN rows : j # i => rows'[j] = rows[j]
  BY DEF SeedTypes
<1>2. \A j : HasKey(j)' <=> j \in DOMAIN rows' /\ rows'[j].key = SeedKey
  BY HasKeyIs
<1>3. \A j : HasKey(j) <=> j \in DOMAIN rows /\ rows[j].key = SeedKey
  BY HasKeyIs
<1>4. ASSUME block.key.unique, NEW j \in DOMAIN rows', NEW k \in DOMAIN rows',
             HasKey(j)', HasKey(k)', j # k
      PROVE  FALSE
  <2>1. CASE j # i /\ k # i
    BY <1>1, <1>2, <1>3, <1>4, <2>1 DEF RunsInv, OneRow
  <2>2. ASSUME NEW m \in DOMAIN rows, m # i, rows[m].key = SeedKey, new.key = SeedKey
        PROVE  FALSE
    <3>1. Live(m)
      BY <2>2 DEF Live, Gone, SeedKey
    <3>2. QED
      BY <1>4, <2>2, <3>1 DEF Accepted, SeedKey
  <2>3. QED
    BY <1>1, <1>2, <1>4, <2>1, <2>2
<1>5. \A j \in DOMAIN rows :
        /\ j \in DOMAIN rows'
        /\ HasKey(j) => (HasKey(i) /\ new.key # SeedKey) \/ HasKey(j)'
        /\ rows'[j] \in {Gone, rows[j]} \/ (rows[j] # Gone /\ rows'[j].by = rows[j].by)
  BY <1>1, <1>2, <1>3 DEF Live
<1>6. QED
  BY <1>1, <1>4, <1>5 DEF UsersWrite, SeedTypes

LEMMA UserEditsStep ==
  ASSUME SeedInv, NEW i \in DOMAIN rows, UserEdits(i) PROVE SeedInv'
<1> USE SeedNames
<1>a. SeedTypes /\ RunsInv
  BY DEF SeedInv
<1>b. /\ UNCHANGED block /\ UNCHANGED seq /\ UNCHANGED before /\ UNCHANGED hurried
      /\ UNCHANGED drawn /\ Live(i)
  BY DEF UserEdits
<1>c. rows[i] \in Entry /\ drawn' \in [Apps -> 0..MaxKey]
  BY <1>a, <1>b DEF SeedTypes
<1>1. PICK new \in [key : {0, rows[i].key} \cup (IF block.key.chosen THEN {SeedKey} ELSE {}),
                    second : BOOLEAN, by : {rows[i].by},
                    set : {rows[i].set, "users"}, rest : {rows[i].rest, "users"}] :
        /\ new.key # rows[i].key => block.key.edited
        /\ Accepted(new.key, new.second, DOMAIN rows \ {i})
        /\ rows' = [rows EXCEPT ![i] = new]
        /\ runs' = Noticed(HasKey(i) /\ new.key # SeedKey)
  BY DEF UserEdits
<1>2. new \in Entry /\ new.by = rows[i].by
  <2>1. /\ rows[i].key \in 0..MaxKey /\ rows[i].by \in Runs \cup {"users", "nobody"}
        /\ rows[i].set \in {"seed", "users"} /\ rows[i].rest \in {"seed", "users"}
    BY <1>c DEF Entry
  <2>2. /\ new.key \in {0, rows[i].key, SeedKey} /\ new.second \in BOOLEAN
        /\ new.by = rows[i].by /\ new.set \in {rows[i].set, "users"}
        /\ new.rest \in {rows[i].rest, "users"}
        /\ new = [key |-> new.key, second |-> new.second, by |-> new.by,
                  set |-> new.set, rest |-> new.rest]
    BY <1>1
  <2>3. QED
    BY <2>1, <2>2 DEF Entry
<1> DEFINE took == HasKey(i) /\ new.key # SeedKey
<1>3. UsersWrite(took) /\ took \in BOOLEAN
  BY <1>a, <1>b, <1>1, <1>2, EditIsWrite
<1>4. block.numbered /\ (\A j \in DOMAIN rows : rows[j].key <= seq)
        => \A j \in DOMAIN rows' : rows'[j].key <= seq
  <2>1. block.numbered => new.key = rows[i].key
    BY <1>a, <1>1, BlocksKnown DEF SeedTypes, Known
  <2>2. DOMAIN rows' = DOMAIN rows /\ \A j \in DOMAIN rows : rows'[j] = IF j = i THEN new ELSE rows[j]
    BY <1>a, <1>1 DEF SeedTypes
  <2>3. QED
    BY <2>1, <2>2
<1> HIDE DEF took
<1>5. runs' = Noticed(took)
  BY <1>1 DEF took
<1>6. QED
  BY <1>b, <1>c, <1>3, <1>4, <1>5, UsersStep

LEMMA UserDeletesStep ==
  ASSUME SeedInv, NEW i \in DOMAIN rows, UserDeletes(i) PROVE SeedInv'
<1> USE SeedNames
<1>a. SeedTypes /\ RunsInv
  BY DEF SeedInv
<1>b. /\ UNCHANGED block /\ UNCHANGED seq /\ UNCHANGED before /\ UNCHANGED hurried
      /\ UNCHANGED drawn /\ rows' = [rows EXCEPT ![i] = Gone] /\ runs' = Noticed(HasKey(i))
  BY DEF UserDeletes
<1>c. drawn' \in [Apps -> 0..MaxKey] /\ 0 <= seq
  BY <1>a, <1>b DEF SeedTypes
<1>1. /\ rows' \in Seq(Entry) /\ Len(rows') = Len(rows) /\ DOMAIN rows' = DOMAIN rows
      /\ rows'[i] = Gone /\ \A j \in DOMAIN rows : j # i => rows'[j] = rows[j]
  BY <1>a, <1>b DEF SeedTypes
<1>2. \A j : HasKey(j)' <=> j \in DOMAIN rows' /\ rows'[j].key = SeedKey
  BY HasKeyIs
<1>3. \A j : HasKey(j) <=> j \in DOMAIN rows /\ rows[j].key = SeedKey
  BY HasKeyIs
<1>4. Gone.key = 0 /\ SeedKey # 0
  BY DEF Gone, SeedKey
<1>5. ASSUME block.key.unique, NEW j \in DOMAIN rows', NEW k \in DOMAIN rows',
             HasKey(j)', HasKey(k)', j # k
      PROVE  FALSE
  BY <1>a, <1>1, <1>2, <1>3, <1>4, <1>5 DEF RunsInv, OneRow
<1>6. \A j \in DOMAIN rows :
        /\ j \in DOMAIN rows' /\ (HasKey(j) => HasKey(i) \/ HasKey(j)')
        /\ rows'[j] \in {Gone, rows[j]}
  BY <1>1, <1>2, <1>3
<1>7. UsersWrite(HasKey(i)) /\ HasKey(i) \in BOOLEAN
  BY <1>a, <1>1, <1>3, <1>5, <1>6 DEF UsersWrite, SeedTypes
<1>8. (\A j \in DOMAIN rows : rows[j].key <= seq) => \A j \in DOMAIN rows' : rows'[j].key <= seq
  BY <1>c, <1>1, <1>4
<1>9. QED
  BY <1>b, <1>c, <1>7, <1>8, UsersStep

-----------------------------------------------------------------------------
LEMMA SeedInductive == SeedInv /\ [SeedNext]_seeding => SeedInv'
<1> SUFFICES ASSUME SeedInv, [SeedNext]_seeding PROVE SeedInv'
  OBVIOUS
<1>1. ASSUME NEW r \in Runs,
             \/ Begin(r) \/ Look(r) \/ Create(r) \/ Keep(r)
             \/ InsertOrUpdate(r) \/ Patch(r) \/ Done(r) \/ Dies(r)
      PROVE  SeedInv'
  BY <1>1, BeginStep, LookStep, CreateStep, KeepStep, InsertOrUpdateStep, PatchStep,
     DoneStep, DiesStep
<1>2. CASE UserCreates
  BY <1>2, UserCreatesStep
<1>3. ASSUME NEW a \in Apps, Draw(a) \/ AppInserts(a) PROVE SeedInv'
  BY <1>3, DrawStep, AppInsertsStep
<1>4. ASSUME NEW i \in DOMAIN rows, UserEdits(i) \/ UserDeletes(i) PROVE SeedInv'
  BY <1>4, UserEditsStep, UserDeletesStep
<1>5. CASE UNCHANGED seeding
  BY <1>5 DEF seeding, SeedInv, SeedTypes, RunsInv, LeftOrTaken, MadeOrTaken, BeforeOver,
     Over, LookedFirst, SeenStill, OneRow, RefusedHasCause, DrawnOnce, NumbersAreFree,
     Missing, HasKey, Live, Overlap
<1>6. QED
  BY <1>1, <1>2, <1>3, <1>4, <1>5 DEF SeedNext

\* Every state the seed and its users can reach satisfies SeedInv.
THEOREM SeedInvariance == SeedSpec => []SeedInv
<1>1. QED
  BY SeedStarts, SeedInductive, PTL DEF SeedSpec

\* A run that is through with a block (seed.ts, findOrCreate and the upserts) has
\* left the seed's record there unless users took it away, and there is one of it
\* unless users took the first or the runs overlapped: for any runs and users.
THEOREM RecordStaysSeeded == SeedSpec => []RecordIsSeeded
<1>1. SeedInv => RecordIsSeeded
  <2> SUFFICES ASSUME SeedInv PROVE RecordIsSeeded
    OBVIOUS
  <2>a. SeedTypes /\ RunsInv
    BY DEF SeedInv
  <2>1. \A i \in DOMAIN rows : rows[i] \in Entry
    BY <2>a DEF SeedTypes
  <2>2. SeedTypeOK
    BY <2>a, <2>1 DEF SeedTypes, SeedTypeOK, SeedRun
  <2>3. SeededOrTaken
    BY <2>a DEF RunsInv, LeftOrTaken, SeededOrTaken
  <2>4. QED
    BY <2>a, <2>2, <2>3 DEF RunsInv, RecordIsSeeded
<1>2. QED
  BY <1>1, SeedInvariance, PTL

\* A run that nobody disturbs is refused by a unique index only where users gave
\* away the second value of the seed's record, and setval leaves the sequence of
\* the nominations where the numbers to come are free.
THEOREM NothingRefused == SeedSpec => []NothingIsRefused
<1>1. SeedInv => NothingIsRefused
  BY DEF SeedInv, RunsInv, NothingIsRefused
<1>2. QED
  BY <1>1, SeedInvariance, PTL

\* A step of run q writes what its block is meant to write.
WritesMeant(q) ==
  \A i \in DOMAIN rows : rows'[i] # rows[i] =>
    /\ block.writes # {} /\ rows'[i] = [rows[i] EXCEPT !.set = "seed"]
    /\ HasKey(i) \/ (runs[q].row = i /\ runs[q].disturbed)

LEMMA RunWritesMeant ==
  ASSUME SeedInv, NEW q \in Runs,
         \/ Begin(q) \/ Look(q) \/ Create(q) \/ Keep(q)
         \/ InsertOrUpdate(q) \/ Patch(q) \/ Done(q) \/ Dies(q)
  PROVE  WritesMeant(q)
<1>a. rows \in Seq(Entry) /\ RunsInv
  BY DEF SeedInv, SeedTypes
<1>b. UNCHANGED rows => WritesMeant(q)
  BY DEF WritesMeant
<1>c. Insert(q) => WritesMeant(q)
  <2>1. ASSUME NEW entry, rows' = Append(rows, entry) PROVE WritesMeant(q)
    BY <1>a, <2>1 DEF WritesMeant
  <2>2. QED
    BY <1>b, <2>1 DEF Insert
<1>1. CASE Begin(q) \/ Look(q) \/ Create(q) \/ Done(q) \/ Dies(q)
  BY <1>b, <1>c, <1>1 DEF Begin, Look, Create, Done, Dies, database
<1>2. CASE Keep(q)
  <2>1. CASE UNCHANGED rows
    BY <1>b, <2>1
  <2>2. CASE rows' = [rows EXCEPT ![runs[q].row] = IF @ = Gone THEN @ ELSE Written(@)]
    <3> SUFFICES ASSUME NEW i \in DOMAIN rows, rows'[i] # rows[i]
                 PROVE  /\ block.writes # {} /\ rows'[i] = [rows[i] EXCEPT !.set = "seed"]
                        /\ HasKey(i) \/ (runs[q].row = i /\ runs[q].disturbed)
      BY DEF WritesMeant
    <3>1. i = runs[q].row /\ rows'[i] = Written(rows[i])
      BY <1>a, <2>2
    <3>2. block.writes # {} /\ rows'[i] = [rows[i] EXCEPT !.set = "seed"]
      BY <3>1 DEF Written
    <3>3. runs[q].disturbed \/ HasKey(i)
      BY <1>a, <1>2, <3>1 DEF Keep, RunsInv, SeenStill
    <3>4. QED
      BY <3>1, <3>2, <3>3
  <2>3. QED
    BY <1>2, <2>1, <2>2 DEF Keep
<1>3. CASE InsertOrUpdate(q)
  <2>1. ASSUME NEW j \in DOMAIN rows, HasKey(j), rows' = [rows EXCEPT ![j] = Written(@)]
        PROVE  WritesMeant(q)
    BY <1>a, <2>1 DEF WritesMeant, Written
  <2>2. QED
    BY <1>3, <1>c, <2>1 DEF InsertOrUpdate, Finds
<1>4. CASE Patch(q)
  BY <1>4 DEF Patch, WritesMeant
<1>5. QED
  BY <1>1, <1>2, <1>3, <1>4

LEMMA OneRunSteps ==
  ASSUME SeedInv, NEW q \in Runs,
         \/ Begin(q) \/ Look(q) \/ Create(q) \/ Keep(q)
         \/ InsertOrUpdate(q) \/ Patch(q) \/ Done(q) \/ Dies(q)
  PROVE  \A r \in Runs \ {q} : runs'[r].at = runs[r].at
<1>a. runs \in [Runs -> SeedRun]
  BY DEF SeedInv, SeedTypes
<1>1. ASSUME NEW place, Goto(q, place)
      PROVE  \A r \in Runs \ {q} : runs'[r].at = runs[r].at
  BY <1>a, <1>1 DEF Goto
<1>2. Insert(q) => \A r \in Runs \ {q} : runs'[r].at = runs[r].at
  <2>1. ASSUME runs' = [Noticed(FALSE) EXCEPT ![q].at = "kept",
                                              ![q].disturbed = runs[q].disturbed]
        PROVE  \A r \in Runs \ {q} : runs'[r].at = runs[r].at
    <3>1. /\ Noticed(FALSE) \in [Runs -> SeedRun]
          /\ \A r \in Runs : Noticed(FALSE)[r].at = runs[r].at
      BY <1>a, AllNotice DEF Notices
    <3>2. \A r \in Runs \ {q} : runs'[r] = Noticed(FALSE)[r]
      BY <2>1, <3>1
    <3>3. QED
      BY <3>1, <3>2
  <2>2. QED
    BY <1>1, <2>1 DEF Insert
<1>3. CASE Begin(q)
  BY <1>a, <1>3 DEF Begin
<1>4. CASE Look(q)
  BY <1>a, <1>1, <1>4 DEF Look
<1>5. CASE Create(q) \/ Keep(q) \/ InsertOrUpdate(q)
  BY <1>1, <1>2, <1>5 DEF Create, Keep, InsertOrUpdate
<1>6. CASE Patch(q) \/ Done(q) \/ Dies(q)
  BY <1>1, <1>6 DEF Patch, Done, Dies
<1>7. QED
  BY <1>3, <1>4, <1>5, <1>6

\* A step of the seed changes no record but in the columns its block is meant to
\* set, and none that has not the seed's key, unless it lost it after the run had
\* found it: what users wrote elsewhere survives every run.
THEOREM EditsKept == SeedSpec => EditsSurvive
<1>1. ASSUME SeedInv, [SeedNext]_seeding, NEW r \in Runs, runs'[r].at # runs[r].at
      PROVE  WritesMeant(r)
  <2>1. ASSUME NEW q \in Runs,
               \/ Begin(q) \/ Look(q) \/ Create(q) \/ Keep(q)
               \/ InsertOrUpdate(q) \/ Patch(q) \/ Done(q) \/ Dies(q)
        PROVE  WritesMeant(r)
    <3>1. q = r
      BY <1>1, <2>1, OneRunSteps
    <3>2. QED
      BY <1>1, <2>1, <3>1, RunWritesMeant
  <2>2. ASSUME \/ \E took \in BOOLEAN : runs' = Noticed(took)
               \/ UNCHANGED runs
        PROVE  FALSE
    BY <1>1, <2>2, AllNotice DEF SeedInv, SeedTypes, Notices
  <2>3. CASE UserCreates
    BY <2>2, <2>3 DEF UserCreates
  <2>4. ASSUME NEW a \in Apps, Draw(a) \/ AppInserts(a) PROVE FALSE
    BY <2>2, <2>4 DEF Draw, AppInserts
  <2>5. ASSUME NEW i \in DOMAIN rows, UserEdits(i) PROVE FALSE
    <3>1. PICK took : runs' = Noticed(took) /\ took \in BOOLEAN
      BY <2>5 DEF UserEdits
    <3>2. QED
      BY <2>2, <3>1
  <2>6. ASSUME NEW i \in DOMAIN rows, UserDeletes(i) PROVE FALSE
    <3>1. runs' = Noticed(HasKey(i)) /\ HasKey(i) \in BOOLEAN
      BY <2>6 DEF UserDeletes, HasKey, Live
    <3>2. QED
      BY <2>2, <3>1
  <2>7. CASE UNCHANGED seeding
    BY <2>2, <2>7 DEF seeding
  <2>8. QED
    BY <1>1, <2>1, <2>3, <2>4, <2>5, <2>6, <2>7 DEF SeedNext
<1>2. SeedInv /\ [SeedNext]_seeding =>
        [\A r \in Runs : runs'[r].at # runs[r].at =>
           \A i \in DOMAIN rows : rows'[i] # rows[i] =>
             /\ block.writes # {} /\ rows'[i] = [rows[i] EXCEPT !.set = "seed"]
             /\ HasKey(i) \/ (runs[r].row = i /\ runs[r].disturbed)]_seeding
  BY <1>1 DEF WritesMeant
<1>3. QED
  BY <1>2, SeedInvariance, PTL DEF SeedSpec, EditsSurvive
=============================================================================
