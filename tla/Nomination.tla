----------------------------- MODULE Nomination -----------------------------
(***************************************************************************)
(* One nomination and its PEDR. Of the status only CANCELLED is stored by  *)
(* hand; IN_PORT and FULL_AWAY are derived, at each read, from the lay     *)
(* days and from what the mail log of module Dispatch says was sent. The   *)
(* list cannot derive, it filters in SQL, so each status also has a where  *)
(* clause, and SQL has a third truth value. The PEDR moves through four    *)
(* stages. Each operation reads a row, tests it, and writes by id later.   *)
(***************************************************************************)
EXTENDS Dispatch, Sequences

VARIABLES row,        \* table Nomination: status and lay days
          statusLog,  \* its history: who cancelled, and what each had read
          stage,      \* Pedr.currentStage, "NONE" while there is no PEDR
          stageLog,   \* its history, in order
          seen        \* what a call on the nomination or the PEDR has read

nominationVars == <<row, statusLog, stage, stageLog, seen>>

Dates == Time \cup {None}
Statuses == {"NOMINATED", "IN_PORT", "FULL_AWAY", "CANCELLED"}
Stages == <<"PRE_ARRIVAL", "ATTENDING", "DISPATCH", "CLOSING">>
StageNames == {Stages[i] : i \in 1..4}
Ops == {"cancel", "update", "open", "advance"}

\* A history row of the status: the status read, and the cancellations that
\* were recorded when it was read (history variable).
Cancellation == [from : Statuses, after : SUBSET Calls]
Step == [from : StageNames \cup {"NONE"}, to : StageNames]

\* What a call has read, before it writes.
Read == [op : Ops, status : Statuses, stage : StageNames \cup {"NONE"},
         after : SUBSET Calls]

ASSUME NominationAssumption == None \notin Cancellation \cup Read

NominationTypeOK ==
  /\ row \in [status : {"NOMINATED", "CANCELLED"}, first : Dates,
              last : Dates]
  /\ statusLog \in [Calls -> Cancellation \cup {None}]
  /\ stage \in StageNames \cup {"NONE"}
  /\ stageLog \in Seq(Step)
  /\ seen \in [Calls -> Read \cup {None}]

\* checkLayDaysOrder: of two dates sent together.
InOrder(first, last) == first # None /\ last # None => first <= last

\* create makes the PEDR too; a nomination from before it did may have none.
NominationInit ==
  /\ \E first, last \in Dates :
       /\ InOrder(first, last)
       /\ row = [status |-> "NOMINATED", first |-> first, last |-> last]
  /\ statusLog = [c \in Calls |-> None]
  /\ \/ /\ stage = "NONE" /\ stageLog = <<>>
     \/ /\ stage = "PRE_ARRIVAL"
        /\ stageLog = <<[from |-> "NONE", to |-> "PRE_ARRIVAL"]>>
  /\ seen = [c \in Calls |-> None]

-----------------------------------------------------------------------------
\* The status, derived.

\* A slip for the mutants: trial messages advance the lifecycle.
CountsTrials(type) == \E c \in Calls : Sent(c) /\ log[c].type = type

\* OPERATIONAL_SENT_DISPATCH_WHERE: sent, and no live-system test.
OperationalSent(type) ==
  \E c \in Calls : Sent(c) /\ log[c].type = type /\ ~log[c].trial

Past(date) == date # None /\ now > date

\* present and deriveNominationStatus.
Presented ==
  IF row.status = "CANCELLED" THEN "CANCELLED"
  ELSE IF OperationalSent("SOF") /\ Past(row.last) THEN "FULL_AWAY"
  ELSE IF OperationalSent("PREARRIVAL") /\ Past(row.first) THEN "IN_PORT"
  ELSE "NOMINATED"

-----------------------------------------------------------------------------
\* The status, filtered. PostgreSQL compares with NULL to "unknown", and NOT
\* and AND pass it on; a row is selected where the clause is "true".

Sql(b) == IF b THEN "true" ELSE "false"
SqlBefore(date) == IF date = None THEN "unknown" ELSE Sql(date < now)
SqlNot(v) == CASE v = "true" -> "false"
               [] v = "false" -> "true"
               [] v = "unknown" -> "unknown"
SqlAnd(V) == IF "false" \in V THEN "false"
             ELSE IF "unknown" \in V THEN "unknown" ELSE "true"

InPortWhere == SqlAnd({Sql(OperationalSent("PREARRIVAL")), SqlBefore(row.first)})
FullAwayWhere == SqlAnd({Sql(OperationalSent("SOF")), SqlBefore(row.last)})

\* A slip for the mutants: the filter for IN_PORT forgets who has left.
KeepsDeparted(status) ==
  LET notCancelled == Sql(row.status # "CANCELLED")
  IN CASE status = "CANCELLED" -> Sql(row.status = "CANCELLED")
       [] status = "FULL_AWAY" -> SqlAnd({notCancelled, FullAwayWhere})
       [] status = "IN_PORT" -> SqlAnd({notCancelled, InPortWhere})
       [] OTHER -> SqlAnd({notCancelled, SqlNot(InPortWhere),
                           SqlNot(FullAwayWhere)})

StatusWhere(status) ==
  LET notCancelled == Sql(row.status # "CANCELLED")
  IN CASE status = "CANCELLED" -> Sql(row.status = "CANCELLED")
       [] status = "FULL_AWAY" -> SqlAnd({notCancelled, FullAwayWhere})
       [] status = "IN_PORT" -> SqlAnd({notCancelled, InPortWhere,
                                        SqlNot(FullAwayWhere)})
       [] status = "NOMINATED" -> SqlAnd({notCancelled, SqlNot(InPortWhere),
                                          SqlNot(FullAwayWhere)})

Listed(status) == StatusWhere(status) = "true"

-----------------------------------------------------------------------------
\* transition, update, PedrService.create and PedrService.transition.

\* isValidPedrStageTransition: only the immediate next stage.
FollowsStage(from, to) ==
  \E i, j \in 1..4 : Stages[i] = from /\ Stages[j] = to /\ j = i + 1

\* A slip for the mutants: CANCELLED may be reached from anywhere.
CancelsAgain(op) ==
  CASE op = "cancel" -> TRUE
    [] op = "update" -> row.status # "CANCELLED"
    [] op = "open" -> row.status # "CANCELLED" /\ stage = "NONE"
    [] op = "advance" -> stage # "NONE"

\* What each call tests of the rows it has read.
Allowed(op) ==
  CASE op = "cancel" -> Presented # "CANCELLED"
    [] op = "update" -> row.status # "CANCELLED"
    [] op = "open" -> row.status # "CANCELLED" /\ stage = "NONE"
    [] op = "advance" -> stage # "NONE"

\* The reads; a call that fails its test throws.
ReadNomination(c) ==
  /\ pc[c] = "idle"
  /\ \E op \in Ops :
       /\ Allowed(op)
       /\ seen' = [seen EXCEPT ![c] =
            [op |-> op, status |-> Presented, stage |-> stage,
             after |-> {d \in Calls : statusLog[d] # None}]]
  /\ pc' = [pc EXCEPT ![c] = "write"]
  /\ UNCHANGED <<now, sending, log, accepted, row, statusLog, stage, stageLog>>

\* Either transaction may be refused, which ends the call.
Finish(c) ==
  /\ pc[c] = "write"
  /\ pc' = [pc EXCEPT ![c] = "done"]
  /\ seen' = [seen EXCEPT ![c] = None]
  /\ UNCHANGED <<now, sending, log, accepted>>

WriteFails(c) == Finish(c) /\ UNCHANGED <<row, statusLog, stage, stageLog>>

\* transition: the row by id and its history in one transaction.
Cancel(c) ==
  /\ Finish(c) /\ seen[c].op = "cancel"
  /\ row' = [row EXCEPT !.status = "CANCELLED"]
  /\ statusLog' = [statusLog EXCEPT ![c] =
                     [from |-> seen[c].status, after |-> seen[c].after]]
  /\ UNCHANGED <<stage, stageLog>>

\* A slip for the mutants: the row that was presented is saved back.
StoresDerivedStatus(c) ==
  /\ Finish(c) /\ seen[c].op = "update"
  /\ row' = [row EXCEPT !.status = seen[c].status]
  /\ UNCHANGED <<statusLog, stage, stageLog>>

\* update: any of the fields the client sent, by id. Lay days sent together
\* are in order.
Update(c) ==
  /\ Finish(c) /\ seen[c].op = "update"
  /\ \/ \E first, last \in Dates :
          /\ InOrder(first, last)
          /\ row' = [row EXCEPT !.first = first, !.last = last]
     \/ \E first \in Dates : row' = [row EXCEPT !.first = first]
     \/ \E last \in Dates : row' = [row EXCEPT !.last = last]
  /\ UNCHANGED <<statusLog, stage, stageLog>>

\* A slip for the mutants: no unique index on the nomination of a PEDR.
OpensTwice(c) ==
  /\ Finish(c) /\ seen[c].op = "open"
  /\ stage' = "PRE_ARRIVAL"
  /\ stageLog' = Append(stageLog, [from |-> "NONE", to |-> "PRE_ARRIVAL"])
  /\ UNCHANGED <<row, statusLog>>

\* create: the unique index refuses a second PEDR.
OpenPedr(c) ==
  /\ Finish(c) /\ seen[c].op = "open" /\ stage = "NONE"
  /\ stage' = "PRE_ARRIVAL"
  /\ stageLog' = Append(stageLog, [from |-> "NONE", to |-> "PRE_ARRIVAL"])
  /\ UNCHANGED <<row, statusLog>>

\* transition of the PEDR: the stage by id, and its history with the stage
\* that was read, in one transaction.
Advance(c) ==
  /\ Finish(c) /\ seen[c].op = "advance"
  /\ \E to \in StageNames :
       /\ FollowsStage(seen[c].stage, to)
       /\ stage' = to
       /\ stageLog' = Append(stageLog, [from |-> seen[c].stage, to |-> to])
  /\ UNCHANGED <<row, statusLog>>

NominationStep(c) ==
  ReadNomination(c) \/ WriteFails(c) \/ Cancel(c) \/ Update(c) \/ OpenPedr(c)
  \/ Advance(c)

\* The mail endpoints start only where there is a PEDR.
SendStep(c) == (stage # "NONE" /\ Start(c)) \/ Continue(c)

-----------------------------------------------------------------------------
\* A filter selects nothing but rows presented with its status.
FiltersAreHonest == \A s \in Statuses : Listed(s) => Presented = s

\* The list filtered by the status a nomination is presented with has it: the
\* comment on statusWhere calls the clauses equivalent. The code does not keep
\* this, and no run checks it.
EveryStatusListed == Listed(Presented)

\* A ship is shown in port or away only when a real message of that kind was
\* accepted by the mail server: no trial, no interim statement, no failure.
StatusIsEarned ==
  LET Mailed(type) == \E c \in Logged : /\ log[c].type = type
                                        /\ ~log[c].trial
                                        /\ c \in accepted
  IN /\ Presented = "IN_PORT" => Mailed("PREARRIVAL")
     /\ Presented = "FULL_AWAY" => Mailed("SOF")

\* CANCELLED is terminal: the history has a second cancellation only from a
\* call that was already under way when the first was recorded.
CancellationsOverlap ==
  \A c \in Calls : statusLog[c] # None => statusLog[c].after = {}

\* Whatever the order of stale writes, no stage is reached in the history but
\* from the one before it, which was reached earlier, and a PEDR opens once.
StagesInOrder ==
  \A i \in DOMAIN stageLog :
    \/ i = 1 /\ stageLog[i] = [from |-> "NONE", to |-> "PRE_ARRIVAL"]
    \/ \E j \in 1..(i - 1), k \in 1..3 :
         /\ stageLog[j].to = Stages[k]
         /\ stageLog[i] = [from |-> Stages[k], to |-> Stages[k + 1]]

\* pedr.prisma: stage advancement is forward-only. The code does not keep this,
\* and no run checks it.
StageForwardOnly ==
  [][stage = "NONE" \/ FollowsStage(stage, stage')]_stage
=============================================================================
