----------------------------- MODULE MasterData -----------------------------
(***************************************************************************)
(* The services of the master data (backend/src/master-data): create,      *)
(* update and remove of one kind of record, as calls whose statements      *)
(* interleave. A record has a text, which a unique index may guard, and    *)
(* perhaps a collection of members that an update replaces. Which kind it  *)
(* is decides only the service in force, which never changes.              *)
(***************************************************************************)
EXTENDS Naturals, FiniteSets

CONSTANTS Ids,    \* the ids the database gives out
          Calls,  \* calls of the service
          Texts,  \* what a record says
          None

\* None is no id, no call and no text.
ASSUME ServiceAssumption == None \notin Ids \cup Calls \cup Texts

VARIABLES
  service, \* the service in force
  rows,    \* the records: text and members, known by the call that wrote them
  op,      \* a call: where it is, what it asks, and the members it has cleared
  before   \* history: the calls that had ended when a call began

\* What tells the services apart: whether a unique index can refuse a text, and
\* when the collections of a record are replaced: before its row is locked by
\* the update, or, in Prisma's nested writes, after.
Service(unique, members) == [unique |-> unique, members |-> members]
ActivitiesService == Service(TRUE, "none")
AgentsService == Service(FALSE, "none")
BranchesService == Service(TRUE, "none")
CargoesService == Service(FALSE, "none")
ClientsService == Service(FALSE, "locked")
ContactsService == Service(FALSE, "locked")
CrewService == Service(FALSE, "none")
EmailGroupsService == Service(FALSE, "unlocked")
FlagsService == Service(TRUE, "none")
OwnersService == Service(FALSE, "none")
PortsService == Service(FALSE, "unlocked")
SalesContactsService == Service(FALSE, "none")
ServicesService == Service(FALSE, "none")
ShipParticularsService == Service(TRUE, "none")
SuppliersService == Service(FALSE, "none")

Absent == [text |-> None, members |-> {}]
Live(i) == rows[i].text # None
Idle == [at |-> "idle", kind |-> None, id |-> None, text |-> None, cleared |-> {}]
Ended == {c \in Calls : op[c].at \in {"done", "refused"}}

\* Records and calls have the shape of the tables and the services.
ServiceTypeOK ==
  /\ rows \in [Ids -> [text : Texts \cup {None}, members : SUBSET Calls]]
  /\ op \in [Calls -> [at : {"idle", "asked", "found", "cleared", "done", "refused"},
                       kind : {"create", "update", "remove", None},
                       id : Ids \cup {None}, text : Texts \cup {None},
                       cleared : SUBSET Calls]]
  /\ before \in [Calls -> SUBSET Calls]

ServiceInit(s) ==
  /\ service = s
  /\ rows \in {r \in [Ids -> [text : Texts \cup {None}, members : {{}}]] :
                 service.unique => \A i, j \in Ids :
                   i # j /\ r[i].text = r[j].text => r[i].text = None}
  /\ op = [c \in Calls |-> Idle]
  /\ before = [c \in Calls |-> {}]

-----------------------------------------------------------------------------
\* A call arrives.
Ask(c, kind, id, text) ==
  /\ op[c].at = "idle"
  /\ op' = [op EXCEPT ![c] = [at |-> "asked", kind |-> kind, id |-> id,
                              text |-> text, cleared |-> {}]]
  /\ before' = [before EXCEPT ![c] = Ended]
  /\ UNCHANGED <<service, rows>>

Goto(c, place) == op' = [op EXCEPT ![c].at = place]

\* assertExists or getById: 404 when there is no row.
AssertExists(c) ==
  /\ op[c].at = "asked" /\ op[c].kind # "create"
  /\ Goto(c, IF Live(op[c].id) THEN "found" ELSE "refused")
  /\ UNCHANGED <<service, rows, before>>

\* deleteMany within the transaction: of the members it can see.
ClearMembers(c) ==
  /\ op[c].at = "found" /\ op[c].kind = "update"
  /\ service.members = "unlocked"
  /\ op' = [op EXCEPT ![c].at = "cleared", ![c].cleared = rows[op[c].id].members]
  /\ UNCHANGED <<service, rows, before>>

\* Slip for a mutant of PROJECT.json: the old members are not deleted.
AddsMembers(c) == rows[op[c].id].members \cup {c}

\* The members of a record once the update has committed. The row's own lock
\* keeps out every other update, but not one that has cleared before it.
Replaced(c) ==
  CASE service.members = "none" -> {}
    [] service.members = "locked" -> {c}
    [] service.members = "unlocked" ->
         (rows[op[c].id].members \ op[c].cleared) \cup {c}

\* The unique index lets the text of a record pass.
Unique(i, text) ==
  service.unique => \A j \in Ids \ {i} : rows[j].text # text

\* prisma.update by id, and the commit: P2025 when the row has gone meanwhile.
Update(c) ==
  /\ op[c].kind = "update"
  /\ op[c].at = IF service.members = "unlocked" THEN "cleared" ELSE "found"
  /\ IF Live(op[c].id) /\ Unique(op[c].id, op[c].text)
     THEN /\ rows' = [rows EXCEPT ![op[c].id] =
                        [text |-> op[c].text, members |-> Replaced(c)]]
          /\ Goto(c, "done")
     ELSE Goto(c, "refused") /\ UNCHANGED rows
  /\ UNCHANGED <<service, before>>

\* prisma.create, under an id that was never used.
Create(c) ==
  /\ op[c].at = "asked" /\ op[c].kind = "create"
  /\ \E i \in Ids :
       /\ ~Live(i) /\ \A d \in Calls : op[d].id # i
       /\ rows' = [rows EXCEPT ![i] =
            [text |-> op[c].text,
             members |-> IF service.members = "none" THEN {} ELSE {c}]]
       /\ op' = [op EXCEPT ![c].at = "done", ![c].id = i]
       /\ Unique(i, op[c].text)
  /\ UNCHANGED <<service, before>>

\* prisma.delete by id; the members go with the row.
Remove(c) ==
  /\ op[c].at = "found" /\ op[c].kind = "remove"
  /\ Live(op[c].id)
  /\ rows' = [rows EXCEPT ![op[c].id] = Absent]
  /\ Goto(c, "done")
  /\ UNCHANGED <<service, before>>

\* The index, a foreign key, a missing row or the database refuses the call.
Refused(c) ==
  /\ op[c].at \in {"asked", "found", "cleared"}
  /\ Goto(c, "refused")
  /\ UNCHANGED <<service, rows, before>>

ServiceStep(c) ==
  \/ AssertExists(c) \/ ClearMembers(c) \/ Update(c) \/ Create(c) \/ Remove(c)
  \/ Refused(c)

-----------------------------------------------------------------------------
\* The members of a record are those of one save, unless the service clears
\* them before it locks the row and the saves that wrote them overlapped.
MembersOfOneSave ==
  \A i \in Ids : \A c, d \in rows[i].members :
    c # d => /\ service.members = "unlocked"
             /\ c \notin before[d] /\ d \notin before[c]
=============================================================================
