------------------------------ MODULE PortCall ------------------------------
(***************************************************************************)
(* The port call as a whole: the nomination, its PEDR, the mail log, and   *)
(* the hourly check (EtaAlertCron) that flags the PEDR in its metadata     *)
(* when no ETA was mailed for EtaHours. The check reads the log of every   *)
(* active PEDR first and writes their flags afterwards, one by one.        *)
(***************************************************************************)
EXTENDS Nomination

CONSTANT EtaHours  \* ETA_STALE_HOURS

VARIABLES due,       \* what a check has read of the log, or None
          metadata   \* Pedr.metadata, or None

vars == <<logVars, nominationVars, due, metadata>>

\* `informed` is whether an ETA had in fact been sent within EtaHours when the
\* log was read (history).
Verdict == [stale : BOOLEAN, last : Time \cup {None}, informed : BOOLEAN]

ASSUME EtaAssumption == EtaHours \in Nat /\ None \notin Verdict

\* The log, the nomination and the alert have the shape of the code's.
TypeOK ==
  /\ LogTypeOK
  /\ NominationTypeOK
  /\ pc \in [Calls -> {"idle", "prepared", "logged", "mailed",
                       "write", "flag", "done"}]
  /\ due \in [Calls -> Verdict \cup {None}]
  /\ metadata \in Verdict \cup {None}

Init ==
  /\ LogInit
  /\ NominationInit
  /\ due = [c \in Calls |-> None]
  /\ metadata = None

EtaMails == {c \in Logged : log[c].type = "ETA_ETB"}
Fresh(time) == time + EtaHours >= now

\* ORDER BY sentAt DESC LIMIT 1: PostgreSQL puts NULL first, and no row is
\* NULL for the code as well. (A set, of the one value.)
LastSent ==
  IF EtaMails # {} /\ \A c \in EtaMails : Sent(c)
    THEN {log[c].sentAt : c \in {d \in EtaMails :
           \A e \in EtaMails : log[e].sentAt <= log[d].sentAt}}
    ELSE {None}

\* A slip for the mutants: any ETA ever sent will do.
NeverGetsOld(last) == last = None

IsStale(last) == last = None \/ ~Fresh(last)

\* The query for active PEDRs: not cancelled, and no final SOF sent.
CheckEta(c) ==
  /\ pc[c] = "idle"
  /\ stage # "NONE"
  /\ row.status # "CANCELLED" /\ ~OperationalSent("SOF")
  /\ \E last \in LastSent :
       due' = [due EXCEPT ![c] =
         [stale |-> IsStale(last), last |-> last,
          informed |-> \E d \in EtaMails : Sent(d) /\ Fresh(log[d].sentAt)]]
  /\ pc' = [pc EXCEPT ![c] = "flag"]
  /\ UNCHANGED <<now, sending, log, accepted, nominationVars, metadata>>

\* The flag of this PEDR is written, when the loop reaches it, or the loop
\* has thrown at another one before.
WriteFlag(c) ==
  /\ pc[c] = "flag"
  /\ metadata' \in {metadata, due[c]}
  /\ due' = [due EXCEPT ![c] = None]
  /\ pc' = [pc EXCEPT ![c] = "done"]
  /\ UNCHANGED <<now, sending, log, accepted, nominationVars>>

Next ==
  \/ Tick /\ UNCHANGED <<nominationVars, due, metadata>>
  \/ \E c \in Calls :
       \/ SendStep(c) /\ UNCHANGED <<nominationVars, due, metadata>>
       \/ NominationStep(c) /\ UNCHANGED <<due, metadata>>
       \/ CheckEta(c)
       \/ WriteFlag(c)

Spec == Init /\ [][Next]_vars

-----------------------------------------------------------------------------
\* The alert is switched off only by an ETA that the mail server accepted no
\* longer than EtaHours before the check.
QuietIsInformed ==
  metadata # None /\ ~metadata.stale =>
    /\ metadata.informed
    /\ \E c \in EtaMails : c \in accepted /\ log[c].sentAt = metadata.last

\* eta-alert.cron.ts: stale means that no ETA was ever sent, or the last one
\* more than EtaHours ago. The code does not keep this, and no run checks it.
AlarmIsDue == metadata # None /\ metadata.stale => ~metadata.informed

\* What is recorded of a port call is true: the statuses shown were earned by
\* accepted messages, cancellations overlap, and numbers follow each other.
RecordIsTrue ==
  TypeOK /\ StatusIsEarned /\ CancellationsOverlap /\ NumbersFollow
=============================================================================
