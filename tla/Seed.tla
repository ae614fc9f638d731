-------------------------------- MODULE Seed --------------------------------
(***************************************************************************)
(* The seed (backend/prisma/seed.ts), which may be run on any database, at *)
(* any time and again: statement after statement without a transaction,    *)
(* each looking for a record and creating it if there is none, while users *)
(* create, rename, edit and delete what they may. A behaviour watches one  *)
(* block of the seed, in fact one record of it. A run may die anywhere.    *)
(*                                                                         *)
(* What the record is looked for by is its key: SeedKey for the seed's, 0  *)
(* for any other, and a number where the application takes numbers from a  *)
(* sequence. MaxRows and MaxKey bound the behaviours.                      *)
(***************************************************************************)
EXTENDS Naturals, Sequences, FiniteSets, FiniteSetsExt

CONSTANTS Runs, Apps, MaxRows, MaxKey

ASSUME SeedAssumption ==
  /\ MaxRows \in Nat \ {0} /\ MaxKey \in Nat \ {0}
  /\ Runs \cap {"users", "nobody"} = {}

VARIABLES
  block,   \* the block of the seed
  rows,    \* the records of its table, and those that were deleted
  runs,    \* the runs of the seed
  seq,     \* the last number drawn from the sequence, or set
  drawn,   \* the numbers drawn for an insert that has not been made
  before,  \* history: the runs that had ended when a run began
  hurried  \* history: setval came while an insert was under way

database == <<rows, seq, drawn>>
seeding == <<block, rows, runs, seq, drawn, before, hurried>>

SeedKey == 1

-----------------------------------------------------------------------------
\* The blocks.

\* What a record is looked for by: if users give their records such a key, if an
\* index keeps it unique, if users change it.
Key(chosen, unique, edited) == [chosen |-> chosen, unique |-> unique, edited |-> edited]
Id == Key(FALSE, TRUE, FALSE)
Name == Key(TRUE, FALSE, TRUE)
Code == Key(TRUE, TRUE, TRUE)
Serial == Key(TRUE, TRUE, FALSE)
Fact == Key(TRUE, FALSE, FALSE)

\* findOrCreate is two statements, and so is an upsert with records nested in
\* it; any other upsert is one, ON CONFLICT. writes: the upsert has an update, or
\* statements further down set columns again. second: there is another unique
\* column, of which the seed's record has a value that users choose.
Block(key, atomic) ==
  [key |-> key, atomic |-> atomic, writes |-> {}, deletes |-> TRUE,
   second |-> FALSE, numbered |-> FALSE]
FindOrCreate(key) == Block(key, FALSE)
Upsert(key) == Block(key, TRUE)
Kept(b) == [b EXCEPT !.deletes = FALSE]

Users == [Upsert(Serial) EXCEPT !.writes = {"found", "patch"}]
FlagStates == Upsert(Code)
Catalogs == Upsert(Id)
Services == FindOrCreate(Name)
Ports == FindOrCreate(Name)
Piers == FindOrCreate(Name)
Operators == FindOrCreate(Id)
Owners == FindOrCreate(Name)
Charterers == FindOrCreate(Id)
Shippers == FindOrCreate(Id)
Agents == FindOrCreate(Name)
Suppliers == FindOrCreate(Name)
Contacts == FindOrCreate(Id)
MainBranches == [Upsert(Code) EXCEPT !.writes = {"found"}]
OtherBranches == Upsert(Code)
Vessels == [Upsert(Code) EXCEPT !.second = TRUE]
EmailGroups == FindOrCreate(Name)
Nominations == [Kept(FindOrCreate(Serial)) EXCEPT !.writes = {"patch"}, !.numbered = TRUE]
NominationClients == FindOrCreate(Name)
Pedrs == Kept(FindOrCreate(Serial))
InstructionClient == FindOrCreate(Id)
MessageGroups == FindOrCreate(Id)
ClientSlots == Upsert(Serial)
ContactLinks == Upsert(Serial)
DefaultClients == FindOrCreate(Name)
SubDocuments == Kept(Upsert(Id))
Events == Kept(FindOrCreate(Fact))
Documents == Kept(Upsert(Id))
EmailDispatches == Kept(FindOrCreate(Fact))
ShDocuments == Upsert(Id)
ShDispatches == FindOrCreate(Fact)
FleetVessels == Upsert(Serial)
AuditLogs == Kept(FindOrCreate(Fact))
BranchTemplates == [FindOrCreate(Code) EXCEPT !.writes = {"found"}]

Blocks ==
  {Users, FlagStates, Catalogs, Services, Ports, Piers, Operators, Owners, Charterers,
   Shippers, Agents, Suppliers, Contacts, MainBranches, OtherBranches, Vessels,
   EmailGroups, Nominations, NominationClients, Pedrs, InstructionClient,
   MessageGroups, ClientSlots, ContactLinks, DefaultClients, SubDocuments, Events,
   Documents, EmailDispatches, ShDocuments, ShDispatches, FleetVessels, AuditLogs,
   BranchTemplates}

-----------------------------------------------------------------------------
\* The state.

\* by: who created the record. set and rest: who last wrote the columns that the
\* block's writes set, and the others.
Entry == [key : 0..MaxKey, second : BOOLEAN, by : Runs \cup {"users", "nobody"},
          set : {"seed", "users"}, rest : {"seed", "users"}]
Gone == [key |-> 0, second |-> FALSE, by |-> "nobody", set |-> "seed", rest |-> "seed"]
Live(i) == i \in DOMAIN rows /\ rows[i] # Gone

\* row: the record that was found. disturbed, taken and clash are history: a
\* record appeared or was changed during the run; the seed's record lost its key
\* or was deleted then or after; another had its second value when it began.
NoRun == [at |-> "idle", row |-> 0, disturbed |-> FALSE, taken |-> FALSE, clash |-> FALSE]

\* The records, the runs and the sequence have the shape of the tables.
SeedTypeOK ==
  /\ block \in Blocks
  /\ Len(rows) <= MaxRows /\ \A i \in DOMAIN rows : rows[i] \in Entry
  /\ runs \in [Runs -> [at : {"idle", "begun", "found", "missing", "kept", "patched",
                             "done", "refused", "dead", "behind"},
                       row : 0..MaxRows, disturbed : BOOLEAN, taken : BOOLEAN,
                       clash : BOOLEAN]]
  /\ seq \in 0..MaxKey
  /\ drawn \in [Apps -> 0..MaxKey]

SeedInit ==
  /\ block \in Blocks
  /\ rows = <<>> /\ seq = 0
  /\ drawn = [a \in Apps |-> 0]
  /\ runs = [r \in Runs |-> NoRun]
  /\ before = [r \in Runs |-> {}] /\ hurried = FALSE

Active == {"begun", "found", "missing", "kept", "patched"}
HasKey(i) == Live(i) /\ rows[i].key = SeedKey
Missing == \A i \in DOMAIN rows : ~HasKey(i)

\* The unique indexes accept a record with this key and second value.
Accepted(key, second, others) ==
  \A i \in others : Live(i) =>
    /\ block.key.unique /\ key # 0 => rows[i].key # key
    /\ second => ~rows[i].second

\* The runs under way have seen something change; whether the seed's record was
\* taken away matters to those that have ended, too.
Noticed(took) ==
  [r \in Runs |-> [runs[r] EXCEPT !.disturbed = @ \/ runs[r].at \in Active,
                                 !.taken = @ \/ (took /\ runs[r].at # "idle")]]

-----------------------------------------------------------------------------
\* A run of the seed.

Goto(r, place) == runs' = [runs EXCEPT ![r].at = place]

Begin(r) ==
  /\ runs[r].at = "idle"
  /\ runs' = [runs EXCEPT ![r].at = "begun",
       ![r].clash = \E i \in DOMAIN rows : rows[i].second /\ ~HasKey(i)]
  /\ before' = [before EXCEPT ![r] = {e \in Runs : runs[e].at \notin Active \cup {"idle"}}]
  /\ UNCHANGED <<block, database, hurried>>

\* The record of the seed, as its columns are written by run r.
SeedRow(r) == [key |-> SeedKey, second |-> block.second, by |-> r,
               set |-> "seed", rest |-> "seed"]

\* Slips for mutants of PROJECT.json: a record counts as found only if the seed
\* has made it, or the update is that of the whole record, or a refusal is
\* swallowed.
FindsOwn(i) == HasKey(i) /\ rows[i].by # "users"
FindsOwnValues(i) == HasKey(i) /\ rows[i].set = "seed"
WritesAll(row) == [row EXCEPT !.set = "seed", !.rest = "seed"]
Swallowed == "kept"

\* What is looked for, and what an update sets.
Finds(i) == HasKey(i)
Written(row) == IF "found" \in block.writes THEN [row EXCEPT !.set = "seed"] ELSE row

\* The first statement of findOrCreate, or of an upsert with nested records.
Look(r) ==
  /\ runs[r].at = "begun" /\ ~block.atomic
  /\ \/ \E i \in DOMAIN rows :
          /\ Finds(i)
          /\ runs' = [runs EXCEPT ![r].at = "found", ![r].row = i]
     \/ (\A i \in DOMAIN rows : ~Finds(i)) /\ Goto(r, "missing")
  /\ UNCHANGED <<block, database, before, hurried>>

\* What a unique index refuses ends the run: main() catches nothing.
Refusal == "refused"
Insert(r) ==
  IF Accepted(SeedKey, block.second, DOMAIN rows)
  THEN /\ Len(rows) < MaxRows
       /\ rows' = Append(rows, SeedRow(r))
       /\ runs' = [Noticed(FALSE) EXCEPT ![r].at = "kept",
                                         ![r].disturbed = runs[r].disturbed]
  ELSE Goto(r, Refusal) /\ UNCHANGED rows

\* The second one.
Create(r) ==
  /\ runs[r].at = "missing"
  /\ Insert(r)
  /\ UNCHANGED <<block, seq, drawn, before, hurried>>

\* The record that was found is kept, or updated; it may have gone.
Keep(r) ==
  /\ runs[r].at = "found"
  /\ IF "found" \in block.writes /\ ~Live(runs[r].row)
     THEN Goto(r, Refusal) /\ UNCHANGED rows
     ELSE /\ rows' = [rows EXCEPT ![runs[r].row] = IF @ = Gone THEN @ ELSE Written(@)]
          /\ Goto(r, "kept")
  /\ UNCHANGED <<block, seq, drawn, before, hurried>>

\* Both in one.
InsertOrUpdate(r) ==
  /\ runs[r].at = "begun" /\ block.atomic
  /\ \/ \E i \in DOMAIN rows :
          /\ Finds(i)
          /\ rows' = [rows EXCEPT ![i] = Written(@)] /\ Goto(r, "kept")
     \/ (\A i \in DOMAIN rows : ~Finds(i)) /\ Insert(r)
  /\ UNCHANGED <<block, seq, drawn, before, hurried>>

\* Further down, columns are set by key: the branches of the users, the ports,
\* piers and clients of the nominations.
Patch(r) ==
  /\ runs[r].at = "kept" /\ "patch" \in block.writes
  /\ rows' = [i \in DOMAIN rows |->
                IF HasKey(i) THEN [rows[i] EXCEPT !.set = "seed"] ELSE rows[i]]
  /\ Goto(r, "patched")
  /\ UNCHANGED <<block, seq, drawn, before, hurried>>

Patched(r) == runs[r].at = IF "patch" \in block.writes THEN "patched" ELSE "kept"

\* Slip for a mutant: the sequence is left where it is.
LeavesSeq == UNCHANGED seq
\* setval(MAX(correlative)): the inserts under way are not among them.
SetVal == seq' = Max({rows[i].key : i \in {j \in DOMAIN rows : Live(j)}} \cup {SeedKey})

\* The run is through with the block.
Done(r) ==
  /\ Patched(r)
  /\ Goto(r, "done")
  /\ IF block.numbered
     THEN SetVal /\ hurried' = (hurried \/ \E a \in Apps : drawn[a] # 0)
     ELSE UNCHANGED <<seq, hurried>>
  /\ UNCHANGED <<block, rows, drawn, before>>

\* The process dies, or a statement of an earlier block fails.
Dies(r) ==
  /\ runs[r].at \in Active
  /\ Goto(r, IF runs[r].at \in {"kept", "patched"} THEN "behind" ELSE "dead")
  /\ UNCHANGED <<block, database, before, hurried>>

-----------------------------------------------------------------------------
\* The users.

UserRow(key, second) == [key |-> key, second |-> second, by |-> "users",
                         set |-> "users", rest |-> "users"]

UserCreates ==
  /\ ~block.numbered /\ Len(rows) < MaxRows
  /\ \E key \in {0, SeedKey}, second \in BOOLEAN :
       /\ key = SeedKey => block.key.chosen
       /\ second => block.second
       /\ Accepted(key, second, DOMAIN rows)
       /\ rows' = Append(rows, UserRow(key, second))
  /\ runs' = Noticed(FALSE)
  /\ UNCHANGED <<block, seq, drawn, before, hurried>>

\* A nomination takes its number from the sequence ...
Draw(a) ==
  /\ block.numbered /\ drawn[a] = 0 /\ seq < MaxKey
  /\ seq' = seq + 1 /\ drawn' = [drawn EXCEPT ![a] = seq']
  /\ UNCHANGED <<block, rows, runs, before, hurried>>

\* ... and is inserted, unless the number is taken.
AppInserts(a) ==
  /\ drawn[a] # 0
  /\ IF Accepted(drawn[a], FALSE, DOMAIN rows)
     THEN /\ Len(rows) < MaxRows
          /\ rows' = Append(rows, UserRow(drawn[a], FALSE))
          /\ runs' = Noticed(FALSE)
     ELSE UNCHANGED <<rows, runs>>
  /\ drawn' = [drawn EXCEPT ![a] = 0]
  /\ UNCHANGED <<block, seq, before, hurried>>

\* Users write some columns of a record, its key and second value among them.
UserEdits(i) ==
  /\ Live(i)
  /\ \E new \in [key : {0, rows[i].key} \cup (IF block.key.chosen THEN {SeedKey} ELSE {}),
                 second : BOOLEAN, by : {rows[i].by},
                 set : {rows[i].set, "users"}, rest : {rows[i].rest, "users"}] :
       /\ new.key # rows[i].key => block.key.edited
       /\ new.second # rows[i].second => block.second
       /\ Accepted(new.key, new.second, DOMAIN rows \ {i})
       /\ rows' = [rows EXCEPT ![i] = new]
       /\ runs' = Noticed(HasKey(i) /\ new.key # SeedKey)
  /\ UNCHANGED <<block, seq, drawn, before, hurried>>

UserDeletes(i) ==
  /\ Live(i) /\ block.deletes
  /\ rows' = [rows EXCEPT ![i] = Gone]
  /\ runs' = Noticed(HasKey(i))
  /\ UNCHANGED <<block, seq, drawn, before, hurried>>

SeedNext ==
  \/ \E r \in Runs : \/ Begin(r) \/ Look(r) \/ Create(r) \/ Keep(r)
                     \/ InsertOrUpdate(r) \/ Patch(r) \/ Done(r) \/ Dies(r)
  \/ UserCreates
  \/ \E a \in Apps : Draw(a) \/ AppInserts(a)
  \/ \E i \in DOMAIN rows : UserEdits(i) \/ UserDeletes(i)

SeedSpec == SeedInit /\ [][SeedNext]_seeding

-----------------------------------------------------------------------------
\* Properties.

Overlap(r, e) == r \notin before[e] /\ e \notin before[r]

\* A run that is through with a block has left the seed's record there, unless
\* users took it away, and nothing that users may not have written since.
SeededOrTaken ==
  \A r \in Runs : runs[r].at = "done" => runs[r].taken \/ ~Missing

\* Running the seed again makes no second record of the same key, unless users
\* took the first away, and gave it the key back, or the runs overlapped; where
\* the key is unique, not even then.
OneRow ==
  \A i, j \in DOMAIN rows : i # j /\ HasKey(i) /\ HasKey(j) =>
    /\ ~block.key.unique
    /\ {rows[i].by, rows[j].by} \subseteq Runs =>
         \/ runs[rows[i].by].taken \/ runs[rows[j].by].taken
         \/ Overlap(rows[i].by, rows[j].by)

\* A run that nobody disturbs is refused only where users have given another
\* record the second value of the seed's, or have changed the seed's key.
RefusedHasCause ==
  \A r \in Runs : runs[r].at = "refused" => runs[r].disturbed \/ runs[r].clash

\* The numbers the application is to draw are free, unless a run that made the
\* seed's record has not set the sequence, or it was set while an insert was
\* under way.
NumbersAreFree ==
  block.numbered /\ ~hurried =>
    \/ \A i \in DOMAIN rows : rows[i].key <= seq
    \/ \E r \in Runs :
         \/ runs[r].at \in {"kept", "patched"}
         \/ runs[r].at = "behind" /\ \A e \in Runs : runs[e].at = "done" => r \notin before[e]

\* A step of the seed changes no record but in the columns that its block is
\* meant to set, and none that lacks the seed's key, unless it lost it after the
\* run had found it.
EditsSurvive ==
  [][\A r \in Runs : runs'[r].at # runs[r].at =>
       \A i \in DOMAIN rows : rows'[i] # rows[i] =>
         /\ block.writes # {} /\ rows'[i] = [rows[i] EXCEPT !.set = "seed"]
         /\ HasKey(i) \/ (runs[r].row = i /\ runs[r].disturbed)]_seeding

\* A run leaves the seed's record there, and one of it.
RecordIsSeeded == SeedTypeOK /\ SeededOrTaken /\ OneRow

\* Neither a run nor the application is refused without a cause.
NothingIsRefused == RefusedHasCause /\ NumbersAreFree
=============================================================================
