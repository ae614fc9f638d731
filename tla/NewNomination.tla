---------------------------- MODULE NewNomination ----------------------------
(***************************************************************************)
(* A nomination being written: routes/_protected/nominations/new.tsx with  *)
(* NominationForm in mode create, in one tab. The form completes itself    *)
(* from what is selected: the particulars of the ship, the staff of the    *)
(* branch, the subject; the operating port goes with its branch and the    *)
(* pier with its port. Every change is stored in the browser as a draft,   *)
(* until the creation succeeds.                                            *)
(*                                                                         *)
(* A value the form filled in is named by what it was taken from, one the  *)
(* user typed is Hand. Queries of one selection load together. MaxEntries  *)
(* bounds what the user selects and types, Tries the creations.            *)
(***************************************************************************)
EXTENDS Naturals

CONSTANTS Ships, Branches, Ports, BranchOf, Tries, MaxEntries, Empty, Hand

ASSUME BranchOfPort == BranchOf \in [Ports -> Branches] /\ MaxEntries \in Nat

VARIABLES
  view,       \* "away", "asking" (a draft was found), "form", "leaving"
  entry,      \* the values of the form; while away, those of the draft
  restored,   \* the form was given a draft
  seen,       \* previousShipParticularId, previousBranchId
  loaded,     \* the selections whose queries have data
  fetching,   \* the ship whose data "Fetch from vessel" awaits
  piering,    \* the port for which NewPierModal creates a pier
  porting,    \* the branch for which NewPortModal creates a port
  draft,      \* a draft is stored
  tries,      \* the creations: the calls of the page
  entries,
  created,    \* history: the nominations created of this draft
  twice,      \* history: why there may be a second one
  typed,      \* history: the user entered something, not yet created
  overtaken,  \* history: a creation of an earlier draft has succeeded
  stray       \* history: the port came late for its branch, the pier for its port

filling == <<seen, loaded, fetching, piering, porting, stray>>
creation == <<tries, created, twice, overtaken>>
newVars == <<view, entry, restored, filling, draft, creation, entries, typed>>

Subject == [ship : Ships \cup {Empty}, port : Ports \cup {Empty},
            branch : Branches \cup {Empty}]
Entry == [ship : Ships \cup {Empty}, branch : Branches \cup {Empty},
          port : Ports \cup {Empty}, pier : Ports \cup {Empty},
          loa : Ships \cup {Empty, Hand}, mic : Branches \cup {Empty, Hand},
          mobile : Branches \cup {Empty, Hand},
          subject : Subject \cup {Empty, Hand}]
Blank == [ship |-> Empty, branch |-> Empty, port |-> Empty, pier |-> Empty,
          loa |-> Empty, mic |-> Empty, mobile |-> Empty, subject |-> Empty]
Try == [sent : BOOLEAN, applied : BOOLEAN, mine : BOOLEAN, current : BOOLEAN]
Idle == [sent |-> FALSE, applied |-> FALSE, mine |-> FALSE, current |-> FALSE]

\* The form, its queries, the draft and the histories have the source's shape.
NewTypeOK ==
  /\ view \in {"away", "asking", "form", "leaving"}
  /\ entry \in Entry
  /\ seen \in [ship : Ships \cup {Empty}, branch : Branches \cup {Empty}]
  /\ loaded \in [ship : BOOLEAN, branch : BOOLEAN]
  /\ fetching \in Ships \cup {Empty}
  /\ piering \in Ports \cup {Empty} /\ porting \in Branches \cup {Empty}
  /\ tries \in [Tries -> Try]
  /\ entries \in 0..MaxEntries /\ created \in 0..2
  /\ {restored, draft, twice, typed, overtaken} \subseteq BOOLEAN
  /\ stray \subseteq {"port", "pier"}

NewInit ==
  /\ view = "away"
  /\ entry = Blank /\ restored = FALSE
  /\ seen = [ship |-> Empty, branch |-> Empty]
  /\ loaded = [ship |-> FALSE, branch |-> FALSE]
  /\ fetching = Empty /\ piering = Empty /\ porting = Empty
  /\ draft = FALSE
  /\ tries = [c \in Tries |-> Idle]
  /\ entries = 0 /\ created = 0
  /\ twice = FALSE /\ typed = FALSE /\ overtaken = FALSE /\ stray = {}

-----------------------------------------------------------------------------
\* The page.

\* A form for new work. The creations of the earlier one run on.
Start ==
  /\ view' = "form"
  /\ entry' = Blank /\ restored' = FALSE
  /\ seen' = [ship |-> Empty, branch |-> Empty]
  /\ loaded' = [ship |-> FALSE, branch |-> FALSE]
  /\ draft' = FALSE
  /\ tries' = [c \in Tries |-> [tries[c] EXCEPT !.current = FALSE]]
  /\ created' = 0
  /\ twice' = FALSE /\ typed' = FALSE /\ overtaken' = FALSE
  /\ stray' = {}
  /\ UNCHANGED <<fetching, piering, porting, entries>>

Open ==
  /\ view = "away"
  /\ IF draft
     THEN view' = "asking"
          /\ UNCHANGED <<entry, restored, filling, draft, creation, entries, typed>>
     ELSE Start

Discard == view = "asking" /\ Start

\* What the form had filled in comes back as values like any other.
Restored ==
  LET kept(v) == IF v = Empty THEN Empty ELSE Hand
  IN [entry EXCEPT !.loa = kept(@), !.mic = kept(@), !.mobile = kept(@),
                   !.subject = kept(@)]

Continue ==
  /\ view = "asking"
  /\ view' = "form"
  /\ entry' = Restored /\ restored' = TRUE
  /\ seen' = [ship |-> entry.ship, branch |-> entry.branch]
  /\ loaded' = [ship |-> FALSE, branch |-> FALSE]
  /\ UNCHANGED <<fetching, piering, porting, stray, draft, creation, entries,
                 typed>>

\* By any link: a creation under way runs on, what the form waits for does not.
Leave ==
  /\ view # "away"
  /\ view' = "away"
  /\ entry' = IF draft THEN entry ELSE Blank
  /\ restored' = FALSE
  /\ seen' = [ship |-> Empty, branch |-> Empty]
  /\ loaded' = [ship |-> FALSE, branch |-> FALSE]
  /\ fetching' = Empty /\ piering' = Empty /\ porting' = Empty
  /\ tries' = [c \in Tries |-> [tries[c] EXCEPT !.mine = FALSE]]
  /\ twice' = (twice \/ \E c \in Tries : tries[c].mine /\ view = "form")
  /\ UNCHANGED <<draft, created, overtaken, entries, typed, stray>>

-----------------------------------------------------------------------------
\* What the form fills in.

\* The effect on the subject: one it generated follows the selection.
Subjected(e, ship, branch) ==
  IF ship /\ branch /\ e.port # Empty /\ e.subject # Hand
  THEN [e EXCEPT !.subject = [ship |-> e.ship, port |-> e.port,
                              branch |-> e.branch]]
  ELSE e

\* Every change is stored: what an effect sets, what the user enters. Also while
\* the page leaves for what was created: then a draft of it is stored again.
Stores(changed) ==
  /\ draft' = (draft \/ changed)
  /\ twice' = (twice \/ (changed /\ view = "leaving"))
Becomes(e) == entry' = e /\ Stores(entry' # entry)
Entered(e) == entry' = e /\ Stores(TRUE)

\* Slip for a mutant of PROJECT.json: only empty particulars are filled in.
FillsEmpty ==
  [entry EXCEPT !.loa = IF @ = Empty THEN entry.ship ELSE @]

\* The effect on the particulars: a ship that was not seen replaces them.
Particulars ==
  [entry EXCEPT !.loa = IF @ = Empty \/ seen.ship # entry.ship
                        THEN entry.ship ELSE @]

ShipLoads ==
  /\ view \in {"form", "leaving"}
  /\ entry.ship # Empty /\ ~loaded.ship
  /\ Becomes(Subjected(Particulars, TRUE, loaded.branch))
  /\ seen' = [seen EXCEPT !.ship = entry.ship]
  /\ loaded' = [loaded EXCEPT !.ship = TRUE]
  /\ UNCHANGED <<view, restored, fetching, piering, porting, stray, tries,
                 created, overtaken, entries, typed>>

\* The effect on the staff: a MIC the user chose stays, boarding and mobile are
\* those of a branch that was not seen.
Staff ==
  [entry EXCEPT !.mic = IF @ = Hand THEN Hand ELSE entry.branch,
                !.mobile = IF @ = Empty \/ seen.branch # entry.branch
                           THEN entry.branch ELSE @]

StaffLoads ==
  /\ view \in {"form", "leaving"}
  /\ entry.branch # Empty /\ ~loaded.branch
  /\ Becomes(Subjected(Staff, loaded.ship, TRUE))
  /\ seen' = [seen EXCEPT !.branch = entry.branch]
  /\ loaded' = [loaded EXCEPT !.branch = TRUE]
  /\ UNCHANGED <<view, restored, fetching, piering, porting, stray, tries,
                 created, overtaken, entries, typed>>

-----------------------------------------------------------------------------
\* What the user enters.

Entering ==
  /\ view \in {"form", "leaving"} /\ entries < MaxEntries
  /\ entries' = entries + 1
  /\ typed' = TRUE
  /\ UNCHANGED <<view, restored, seen, fetching, piering, porting, tries,
                 created, overtaken>>

SelectShip ==
  /\ Entering
  /\ \E s \in (Ships \cup {Empty}) \ {entry.ship} :
       Entered([entry EXCEPT !.ship = s])
  /\ loaded' = [loaded EXCEPT !.ship = FALSE]
  /\ UNCHANGED stray

SelectBranch ==
  /\ Entering
  /\ \E b \in (Branches \cup {Empty}) \ {entry.branch} :
       Entered([entry EXCEPT !.branch = b, !.port = Empty, !.pier = Empty])
  /\ loaded' = [loaded EXCEPT !.branch = FALSE]
  /\ stray' = {}

\* Slip for a mutant: a pier stays when the port changes.
KeepsPier(p) == [entry EXCEPT !.port = p]

\* The effect on the pier.
Ported(p) == [entry EXCEPT !.port = p, !.pier = Empty]

\* The picker lists the ports of the branch, all ports without one.
SelectPort ==
  /\ Entering
  /\ \E p \in Ports \ {entry.port} :
       /\ entry.branch \in {Empty, BranchOf[p]}
       /\ Entered(Subjected(Ported(p), loaded.ship, loaded.branch))
  /\ stray' = {}
  /\ UNCHANGED loaded

SelectPier ==
  /\ Entering
  /\ entry.port # Empty
  /\ Entered([entry EXCEPT !.pier = entry.port])
  /\ stray' = stray \ {"pier"}
  /\ UNCHANGED loaded

Type ==
  /\ Entering
  /\ \E f \in {"loa", "mic", "mobile", "subject"} :
       /\ f = "mic" => entry.branch # Empty
       /\ Entered([entry EXCEPT ![f] = Hand])
  /\ UNCHANGED <<loaded, stray>>

\* Generate, with whatever is loaded.
Generate ==
  /\ Entering
  /\ Entered([entry EXCEPT !.subject =
       [ship |-> IF loaded.ship THEN entry.ship ELSE Empty, port |-> entry.port,
        branch |-> IF loaded.branch THEN entry.branch ELSE Empty]])
  /\ UNCHANGED <<loaded, stray>>

Busy == \E c \in Tries : tries[c].mine

\* Clear: back to the default values, the blank ones of a new form. A form that
\* was given a draft is not followed here: it would go back to that draft.
Clear ==
  /\ view = "form" /\ ~Busy
  /\ ~restored
  /\ entry' = Blank
  /\ draft' = TRUE
  /\ seen' = [seen EXCEPT !.branch = Empty]
  /\ loaded' = [ship |-> FALSE, branch |-> FALSE]
  /\ tries' = [c \in Tries |-> [tries[c] EXCEPT !.current = FALSE]]
  /\ created' = 0 /\ typed' = FALSE
  /\ twice' = FALSE /\ overtaken' = FALSE /\ stray' = {}
  /\ UNCHANGED <<view, restored, fetching, piering, porting, entries>>

\* Slip for a mutant: whatever arrives is filled in.
AnyShip(s) == TRUE

\* The answer counts for the ship that is selected and loaded.
StillSelected(s) == loaded.ship /\ entry.ship = s

FetchFromVessel ==
  /\ view = "form"
  /\ loaded.ship /\ fetching = Empty
  /\ fetching' = entry.ship
  /\ UNCHANGED <<view, entry, restored, seen, loaded, piering, porting, stray,
                 draft, creation, entries, typed>>

VesselArrives ==
  /\ fetching # Empty
  /\ Becomes(IF StillSelected(fetching) THEN [entry EXCEPT !.loa = fetching]
             ELSE entry)
  /\ fetching' = Empty
  /\ UNCHANGED <<view, restored, seen, loaded, piering, porting, stray, tries,
                 created, overtaken, entries, typed>>

\* NewPierModal can be closed while it waits, and the port be changed.
CreatePier ==
  /\ view = "form"
  /\ entry.port # Empty /\ piering = Empty
  /\ piering' = entry.port
  /\ UNCHANGED <<view, entry, restored, seen, loaded, fetching, porting, stray,
                 draft, creation, entries, typed>>

PierArrives ==
  /\ piering # Empty
  /\ Becomes([entry EXCEPT !.pier = piering])
  /\ stray' = IF piering = entry.port THEN stray \ {"pier"} ELSE stray \cup {"pier"}
  /\ piering' = Empty
  /\ UNCHANGED <<view, restored, seen, loaded, fetching, porting, tries, created,
                 overtaken, entries, typed>>

\* NewPortModal, opened for the operating port, creates a port of the branch that
\* is selected. It can be closed while it waits, and the branch be changed.
CreatePort ==
  /\ view = "form"
  /\ entry.branch # Empty /\ porting = Empty
  /\ porting' = entry.branch
  /\ UNCHANGED <<view, entry, restored, seen, loaded, fetching, piering, stray,
                 draft, creation, entries, typed>>

\* handlePortCreated: the port is taken if the dialog is open for the operating
\* port, maybe opened anew, whatever the branch is now.
PortArrives ==
  /\ porting # Empty
  /\ \/ \E p \in Ports \ {entry.port} :
          /\ BranchOf[p] = porting
          /\ Becomes(Subjected(Ported(p), loaded.ship, loaded.branch))
          /\ stray' = IF entry.branch \in {Empty, porting} THEN {} ELSE {"port"}
     \/ UNCHANGED <<entry, draft, twice, stray>>
  /\ porting' = Empty
  /\ UNCHANGED <<view, restored, seen, loaded, fetching, piering, tries, created,
                 overtaken, entries, typed>>

-----------------------------------------------------------------------------
\* Creation.

Create(c) ==
  /\ view = "form" /\ ~Busy
  /\ entry.ship # Empty /\ entry.branch # Empty
  /\ tries[c] = Idle
  /\ tries' = [tries EXCEPT ![c] = [sent |-> TRUE, applied |-> FALSE,
                                    mine |-> TRUE, current |-> TRUE]]
  /\ UNCHANGED <<view, entry, restored, filling, draft, created, twice,
                 overtaken, entries, typed>>

Applied(c) ==
  /\ tries[c].sent /\ ~tries[c].applied
  /\ tries[c].current => created < 2
  /\ tries' = [tries EXCEPT ![c].applied = TRUE]
  /\ created' = IF tries[c].current THEN created + 1 ELSE created
  /\ UNCHANGED <<view, entry, restored, filling, draft, twice, overtaken,
                 entries, typed>>

\* Slips for the mutants: the draft is kept, or dropped whatever the answer.
KeepsDraft(succeeded) == draft
DropsAlways(succeeded) == FALSE

\* clearNominationDraft is for the creation that has succeeded.
Cleared(succeeded) == draft /\ ~succeeded

\* onSuccess of useCreateNomination, which also runs when the form is gone: the
\* draft is cleared, whosever it is, and the page of the nomination opens.
Succeeds(c) ==
  /\ tries[c].applied
  /\ tries' = [tries EXCEPT ![c].sent = FALSE, ![c].applied = FALSE,
                            ![c].current = FALSE]
  /\ draft' = Cleared(TRUE)
  /\ view' = IF view \in {"form", "asking"} THEN "leaving" ELSE view
  /\ typed' = (typed /\ ~tries[c].current)
  /\ overtaken' = (overtaken \/ ~tries[c].current)
  /\ UNCHANGED <<entry, restored, filling, created, twice, entries>>

\* It fails, or its answer is lost. Only the form it came from is told.
Fails(c) ==
  /\ tries[c].sent
  /\ tries' = [tries EXCEPT ![c] = Idle]
  /\ draft' = Cleared(FALSE)
  /\ twice' = (twice \/ tries[c].applied)
  /\ UNCHANGED <<view, entry, restored, filling, created, overtaken, entries,
                 typed>>

-----------------------------------------------------------------------------
NewNext ==
  \/ Open \/ Discard \/ Continue \/ Leave
  \/ ShipLoads \/ StaffLoads
  \/ SelectShip \/ SelectBranch \/ SelectPort \/ SelectPier
  \/ Type \/ Generate \/ Clear
  \/ FetchFromVessel \/ VesselArrives \/ CreatePier \/ PierArrives
  \/ CreatePort \/ PortArrives
  \/ \E c \in Tries : Create(c) \/ Applied(c) \/ Succeeds(c) \/ Fails(c)

-----------------------------------------------------------------------------
\* What the form has filled in by itself belongs to what is selected, once the
\* selection is loaded: particulars to the ship, staff to the branch, the
\* subject to both and the port. A restored draft's values count as typed.
FilledFits ==
  view = "form" =>
    /\ loaded.ship => entry.loa \in {Empty, Hand, entry.ship}
    /\ loaded.branch => /\ entry.mic \in {Empty, Hand, entry.branch}
                        /\ entry.mobile \in {Empty, Hand, entry.branch}
    /\ /\ loaded.ship /\ loaded.branch
       /\ entry.port # Empty /\ entry.subject \notin {Empty, Hand}
       => entry.subject = [ship |-> entry.ship, port |-> entry.port,
                           branch |-> entry.branch]

\* The port belongs to the branch and the pier to the port, but for a port that
\* was created for another branch, and a pier for another port, and arrived after
\* the selection was changed.
PlacesFit ==
  /\ entry.port # Empty /\ entry.branch # Empty
     => BranchOf[entry.port] = entry.branch \/ "port" \in stray
  /\ entry.pier \in {Empty, entry.port} \/ "pier" \in stray

\* What the user has entered and not created is in the draft, unless a creation
\* of an earlier draft, answered late, has cleared it.
WorkIsKept == typed => draft \/ overtaken

\* One draft gives a second nomination only after an answer that was lost, a
\* form left while its creation was under way, or a change of the form while the
\* page was leaving for what had been created.
CreatedOnce == created = 2 => twice
=============================================================================
