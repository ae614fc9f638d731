------------------------------ MODULE Screens ------------------------------
(***************************************************************************)
(* The screens of the master data: one tab with MasterDetailShell.tsx (and *)
(* ports.tsx, which repeats it), the hooks of lib/api/master-data, and the *)
(* services behind them, while colleagues save what they like.             *)
(*                                                                         *)
(* The tab shows a list and the form of one record. Selecting a record     *)
(* loads it; nothing tells an answer that comes too late from the one the  *)
(* form waits for. Accept updates the selected record, or creates one if   *)
(* none is. A loaded text is any text, since colleagues may have saved it  *)
(* just before. Calls, Ids and MaxLoads bound the behaviours.              *)
(*                                                                         *)
(* The form does not depend on what is cached, nor a query on what is      *)
(* selected: where a query is followed (Lists), the tab saves and leaves   *)
(* the screen, and it selects records and meets colleagues where none is.  *)
(***************************************************************************)
EXTENDS MasterData, Lists

CONSTANT MaxLoads  \* loads under way at once

ASSUME LoadsAssumption == MaxLoads \in Nat

VARIABLES
  screen,    \* the screen in use
  selected,  \* selectedId
  form,      \* whose values the form shows, and its text
  defaults,  \* what the form was last reset to
  loads,     \* how many loads of each record are under way
  isLoadingDetail,  \* the fields are hidden: a load has begun, and none has ended
  loadError,
  saving,    \* the call Accept waits for, or None
  removing,  \* the call the delete dialog waits for, or None
  left,      \* the calls that are answered after the tab has left the screen
  hasty,     \* history: the selection changed, or a reload began, during a load
  drafted,   \* history: the calls that created a record from the present draft
  lost       \* history: the answer of a create was lost

filled == <<form, defaults, drafted>>
loader == <<loads, isLoadingDetail, loadError, hasty>>
tab == <<selected, filled, loader, saving, removing, left>>
backend == <<service, rows, op, before>>
query == <<shownAt, cached>>
vars == <<backend, screen, query, tab, lost>>

\* What tells the screens apart: whether the form of a new record is cleared
\* (newValues), and when the saved record is selected.
Screen(clears, selects) == [clears |-> clears, selects |-> selects]
ActivitiesScreen == Screen(FALSE, "never")
AgentsScreen == Screen(FALSE, "never")
BranchesScreen == Screen(FALSE, "never")
CargoesScreen == Screen(FALSE, "never")
ClientsScreen == Screen(TRUE, "saved")
ContactsScreen == Screen(TRUE, "saved")
CrewScreen == Screen(FALSE, "never")
EmailGroupsScreen == Screen(FALSE, "never")
FlagsScreen == Screen(FALSE, "never")
OwnersScreen == Screen(FALSE, "never")
PortsScreen == Screen(FALSE, "created")
SalesContactsScreen == Screen(FALSE, "never")
ServicesScreen == Screen(FALSE, "never")
ShipParticularsScreen == Screen(FALSE, "never")
SuppliersScreen == Screen(FALSE, "never")

\* What the hooks of a kind do to the queries of other screens that read it: they
\* are invalidated as the screen's own list is, or left, or there are none.
ActivitiesHooks == "invalidated"
AgentsHooks == "left"
BranchesHooks == "left"
CargoesHooks == "invalidated"
ClientsHooks == "invalidated"
ContactsHooks == "invalidated"
CrewHooks == "none"
EmailGroupsHooks == "invalidated"
FlagsHooks == "left"
OwnersHooks == "left"
PortsHooks == "invalidated"
SalesContactsHooks == "none"
ServicesHooks == "none"
ShipParticularsHooks == "left"
SuppliersHooks == "left"

\* A kind of record: its screen, its hooks and its service.
Kinds ==
  {<<ActivitiesScreen, ActivitiesHooks, ActivitiesService>>,
   <<AgentsScreen, AgentsHooks, AgentsService>>,
   <<BranchesScreen, BranchesHooks, BranchesService>>,
   <<CargoesScreen, CargoesHooks, CargoesService>>,
   <<ClientsScreen, ClientsHooks, ClientsService>>,
   <<ContactsScreen, ContactsHooks, ContactsService>>,
   <<CrewScreen, CrewHooks, CrewService>>,
   <<EmailGroupsScreen, EmailGroupsHooks, EmailGroupsService>>,
   <<FlagsScreen, FlagsHooks, FlagsService>>,
   <<OwnersScreen, OwnersHooks, OwnersService>>,
   <<PortsScreen, PortsHooks, PortsService>>,
   <<SalesContactsScreen, SalesContactsHooks, SalesContactsService>>,
   <<ServicesScreen, ServicesHooks, ServicesService>>,
   <<ShipParticularsScreen, ShipParticularsHooks, ShipParticularsService>>,
   <<SuppliersScreen, SuppliersHooks, SuppliersService>>}

Form == [of : Ids \cup {None}, text : Texts \cup {None}]
Blank == [of |-> None, text |-> None]

\* The state of the tab and of the services has the shape of the source's.
TypeOK ==
  /\ ServiceTypeOK
  /\ selected \in Ids \cup {None}
  /\ form \in Form /\ defaults \in Form
  /\ loads \in [Ids -> 0..MaxLoads]
  /\ {saving, removing} \subseteq Calls \cup {None}
  /\ {isLoadingDetail, loadError, hasty, lost} \subseteq BOOLEAN
  /\ drafted \subseteq Calls /\ left \subseteq Calls
  /\ ListsTypeOK

Init ==
  /\ \E k \in Kinds : /\ screen = k[1]
                      /\ ListsInit(k[2])
                      /\ ServiceInit(k[3])
  /\ selected = None /\ form = Blank /\ defaults = Blank
  /\ loads = [i \in Ids |-> 0]
  /\ isLoadingDetail = FALSE /\ loadError = FALSE
  /\ saving = None /\ removing = None /\ left = {}
  /\ hasty = FALSE /\ drafted = {} /\ lost = FALSE

Loading == \E i \in Ids : loads[i] > 0

-----------------------------------------------------------------------------
\* The selection and the form.

\* reset(values).
Reset(values) ==
  /\ form' = values /\ defaults' = values
  /\ drafted' = {}

\* loadById begins: the fields are hidden, not emptied.
Load(i, error) ==
  /\ loads[i] < MaxLoads
  /\ loads' = [loads EXCEPT ![i] = @ + 1]
  /\ isLoadingDetail' = TRUE /\ loadError' = error

\* Slips for mutants of PROJECT.json: the form of a new record is that of the
\* record before it, or has no values at all.
KeepsForm == defaults
NoValues == None
\* reset(newValues): without them React Hook Form takes the last defaults, which
\* are the values of the record that was shown.
NewValues == IF screen.clears THEN Blank ELSE defaults

\* onSelect, and the effect that follows a change of the selection.
SelectNone ==
  /\ selected' = None /\ loadError' = FALSE
  /\ Reset(NewValues)
  /\ hasty' = Loading
  /\ UNCHANGED <<loads, isLoadingDetail>>
SelectRecord(i) ==
  IF i = selected
  THEN UNCHANGED <<selected, form, defaults, loader>>
  ELSE /\ selected' = i
       /\ Load(i, FALSE)
       /\ hasty' = Loading
       /\ UNCHANGED <<form, defaults>>

\* The delete dialog covers the screen while it waits.
Free == ~away /\ removing = None

\* A record is picked from the list, which may be old, or the flash search, or
\* reached with Prior, Next, First or Last.
Select(i) ==
  /\ Free /\ view = "none" /\ i # selected
  /\ Live(i) \/ \E c \in Calls : op[c].id = i
  /\ SelectRecord(i)
  /\ UNCHANGED <<backend, screen, query, drafted, saving, removing, left, lost>>

New ==
  /\ Free
  /\ SelectNone
  /\ UNCHANGED <<backend, screen, query, saving, removing, left, lost>>

Edit ==
  /\ Free /\ ~isLoadingDetail
  /\ \E t \in (Texts \cup {None}) \ {form.text} : form' = [form EXCEPT !.text = t]
  /\ drafted' = {}
  /\ UNCHANGED <<backend, screen, query, selected, defaults, loader, saving, removing,
                 left, lost>>

\* Cancel is enabled when the form is dirty: it loads the record again, or
\* resets the form of a new one.
Cancel ==
  /\ Free /\ view = "none" /\ form # defaults
  /\ IF selected # None
     THEN /\ Load(selected, loadError)
          /\ hasty' = (hasty \/ Loading)
          /\ UNCHANGED filled
     ELSE Reset(NewValues) /\ UNCHANGED loader
  /\ UNCHANGED <<backend, screen, query, selected, saving, removing, left, lost>>

LoadEnds(i) ==
  /\ loads[i] > 0
  /\ loads' = [loads EXCEPT ![i] = @ - 1]
  /\ isLoadingDetail' = FALSE

\* Any load that ends well fills the form, whatever is selected by then.
Loaded(i) ==
  /\ LoadEnds(i)
  /\ \E t \in Texts : Reset([of |-> i, text |-> t])
  /\ UNCHANGED <<backend, screen, query, selected, loadError, saving, removing, left,
                 hasty, lost>>

\* Slip for a mutant: nobody learns that the load failed.
IgnoresFailure == loadError' = loadError
ShowsFailure == loadError' = TRUE

\* One that fails leaves the form as it is: with the values of the record that
\* was shown before.
LoadFails(i) ==
  /\ LoadEnds(i)
  /\ ShowsFailure
  /\ UNCHANGED <<backend, screen, query, selected, filled, saving, removing, left,
                 hasty, lost>>

-----------------------------------------------------------------------------
\* Accept and Delete.

\* Accept is disabled only while it waits itself, and a form without a text
\* does not validate.
Accept(c) ==
  /\ Free /\ saving = None /\ form.text # None
  /\ Ask(c, IF selected = None THEN "create" ELSE "update", selected, form.text)
  /\ saving' = c
  /\ UNCHANGED <<screen, query, selected, filled, loader, removing, left, lost>>

\* Slip for a mutant: the selection is left alone.
SelectsNothing(c) == FALSE

\* The screen selects the record that was saved.
Selects(c) ==
  \/ screen.selects = "saved"
  \/ screen.selects = "created" /\ op[c].kind = "create"

\* History: the draft has become a record, whether the tab is told or not.
Drafts(c) ==
  drafted' = drafted \cup {d \in {c} : op[d].at = "done" /\ op[d].kind = "create"}

\* Accept is told that the record is saved.
Saved ==
  /\ saving # None /\ op[saving].at = "done"
  /\ saving' = None
  /\ Told
  /\ IF Selects(saving)
     THEN SelectRecord(op[saving].id)
     ELSE UNCHANGED <<selected, form, defaults, loader>>
  /\ Drafts(saving)
  /\ UNCHANGED <<backend, screen, removing, left, lost>>

\* Or that it is not, which may be wrong.
SaveFails ==
  /\ saving # None /\ op[saving].at \in {"done", "refused"}
  /\ saving' = None
  /\ lost' = (lost \/ op[saving].at = "done")
  /\ Drafts(saving)
  /\ UNCHANGED <<backend, screen, query, selected, form, defaults, loader, removing,
                 left>>

\* Delete, confirmed; for administrators.
Delete(c) ==
  /\ Free /\ selected # None
  /\ Ask(c, "remove", selected, None)
  /\ removing' = c
  /\ UNCHANGED <<screen, query, selected, filled, loader, saving, left, lost>>

Removed ==
  /\ removing # None /\ op[removing].at = "done"
  /\ removing' = None
  /\ Told
  /\ SelectNone
  /\ UNCHANGED <<backend, screen, saving, left, lost>>

RemoveFails ==
  /\ removing # None /\ op[removing].at \in {"done", "refused"}
  /\ removing' = None
  /\ UNCHANGED <<backend, screen, query, selected, filled, loader, saving, left, lost>>

-----------------------------------------------------------------------------
\* The tab moves between the screens, and the others.

\* The screen is unmounted: its form is gone, and its calls go on.
Leave ==
  /\ view # "none" /\ ~away
  /\ Move(TRUE)
  /\ selected' = None /\ form' = Blank /\ defaults' = Blank /\ drafted' = {}
  /\ loads' = [i \in Ids |-> 0]
  /\ isLoadingDetail' = FALSE /\ loadError' = FALSE /\ hasty' = FALSE
  /\ left' = left \cup ({saving, removing} \ {None})
  /\ saving' = None /\ removing' = None
  /\ UNCHANGED <<backend, screen, lost>>

Return ==
  /\ away
  /\ Move(FALSE)
  /\ UNCHANGED <<backend, screen, tab, lost>>

\* The hook's own onSuccess runs all the same, unless the answer is lost.
AnsweredLate(c) ==
  /\ c \in left /\ op[c].at \in {"done", "refused"}
  /\ left' = left \ {c}
  /\ \/ op[c].at = "done" /\ Told
     \/ UNCHANGED query
  /\ UNCHANGED <<backend, screen, selected, filled, loader, saving, removing, lost>>

Cached == ListsStep /\ UNCHANGED <<backend, screen, tab, lost>>

\* What colleagues ask of the services.
Colleague(c) ==
  /\ view = "none"
  /\ \/ \E t \in Texts : Ask(c, "create", None, t)
     \/ \E i \in Ids, t \in Texts : Live(i) /\ Ask(c, "update", i, t)
     \/ \E i \in Ids : Live(i) /\ Ask(c, "remove", i, None)
  /\ UNCHANGED <<screen, query, tab, lost>>

Services(c) ==
  /\ ServiceStep(c)
  /\ UNCHANGED <<screen, query, tab, lost>>

Next ==
  \/ \E i \in Ids : Select(i) \/ Loaded(i) \/ LoadFails(i)
  \/ New \/ Edit \/ Cancel
  \/ \E c \in Calls : Accept(c) \/ Delete(c) \/ Colleague(c) \/ Services(c)
  \/ Saved \/ SaveFails \/ Removed \/ RemoveFails
  \/ Leave \/ Return \/ (\E c \in Calls : AnsweredLate(c))
  \/ Cached

Spec == Init /\ [][Next]_vars

-----------------------------------------------------------------------------
\* Properties.

\* Who waits for each record to load, and heeds the error when one cannot be
\* loaded, does not write the values of one record over another.
RightRecord ==
  ~hasty /\ ~loadError /\ ~Loading =>
    form.of = selected \/ (selected = None /\ ~screen.clears)

\* Accepting one draft again creates a second record only where the screen does
\* not select what it has created, or the first answer was lost.
OneRecordPerDraft ==
  Cardinality(drafted) > 1 => screen.selects = "never" \/ lost

\* A save writes the record that was meant, and one record for a draft.
SavesAreMeant == TypeOK /\ RightRecord /\ OneRecordPerDraft
=============================================================================
