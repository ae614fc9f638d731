------------------------------- MODULE Papers -------------------------------
(***************************************************************************)
(* The papers of a port call in a tab: the timesheet of the statement of   *)
(* facts, or a service request, first being written and then on its page,  *)
(* which is where a creation leads. A behaviour follows one of them.       *)
(***************************************************************************)
EXTENDS Sof, RequestPage, NewRequest

VARIABLE route

paperVars == <<route, sofVars, requestVars, wishVars>>

PapersInit ==
  /\ route \in {"sof", "wish", "request"}
  /\ SofInit /\ RequestInit /\ WishInit
  /\ route # "sof" => doc = Prefilled(0)
  /\ route # "request" => log[1].status = "DRAFT"

PapersNext ==
  \/ route = "sof" /\ SofNext /\ UNCHANGED <<route, requestVars, wishVars>>
  \/ route = "wish" /\ WishNext /\ UNCHANGED <<route, sofVars, requestVars>>
  \/ /\ route = "wish" /\ RequestCreated
     /\ route' = "request" /\ UNCHANGED <<sofVars, requestVars>>
  \/ route = "request" /\ RequestNext /\ UNCHANGED <<route, sofVars, wishVars>>

PapersSpec == PapersInit /\ [][PapersNext]_paperVars

-----------------------------------------------------------------------------
\* Every route keeps the shape of its module; what was told to be saved is in the
\* sheet, or on the page of the request; the steps of a new request fit, and make
\* it once.
SavesStand ==
  /\ SheetKeepsSaves /\ RequestTypeOK /\ WishTypeOK
  /\ PageKeepsUp /\ WishFits /\ RequestedOnce

\* A mail shows what was saved for it, and tells of what goes with it.
MailsFit == MailShowsSaved /\ LetterFitsOrder

\* What was typed into a form stays in it.
TypingStands == TypedRowsSurvive /\ SheetStands
=============================================================================
