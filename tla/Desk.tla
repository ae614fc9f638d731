-------------------------------- MODULE Desk --------------------------------
(***************************************************************************)
(* The desk of an operator: a tab at the route of a nomination, at the one *)
(* where a new nomination is written, or in the dialog where the form of   *)
(* either lets a new ship be recorded. They share no state but the ship    *)
(* that the dialog gives to the form, which is for the form one of those   *)
(* to select: a behaviour is at one of the three.                          *)
(***************************************************************************)
EXTENDS NominationPage, NewNomination, NewShip

VARIABLE route

deskVars == <<route, pageVars, newVars, shipVars>>

DeskInit ==
  /\ route \in {"page", "new", "ship"}
  /\ PageInit /\ NewInit /\ ShipInit
  /\ route # "page" => letter = "none"

DeskNext ==
  \/ route = "page" /\ PageNext /\ UNCHANGED <<route, newVars, shipVars>>
  \/ route = "new" /\ NewNext /\ UNCHANGED <<route, pageVars, shipVars>>
  \/ route = "ship" /\ ShipNext /\ UNCHANGED <<route, pageVars, newVars>>

DeskSpec == DeskInit /\ [][DeskNext]_deskVars

-----------------------------------------------------------------------------
\* Each route keeps the shape of its own module.
DeskTypeOK == PageTypeOK /\ NewTypeOK /\ ShipTypeOK

\* A letter is drafted from what the user was told is saved, and shows and waits
\* for the files that go with it.
LetterIsSound == DraftIsFresh /\ FilesAreShown

\* What a form or a dialog has filled in, by an effect or when an answer arrives,
\* belongs to what is selected and entered there now.
FormFits == DeskTypeOK /\ FilledFits /\ PlacesFit /\ ParticularsFit

\* What the user has typed or chosen is not replaced by what arrives later.
InputStands == TypedStands /\ ChosenFlagStands
=============================================================================
