------------------------------- MODULE NewShip -------------------------------
(***************************************************************************)
(* The dialog New Ship Particular (NewShipParticularModal.tsx), where the  *)
(* form of a nomination lets a ship be recorded. Look up asks the own      *)
(* directory for the IMO number, then the registry (Datalastic, through    *)
(* the proxy of the backend) and the flags, and fills the dialog in. The   *)
(* user may type, change the number, choose a flag or close the dialog     *)
(* while any of this is under way.                                         *)
(*                                                                         *)
(* The particulars are two parts, the name and the call sign; deadweight,  *)
(* tonnage and length go the way of the call sign. A part is named by the  *)
(* IMO number it was looked up for, or "hand". MaxChanges bounds what the  *)
(* user enters; each lookup is made once.                                  *)
(***************************************************************************)
EXTENDS Naturals

CONSTANTS Imos, FlagNames, Lookups, MaxChanges

ASSUME ImosAssumption ==
  MaxChanges \in Nat /\ "none" \notin Imos /\ "hand" \notin Imos

VARIABLES
  ships,     \* the records, by IMO number: the particulars they were given
  dialog,    \* the dialog
  lookups,   \* the calls of handleImoLookup
  creating,  \* the creation under way
  picked,    \* the ship the dialog last gave to the form of the nomination
  changes,
  crossed    \* history: the parts of the records that were entered as moved

shipVars == <<ships, dialog, lookups, creating, picked, changes, crossed>>

Imo == Imos \cup {"none"}
Parts == {"name", "sign"}
Filling == [Parts -> Imos \cup {"none", "hand"}]
Dialog == [open : BOOLEAN, imo : Imo, filled : Filling, moved : SUBSET Parts,
           flag : FlagNames \cup {"none"}, chosen : BOOLEAN,
           status : {"idle", "loading", "exists", "prefilled", "not_found", "error"}]
Lookup == [at : {"idle", "directory", "registry", "done"}, imo : Imo,
           current : BOOLEAN]
Creation == [imo : Imo, filled : Filling, moved : SUBSET Parts,
             applied : BOOLEAN]
Nothing == [f \in Parts |-> "none"]

\* What the dialog is reset to. chosen is flagManuallySelected; moved is history:
\* the parts that were looked up before the number was last changed.
Closed == [open |-> FALSE, imo |-> "none", filled |-> Nothing, moved |-> {},
           flag |-> "none", chosen |-> FALSE, status |-> "idle"]
Unsent == [imo |-> "none", filled |-> Nothing, moved |-> {}, applied |-> FALSE]

\* The dialog, its calls and the records have the source's shape.
ShipTypeOK ==
  /\ ships \in [Imos -> Filling]
  /\ dialog \in Dialog
  /\ lookups \in [Lookups -> Lookup]
  /\ creating \in Creation
  /\ picked \in Imo
  /\ changes \in 0..MaxChanges
  /\ crossed \in [Imos -> SUBSET Parts]

ShipInit ==
  /\ ships = [i \in Imos |-> Nothing]
  /\ dialog = Closed
  /\ lookups = [l \in Lookups |-> [at |-> "idle", imo |-> "none", current |-> FALSE]]
  /\ creating = Unsent
  /\ picked = "none" /\ changes = 0
  /\ crossed = [i \in Imos |-> {}]

-----------------------------------------------------------------------------
\* Slip for a mutant of PROJECT.json: a new number leaves lookupVersion alone.
LeavesVersion == lookups

\* lookupVersion is counted up: what was asked before is not current any more.
Superseded == [l \in Lookups |-> [lookups[l] EXCEPT !.current = FALSE]]

OpenDialog ==
  /\ ~dialog.open
  /\ dialog' = [Closed EXCEPT !.open = TRUE]
  /\ UNCHANGED <<ships, lookups, creating, picked, changes, crossed>>

\* By Cancel, unless a creation is under way, or by Escape, even then.
CloseDialog ==
  /\ dialog.open
  /\ dialog' = Closed
  /\ lookups' = Superseded
  /\ UNCHANGED <<ships, creating, picked, changes, crossed>>

Changing ==
  /\ dialog.open /\ changes < MaxChanges
  /\ changes' = changes + 1
  /\ UNCHANGED <<ships, creating, picked, crossed>>

\* Another number: the fields that were filled in stay.
TypeImo ==
  /\ Changing
  /\ \E i \in Imo \ {dialog.imo} :
       dialog' = [dialog EXCEPT !.imo = i, !.status = "idle",
                                !.moved = {f \in Parts : dialog.filled[f] \in Imos}]
  /\ lookups' = Superseded

TypePart ==
  /\ Changing
  /\ \E f \in Parts :
       dialog' = [dialog EXCEPT !.filled[f] = "hand", !.moved = @ \ {f}]
  /\ UNCHANGED lookups

ChooseFlag ==
  /\ Changing
  /\ \E f \in FlagNames \ {dialog.flag} :
       dialog' = [dialog EXCEPT !.flag = f, !.chosen = TRUE]
  /\ UNCHANGED lookups

-----------------------------------------------------------------------------
\* handleImoLookup, await by await.

LookUp(l) ==
  /\ dialog.open /\ dialog.imo \in Imos /\ dialog.status # "loading"
  /\ lookups[l].at = "idle"
  /\ lookups' = [Superseded EXCEPT ![l] = [at |-> "directory", imo |-> dialog.imo,
                                           current |-> TRUE]]
  /\ dialog' = [dialog EXCEPT !.status = "loading"]
  /\ UNCHANGED <<ships, creating, picked, changes, crossed>>

\* A call that is not current any more says nothing.
Tell(l, status) ==
  /\ lookups' = [lookups EXCEPT ![l].at = "done"]
  /\ dialog' = IF lookups[l].current THEN [dialog EXCEPT !.status = status] ELSE dialog

Directory(l) ==
  /\ lookups[l].at = "directory"
  /\ IF lookups[l].current /\ ships[lookups[l].imo] = Nothing
     THEN lookups' = [lookups EXCEPT ![l].at = "registry"] /\ UNCHANGED dialog
     ELSE Tell(l, "exists")
  /\ UNCHANGED <<ships, creating, picked, changes, crossed>>

\* The proxy has no such ship, no key or no answer.
LookupFails(l) ==
  /\ lookups[l].at \in {"directory", "registry"}
  /\ \E status \in {"not_found", "error"} :
       /\ status = "not_found" => lookups[l].at = "registry"
       /\ Tell(l, status)
  /\ UNCHANGED <<ships, creating, picked, changes, crossed>>

\* Slip for a mutant: a flag is taken over whoever chose the one that is there.
Overrides(flag) == IF flag = "none" THEN dialog.flag ELSE flag

\* The flag that was found, if one was, and if the user chose none meanwhile.
FlagFor(flag) == IF flag = "none" \/ dialog.chosen THEN dialog.flag ELSE flag

\* The parts the answer has replace what is in the dialog; the others stay, also
\* those of another ship.
Given(parts, imo) == [f \in Parts |-> IF f \in parts THEN imo ELSE dialog.filled[f]]

\* The registry and the flags have answered.
Lands(l) ==
  /\ lookups[l].at = "registry"
  /\ lookups' = [lookups EXCEPT ![l].at = "done"]
  /\ \E parts \in SUBSET Parts, flag \in FlagNames \cup {"none"} :
       dialog' = IF lookups[l].current
                 THEN [dialog EXCEPT !.filled = Given(parts, lookups[l].imo),
                                     !.moved = @ \ parts,
                                     !.flag = FlagFor(flag), !.status = "prefilled"]
                 ELSE dialog
  /\ UNCHANGED <<ships, creating, picked, changes, crossed>>

-----------------------------------------------------------------------------
\* onCreated gives the ship to the nomination; the dialog is reset and closed.
Gives(imo) ==
  /\ picked' = imo
  /\ dialog' = Closed
  /\ lookups' = Superseded

SelectExisting ==
  /\ dialog.open /\ dialog.status = "exists"
  /\ Gives(dialog.imo)
  /\ UNCHANGED <<ships, creating, changes, crossed>>

\* Create Ship, with a name and a flag; the number is optional.
SubmitShip ==
  /\ dialog.open /\ creating = Unsent
  /\ dialog.filled["name"] # "none" /\ dialog.flag # "none"
  /\ creating' = [imo |-> dialog.imo, filled |-> dialog.filled,
                  moved |-> dialog.moved, applied |-> FALSE]
  /\ UNCHANGED <<ships, dialog, lookups, picked, changes, crossed>>

\* The call sign of a ship of the registry, on a record that has a number.
SignTaken(sign) == sign \in Imos /\ \E i \in Imos : ships[i]["sign"] = sign

\* The record; the database wants a call sign, and numbers and call signs unique.
InsertShip ==
  /\ creating # Unsent /\ ~creating.applied
  /\ creating.imo \in Imos => ships[creating.imo] = Nothing
  /\ creating.filled["sign"] # "none" /\ ~SignTaken(creating.filled["sign"])
  /\ IF creating.imo \in Imos
     THEN /\ ships' = [ships EXCEPT ![creating.imo] = creating.filled]
          /\ crossed' = [crossed EXCEPT ![creating.imo] = creating.moved]
     ELSE UNCHANGED <<ships, crossed>>
  /\ creating' = [creating EXCEPT !.applied = TRUE]
  /\ UNCHANGED <<dialog, lookups, picked, changes>>

\* The answer resets and closes the dialog, also one that was opened anew.
ShipCreated ==
  /\ creating.applied
  /\ Gives(creating.imo)
  /\ creating' = Unsent
  /\ UNCHANGED <<ships, changes, crossed>>

\* Refused, failed, or its answer lost: the dialog stays as it is.
CreationFails ==
  /\ creating # Unsent
  /\ creating' = Unsent
  /\ UNCHANGED <<ships, dialog, lookups, picked, changes, crossed>>

\* A colleague records a ship of the registry, or deletes one.
ColleagueShips ==
  /\ \E i \in Imos :
       /\ IF ships[i] = Nothing
          THEN ~SignTaken(i) /\ ships' = [ships EXCEPT ![i] = [f \in Parts |-> i]]
          ELSE ships' = [ships EXCEPT ![i] = Nothing]
       /\ crossed' = [crossed EXCEPT ![i] = {}]
  /\ UNCHANGED <<dialog, lookups, creating, picked, changes>>

ShipNext ==
  \/ OpenDialog \/ CloseDialog \/ TypeImo \/ TypePart \/ ChooseFlag
  \/ \E l \in Lookups : LookUp(l) \/ Directory(l) \/ LookupFails(l) \/ Lands(l)
  \/ SelectExisting \/ SubmitShip \/ InsertShip \/ ShipCreated \/ CreationFails
  \/ ColleagueShips

-----------------------------------------------------------------------------
\* A part that was looked up is that of the number in the dialog, and of the
\* number it is recorded under, unless the number was changed after it was filled
\* in and neither a later answer nor the user replaced it: then a ship may be
\* recorded with the call sign of another.
ParticularsFit ==
  /\ \A f \in Parts : dialog.filled[f] \in Imos
                      => dialog.filled[f] = dialog.imo \/ f \in dialog.moved
  /\ \A i \in Imos, f \in Parts :
       ships[i][f] \in Imos => ships[i][f] = i \/ f \in crossed[i]

\* No answer of a lookup changes a flag the user has chosen.
ChosenFlagStands ==
  [][\A l \in Lookups :
       lookups'[l].at # lookups[l].at /\ dialog.chosen => dialog'.flag = dialog.flag]_shipVars
=============================================================================
