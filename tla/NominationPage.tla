--------------------------- MODULE NominationPage ---------------------------
(***************************************************************************)
(* The page of one nomination, routes/_protected/nominations/$id.tsx, in   *)
(* one tab, and one letter of it. Two editors write the same parcels: the  *)
(* form, which saves all its fields, and the cargo update dialog. Both are *)
(* filled when they are mounted and do not follow the nomination. The      *)
(* letter is composed by the backend from the nomination; the drawer takes *)
(* its draft once, from the cache of the query, and the user completes it: *)
(* recipients, body, a file, the addresses of a group.                     *)
(*                                                                         *)
(* A behaviour follows what the editors type and save (letter "none"), a   *)
(* notice of the panel, or the cargo update: each letter has a query, and  *)
(* all are dropped together. What is written does not depend on a letter,  *)
(* nor a letter on the texts: where one is followed the saves are, without *)
(* texts. A text is a number: 0 is what was there, 1..MaxEdits were typed  *)
(* here, in that order. MaxWrites bounds the writes of the nomination. Of  *)
(* the saves that were given up, one at a time may still be on its way.    *)
(***************************************************************************)
EXTENDS Naturals

CONSTANTS MaxEdits, MaxWrites, Null, Failed

VARIABLES
  letter,     \* the letter that is followed: "notice", "cargo" or "none"
  stored,     \* the nomination in the database, and its number of writes
  cache,      \* the parcels in the query of the nomination
  form,       \* NominationForm, mode edit
  cargo,      \* the rows of CargoUpdateModal
  cargoOpen,
  saving,     \* the save under way of each editor
  loose,      \* a save that was given up and may be applied yet
  composed,   \* the query of the letter's draft: the writes it shows
  composing,  \* its fetch
  drawer,     \* EmailComposeDrawer
  resolving,  \* EmailGroupPicker, fetching members: the recipients it holds
  edits,
  kept,       \* history: the texts the user was told are saved, and their write
  told        \* history: the write of the last save of the form or the ETA

page == <<cache, form, cargo, cargoOpen>>
drafts == <<composed, composing>>
letter_ == <<drawer, resolving>>
history == <<kept, told>>
saves == <<saving, loose>>
pageVars == <<letter, stored, page, saves, drafts, letter_, edits, history>>

Texts == 0..MaxEdits
Fields == [parcels : Texts, rest : Texts]
\* A draft that getComposeData makes is known by the writes it has read.
Writes == 0..MaxWrites
Stored == [parcels : Texts, rest : Texts, writes : Writes]
Editors == {"form", "eta", "cargo"}
\* mail: a letter opens once it is saved; header, since: the draft it is made
\* from, and the last save the user had been told of.
Save == [fields : Fields, mail : BOOLEAN, header : Writes \cup {Null, Failed},
         since : Writes, write : Writes \cup {Null}]
Loose == [by : {"form", "cargo"}, fields : Fields]
\* to, cc: the user's own; dirty, ccDirty: as the form of the drawer counts them.
Draft == [header : Writes \cup {Null}, filled : BOOLEAN,
          to : BOOLEAN, dirty : BOOLEAN, cc : BOOLEAN, ccDirty : BOOLEAN,
          body : {"blank", "draft", "typed"}, stale : BOOLEAN, since : Writes,
          file : {"none", "uploading", "listed", "unlisted"},
          pending : BOOLEAN, torn : BOOLEAN]
Group == [target : {"to", "cc"}, to : BOOLEAN, cc : BOOLEAN]
Named == {"parcels", "rest"}
Told == [text : Texts \cup {Null}, at : Writes]

ASSUME LettersAssumption ==
  /\ MaxEdits \in Nat /\ MaxWrites \in Nat /\ Null # Failed
  /\ Null \notin Nat /\ Failed \notin Nat
  /\ Null \notin Save /\ Null \notin Loose /\ Null \notin Draft
  /\ Null \notin Group

\* The editors, the queries, the drawer and the histories have the source's
\* shape.
PageTypeOK ==
  /\ letter \in {"notice", "cargo", "none"}
  /\ stored \in Stored /\ cache \in Texts
  /\ form \in Fields /\ cargo \in Texts /\ cargoOpen \in BOOLEAN
  /\ saving \in [Editors -> Save \cup {Null}]
  /\ loose \in Loose \cup {Null}
  /\ composed \in Writes \cup {Null, Failed}
  /\ composing \in Writes \cup {Null}
  /\ drawer \in Draft \cup {Null}
  /\ resolving \in Group \cup {Null}
  /\ edits \in Texts
  /\ kept \in [Named -> Told]
  /\ told \in Writes

PageInit ==
  /\ letter \in {"notice", "cargo", "none"}
  /\ stored = [parcels |-> 0, rest |-> 0, writes |-> 0]
  /\ form = [parcels |-> 0, rest |-> 0]
  /\ cache = 0 /\ cargo = 0 /\ cargoOpen = FALSE
  /\ saving = [e \in Editors |-> Null] /\ loose = Null
  /\ composed = Null /\ composing = Null
  /\ drawer = Null /\ resolving = Null
  /\ edits = 0
  /\ kept = [f \in Named |-> [text |-> 0, at |-> 0]] /\ told = 0

-----------------------------------------------------------------------------
\* The editors. A dialog covers the page.

OnPage == ~cargoOpen /\ drawer = Null
InCargo == cargoOpen /\ drawer = Null

EditForm ==
  /\ OnPage /\ edits < MaxEdits /\ letter = "none"
  /\ edits' = edits + 1
  /\ \E f \in {"parcels", "rest"} : form' = [form EXCEPT ![f] = edits']
  /\ UNCHANGED <<letter, stored, cache, cargo, cargoOpen, saves, drafts, letter_,
                 history>>

EditCargo ==
  /\ InCargo /\ edits < MaxEdits /\ letter = "none"
  /\ edits' = edits + 1
  /\ cargo' = edits'
  /\ UNCHANGED <<letter, stored, cache, form, cargoOpen, saves, drafts, letter_,
                 history>>

OnlyDialog == UNCHANGED <<letter, stored, cache, form, saves, drafts, letter_,
                          edits, history>>

OpenCargo ==
  /\ OnPage /\ letter # "notice"
  /\ cargoOpen' = TRUE
  /\ UNCHANGED cargo /\ OnlyDialog

\* Close waits for the dialog's own save. (Escape does not; it is not followed.)
CloseCargo ==
  /\ InCargo /\ saving["cargo"] = Null
  /\ cargoOpen' = FALSE
  /\ UNCHANGED cargo /\ OnlyDialog

\* The right rail is folded and unfolded: only then are the rows taken anew.
\* (Not followed while its dialogs, closed by Escape, wait for a save.)
RemountPanel ==
  /\ OnPage /\ saving["eta"] = Null /\ saving["cargo"] = Null
  /\ cargo' = cache
  /\ UNCHANGED cargoOpen /\ OnlyDialog

\* The query of the nomination is fetched, on focus or because a save made it
\* stale; the editors do not follow it.
Reread ==
  /\ cache' = stored.parcels
  /\ UNCHANGED <<letter, stored, form, cargo, cargoOpen, saves, drafts, letter_,
                 edits, history>>

-----------------------------------------------------------------------------
\* Saving. An editor waits for its own save and for no other's.

Submit(e, fields, mail) ==
  /\ saving[e] = Null
  /\ saving' = [saving EXCEPT ![e] =
       [fields |-> fields, mail |-> mail, write |-> Null,
        header |-> IF mail /\ e = "cargo" THEN composed ELSE Null,
        since |-> IF mail /\ e = "cargo" THEN told ELSE 0]]
  /\ UNCHANGED <<letter, stored, page, loose, drafts, letter_, edits, history>>

SubmitForm == OnPage /\ Submit("form", form, FALSE)

\* handleSave and handleSendClick of EtaAnswerModal. The ETA record is not
\* followed further, nor is the mail of a letter that is not.
SubmitEta ==
  /\ OnPage
  /\ \E mail \in {FALSE, letter = "notice"} : Submit("eta", form, mail)

\* Save as Draft, and handleSend, which closes over the draft of this moment.
SubmitCargo ==
  /\ InCargo
  /\ \E mail \in {FALSE, letter = "cargo"} :
       Submit("cargo", [form EXCEPT !.parcels = cargo], mail)

\* update writes every field of the form, updateParcels the parcels, and
\* saveEtaRecord another table.
Concerns(e) ==
  CASE e = "form" -> Named [] e = "cargo" -> {"parcels"} [] OTHER -> {}

\* Slip for a mutant of PROJECT.json: the dialog saves the whole nomination.
WritesForm(new, e, fields) ==
  IF e = "eta" THEN new
  ELSE [new EXCEPT !.parcels = fields.parcels, !.rest = fields.rest]

Written(new, e, fields) ==
  [new EXCEPT
     !.parcels = IF "parcels" \in Concerns(e) THEN fields.parcels ELSE @,
     !.rest = IF "rest" \in Concerns(e) THEN fields.rest ELSE @]

Writing(e, fields) ==
  /\ stored.writes < MaxWrites
  /\ stored' = [Written(stored, e, fields) EXCEPT !.writes = @ + 1]

Apply(e) ==
  /\ saving[e] # Null
  /\ saving[e].write = Null
  /\ Writing(e, saving[e].fields)
  /\ saving' = [saving EXCEPT ![e].write = stored'.writes]
  /\ UNCHANGED <<letter, page, loose, drafts, letter_, edits, history>>

\* A letter takes the draft the cache has, however old, and no other. What its
\* form counts as dirty stays: not the CC that was typed alone. The body of a
\* cargo update is the dialog's.
Filled(d, writes) ==
  [d EXCEPT !.filled = TRUE, !.body = "draft",
            !.to = @ /\ d.dirty, !.cc = @ /\ d.ccDirty,
            !.stale = (IF d.header = Null THEN writes ELSE d.header) < d.since,
            !.header = Null, !.since = 0]

\* Slip for a mutant: the recipients follow the draft.
FilledAnew(d, writes) ==
  [d EXCEPT !.filled = TRUE, !.body = "draft", !.to = FALSE, !.cc = FALSE,
            !.stale = (IF d.header = Null THEN writes ELSE d.header) < d.since,
            !.header = Null, !.since = 0]

Fill(d, writes) == Filled(d, writes)

Opened(header, draft, since) ==
  LET d == [header |-> header, filled |-> FALSE, to |-> FALSE, dirty |-> FALSE,
            cc |-> FALSE, ccDirty |-> FALSE, body |-> "blank", stale |-> FALSE,
            since |-> since, file |-> "none", pending |-> FALSE, torn |-> FALSE]
  IN IF draft \in Writes THEN Fill(d, draft) ELSE d

\* The drawer shows its spinner: the fields of the letter are unmounted. An
\* upload goes on, unseen, and nothing tells the drawer when it has ended.
Torn(d) ==
  IF d = Null THEN Null
  ELSE [d EXCEPT !.torn = TRUE,
                 !.file = CASE d.file = "uploading" -> "none"
                            [] d.file = "listed" -> "unlisted"
                            [] OTHER -> @]
TearDown == drawer' = Torn(drawer) /\ resolving' = Null

\* Slips for the mutants: the drafts stay, or a fetch under way may land.
KeepsDrafts == UNCHANGED drafts
KeepsFetch == composed' = Null /\ UNCHANGED composing

\* useUpdateNomination and updateEtaQueryCache drop every draft.
DropDrafts == composed' = Null /\ composing' = Null

\* The last write the user is told of.
Tells(write) == told' = IF told < write THEN write ELSE told

FormSaved ==
  /\ DropDrafts
  /\ Tells(saving["form"].write)
  /\ TearDown

EtaSaved ==
  /\ DropDrafts
  /\ Tells(saving["eta"].write)
  /\ IF saving["eta"].mail /\ drawer = Null
     THEN drawer' = Opened(Null, composed', told') /\ UNCHANGED resolving
     ELSE TearDown

\* The drafts stay: the cargo update's own parcels are in none of them.
CargoSaved ==
  /\ LET save == saving["cargo"]
     IN drawer' = IF save.mail /\ save.header \in Writes
                  THEN Opened(save.header, composed, save.since)
                  ELSE drawer
  /\ UNCHANGED <<drafts, resolving, told>>

\* An editor that saves older parcels than the user was told are saved gives
\* those up, and so does one that is answered after another although it was
\* applied before (OwnSaveStands).
Kept(e) ==
  LET save == saving[e]
      older(f) == kept[f].text # Null /\ save.fields[f] < kept[f].text
  IN [f \in Named |->
        CASE f \notin Concerns(e) -> kept[f]
          [] f \in Concerns(e) /\ save.write < kept[f].at ->
               [text |-> Null, at |-> kept[f].at]
          [] OTHER -> [text |-> IF older(f) THEN Null ELSE save.fields[f],
                       at |-> save.write]]

Saved(e) ==
  /\ saving[e] # Null
  /\ saving[e].write # Null
  /\ CASE e = "form" -> FormSaved [] e = "eta" -> EtaSaved [] e = "cargo" -> CargoSaved
  /\ kept' = Kept(e)
  /\ saving' = [saving EXCEPT ![e] = Null]
  /\ UNCHANGED <<letter, stored, page, loose, edits>>

\* What was written without a word to the user is not what was told.
GivenUp(e, write) ==
  [f \in Named |-> IF f \in Concerns(e) /\ kept[f].at < write
                   THEN [text |-> Null, at |-> write] ELSE kept[f]]

\* The save is refused, or its answer is lost: it was applied, or it may be yet.
SaveFails(e) ==
  /\ saving[e] # Null
  /\ saving' = [saving EXCEPT ![e] = Null]
  /\ kept' = IF saving[e].write = Null THEN kept ELSE GivenUp(e, saving[e].write)
  /\ \/ UNCHANGED loose
     \/ /\ saving[e].write = Null /\ loose = Null /\ letter = "none"
        /\ e # "eta"
        /\ loose' = [by |-> e, fields |-> saving[e].fields]
  /\ UNCHANGED <<letter, stored, page, drafts, letter_, edits, told>>

ApplyLoose ==
  /\ loose # Null
  /\ Writing(loose.by, loose.fields)
  /\ kept' = GivenUp(loose.by, stored'.writes)
  /\ loose' = Null
  /\ UNCHANGED <<letter, page, saving, drafts, letter_, edits, told>>

-----------------------------------------------------------------------------
\* The letter.

\* getComposeData reads the nomination for a query that is watched: the cargo
\* update's always is, a notice's while its drawer is open. A query that has
\* failed shows the spinner again.
Compose ==
  /\ composing = Null
  /\ letter = "cargo" \/ drawer # Null
  /\ composing' = stored.writes
  /\ IF composed = Failed THEN TearDown ELSE UNCHANGED letter_
  /\ UNCHANGED <<letter, stored, page, saves, composed, edits, history>>

\* The draft arrives. A drawer takes its first one, and no later one.
Composed ==
  /\ composing # Null
  /\ composed' = composing
  /\ composing' = Null
  /\ drawer' = IF drawer = Null THEN Null
               ELSE IF drawer.filled THEN drawer ELSE Fill(drawer, composing)
  /\ UNCHANGED <<letter, stored, page, saves, resolving, edits, history>>

ComposeFails ==
  /\ composing # Null
  /\ composed' = IF composed = Null THEN Failed ELSE composed
  /\ composing' = Null
  /\ UNCHANGED <<letter, stored, page, saves, letter_, edits, history>>

\* The fields show when there is a draft, or none to be had.
Shown ==
  /\ drawer # Null
  /\ composed \in Writes \/ (composed = Failed /\ composing = Null)

InDrawer == UNCHANGED <<letter, stored, page, saves, drafts, edits, history>>

OpenNotice ==
  /\ OnPage
  /\ letter = "notice"
  /\ drawer' = Opened(Null, composed, told)
  /\ UNCHANGED resolving /\ InDrawer

\* updateToRecipients sets CC with To, and both count as dirty then; CC by
\* itself does not, nor does a body.
TypeTo ==
  /\ Shown
  /\ drawer' = [drawer EXCEPT !.to = TRUE, !.dirty = TRUE, !.ccDirty = drawer.cc]
  /\ UNCHANGED resolving /\ InDrawer

TypeCc ==
  /\ Shown
  /\ drawer' = [drawer EXCEPT !.cc = TRUE]
  /\ UNCHANGED resolving /\ InDrawer

TypeBody ==
  /\ Shown
  /\ drawer' = [drawer EXCEPT !.body = "typed"]
  /\ UNCHANGED resolving /\ InDrawer

\* applyGroups: replacing drops what was typed; appending, and updateTo-
\* Recipients for CC, hold on to the recipients of the moment of the call.
ApplyGroup ==
  /\ Shown /\ resolving = Null
  /\ \E append \in BOOLEAN :
       resolving' \in {[target |-> "to", to |-> append /\ drawer.to, cc |-> drawer.cc],
                       [target |-> "cc", to |-> FALSE, cc |-> append /\ drawer.cc]}
  /\ UNCHANGED drawer /\ InDrawer

GroupResolved ==
  /\ resolving # Null
  /\ drawer' = IF resolving.target = "to"
               THEN [drawer EXCEPT !.to = resolving.to, !.dirty = TRUE,
                                   !.cc = resolving.cc, !.ccDirty = resolving.cc]
               ELSE [drawer EXCEPT !.cc = resolving.cc]
  /\ resolving' = Null
  /\ InDrawer

GroupFails ==
  /\ resolving # Null
  /\ resolving' = Null
  /\ UNCHANGED drawer /\ InDrawer

SelectFile ==
  /\ Shown
  /\ drawer.file = "none"
  /\ drawer' = [drawer EXCEPT !.file = "uploading", !.pending = TRUE]
  /\ UNCHANGED resolving /\ InDrawer

\* Slip for a mutant: only an upload that succeeds is reported as ended.
ReportsSuccess(file) ==
  [drawer EXCEPT !.file = file, !.pending = (file # "listed")]

Uploaded(file) == [drawer EXCEPT !.file = file, !.pending = FALSE]

UploadEnds ==
  /\ drawer # Null
  /\ drawer.file = "uploading"
  /\ \E file \in {"listed", "none"} : drawer' = Uploaded(file)
  /\ UNCHANGED resolving /\ InDrawer

RemoveFile ==
  /\ Shown
  /\ drawer.file = "listed"
  /\ drawer' = [drawer EXCEPT !.file = "none"]
  /\ UNCHANGED resolving /\ InDrawer

\* The letter goes out; the sending itself, and its repetition, is SendClient's.
Send ==
  /\ Shown /\ ~drawer.pending
  /\ drawer.filled \/ drawer.dirty
  /\ drawer' = Null /\ resolving' = Null
  /\ InDrawer

CloseDrawer ==
  /\ drawer # Null
  /\ ~drawer.pending
  /\ drawer' = Null /\ resolving' = Null
  /\ InDrawer

-----------------------------------------------------------------------------
PageNext ==
  \/ EditForm \/ EditCargo \/ OpenCargo \/ CloseCargo \/ RemountPanel \/ Reread
  \/ SubmitForm \/ SubmitEta \/ SubmitCargo
  \/ (\E e \in Editors : Apply(e) \/ Saved(e) \/ SaveFails(e)) \/ ApplyLoose
  \/ Compose \/ Composed \/ ComposeFails
  \/ OpenNotice \/ TypeTo \/ TypeCc \/ TypeBody
  \/ ApplyGroup \/ GroupResolved \/ GroupFails
  \/ SelectFile \/ UploadEnds \/ RemoveFile
  \/ Send \/ CloseDrawer

-----------------------------------------------------------------------------
\* What the user was told is saved stands, each field that was told last, but for
\* what an answer lost on the way leaves unknown. The code has two more
\* exceptions, both of the form and the cargo dialog, whose saves may overlap:
\* each saves the parcels it was mounted with, over newer ones the other has
\* saved; and they may be applied in one order and answered in the other.
OwnSaveStands ==
  \A f \in Named :
    \/ kept[f].text \in {Null, stored[f]}
    \/ \E e \in Editors :
         saving[e] # Null /\ f \in Concerns(e) /\ saving[e].write # Null

\* A letter is never drafted from a nomination older than the user's own last
\* save of the form or the ETA when it was opened; for a cargo update, when
\* Send Message was pressed.
DraftIsFresh == drawer # Null => ~drawer.stale

\* While no spinner came between, Send and Close wait for a file that is being
\* uploaded and for nothing else, and what is attached is listed.
FilesAreShown ==
  drawer # Null =>
    drawer.torn \/ /\ drawer.pending <=> (drawer.file = "uploading")
                   /\ drawer.file # "unlisted"

\* What was typed into a letter stays in it: recipients unless the members of
\* a group arrive, a body once the draft is there. The code loses a CC that was
\* typed alone, while there was no draft to be had, to the draft that comes yet.
TypedStands ==
  [][drawer # Null /\ drawer' # Null =>
       /\ drawer.to /\ ~drawer'.to => resolving # Null
       /\ drawer.cc /\ ~drawer'.cc =>
            resolving # Null \/ (~drawer.filled /\ ~drawer.ccDirty)
       /\ drawer.body = "typed" /\ drawer'.body # "typed" => ~drawer.filled
    ]_pageVars
=============================================================================
