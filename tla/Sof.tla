-------------------------------- MODULE Sof --------------------------------
(***************************************************************************)
(* The statement of facts of a nomination: the row the backend keeps       *)
(* (getSofTimesheet and saveSofTimesheet of nominations.service.ts) and    *)
(* the dialog of one tab that edits it (SofTimesheetModal.tsx, its four    *)
(* section dialogs, useNominationSof.ts and the mail drawer), while        *)
(* colleagues save whatever they like.                                     *)
(*                                                                         *)
(* The tab holds a cached copy, a form with the rows of the timesheet,     *)
(* which is reset when the rows of the cache change, and at most one open  *)
(* section dialog. Every save sends all rows of the form; a save of a      *)
(* section, and the one that prepares a mail, sends the sections of the    *)
(* cache as well. Header fields and switches go the way of the rows. What  *)
(* is typed into a section is known by the number of the edit; Rows,       *)
(* MaxEdits and MaxWrites bound the behaviours.                            *)
(***************************************************************************)
EXTENDS Naturals

CONSTANTS Rows,      \* activities of the timesheet
          Dialogs,   \* the section dialogs in use, of those named below
          MaxEdits, MaxWrites,
          Null

VARIABLES
  doc,       \* the stored timesheet: rows, sections, and how often written
  cache,     \* the query's data
  fetch,     \* the answer of a fetch under way, or Null
  form,      \* the rows of the form: absent, part or full
  editor,    \* the open section dialog and what it shows, or Null
  saving,    \* the save under way, or Null
  lost,      \* one the tab was told has failed, which is still on its way, or Null
  composed,  \* the composed message in the query cache, or Null
  composing, \* the answer of a fetch of it under way, or Null
  drawer,    \* the mail drawer: what has been saved for it and its text
  edits,     \* the number of the last edit of a section
  mine,      \* history: the writes the tab was told of, and the first load
  typed,     \* history: the rows typed since the save under way began
  told,      \* history: the sections the tab was told are saved
  alone      \* history: no one else has saved, and no lost save has overtaken another

sofVars == <<doc, cache, fetch, form, editor, saving, lost, composed, composing,
             drawer, edits, mine, typed, told, alone>>

\* The section dialogs, and whether an open one is reset by new data.
BunkersDraftParcel == [name |-> "bunkers", follows |-> TRUE]
BillShipFigures == [name |-> "figures", follows |-> TRUE]
LettersRemarks == [name |-> "letters", follows |-> FALSE]
SlopBunkersReceived == [name |-> "slop", follows |-> TRUE]
SectionDialogs == {BunkersDraftParcel, BillShipFigures, LettersRemarks,
                   SlopBunkersReceived}
Follows(d) == \E x \in SectionDialogs : x.name = d /\ x.follows

Sheet == [rows : SUBSET Rows, sections : [Dialogs -> 0..MaxEdits],
          rev : 0..MaxWrites]
\* A section that is not sent is left as it is stored.
Unsent == MaxEdits + 1
Payload == [rows : SUBSET Rows, sections : [Dialogs -> 0..Unsent]]
Save == [kind : {"form", "section", "mail"}, payload : Payload,
         answer : Sheet \cup {Null}]
\* since: what the tab had been told is saved when the answer was lost.
Lost == [payload : Payload, since : [Dialogs -> 0..MaxEdits]]
Draft == [saved : 0..MaxWrites, text : 0..MaxWrites \cup {Null}]
Editor == [dialog : Dialogs, text : 0..MaxEdits]

ASSUME SofAssumption ==
  /\ MaxEdits \in Nat \ {0} /\ MaxWrites \in Nat
  /\ Null \notin Nat /\ Null \notin Sheet /\ Null \notin Save /\ Null \notin Lost
  /\ Null \notin Draft /\ Null \notin Editor

\* Sheets, form, dialogs, requests and histories have the source's shape.
SofTypeOK ==
  /\ doc \in Sheet /\ cache \in Sheet
  /\ fetch = Null \/ fetch \in Sheet
  /\ form \in [Rows -> {"absent", "part", "full"}]
  /\ editor = Null \/ editor \in Editor
  /\ saving = Null \/ saving \in Save
  /\ lost = Null \/ lost \in Lost
  /\ {composed, composing} \subseteq 0..MaxWrites \cup {Null}
  /\ drawer = Null \/ drawer \in Draft
  /\ edits \in 1..MaxEdits
  /\ mine \subseteq 0..MaxWrites
  /\ typed \subseteq Rows
  /\ told \in [Dialogs -> 0..MaxEdits]
  /\ alone \in BOOLEAN

\* Before the first save the backend answers a prefilled sheet without rows,
\* whose sections were never filled (0); later they may be (1).
Prefilled(filled) == [rows |-> {}, sections |-> [d \in Dialogs |-> filled],
                      rev |-> 0]
SofInit ==
  /\ doc \in {Prefilled(0), Prefilled(1)}
  /\ cache = doc
  /\ form = [r \in Rows |-> "absent"]
  /\ fetch = Null /\ editor = Null /\ saving = Null /\ lost = Null
  /\ composed = Null /\ composing = Null /\ drawer = Null
  /\ edits = 1
  /\ mine = {0} /\ typed = {} /\ told = doc.sections /\ alone = TRUE

FullRows == {r \in Rows : form[r] = "full"}
Typing == drawer = Null /\ editor = Null
queries == <<cache, fetch, composed, composing>>
history == <<mine, typed, told, alone>>

-----------------------------------------------------------------------------
\* Typing. Fields stay enabled while a save is under way; closing the dialog,
\* also with "Discard changes", leaves the form as it is.

\* A row is inserted, with or without its date and time, or completed.
TypeRow(r) ==
  /\ Typing /\ form[r] # "full"
  /\ \E kind \in {"part", "full"} \ {form[r]} : form' = [form EXCEPT ![r] = kind]
  /\ typed' = typed \cup {r}
  /\ UNCHANGED <<doc, queries, editor, saving, lost, drawer, edits, mine, told, alone>>

RemoveRow(r) ==
  /\ Typing /\ form[r] # "absent"
  /\ form' = [form EXCEPT ![r] = "absent"]
  /\ UNCHANGED <<doc, queries, editor, saving, lost, drawer, edits, history>>

\* A dialog opens on what the cache has.
OpenSection(d) ==
  /\ Typing /\ saving = Null
  /\ editor' = [dialog |-> d, text |-> cache.sections[d]]
  /\ UNCHANGED <<doc, queries, form, saving, lost, drawer, edits, history>>

EditSection ==
  /\ editor # Null /\ edits < MaxEdits
  /\ edits' = edits + 1
  /\ editor' = [editor EXCEPT !.text = edits']
  /\ UNCHANGED <<doc, queries, form, saving, lost, drawer, history>>

CloseSection ==
  /\ editor # Null
  /\ editor' = Null
  /\ UNCHANGED <<doc, queries, form, saving, lost, drawer, edits, history>>

-----------------------------------------------------------------------------
\* Saving.

Submit(kind, sections) ==
  /\ saving = Null
  /\ saving' = [kind |-> kind, answer |-> Null,
                payload |-> [rows |-> FullRows, sections |-> sections]]
  /\ typed' = {}
  /\ UNCHANGED <<doc, queries, form, editor, lost, drawer, edits, mine, told, alone>>

\* The form validates when no row is in part.
Valid == \A r \in Rows : form[r] # "part"

\* onSubmit sends no section.
SubmitForm ==
  /\ Typing /\ Valid
  /\ Submit("form", [d \in Dialogs |-> Unsent])

\* buildBasePayload: a section that was never filled is not sent.
BaseSections ==
  [d \in Dialogs |-> IF cache.sections[d] = 0 THEN Unsent ELSE cache.sections[d]]

\* A section's own Save does not validate the form: rows in part are left out.
SubmitSection ==
  /\ editor # Null
  /\ Submit("section", [BaseSections EXCEPT ![editor.dialog] = editor.text])

SubmitMail ==
  /\ Typing /\ Valid
  /\ Submit("mail", BaseSections)

\* Slip for a mutant of PROJECT.json: what is not sent is written as null.
StoresUnsent(new) ==
  [rows |-> new.rows, sections |-> new.sections, rev |-> doc.rev + 1]

\* saveSofTimesheet: one transaction, which answers what it wrote.
Stored(new) ==
  [rows |-> new.rows,
   sections |-> [d \in Dialogs |-> IF new.sections[d] = Unsent
                                   THEN doc.sections[d] ELSE new.sections[d]],
   rev |-> doc.rev + 1]

Apply ==
  /\ saving # Null /\ doc.rev < MaxWrites
  /\ saving.answer = Null
  /\ doc' = Stored(saving.payload)
  /\ saving' = [saving EXCEPT !.answer = doc']
  /\ UNCHANGED <<queries, form, editor, lost, drawer, edits, history>>

\* The same transaction on behalf of a colleague, with any content.
ColleagueSaves ==
  /\ doc.rev < MaxWrites
  /\ \E new \in Payload : /\ \A d \in Dialogs : new.sections[d] \in {1, Unsent}
                          /\ doc' = Stored(new)
  /\ alone' = FALSE /\ lost' = Null
  /\ UNCHANGED <<queries, form, editor, saving, drawer, edits, mine, typed, told>>

\* The cache changes. The form follows its rows, and a dialog the cache.
Showing(rows) == [r \in Rows |-> IF r \in rows THEN "full" ELSE "absent"]
AlwaysReset(sheet) == Showing(sheet.rows)  \* slip for a mutant
FormAfter(sheet) == IF sheet.rows = cache.rows THEN form ELSE Showing(sheet.rows)
EditorAfter(sheet) ==
  IF editor = Null \/ sheet = cache \/ ~Follows(editor.dialog)
  THEN editor ELSE [editor EXCEPT !.text = sheet.sections[editor.dialog]]

\* Slips for the mutants: the hook keeps the composed message, or lets an older
\* fetch arrive.
KeepsCompose == fetch' = Null /\ UNCHANGED <<composed, composing>>
KeepsFetch == composed' = Null /\ composing' = Null /\ UNCHANGED fetch

\* onSuccess of the hook: the composed message goes, and the timesheet is
\* fetched anew (Refetch), which cancels a fetch that was under way.
DropQueries == fetch' = Null /\ composed' = Null /\ composing' = Null

\* The save succeeds: the answer becomes the cache; then the callback of the
\* form (reset to what was submitted), of the section (closed) or of the mail
\* (the drawer opens on the composed message of the cache, if it has one).
Saved ==
  LET sheet == saving.answer IN
  /\ saving # Null /\ sheet # Null
  /\ cache' = sheet
  /\ saving' = Null
  /\ mine' = mine \cup {sheet.rev}
  /\ told' = sheet.sections
  /\ DropQueries
  /\ form' = IF saving.kind = "form" THEN Showing(saving.payload.rows)
             ELSE FormAfter(sheet)
  /\ editor' = IF saving.kind = "section" THEN Null ELSE EditorAfter(sheet)
  /\ drawer' = IF saving.kind = "mail"
               THEN [saved |-> sheet.rev, text |-> composed'] ELSE drawer
  /\ UNCHANGED <<doc, lost, edits, typed, alone>>

\* The user is told that the save failed: it has, or its answer was lost. One
\* that is still on its way may be applied later; one of them is followed, and
\* only while nobody else has saved: then it is like any save of a colleague.
SaveFails ==
  /\ saving # Null
  /\ saving' = Null
  /\ \/ UNCHANGED lost
     \/ /\ lost = Null /\ saving.answer = Null
        /\ alone /\ doc.rev < MaxWrites
        /\ lost' = [payload |-> saving.payload, since |-> told]
  /\ UNCHANGED <<doc, queries, form, editor, drawer, edits, history>>

\* Nothing tells the backend of the saves the user has made since.
ApplyLost ==
  /\ lost # Null /\ alone /\ doc.rev < MaxWrites
  /\ doc' = Stored(lost.payload)
  /\ lost' = Null
  /\ alone' = /\ told = lost.since
              /\ saving # Null => saving.answer = Null
  /\ UNCHANGED <<queries, form, editor, saving, drawer, edits, mine, typed, told>>

-----------------------------------------------------------------------------
\* The queries.

\* getSofTimesheet reads for a query: the one a save invalidated, or one that
\* a reconnect or a remount made. Its answer takes its time.
Refetch ==
  /\ fetch = Null
  /\ fetch' = doc
  /\ UNCHANGED <<doc, cache, composed, composing, form, editor, saving, lost, drawer,
                 edits, history>>

Fetched ==
  /\ fetch # Null
  /\ cache' = fetch
  /\ fetch' = Null
  /\ form' = FormAfter(fetch)
  /\ editor' = EditorAfter(fetch)
  /\ UNCHANGED <<doc, composed, composing, saving, lost, drawer, edits, history>>

RefetchFails ==
  /\ fetch # Null
  /\ fetch' = Null
  /\ UNCHANGED <<doc, cache, composed, composing, form, editor, saving, lost, drawer,
                 edits, history>>

\* The drawer's own query, read by the backend while the drawer is open; its
\* answer goes into the draft unless the draft has its text.
Compose ==
  /\ drawer # Null /\ composing = Null
  /\ composing' = doc.rev
  /\ UNCHANGED <<doc, cache, fetch, composed, form, editor, saving, lost, drawer,
                 edits, history>>

Composed ==
  /\ composing # Null
  /\ composed' = composing
  /\ composing' = Null
  /\ drawer' = IF drawer # Null /\ drawer.text = Null
               THEN [drawer EXCEPT !.text = composing] ELSE drawer
  /\ UNCHANGED <<doc, cache, fetch, form, editor, saving, lost, edits, history>>

\* Sent or not, the drawer closes; what was composed stays in the cache.
CloseDrawer ==
  /\ drawer # Null
  /\ drawer' = Null
  /\ UNCHANGED <<doc, queries, form, editor, saving, lost, edits, history>>

SofNext ==
  \/ \E r \in Rows : TypeRow(r) \/ RemoveRow(r)
  \/ \E d \in Dialogs : OpenSection(d)
  \/ EditSection \/ CloseSection
  \/ SubmitForm \/ SubmitSection \/ SubmitMail
  \/ Apply \/ ColleagueSaves \/ Saved \/ SaveFails \/ ApplyLost
  \/ Refetch \/ Fetched \/ RefetchFails
  \/ Compose \/ Composed \/ CloseDrawer

SofSpec == SofInit /\ [][SofNext]_sofVars

-----------------------------------------------------------------------------
\* Properties.

\* As long as no colleague saves, and no save whose answer was lost is applied
\* after another, a section the user was told is saved is not taken back: the
\* base payload of a later save, which repeats every section of the cache, has
\* at least what was told.
OwnSaveSurvives == alone => \A d \in Dialogs : doc.sections[d] >= told[d]

\* A complete row leaves the form without the user removing it only when it
\* was typed while a save was under way, or when the cache has, or takes over,
\* a write the tab was not told of.
TypedRowsSurvive ==
  [][/\ cache' # cache \/ saving' # saving
     /\ {cache.rev, cache'.rev} \subseteq mine'
     => \A r \in FullRows : form'[r] = "full" \/ (saving # Null /\ r \in typed)]_sofVars

\* The text of a mail drawer is composed from the save that opened it, or a
\* later one: "Current edits are saved before preparing either message".
MailShowsSaved ==
  drawer # Null /\ drawer.text # Null => drawer.text >= drawer.saved

\* What the tab has saved is in the sheet, as long as nobody has written since.
SheetKeepsSaves == SofTypeOK /\ OwnSaveSurvives
=============================================================================
