--------------------------- MODULE BranchDocuments ---------------------------
(***************************************************************************)
(* The documents of a branch (branch-documents.service.ts): the documents  *)
(* filled in for a nomination from one template, the template itself, and  *)
(* the objects in storage that both name. Every call reads first and then  *)
(* writes by id, with storage in between and no transaction around it; a   *)
(* process may die at any of these points.                                 *)
(*                                                                         *)
(* A document says what the call wrote that last saved it. The template's  *)
(* object lies under a key made from its code, so a template created again *)
(* finds it; the key of a PDF carries the time, and is taken to be new.    *)
(***************************************************************************)
EXTENDS FiniteSets

CONSTANTS Docs,   \* documents of one nomination
          Calls,
          None

VARIABLES
  rows,     \* branch_document_instances
  template, \* the template: the call that created it, and if it names an object
  source,   \* the object of the template: the call that uploaded it
  pdfs,     \* the PDFs in storage, known by the call that generated them
  op,       \* the calls
  before,   \* history: the calls that had ended when a call began
  final     \* history: the documents that were FINALIZED when it began

vars == <<rows, template, source, pdfs, op, before, final>>
history == <<before, final>>

Seeded == "seeded"

ASSUME NamesAssumption ==
  /\ None \notin Calls \cup Docs \cup {Seeded, "DRAFT", "FINALIZED"}
  /\ Seeded \notin Calls

Kinds == {"create", "update", "finalize", "generatePdf", "delete",
          "createTemplate", "deleteTemplate", "uploadHbs"}
Places == {"idle", "asked", "read", "found", "dropped", "stored", "done", "refused"}

\* data and minioKey are known by the calls that wrote them.
Row == [status : {"DRAFT", "FINALIZED", None}, data : Calls \cup {Seeded, None},
        by : Calls \cup {Seeded, None}, minioKey : Calls \cup {Seeded, None}]
NoRow == [status |-> None, data |-> None, by |-> None, minioKey |-> None]
NoTemplate == [id |-> None, hbsTemplate |-> FALSE]
Idle == [at |-> "idle", kind |-> None, doc |-> None, row |-> NoRow,
         template |-> NoTemplate, dropped |-> FALSE, held |-> {}]

\* Rows, objects and calls have the shape of the tables and the service.
TypeOK ==
  /\ rows \in [Docs -> Row]
  /\ template \in [id : Calls \cup {Seeded, None}, hbsTemplate : BOOLEAN]
  /\ source \in Calls \cup {Seeded, None}
  /\ pdfs \subseteq Calls \cup {Seeded}
  /\ op \in [Calls -> [at : Places, kind : Kinds \cup {None},
                       doc : Docs \cup {None}, row : Row,
                       template : [id : Calls \cup {Seeded, None},
                                   hbsTemplate : BOOLEAN],
                       dropped : BOOLEAN, held : SUBSET (Calls \cup {Seeded})]]

Exists(d) == rows[d].status # None
Ended == {c \in Calls : op[c].at \in {"done", "refused"}}

\* The seed has installed the template and its object; perhaps there is a
\* document already, with a PDF or without.
Init ==
  /\ template = [id |-> Seeded, hbsTemplate |-> TRUE] /\ source = Seeded
  /\ \E d \in Docs \cup {None}, key \in {Seeded, None} :
       /\ rows = [e \in Docs |-> IF e # d THEN NoRow ELSE
                   [status |-> "DRAFT", data |-> Seeded, by |-> Seeded,
                    minioKey |-> key]]
       /\ pdfs = IF d = None THEN {} ELSE {key} \ {None}
  /\ op = [c \in Calls |-> Idle]
  /\ before = [c \in Calls |-> {}] /\ final = [c \in Calls |-> {}]

-----------------------------------------------------------------------------
\* A tab asks for anything, on any document: its list may be old.
Ask(c) ==
  /\ op[c].at = "idle"
  /\ \E k \in Kinds, d \in Docs \cup {None} :
       /\ (d = None) = (k \in {"create", "createTemplate", "deleteTemplate",
                               "uploadHbs"})
       /\ op' = [op EXCEPT ![c] = [Idle EXCEPT !.at = "asked", !.kind = k, !.doc = d]]
  /\ before' = [before EXCEPT ![c] = Ended]
  /\ final' = [final EXCEPT ![c] = {d \in Docs : rows[d].status = "FINALIZED"}]
  /\ UNCHANGED <<rows, template, source, pdfs>>

At(c, place, kinds) == op[c].at = place /\ op[c].kind \in kinds
Goto(c, place) == op' = [op EXCEPT ![c].at = place]

\* Slips for mutants of PROJECT.json.
AnyStatus(c) == {"DRAFT", "FINALIZED"}
NeverCounts(c) == TRUE
\* The status each handler of a document accepts.
Accepts(c) ==
  IF op[c].kind = "generatePdf" THEN {"DRAFT", "FINALIZED"} ELSE {"DRAFT"}

\* getOrThrow and the test of the status.
ReadDocument(c) ==
  /\ At(c, "asked", {"update", "finalize", "generatePdf", "delete"})
  /\ op' = [op EXCEPT
       ![c].at = IF rows[op[c].doc].status \in Accepts(c) THEN "read" ELSE "refused",
       ![c].row = rows[op[c].doc],
       ![c].template = template]
  /\ UNCHANGED <<rows, template, source, pdfs, history>>

\* The count of the documents that use the template.
Unused(c) == \A d \in Docs : ~Exists(d)

\* findUnique or assertTemplateOwnership; deleteTemplate also counts.
ReadTemplate(c) ==
  /\ At(c, "asked", {"create", "deleteTemplate", "uploadHbs"})
  /\ op' = [op EXCEPT
       ![c].at = IF template.id # None /\ (op[c].kind = "deleteTemplate" => Unused(c))
                 THEN "read" ELSE "refused",
       ![c].template = template]
  /\ UNCHANGED <<rows, template, source, pdfs, history>>

\* prisma.create; the foreign key refuses a document without its template.
Create(c) ==
  /\ At(c, "read", {"create"})
  /\ IF template.id = op[c].template.id
     THEN \E d \in Docs :
       /\ ~Exists(d) /\ \A e \in Calls : op[e].doc # d
       /\ rows' = [rows EXCEPT ![d] = [status |-> "DRAFT", data |-> c, by |-> c,
                                       minioKey |-> None]]
       /\ op' = [op EXCEPT ![c].at = "done", ![c].doc = d]
     ELSE Goto(c, "refused") /\ UNCHANGED rows
  /\ UNCHANGED <<template, source, pdfs, history>>

\* Slips for mutants: a row is written whole as it was read, or with the id of
\* the document for its key.
WritesStale(c) == [op[c].row EXCEPT !.data = c]
WritesId(c) == [op[c].row EXCEPT !.minioKey = op[c].doc]
\* What a handler writes to the row, by id and whatever it says by now.
Written(c) ==
  LET row == rows[op[c].doc] IN
  CASE op[c].kind = "update" -> [row EXCEPT !.data = c]
    [] op[c].kind = "finalize" -> [row EXCEPT !.status = "FINALIZED"]
    [] op[c].kind = "generatePdf" -> [row EXCEPT !.minioKey = c]
    [] op[c].kind = "delete" -> NoRow

\* The row is written or deleted: after storage, where storage is involved.
WriteRow(c) ==
  /\ \/ At(c, "read", {"update", "finalize"})
     \/ At(c, "stored", {"generatePdf"})
     \/ At(c, "dropped", {"delete"})
  /\ IF Exists(op[c].doc)
     THEN rows' = [rows EXCEPT ![op[c].doc] = Written(c)] /\ Goto(c, "done")
     ELSE Goto(c, "refused") /\ UNCHANGED rows
  /\ UNCHANGED <<template, source, pdfs, history>>

-----------------------------------------------------------------------------
\* Storage.

\* The source of the template is fetched and rendered; no object, no PDF.
Render(c) ==
  /\ At(c, "read", {"generatePdf"})
  /\ Goto(c, IF op[c].template.hbsTemplate /\ source # None THEN "found" ELSE "refused")
  /\ UNCHANGED <<rows, template, source, pdfs, history>>

\* Slip for a mutant: the old PDF is left where it is.
KeepsOld(c) == UNCHANGED pdfs
DeleteOld(c) == pdfs' = pdfs \ {op[c].row.minioKey}

\* deleteFile of the PDF that the row named when it was read, before the new one
\* is stored, or the row deleted.
DropPdf(c) ==
  /\ At(c, "found", {"generatePdf"}) \/ At(c, "read", {"delete"})
  /\ IF op[c].row.minioKey # None
     THEN /\ DeleteOld(c)
          /\ op' = [op EXCEPT ![c].at = "dropped", ![c].dropped = TRUE]
     ELSE Goto(c, "dropped") /\ UNCHANGED pdfs
  /\ UNCHANGED <<rows, template, source, history>>

\* A failure to delete it is ignored.
DropFails(c) ==
  /\ At(c, "found", {"generatePdf"}) \/ At(c, "read", {"delete"})
  /\ op[c].row.minioKey # None
  /\ Goto(c, "dropped")
  /\ UNCHANGED <<rows, template, source, pdfs, history>>

UploadPdf(c) ==
  /\ At(c, "dropped", {"generatePdf"})
  /\ pdfs' = pdfs \cup {c}
  /\ Goto(c, "stored")
  /\ UNCHANGED <<rows, template, source, history>>

-----------------------------------------------------------------------------
\* The template.

CreateTemplate(c) ==
  /\ At(c, "asked", {"createTemplate"})
  /\ IF template.id = None
     THEN template' = [id |-> c, hbsTemplate |-> FALSE] /\ Goto(c, "done")
     ELSE Goto(c, "refused") /\ UNCHANGED template
  /\ UNCHANGED <<rows, source, pdfs, history>>

\* deleteTemplate reads again if there is an object ...
FindHbs(c) ==
  /\ At(c, "read", {"deleteTemplate"})
  /\ op' = [op EXCEPT ![c].at = "found",
       ![c].template.hbsTemplate = template.id = op[c].template.id /\ template.hbsTemplate]
  /\ UNCHANGED <<rows, template, source, pdfs, history>>

\* ... deletes it, or ignores that it cannot ...
DropHbs(c) ==
  /\ At(c, "found", {"deleteTemplate"})
  /\ \/ /\ op[c].template.hbsTemplate
        /\ source' = None
        /\ op' = [op EXCEPT ![c].at = "dropped", ![c].dropped = TRUE]
     \/ Goto(c, "dropped") /\ UNCHANGED source
  /\ UNCHANGED <<rows, template, pdfs, history>>

\* ... and deletes the row, unless a foreign key holds it.
DeleteTemplate(c) ==
  /\ At(c, "dropped", {"deleteTemplate"})
  /\ IF template.id = op[c].template.id /\ \A d \in Docs : ~Exists(d)
     THEN template' = NoTemplate /\ Goto(c, "done")
     ELSE /\ op' = [op EXCEPT ![c].at = "refused",
                              ![c].held = {rows[d].by : d \in {e \in Docs : Exists(e)}}]
          /\ UNCHANGED template
  /\ UNCHANGED <<rows, source, pdfs, history>>

StoreHbs(c) ==
  /\ At(c, "read", {"uploadHbs"})
  /\ source' = c
  /\ Goto(c, "stored")
  /\ UNCHANGED <<rows, template, pdfs, history>>

NameHbs(c) ==
  /\ At(c, "stored", {"uploadHbs"})
  /\ IF template.id = op[c].template.id
     THEN template' = [template EXCEPT !.hbsTemplate = TRUE] /\ Goto(c, "done")
     ELSE Goto(c, "refused") /\ UNCHANGED template
  /\ UNCHANGED <<rows, source, pdfs, history>>

\* A statement or storage fails, or the process dies.
Fails(c) ==
  /\ op[c].at \in {"asked", "read", "found", "dropped", "stored"}
  /\ Goto(c, "refused")
  /\ UNCHANGED <<rows, template, source, pdfs, history>>

Next == \E c \in Calls :
  \/ Ask(c) \/ ReadDocument(c) \/ ReadTemplate(c) \/ Create(c) \/ WriteRow(c)
  \/ Render(c) \/ DropPdf(c) \/ DropFails(c) \/ UploadPdf(c)
  \/ CreateTemplate(c) \/ FindHbs(c) \/ DropHbs(c) \/ DeleteTemplate(c)
  \/ StoreHbs(c) \/ NameHbs(c) \/ Fails(c)

Spec == Init /\ [][Next]_vars

-----------------------------------------------------------------------------
\* Properties.

\* A call that begins after a document was finalized changes neither what it
\* says nor its status, and does not delete it: only one that had read it
\* before can.
FinalStands ==
  [][\A d \in Docs :
       rows[d].status = "FINALIZED" /\ [rows'[d] EXCEPT !.minioKey = None]
                                     # [rows[d] EXCEPT !.minioKey = None] =>
         \E c \in Calls : op'[c].at = "done" /\ op[c].at # "done" /\ d \notin final[c]]_vars

\* The PDF a document names is in storage, unless a call that replaces or
\* deletes it has removed it and has not come to its end, or never will.
PdfIsThere ==
  \A d \in Docs : rows[d].minioKey \in pdfs \cup {None} \/
    \E c \in Calls : op[c].doc = d /\ op[c].dropped /\ op[c].at # "done"

Overlap(c, e) == c \notin before[e] /\ e \notin before[c]

\* A PDF in storage that no document names was stored by a call that failed, or
\* is to be removed by one, or was left by one that could not, or two calls for
\* its document overlapped.
StrayHasCause ==
  \A k \in pdfs \ {Seeded} : (\A d \in Docs : rows[d].minioKey # k) =>
    \/ op[k].at # "done"
    \/ \E c \in Calls \ {k} : /\ op[c].doc = op[k].doc
                              /\ op[c].kind \in {"generatePdf", "delete"}
                              /\ Overlap(c, k) \/ ~op[c].dropped

\* The template names an object that is there, unless deleteTemplate removed it
\* and has not ended well. If a foreign key kept the template, the documents
\* that hold it were created while deleteTemplate was under way.
TemplateIsThere ==
  /\ template.hbsTemplate /\ source = None =>
       \E c \in Calls : op[c].kind = "deleteTemplate" /\ op[c].dropped /\ op[c].at # "done"
  /\ \A c \in Calls : op[c].held \cap (before[c] \cup {Seeded}) = {}

\* What a document or a template names is in storage.
NamedIsStored == TypeOK /\ PdfIsThere /\ TemplateIsThere
=============================================================================
