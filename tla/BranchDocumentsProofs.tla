----------------------- MODULE BranchDocumentsProofs ------------------------
(***************************************************************************)
(* The documents of a branch, for any sets of documents and calls. The     *)
(* argument: a PDF has the name of the call that generated it, which has   *)
(* one document and writes its name once, so a key that a row has lost     *)
(* never comes back; a call that begins when another has ended reads what  *)
(* that one has left; and whoever removes an object says so and has then   *)
(* to come to its end.                                                     *)
(***************************************************************************)
EXTENDS BranchDocuments, TLAPS

Keys == Calls \cup {Seeded, None}
Template == [id : Keys, hbsTemplate : BOOLEAN]
Call == [at : Places, kind : Kinds \cup {None}, doc : Docs \cup {None}, row : Row,
         template : Template, dropped : BOOLEAN, held : SUBSET (Calls \cup {Seeded})]

OfDocument == {"update", "finalize", "generatePdf", "delete"}
OfTemplate == {"create", "uploadHbs", "deleteTemplate"}
Reading == {"read", "found", "dropped", "stored"}

\* What the place of a call says of its kind, of what it has read, and of what
\* it has stored and removed.
Placed(c) ==
  /\ op[c].at = "idle" => op[c].doc = None
  /\ op[c].at # "idle" => op[c].kind \in Kinds
  /\ op[c].at # "idle" /\ op[c].kind \in OfDocument => op[c].doc \in Docs
  /\ op[c].at = "found" => op[c].kind \in {"generatePdf", "deleteTemplate"}
  /\ op[c].at = "dropped" => op[c].kind \in {"generatePdf", "delete", "deleteTemplate"}
  /\ op[c].at = "stored" => op[c].kind \in {"generatePdf", "uploadHbs"}
  /\ op[c].at \in Reading /\ op[c].kind \in OfTemplate => op[c].template.id # None
  /\ op[c].at \in {"idle", "asked", "read", "found"} => ~op[c].dropped
  /\ op[c].kind \in OfTemplate => op[c].row = NoRow
  /\ op[c].kind \in {"createTemplate", "deleteTemplate", "uploadHbs"} => op[c].doc = None
  /\ op[c].kind = "create" /\ op[c].at # "done" => op[c].doc = None

\* A call that has begun changes neither what ended before nor what it knew.
Histories ==
  /\ before \in [Calls -> SUBSET Calls] /\ final \in [Calls -> SUBSET Docs]
  /\ \A c \in Calls : before[c] \subseteq Ended

\* The key k was written by the call k, for its document d.
Made(k, d) == k \in Calls =>
  op[k].at = "done" /\ op[k].kind = "generatePdf" /\ op[k].doc = d

\* A key belongs to one document.
KeysOfDocs ==
  /\ \A d \in Docs : Made(rows[d].minioKey, d)
  /\ \A c \in Calls : Made(op[c].row.minioKey, op[c].doc)
  /\ \E s \in Docs \cup {None} :
       /\ \A d \in Docs : rows[d].minioKey = Seeded => d = s
       /\ \A c \in Calls : op[c].row.minioKey = Seeded => op[c].doc = s

\* A PDF that is stored and not named yet is there; one that was removed is not,
\* and a call that began when a key was written has read this key.
PdfsOfCalls ==
  \A c \in Calls :
    /\ c \in pdfs => op[c].at # "idle" /\ op[c].kind = "generatePdf"
    /\ op[c].at = "stored" /\ op[c].kind = "generatePdf" => c \in pdfs
    /\ op[c].dropped /\ op[c].kind \in OfDocument => op[c].row.minioKey \notin pdfs
    /\ /\ op[c].at \in Reading /\ op[c].kind \in OfDocument
       /\ rows[op[c].doc].minioKey \in before[c]
       => op[c].row.minioKey = rows[op[c].doc].minioKey

\* StrayHasCause, and the cause is a call that has replaced or deleted the key.
StrayKnown ==
  \A k \in pdfs \ {Seeded} : (\A d \in Docs : rows[d].minioKey # k) =>
    \/ op[k].at # "done"
    \/ \E c \in Calls \ {k} : /\ op[c].doc = op[k].doc /\ op[c].at = "done"
                              /\ op[c].kind \in {"generatePdf", "delete"}
                              /\ Overlap(c, k) \/ ~op[c].dropped

\* A document says who created it.
ByIsKnown == \A d \in Docs : Exists(d) => rows[d].by # None

Dropping == \E c \in Calls :
  op[c].kind = "deleteTemplate" /\ op[c].dropped /\ op[c].at # "done"

\* A template is named by a call that has ended; if its object is gone, the call
\* that removed it has not ended well, or the template was another one.
TemplateKnown ==
  /\ template.id \in Calls => op[template.id].at = "done"
  /\ \A c \in Calls : op[c].template.id \in Calls => op[op[c].template.id].at = "done"
  /\ template.hbsTemplate /\ source = None => Dropping
  /\ \A c \in Calls : op[c].kind = "uploadHbs" /\ op[c].at = "stored"
       /\ template.id = op[c].template.id /\ source = None => Dropping

\* Once deleteTemplate has counted no document, those that come are new.
HoldersAreNew ==
  \A c \in Calls : op[c].kind = "deleteTemplate" =>
    /\ op[c].at \in Reading =>
         \A d \in Docs : Exists(d) => rows[d].by \notin before[c] \cup {Seeded}
    /\ op[c].held \cap (before[c] \cup {Seeded}) = {}

NothingHeld == \A c \in Calls : op[c].kind # "deleteTemplate" => op[c].held = {}

\* A document that was final is final or gone for good, and only who has read it
\* before can have found it a draft.
FinalKnown ==
  \A c \in Calls :
    /\ \A d \in final[c] : /\ rows[d].status \in {"FINALIZED", None}
                           /\ ~Exists(d) => \E e \in Calls : op[e].doc = d
    /\ op[c].at \in Reading /\ op[c].kind \in {"update", "finalize", "delete"} =>
         op[c].doc \notin final[c]

IInv ==
  /\ TypeOK /\ (\A c \in Calls : Placed(c)) /\ Histories /\ KeysOfDocs
  /\ PdfsOfCalls /\ PdfIsThere /\ StrayKnown /\ TemplateKnown /\ HoldersAreNew
  /\ NothingHeld /\ FinalKnown /\ ByIsKnown

\* A step of a call, by any of the actions.
Step(c) ==
  \/ Ask(c) \/ ReadDocument(c) \/ ReadTemplate(c) \/ Create(c) \/ WriteRow(c)
  \/ Render(c) \/ DropPdf(c) \/ DropFails(c) \/ UploadPdf(c)
  \/ CreateTemplate(c) \/ FindHbs(c) \/ DropHbs(c) \/ DeleteTemplate(c)
  \/ StoreHbs(c) \/ NameHbs(c) \/ Fails(c)

\* TypeOK in the words of this module.
LEMMA Types ==
  TypeOK <=> /\ rows \in [Docs -> Row] /\ template \in Template
             /\ source \in Keys /\ pdfs \subseteq Calls \cup {Seeded}
             /\ op \in [Calls -> Call]
BY DEF TypeOK, Keys, Template, Call

\* The names are apart, and these are in their sets.
LEMMA Names ==
  /\ None \in Keys /\ Seeded \in Keys /\ None # Seeded /\ None \notin Calls
  /\ Seeded \notin Calls /\ None \notin Docs /\ \A c \in Calls : c \in Keys
  /\ NoRow \in Row /\ NoRow.minioKey = None /\ NoRow.status = None
  /\ NoTemplate \in Template /\ NoTemplate.id = None /\ ~NoTemplate.hbsTemplate
  /\ None # "DRAFT" /\ None # "FINALIZED"
BY NamesAssumption DEF Keys, NoRow, NoTemplate, Row, Template

LEMMA IdleCall ==
  /\ Idle \in Call /\ Idle.at = "idle" /\ Idle.doc = None /\ Idle.kind = None
  /\ Idle.row = NoRow /\ Idle.template = NoTemplate /\ ~Idle.dropped /\ Idle.held = {}
<1>1. "idle" \in Places
  BY DEF Places
<1>2. QED
  BY Names, <1>1 DEF Idle, Call

LEMMA Initial == Init => IInv
<1> SUFFICES ASSUME Init PROVE IInv
  OBVIOUS
<1> USE Names
<1>1. PICK d \in Docs \cup {None}, key \in {Seeded, None} :
        /\ rows = [e \in Docs |-> IF e # d THEN NoRow ELSE
                    [status |-> "DRAFT", data |-> Seeded, by |-> Seeded, minioKey |-> key]]
        /\ pdfs = IF d = None THEN {} ELSE {key} \ {None}
  BY DEF Init
<1> DEFINE old == [status |-> "DRAFT", data |-> Seeded, by |-> Seeded, minioKey |-> key]
<1>2. old \in Row /\ old.minioKey = key
  BY DEF Row
<1>3. \A c \in Calls : op[c] = Idle
  BY DEF Init
<1>4. TypeOK
  <2>1. rows \in [Docs -> Row]
    BY <1>1, <1>2
  <2>2. template \in Template /\ source \in Keys
    BY DEF Init, Template
  <2>3. op \in [Calls -> Call]
    BY IdleCall DEF Init
  <2>4. QED
    BY <1>1, <2>1, <2>2, <2>3, Types
<1>5. /\ \A e \in Docs : rows[e].minioKey \in {key, None} /\ (e # d => rows[e] = NoRow)
      /\ d # None => rows[d].minioKey = key
  BY <1>1, <1>2
<1>6. \A c \in Calls : Placed(c)
  BY <1>3, IdleCall DEF Placed, Reading
<1>13. ByIsKnown
  BY <1>1, <1>2 DEF ByIsKnown, Exists
<1>7. Histories /\ FinalKnown /\ NothingHeld /\ HoldersAreNew
  BY <1>3, IdleCall DEF Init, Histories, FinalKnown, NothingHeld, HoldersAreNew, Reading
<1>8. KeysOfDocs
  <2>1. \A e \in Docs : rows[e].minioKey = Seeded => e = d
    BY <1>5
  <2>2. QED
    BY <1>3, <1>5, <2>1, IdleCall DEF KeysOfDocs, Made
<1>9. PdfsOfCalls
  BY <1>3, <1>1, IdleCall DEF PdfsOfCalls, Reading
<1>10. PdfIsThere /\ StrayKnown
  <2>1. pdfs \subseteq {Seeded}
    BY <1>1
  <2>2. PdfIsThere
    BY <1>1, <1>5 DEF PdfIsThere
  <2>3. QED
    BY <2>1, <2>2 DEF StrayKnown
<1>11. TemplateKnown
  BY <1>3, IdleCall DEF Init, TemplateKnown
<1>12. QED
  BY <1>4, <1>6, <1>7, <1>13, <1>8, <1>9, <1>10, <1>11 DEF IInv

-----------------------------------------------------------------------------
\* Calls.

OthersStay(c) == \A e \in Calls \ {c} : op'[e] = op[e]

LEMMA Goes ==
  ASSUME op \in [Calls -> Call], NEW c \in Calls, NEW place \in Places, Goto(c, place)
  PROVE  /\ op' \in [Calls -> Call] /\ OthersStay(c) /\ op'[c].at = place
         /\ op'[c].kind = op[c].kind /\ op'[c].doc = op[c].doc
         /\ op'[c].row = op[c].row /\ op'[c].template = op[c].template
         /\ op'[c].dropped = op[c].dropped /\ op'[c].held = op[c].held
<1>1. op' = [op EXCEPT ![c] = [op[c] EXCEPT !.at = place]]
  BY DEF Goto
<1>2. [op[c] EXCEPT !.at = place] \in Call
  BY DEF Call
<1>3. QED
  BY <1>1, <1>2 DEF OthersStay, Call

\* What a step does to the calls: it moves one of them on, which keeps in mind
\* what it is about.
Remembers(c) ==
  /\ op' \in [Calls -> Call] /\ OthersStay(c)
  /\ op[c].at \notin {"done", "refused"} /\ op'[c].at # "idle"
  /\ op[c].at # "idle" =>
       /\ op'[c].at # "asked" /\ op'[c].kind = op[c].kind
       /\ op[c].kind # "create" => op'[c].doc = op[c].doc
       /\ op[c].at \in Reading =>
            op'[c].row = op[c].row /\ op'[c].template.id = op[c].template.id
       /\ op[c].dropped => op'[c].dropped
       /\ op'[c].at = "done" => op'[c].dropped = op[c].dropped
       /\ op[c].kind # "deleteTemplate" => op'[c].held = op[c].held

\* Most steps only go on.
LEMMA GoesOn ==
  ASSUME TypeOK, NEW c \in Calls, NEW place \in Places \ {"idle", "asked"}, Goto(c, place),
         op[c].at \notin {"idle", "done", "refused"}
  PROVE  Remembers(c)
BY Goes, Types DEF Remembers

LEMMA CallsInductive ==
  ASSUME IInv, NEW c \in Calls, Step(c)
  PROVE  Remembers(c)
<1> USE Names
<1>a. /\ op \in [Calls -> Call] /\ op[c] \in Call /\ rows \in [Docs -> Row]
      /\ template \in Template /\ TypeOK
  BY Types DEF IInv
<1>b. \A place \in {"asked", "read", "found", "dropped", "stored", "done", "refused"} :
        place \in Places
  BY DEF Places
<1>1. CASE Ask(c)
  <2>1. PICK k \in Kinds, d \in Docs \cup {None} :
          op' = [op EXCEPT ![c] = [Idle EXCEPT !.at = "asked", !.kind = k, !.doc = d]]
    BY <1>1 DEF Ask
  <2>2. [Idle EXCEPT !.at = "asked", !.kind = k, !.doc = d] \in Call
    BY <1>b, IdleCall DEF Call
  <2>3. QED
    BY <1>1, <1>a, <2>1, <2>2 DEF Ask, Remembers, OthersStay, Call
<1>2. CASE ReadDocument(c)
  <2>1. PICK place \in {"read", "refused"} :
          op' = [op EXCEPT ![c].at = place, ![c].row = rows[op[c].doc], ![c].template = template]
    BY <1>2 DEF ReadDocument
  <2>2. op[c].at = "asked" /\ rows[op[c].doc] \in Row
    BY <1>2, <1>a DEF ReadDocument, At, IInv, Placed, OfDocument
  <2>3. op' = [op EXCEPT ![c] = [op[c] EXCEPT !.at = place, !.row = rows[op[c].doc],
                                              !.template = template]]
    BY <1>a, <2>1 DEF Call
  <2>4. [op[c] EXCEPT !.at = place, !.row = rows[op[c].doc], !.template = template] \in Call
    BY <1>a, <1>b, <2>2 DEF Call
  <2>5. QED
    BY <1>a, <2>2, <2>3, <2>4 DEF Remembers, OthersStay, Call, Reading
<1>3. CASE ReadTemplate(c)
  <2>1. PICK place \in {"read", "refused"} :
          op' = [op EXCEPT ![c].at = place, ![c].template = template]
    BY <1>3 DEF ReadTemplate
  <2>2. op[c].at = "asked"
    BY <1>3 DEF ReadTemplate, At
  <2>3. op' = [op EXCEPT ![c] = [op[c] EXCEPT !.at = place, !.template = template]]
    BY <1>a, <2>1 DEF Call
  <2>4. [op[c] EXCEPT !.at = place, !.template = template] \in Call
    BY <1>a, <1>b DEF Call
  <2>5. QED
    BY <1>a, <2>2, <2>3, <2>4 DEF Remembers, OthersStay, Call, Reading
<1>4. CASE Create(c)
  <2>1. op[c].at = "read" /\ op[c].kind = "create"
    BY <1>4 DEF Create, At
  <2>2. CASE Goto(c, "refused")
    BY <1>a, <1>b, <2>1, <2>2, GoesOn
  <2>3. ASSUME NEW d \in Docs, op' = [op EXCEPT ![c].at = "done", ![c].doc = d]
        PROVE  Remembers(c)
    <3>1. op' = [op EXCEPT ![c] = [op[c] EXCEPT !.at = "done", !.doc = d]]
      BY <1>a, <2>3 DEF Call
    <3>2. [op[c] EXCEPT !.at = "done", !.doc = d] \in Call
      BY <1>a, <1>b DEF Call
    <3>3. QED
      BY <1>a, <2>1, <3>1, <3>2 DEF Remembers, OthersStay, Call
  <2>4. QED
    BY <1>4, <2>2, <2>3 DEF Create
<1>5. CASE WriteRow(c)
  BY <1>5, <1>a, <1>b, GoesOn DEF WriteRow, At
<1>6. CASE Render(c) \/ DropFails(c) \/ UploadPdf(c) \/ CreateTemplate(c)
           \/ StoreHbs(c) \/ NameHbs(c) \/ Fails(c)
  BY <1>6, <1>a, <1>b, GoesOn
     DEF Render, DropFails, UploadPdf, CreateTemplate, StoreHbs, NameHbs, Fails, At
<1>7. CASE DropPdf(c) \/ DropHbs(c)
  <2>1. op[c].at \in {"found", "read"}
    BY <1>7 DEF DropPdf, DropHbs, At
  <2>2. CASE Goto(c, "dropped")
    BY <1>a, <1>b, <2>1, <2>2, GoesOn
  <2>3. CASE op' = [op EXCEPT ![c].at = "dropped", ![c].dropped = TRUE]
    <3>1. op' = [op EXCEPT ![c] = [op[c] EXCEPT !.at = "dropped", !.dropped = TRUE]]
      BY <1>a, <2>3 DEF Call
    <3>2. [op[c] EXCEPT !.at = "dropped", !.dropped = TRUE] \in Call
      BY <1>a, <1>b DEF Call
    <3>3. QED
      BY <1>a, <2>1, <3>1, <3>2 DEF Remembers, OthersStay, Call
  <2>4. QED
    BY <1>7, <2>2, <2>3 DEF DropPdf, DropHbs
<1>8. CASE FindHbs(c)
  <2>1. op[c].at = "read"
    BY <1>8 DEF FindHbs, At
  <2>2. PICK hbs \in BOOLEAN :
          op' = [op EXCEPT ![c].at = "found", ![c].template.hbsTemplate = hbs]
    BY <1>8, <1>a DEF FindHbs, Template
  <2>3. op' = [op EXCEPT ![c] = [op[c] EXCEPT !.at = "found",
                                  !.template = [op[c].template EXCEPT !.hbsTemplate = hbs]]]
    BY <1>a, <2>2 DEF Call
  <2>4. /\ [op[c].template EXCEPT !.hbsTemplate = hbs] \in Template
        /\ [op[c].template EXCEPT !.hbsTemplate = hbs].id = op[c].template.id
    BY <1>a DEF Call, Template
  <2>5. [op[c] EXCEPT !.at = "found",
                      !.template = [op[c].template EXCEPT !.hbsTemplate = hbs]] \in Call
    BY <1>a, <1>b, <2>4 DEF Call
  <2>6. QED
    BY <1>a, <2>1, <2>3, <2>4, <2>5 DEF Remembers, OthersStay, Call
<1>9. CASE DeleteTemplate(c)
  <2>1. op[c].at = "dropped" /\ op[c].kind = "deleteTemplate"
    BY <1>9 DEF DeleteTemplate, At
  <2>2. CASE Goto(c, "done")
    BY <1>a, <1>b, <2>1, <2>2, GoesOn
  <2> DEFINE held == {rows[d].by : d \in {e \in Docs : Exists(e)}}
  <2>3. CASE op' = [op EXCEPT ![c].at = "refused", ![c].held = held]
    <3>1. \A d \in Docs : Exists(d) => rows[d].by \in Calls \cup {Seeded}
      BY <1>a DEF IInv, ByIsKnown, Row, Keys
    <3>2. held \subseteq Calls \cup {Seeded}
      BY <3>1
    <3> HIDE DEF held
    <3>3. op' = [op EXCEPT ![c] = [op[c] EXCEPT !.at = "refused", !.held = held]]
      BY <1>a, <2>3 DEF Call
    <3>4. [op[c] EXCEPT !.at = "refused", !.held = held] \in Call
      BY <1>a, <1>b, <3>2 DEF Call
    <3>5. QED
      BY <1>a, <2>1, <3>3, <3>4 DEF Remembers, OthersStay, Call
  <2>4. QED
    BY <1>9, <2>2, <2>3 DEF DeleteTemplate
<1>10. QED
  BY <1>1, <1>2, <1>3, <1>4, <1>5, <1>6, <1>7, <1>8, <1>9 DEF Step

-----------------------------------------------------------------------------
\* Rows, objects and the template.

\* What each kind writes.
LEMMA Writes ==
  ASSUME IInv, NEW c \in Calls, op[c].doc \in Docs, op[c].kind \in OfDocument
  PROVE  /\ op[c].kind = "delete" => Written(c) = NoRow
         /\ op[c].kind = "generatePdf" => Written(c) = [rows[op[c].doc] EXCEPT !.minioKey = c]
         /\ op[c].kind # "delete" =>
              /\ Written(c).by = rows[op[c].doc].by
              /\ Written(c).minioKey = IF op[c].kind = "generatePdf" THEN c
                                       ELSE rows[op[c].doc].minioKey
              /\ Written(c).status = IF op[c].kind = "finalize" THEN "FINALIZED"
                                     ELSE rows[op[c].doc].status
<1>1. rows[op[c].doc] \in Row
  BY Types DEF IInv
<1>2. CASE op[c].kind = "update"
  BY <1>1, <1>2 DEF Written, Row
<1>3. CASE op[c].kind = "finalize"
  BY <1>1, <1>3 DEF Written, Row
<1>4. CASE op[c].kind = "generatePdf"
  BY <1>1, <1>4 DEF Written, Row
<1>5. CASE op[c].kind = "delete"
  BY <1>5 DEF Written
<1>6. QED
  BY <1>2, <1>3, <1>4, <1>5 DEF OfDocument

\* A document is created ...
Creates(c) ==
  /\ op[c].at = "read" /\ op[c].kind = "create" /\ op'[c].at = "done"
  /\ UNCHANGED <<template, source, pdfs>>
  /\ \E d \in Docs :
       /\ ~Exists(d) /\ (\A e \in Calls : op[e].doc # d) /\ op'[c].doc = d
       /\ \A e \in Docs \ {d} : rows'[e] = rows[e]
       /\ rows'[d].status = "DRAFT" /\ rows'[d].by = c /\ rows'[d].minioKey = None

\* ... or a call writes to its own.
Rewrites(c) ==
  /\ op[c].doc \in Docs /\ Exists(op[c].doc) /\ op[c].kind \in OfDocument
  /\ op[c].at \in Reading /\ op'[c].at = "done"
  /\ op[c].at = "stored" <=> op[c].kind = "generatePdf"
  /\ UNCHANGED <<template, source, pdfs>>
  /\ \A e \in Docs \ {op[c].doc} : rows'[e] = rows[e]
  /\ op[c].kind = "delete" => rows'[op[c].doc] = NoRow
  /\ op[c].kind # "delete" =>
       /\ rows'[op[c].doc].by = rows[op[c].doc].by
       /\ rows'[op[c].doc].minioKey =
            IF op[c].kind = "generatePdf" THEN c ELSE rows[op[c].doc].minioKey
       /\ rows'[op[c].doc].status =
            IF op[c].kind = "finalize" THEN "FINALIZED" ELSE rows[op[c].doc].status

OnlyTheKey(c) ==
  op[c].kind = "generatePdf" => rows'[op[c].doc] = [rows[op[c].doc] EXCEPT !.minioKey = c]

LEMMA RowSteps ==
  ASSUME IInv, NEW c \in Calls, Step(c)
  PROVE  /\ rows' \in [Docs -> Row] /\ (rows' = rows \/ Creates(c) \/ Rewrites(c))
         /\ WriteRow(c) /\ op'[c].at = "done" => Rewrites(c)
         /\ rows' # rows /\ Rewrites(c) => OnlyTheKey(c)
<1> USE Names
<1>a. rows \in [Docs -> Row] /\ op \in [Calls -> Call] /\ Placed(c)
  BY Types DEF IInv
<1>1. CASE Create(c) /\ rows' # rows
  <2>1. PICK d \in Docs :
          /\ ~Exists(d) /\ (\A e \in Calls : op[e].doc # d)
          /\ rows' = [rows EXCEPT ![d] = [status |-> "DRAFT", data |-> c, by |-> c,
                                          minioKey |-> None]]
          /\ op' = [op EXCEPT ![c].at = "done", ![c].doc = d]
    BY <1>1 DEF Create
  <2>2. op'[c].at = "done" /\ op'[c].doc = d
    BY <1>a, <2>1 DEF Call
  <2>3. [status |-> "DRAFT", data |-> c, by |-> c, minioKey |-> None] \in Row
    BY DEF Row, Keys
  <2>4. Creates(c)
    BY <1>1, <1>a, <2>1, <2>2 DEF Create, At, Creates
  <2>5. ~WriteRow(c)
    BY <1>1 DEF Create, WriteRow, At
  <2>6. ~Rewrites(c)
    BY <2>4 DEF Creates, Rewrites, OfDocument
  <2>7. QED
    BY <1>a, <2>1, <2>3, <2>4, <2>5, <2>6
<1>2. CASE WriteRow(c) /\ op'[c].at = "done"
  <2>1. /\ op[c].at \in {"read", "stored", "dropped"} /\ op[c].kind \in OfDocument
        /\ op[c].at = "stored" <=> op[c].kind = "generatePdf"
        /\ op[c].doc \in Docs /\ UNCHANGED <<template, source, pdfs>>
    BY <1>2, <1>a DEF WriteRow, At, OfDocument, Placed
  <2>2. /\ Exists(op[c].doc) /\ rows' = [rows EXCEPT ![op[c].doc] = Written(c)]
        /\ op'[c].at = "done"
    BY <1>2, <1>a DEF WriteRow, Goto, Call
  <2>3. Written(c) \in Row
    <3>1. rows[op[c].doc] \in Row
      BY <1>a, <2>1
    <3>2. CASE op[c].kind = "update"
      BY <3>1, <3>2 DEF Written, Row, Keys
    <3>3. CASE op[c].kind = "finalize"
      BY <3>1, <3>3 DEF Written, Row
    <3>4. CASE op[c].kind = "generatePdf"
      BY <3>1, <3>4 DEF Written, Row, Keys
    <3>5. CASE op[c].kind = "delete"
      BY <3>5 DEF Written
    <3>6. QED
      BY <2>1, <3>2, <3>3, <3>4, <3>5 DEF OfDocument
  <2>4. rows' \in [Docs -> Row] /\ rows'[op[c].doc] = Written(c)
    BY <1>a, <2>1, <2>2, <2>3
  <2>5. Rewrites(c)
    BY <1>a, <2>1, <2>2, <2>4, Writes DEF Reading, Rewrites
  <2>6. OnlyTheKey(c)
    BY <1>a, <2>1, <2>2, <2>4, Writes DEF OnlyTheKey
  <2>7. QED
    BY <2>4, <2>5, <2>6
<1>3. WriteRow(c) /\ op'[c].at # "done" => rows' = rows
  BY <1>a DEF WriteRow, Goto, Call
<1>4. QED
  BY <1>1, <1>2, <1>3, <1>a
     DEF Step, Ask, ReadDocument, ReadTemplate, Create, WriteRow, Render, DropPdf,
         DropFails, UploadPdf, CreateTemplate, FindHbs, DropHbs, DeleteTemplate,
         StoreHbs, NameHbs, Fails

\* PDFs come with their call, and one at a time is removed by a call that says so.
LEMMA PdfSteps ==
  ASSUME IInv, NEW c \in Calls, Step(c)
  PROVE  \/ pdfs' = pdfs
         \/ /\ pdfs' = pdfs \cup {c} /\ op[c].at = "dropped" /\ op[c].kind = "generatePdf"
            /\ op'[c].at = "stored"
         \/ /\ pdfs' = pdfs \ {op[c].row.minioKey} /\ op'[c].dropped /\ op'[c].at = "dropped"
            /\ op[c].at \in {"read", "found"} /\ op[c].kind \in {"generatePdf", "delete"}
<1>a. op \in [Calls -> Call]
  BY Types DEF IInv
<1>1. CASE UploadPdf(c)
  BY <1>1, <1>a DEF UploadPdf, At, Goto, Call
<1>2. CASE DropPdf(c) /\ pdfs' # pdfs
  <2>1. /\ DeleteOld(c) /\ op' = [op EXCEPT ![c].at = "dropped", ![c].dropped = TRUE]
        /\ op[c].at \in {"read", "found"} /\ op[c].kind \in {"generatePdf", "delete"}
    BY <1>2 DEF DropPdf, At
  <2>2. op'[c].at = "dropped" /\ op'[c].dropped
    BY <1>a, <2>1 DEF Call
  <2>3. QED
    BY <2>1, <2>2 DEF DeleteOld
<1>3. QED
  BY <1>1, <1>2
     DEF Step, Ask, ReadDocument, ReadTemplate, Create, WriteRow, Render, DropPdf,
         DropFails, UploadPdf, CreateTemplate, FindHbs, DropHbs, DeleteTemplate,
         StoreHbs, NameHbs, Fails

\* Every step keeps the shape of rows, objects and calls.
LEMMA TypeInductive ==
  ASSUME IInv, NEW c \in Calls, Step(c)
  PROVE  TypeOK'
<1> USE Names
<1>a. /\ rows \in [Docs -> Row] /\ op \in [Calls -> Call] /\ template \in Template
      /\ pdfs \subseteq Calls \cup {Seeded} /\ source \in Keys
  BY Types DEF IInv
<1>1. rows' \in [Docs -> Row] /\ op' \in [Calls -> Call]
  BY RowSteps, CallsInductive DEF Remembers
<1>2. pdfs' \subseteq Calls \cup {Seeded}
  BY <1>a, PdfSteps
<1>3. template' \in Template
  <2>1. CASE CreateTemplate(c)
    <3>1. [id |-> c, hbsTemplate |-> FALSE] \in Template
      BY DEF Template
    <3>2. QED
      BY <1>a, <2>1, <3>1 DEF CreateTemplate
  <2>2. CASE DeleteTemplate(c)
    BY <1>a, <2>2 DEF DeleteTemplate
  <2>3. CASE NameHbs(c)
    BY <1>a, <2>3 DEF NameHbs, Template
  <2>4. QED
    BY <1>a, <2>1, <2>2, <2>3
       DEF Step, Ask, ReadDocument, ReadTemplate, Create, WriteRow, Render, DropPdf,
           DropFails, UploadPdf, FindHbs, DropHbs, StoreHbs, Fails
<1>4. source' \in Keys
  BY <1>a
     DEF Step, Ask, ReadDocument, ReadTemplate, Create, WriteRow, Render, DropPdf,
         DropFails, UploadPdf, CreateTemplate, FindHbs, DropHbs, DeleteTemplate,
         StoreHbs, NameHbs, Fails, Keys
<1>5. QED
  BY <1>1, <1>2, <1>3, <1>4 DEF TypeOK, Keys, Template, Call

-----------------------------------------------------------------------------
\* What calls know.

\* A call that ends was under way, and one that was under way has not ended.
LEMMA EndedGrows ==
  ASSUME IInv, NEW c \in Calls, Step(c)
  PROVE  /\ Ended \subseteq Ended' /\ c \notin Ended
         /\ \A e \in Calls : e \in Ended' /\ e # c => e \in Ended
BY CallsInductive DEF Remembers, OthersStay, Ended

\* Only a call that begins looks around.
LEMMA HistorySteps ==
  ASSUME IInv, NEW c \in Calls, Step(c)
  PROVE  /\ before' \in [Calls -> SUBSET Calls] /\ final' \in [Calls -> SUBSET Docs]
         /\ \A e \in Calls \ {c} : before'[e] = before[e] /\ final'[e] = final[e]
         /\ op[c].at # "idle" => before' = before /\ final' = final
         /\ op[c].at = "idle" =>
              /\ before'[c] = Ended /\ op'[c].at = "asked" /\ op'[c].row = NoRow
              /\ final'[c] = {d \in Docs : rows[d].status = "FINALIZED"}
              /\ op'[c].template = NoTemplate /\ ~op'[c].dropped /\ op'[c].held = {}
              /\ UNCHANGED <<rows, template, source, pdfs>>
<1>a. /\ before \in [Calls -> SUBSET Calls] /\ final \in [Calls -> SUBSET Docs]
      /\ op \in [Calls -> Call]
  BY Types DEF IInv, Histories
<1>1. CASE Ask(c)
  <2>1. PICK k \in Kinds, d \in Docs \cup {None} :
          op' = [op EXCEPT ![c] = [Idle EXCEPT !.at = "asked", !.kind = k, !.doc = d]]
    BY <1>1 DEF Ask
  <2>2. /\ op'[c].at = "asked" /\ op'[c].row = NoRow /\ op'[c].template = NoTemplate
        /\ ~op'[c].dropped /\ op'[c].held = {}
    BY <1>a, <2>1 DEF Idle
  <2>3. /\ Ended \subseteq Calls /\ op[c].at = "idle"
        /\ {e \in Docs : rows[e].status = "FINALIZED"} \subseteq Docs
        /\ before' = [before EXCEPT ![c] = Ended]
        /\ final' = [final EXCEPT ![c] = {e \in Docs : rows[e].status = "FINALIZED"}]
        /\ UNCHANGED <<rows, template, source, pdfs>>
    BY <1>1 DEF Ask, Ended
  <2>4. QED
    BY <1>a, <2>2, <2>3
<1>2. CASE ~Ask(c)
  BY <1>2, <1>a
     DEF Step, ReadDocument, ReadTemplate, Create, WriteRow, Render, DropPdf,
         DropFails, UploadPdf, CreateTemplate, FindHbs, DropHbs, DeleteTemplate,
         StoreHbs, NameHbs, Fails, At, history
<1>3. QED
  BY <1>1, <1>2

\* Histories is kept.
LEMMA HistoriesInductive ==
  ASSUME IInv, NEW c \in Calls, Step(c)
  PROVE  Histories'
<1>1. \A e \in Calls : before'[e] \subseteq Ended'
  BY EndedGrows, HistorySteps DEF IInv, Histories
<1>2. QED
  BY <1>1, HistorySteps DEF Histories

\* How a call comes to its next place, and what it has read by then.
Comes(c) ==
  /\ op'[c].at = "asked" => op[c].at = "idle"
  /\ op'[c].at = "read" =>
       /\ op[c].at = "asked" /\ op[c].kind \in OfDocument \cup OfTemplate
       /\ op[c].kind \in OfDocument =>
            op'[c].row = rows[op[c].doc] /\ rows[op[c].doc].status \in Accepts(c)
       /\ op[c].kind \in OfTemplate => op'[c].template = template /\ template.id # None
       /\ op[c].kind = "deleteTemplate" => Unused(c)
       /\ UNCHANGED <<rows, template, source, pdfs>>
  /\ op'[c].at = "found" =>
       op[c].at = "read" /\ op[c].kind \in {"generatePdf", "deleteTemplate"}
  /\ op'[c].at = "dropped" =>
       /\ op[c].at \in {"read", "found"}
       /\ op[c].kind \in {"generatePdf", "delete", "deleteTemplate"}
       /\ op[c].kind = "generatePdf" => op[c].at = "found"
  /\ op'[c].at = "stored" =>
       \/ op[c].at = "dropped" /\ op[c].kind = "generatePdf" /\ pdfs' = pdfs \cup {c}
       \/ op[c].at = "read" /\ op[c].kind = "uploadHbs" /\ source' = c
  /\ op'[c].dropped => op'[c].at = "dropped" \/ op[c].dropped
  /\ op'[c].at = "done" /\ op[c].kind \in OfDocument => WriteRow(c) /\ Exists(op[c].doc)

LEMMA CallComes ==
  ASSUME IInv, NEW c \in Calls, Step(c)
  PROVE  Comes(c)
<1>a. op \in [Calls -> Call] /\ Placed(c) /\ op[c] \in Call
  BY Types DEF IInv
<1>1. CASE Ask(c)
  BY <1>1, HistorySteps DEF Ask, Comes
<1>2. CASE ReadDocument(c)
  <2>1. /\ op'[c].row = rows[op[c].doc] /\ op'[c].dropped = op[c].dropped
        /\ op'[c].at = "read" => rows[op[c].doc].status \in Accepts(c)
        /\ op'[c].at \in {"read", "refused"}
    BY <1>2, <1>a DEF ReadDocument, Call
  <2>2. /\ op[c].at = "asked" /\ op[c].kind \in OfDocument
        /\ UNCHANGED <<rows, template, source, pdfs>>
    BY <1>2 DEF ReadDocument, At, OfDocument
  <2>3. QED
    BY <2>1, <2>2 DEF Comes, OfDocument, OfTemplate
<1>3. CASE ReadTemplate(c)
  <2>1. /\ op'[c].template = template /\ op'[c].dropped = op[c].dropped
        /\ op'[c].at = "read" => template.id # None /\ (op[c].kind = "deleteTemplate" => Unused(c))
        /\ op'[c].at \in {"read", "refused"}
    BY <1>3, <1>a DEF ReadTemplate, Call
  <2>2. /\ op[c].at = "asked" /\ op[c].kind \in OfTemplate
        /\ UNCHANGED <<rows, template, source, pdfs>>
    BY <1>3 DEF ReadTemplate, At, OfTemplate
  <2>3. QED
    BY <2>1, <2>2 DEF Comes, OfDocument, OfTemplate
<1>4. CASE WriteRow(c)
  <2>1. op'[c].at \in {"done", "refused"} /\ op'[c].dropped = op[c].dropped
    BY <1>4, <1>a DEF WriteRow, Goto, Call
  <2>2. op'[c].at = "done" => Exists(op[c].doc)
    BY <1>4, <1>a DEF WriteRow, Goto, Call
  <2>3. QED
    BY <1>4, <2>1, <2>2 DEF Comes
<1>5. CASE Create(c)
  <2>1. op'[c].at \in {"done", "refused"} /\ op'[c].dropped = op[c].dropped
    BY <1>5, <1>a DEF Create, Goto, Call
  <2>2. op[c].kind \notin OfDocument
    BY <1>5 DEF Create, At, OfDocument
  <2>3. QED
    BY <2>1, <2>2 DEF Comes
<1>6. CASE Render(c) \/ DropFails(c) \/ UploadPdf(c) \/ CreateTemplate(c)
           \/ StoreHbs(c) \/ NameHbs(c) \/ Fails(c)
  <2>1. op'[c].dropped = op[c].dropped
    BY <1>6, <1>a DEF Render, DropFails, UploadPdf, CreateTemplate, StoreHbs, NameHbs,
                      Fails, Goto, Call
  <2>2. CASE Render(c) \/ NameHbs(c) \/ CreateTemplate(c) \/ Fails(c)
    <3>1. op'[c].at \in {"found", "refused", "done"}
      BY <2>2, <1>a DEF Render, CreateTemplate, NameHbs, Fails, Goto, Call
    <3>2. op'[c].at = "found" => op[c].at = "read" /\ op[c].kind = "generatePdf"
      BY <2>2, <1>a DEF Render, CreateTemplate, NameHbs, Fails, At, Goto, Call
    <3>3. op'[c].at = "done" => op[c].kind \notin OfDocument
      BY <2>2, <1>a DEF Render, CreateTemplate, NameHbs, Fails, At, Goto, Call, OfDocument
    <3>4. QED
      BY <2>1, <3>1, <3>2, <3>3 DEF Comes
  <2>3. CASE DropFails(c)
    <3>1. op'[c].at = "dropped"
      BY <2>3, <1>a DEF DropFails, Goto, Call
    <3>2. QED
      BY <2>1, <2>3, <3>1 DEF Comes, DropFails, At
  <2>4. CASE UploadPdf(c) \/ StoreHbs(c)
    <3>1. op'[c].at = "stored"
      BY <2>4, <1>a DEF UploadPdf, StoreHbs, Goto, Call
    <3>2. QED
      BY <2>1, <2>4, <3>1 DEF Comes, UploadPdf, StoreHbs, At
  <2>5. QED
    BY <1>6, <2>2, <2>3, <2>4
<1>7. CASE DropPdf(c) \/ DropHbs(c)
  <2>1. op'[c].at = "dropped"
    BY <1>7, <1>a DEF DropPdf, DropHbs, Goto, Call
  <2>2. QED
    BY <1>7, <2>1 DEF Comes, DropPdf, DropHbs, At
<1>8. CASE FindHbs(c)
  <2>1. op'[c].at = "found" /\ op'[c].dropped = op[c].dropped
    BY <1>8, <1>a DEF FindHbs, Call
  <2>2. QED
    BY <1>8, <2>1 DEF Comes, FindHbs, At
<1>9. CASE DeleteTemplate(c)
  <2>1. op'[c].at \in {"done", "refused"} /\ op'[c].dropped = op[c].dropped
    BY <1>9, <1>a DEF DeleteTemplate, Goto, Call
  <2>2. op[c].kind \notin OfDocument
    BY <1>9 DEF DeleteTemplate, At, OfDocument
  <2>3. QED
    BY <2>1, <2>2 DEF Comes
<1>10. QED
  BY <1>1, <1>2, <1>3, <1>4, <1>5, <1>6, <1>7, <1>8, <1>9 DEF Step

\* A call comes to its place with the kind, the document and the template for it.
LEMMA PlacedInductive ==
  ASSUME IInv, NEW c \in Calls, Step(c)
  PROVE  \A e \in Calls : Placed(e)'
<1> USE Names
<1>a. op \in [Calls -> Call] /\ Placed(c) /\ op[c] \in Call /\ Remembers(c) /\ Comes(c)
  BY Types, CallsInductive, CallComes DEF IInv
<1>1. Placed(c)'
  <2>1. CASE Ask(c)
    <3>1. PICK k \in Kinds, d \in Docs \cup {None} :
            /\ (d = None) = (k \in {"create", "createTemplate", "deleteTemplate", "uploadHbs"})
            /\ op' = [op EXCEPT ![c] = [Idle EXCEPT !.at = "asked", !.kind = k, !.doc = d]]
      BY <2>1 DEF Ask
    <3>2. /\ op'[c].at = "asked" /\ op'[c].row = NoRow /\ ~op'[c].dropped
          /\ op'[c].kind = k /\ op'[c].doc = d
      BY <1>a, <3>1 DEF Idle
    <3>3. /\ k \in OfDocument => d # None
          /\ k \in {"create", "createTemplate", "deleteTemplate", "uploadHbs"} => d = None
      BY <3>1 DEF OfDocument
    <3>4. QED
      BY <3>2, <3>3 DEF Placed, Reading
  <2>2. CASE op[c].at # "idle"
    <3>1. op'[c].kind \in OfTemplate => op'[c].row = NoRow
      <4>1. CASE op[c].at \in Reading
        BY <1>a, <2>2, <4>1 DEF Remembers, Placed
      <4>2. CASE op[c].at = "asked" /\ op[c].kind \in OfTemplate
        <5>1. ReadTemplate(c) \/ Fails(c)
          BY <4>2 DEF Step, Ask, ReadDocument, Create, WriteRow, Render, DropPdf,
               DropFails, UploadPdf, CreateTemplate, FindHbs, DropHbs, DeleteTemplate,
               StoreHbs, NameHbs, At, OfTemplate
        <5>2. op'[c].row = op[c].row
          BY <1>a, <5>1 DEF ReadTemplate, Fails, Goto, Call
        <5>3. QED
          BY <1>a, <4>2, <5>2 DEF Placed
      <4>3. QED
        BY <1>a, <2>2, <4>1, <4>2 DEF Remembers, Reading, Call, Places
    <3>2. op'[c].at \in Reading /\ op'[c].kind \in OfTemplate => op'[c].template.id # None
      <4>1. op'[c].at \in {"found", "dropped", "stored"} => op[c].at \in Reading
        BY <1>a DEF Comes, Reading
      <4>2. op[c].at \in Reading /\ op'[c].kind \in OfTemplate => op'[c].template.id # None
        BY <1>a, <2>2 DEF Remembers, Placed
      <4>3. op'[c].at = "read" /\ op'[c].kind \in OfTemplate => op'[c].template.id # None
        BY <1>a, <2>2 DEF Comes, Remembers
      <4>4. QED
        BY <4>1, <4>2, <4>3 DEF Reading
    <3>3. op'[c].at \in {"asked", "read", "found"} => ~op'[c].dropped
      BY <1>a, <2>2 DEF Comes, Placed, Remembers
    <3>4. /\ op'[c].kind \in Kinds /\ op'[c].at # "idle"
          /\ op'[c].kind \in OfDocument => op'[c].doc \in Docs
      BY <1>a, <2>2 DEF Placed, Remembers, OfDocument
    <3>5. /\ op'[c].at = "found" => op'[c].kind \in {"generatePdf", "deleteTemplate"}
          /\ op'[c].at = "dropped" => op'[c].kind \in {"generatePdf", "delete", "deleteTemplate"}
          /\ op'[c].at = "stored" => op'[c].kind \in {"generatePdf", "uploadHbs"}
      BY <1>a, <2>2 DEF Comes, Remembers
    <3>6. op'[c].kind \in {"createTemplate", "deleteTemplate", "uploadHbs"} =>
            op'[c].doc = None
      BY <1>a, <2>2 DEF Placed, Remembers
    <3>7. op'[c].kind = "create" /\ op'[c].at # "done" => op'[c].doc = None
      <4>1. op[c].kind = "create" /\ op'[c].at # "done" => op'[c].doc = op[c].doc
        <5>1. CASE Create(c)
          BY <1>a, <5>1 DEF Create, Goto, Call
        <5>2. CASE ReadTemplate(c) \/ Fails(c)
          BY <1>a, <5>2 DEF ReadTemplate, Fails, Goto, Call
        <5>3. QED
          BY <2>2, <5>1, <5>2
             DEF Step, Ask, ReadDocument, WriteRow, Render, DropPdf, DropFails, UploadPdf,
                 CreateTemplate, FindHbs, DropHbs, DeleteTemplate, StoreHbs, NameHbs, At
      <4>2. QED
        BY <1>a, <2>2, <4>1 DEF Placed, Remembers
    <3>8. QED
      BY <3>1, <3>2, <3>3, <3>4, <3>5, <3>6, <3>7 DEF Placed
  <2>3. QED
    BY <2>1, <2>2, HistorySteps
       DEF Step, ReadDocument, ReadTemplate, Create, WriteRow, Render, DropPdf,
           DropFails, UploadPdf, CreateTemplate, FindHbs, DropHbs, DeleteTemplate,
           StoreHbs, NameHbs, Fails, At
<1>2. QED
  BY <1>1, <1>a DEF IInv, Remembers, OthersStay, Placed

\* NothingHeld and ByIsKnown are kept.
LEMMA HeldInductive ==
  ASSUME IInv, NEW c \in Calls, Step(c)
  PROVE  NothingHeld' /\ ByIsKnown'
<1> USE Names
<1>a. op \in [Calls -> Call] /\ Placed(c) /\ Remembers(c) /\ NothingHeld /\ ByIsKnown
  BY Types, CallsInductive DEF IInv
<1>1. NothingHeld'
  <2>1. op'[c].kind # "deleteTemplate" => op'[c].held = {}
    BY <1>a, HistorySteps DEF Remembers, NothingHeld
  <2>2. QED
    BY <1>a, <2>1 DEF Remembers, OthersStay, NothingHeld
<1>2. ByIsKnown'
  <2>1. CASE Creates(c)
    BY <1>a, <2>1 DEF Creates, ByIsKnown, Exists
  <2>2. CASE Rewrites(c)
    BY <1>a, <2>2 DEF Rewrites, ByIsKnown, Exists
  <2>3. CASE rows' = rows
    BY <1>a, <2>3 DEF ByIsKnown, Exists
  <2>4. QED
    BY <2>1, <2>2, <2>3, RowSteps
<1>3. QED
  BY <1>1, <1>2

\* What a call has read of its document it read in one piece.
LEMMA RowsRead ==
  ASSUME IInv, NEW c \in Calls, Step(c)
  PROVE  \/ op'[c].row = op[c].row
         \/ op'[c].row = NoRow
         \/ op[c].kind \in OfDocument /\ op[c].at = "asked" /\ op'[c].row = rows[op[c].doc]
<1>a. op \in [Calls -> Call] /\ Remembers(c)
  BY Types, CallsInductive DEF IInv
<1>1. CASE op[c].at \in Reading
  BY <1>a, <1>1 DEF Remembers, Reading
<1>2. CASE op[c].at = "idle"
  BY <1>2, HistorySteps
<1>3. CASE ReadDocument(c)
  BY <1>a, <1>3 DEF ReadDocument, At, OfDocument, Call
<1>4. CASE ReadTemplate(c) \/ CreateTemplate(c) \/ Fails(c)
  BY <1>a, <1>4 DEF ReadTemplate, CreateTemplate, Fails, Goto, Call
<1>5. QED
  BY <1>1, <1>2, <1>3, <1>4
     DEF Step, Ask, Create, WriteRow, Render, DropPdf, DropFails, UploadPdf, FindHbs,
         DropHbs, DeleteTemplate, StoreHbs, NameHbs, At, Reading

MadeNext(k, d) == k \in Calls =>
  op'[k].at = "done" /\ op'[k].kind = "generatePdf" /\ op'[k].doc = d

\* A call that has written its key stays what it was.
LEMMA MadeStays ==
  ASSUME IInv, NEW c \in Calls, Step(c), NEW k, NEW d, Made(k, d)
  PROVE  MadeNext(k, d)
BY CallsInductive DEF Remembers, OthersStay, Made, MadeNext

\* KeysOfDocs is kept.
LEMMA KeysInductive ==
  ASSUME IInv, NEW c \in Calls, Step(c)
  PROVE  KeysOfDocs'
<1> USE Names
<1>a. op \in [Calls -> Call] /\ Placed(c) /\ Remembers(c) /\ KeysOfDocs
  BY Types, CallsInductive DEF IInv
<1>1. \A d \in Docs : MadeNext(rows'[d].minioKey, d)
  <2> SUFFICES ASSUME NEW d \in Docs PROVE MadeNext(rows'[d].minioKey, d)
    OBVIOUS
  <2>1. MadeNext(rows[d].minioKey, d)
    BY <1>a, MadeStays DEF KeysOfDocs
  <2>2. MadeNext(None, d)
    BY DEF MadeNext
  <2>3. CASE Creates(c)
    BY <2>1, <2>2, <2>3 DEF Creates
  <2>4. CASE Rewrites(c)
    <3>1. op[c].kind = "generatePdf" => MadeNext(c, op[c].doc)
      BY <1>a, <2>4 DEF Remembers, Rewrites, MadeNext, Reading
    <3>2. QED
      BY <2>1, <2>2, <2>4, <3>1 DEF Rewrites
  <2>5. QED
    BY <2>1, <2>3, <2>4, RowSteps
<1>2. \A e \in Calls : MadeNext(op'[e].row.minioKey, op'[e].doc)
  <2>1. \A e \in Calls \ {c} : MadeNext(op'[e].row.minioKey, op'[e].doc)
    BY <1>a, MadeStays DEF Remembers, OthersStay, KeysOfDocs
  <2>2. op'[c].row = NoRow => MadeNext(op'[c].row.minioKey, op'[c].doc)
    BY DEF MadeNext
  <2>3. CASE op'[c].row = op[c].row /\ op[c].at # "idle" /\ op[c].kind # "create"
    <3>1. MadeNext(op[c].row.minioKey, op[c].doc)
      BY <1>a, MadeStays DEF KeysOfDocs
    <3>2. op'[c].doc = op[c].doc
      BY <1>a, <2>3 DEF Remembers
    <3>3. QED
      BY <2>1, <2>3, <3>1, <3>2
  <2>4. CASE op[c].kind \in OfDocument /\ op[c].at = "asked" /\ op'[c].row = rows[op[c].doc]
    <3>1. op[c].doc \in Docs /\ op'[c].doc = op[c].doc
      BY <1>a, <2>4 DEF Placed, Remembers, OfDocument
    <3>2. MadeNext(rows[op[c].doc].minioKey, op[c].doc)
      BY <1>a, <3>1, MadeStays DEF KeysOfDocs
    <3>3. QED
      BY <2>1, <2>4, <3>1, <3>2
  <2>5. op[c].kind = "create" /\ op'[c].row = op[c].row => op'[c].row = NoRow
    BY <1>a DEF Placed, OfTemplate
  <2>6. op[c].at = "idle" => op'[c].row = NoRow
    BY HistorySteps
  <2>7. QED
    BY <2>1, <2>2, <2>3, <2>4, <2>5, <2>6, RowsRead
<1>3. PICK s \in Docs \cup {None} :
        /\ \A d \in Docs : rows[d].minioKey = Seeded => d = s
        /\ \A e \in Calls : op[e].row.minioKey = Seeded => op[e].doc = s
  BY <1>a DEF KeysOfDocs
<1>4. \A d \in Docs : rows'[d].minioKey = Seeded => d = s
  BY <1>3, RowSteps DEF Creates, Rewrites
<1>5. \A e \in Calls : op'[e].row.minioKey = Seeded => op'[e].doc = s
  <2>1. \A e \in Calls \ {c} : op'[e].row.minioKey = Seeded => op'[e].doc = s
    BY <1>a, <1>3 DEF Remembers, OthersStay
  <2>2. op[c].kind = "create" => op[c].row = NoRow
    BY <1>a DEF Placed, OfTemplate
  <2>3. CASE op[c].at # "idle" /\ op'[c].row.minioKey = Seeded
    <3>1. op[c].kind # "create" /\ op'[c].doc = op[c].doc
      BY <1>a, <2>2, <2>3, RowsRead DEF Remembers, OfDocument
    <3>2. op[c].doc = s
      BY <1>3, <1>a, <2>3, RowsRead DEF Placed
    <3>3. QED
      BY <2>1, <3>1, <3>2
  <2>4. QED
    BY <2>1, <2>3, HistorySteps
<1>6. QED
  BY <1>1, <1>2, <1>4, <1>5 DEF KeysOfDocs, Made, MadeNext

\* A call of a document says that it has removed a PDF when it does.
LEMMA Drops ==
  ASSUME IInv, NEW c \in Calls, Step(c), op'[c].dropped, ~op[c].dropped,
         op[c].kind \in OfDocument
  PROVE  pdfs' = pdfs \ {op[c].row.minioKey}
<1>1. CASE DropPdf(c)
  <2>1. \/ DeleteOld(c)
        \/ Goto(c, "dropped")
    BY <1>1 DEF DropPdf
  <2>2. op \in [Calls -> Call] /\ (Goto(c, "dropped") => ~op'[c].dropped)
    BY Types DEF IInv, Goto, Call
  <2>3. QED
    BY <2>1, <2>2 DEF DeleteOld
<1>2. CASE ~DropPdf(c)
  <2>1. op[c].at \in {"read", "found"} /\ op'[c].at = "dropped"
    BY CallComes DEF Comes
  <2>2. ~DropFails(c)
    BY Types DEF IInv, DropFails, Goto, Call
  <2>3. ~DropHbs(c)
    BY DEF DropHbs, At, OfDocument
  <2>4. ~FindHbs(c) /\ ~DeleteTemplate(c) /\ ~StoreHbs(c) /\ ~NameHbs(c)
    BY DEF FindHbs, DeleteTemplate, StoreHbs, NameHbs, At, OfDocument
  <2>5. op \in [Calls -> Call]
    BY Types DEF IInv
  <2>6. ~Render(c) /\ ~Fails(c) /\ ~WriteRow(c)
    BY <2>1, <2>5 DEF Render, Fails, WriteRow, Goto, Call
  <2>7. QED
    BY <1>2, <2>1, <2>2, <2>3, <2>4, <2>6
       DEF Step, Ask, ReadDocument, ReadTemplate, Create, UploadPdf, CreateTemplate, At,
           OfDocument
<1>3. QED
  BY <1>1, <1>2

\* PdfsOfCalls is kept.
LEMMA PdfsInductive ==
  ASSUME IInv, NEW c \in Calls, Step(c)
  PROVE  PdfsOfCalls'
<1> USE Names
<1>a. /\ op \in [Calls -> Call] /\ Placed(c) /\ Remembers(c) /\ KeysOfDocs /\ Histories
      /\ PdfsOfCalls /\ Comes(c)
  BY Types, CallsInductive, CallComes DEF IInv
<1>1. ASSUME NEW e \in Calls, op'[e].at = "stored", op'[e].kind = "generatePdf"
      PROVE  e \in pdfs'
  <2>1. CASE e = c
    BY <1>a, <1>1, <2>1, HistorySteps DEF Comes, Remembers
  <2>2. CASE e # c
    <3>1. op[e].at = "stored" /\ e \in pdfs
      BY <1>a, <1>1, <2>2 DEF Remembers, OthersStay, PdfsOfCalls
    <3>2. op[c].row.minioKey # e
      BY <1>a, <3>1 DEF KeysOfDocs, Made
    <3>3. QED
      BY <3>1, <3>2, PdfSteps
  <2>3. QED
    BY <2>1, <2>2
<1>2. ASSUME NEW e \in Calls, op'[e].dropped, op'[e].kind \in OfDocument
      PROVE  op'[e].row.minioKey \notin pdfs'
  <2>1. ASSUME op[e].dropped, op[e].kind \in OfDocument, op'[e].row = op[e].row
        PROVE  op'[e].row.minioKey \notin pdfs'
    <3>1. op[e].row.minioKey \notin pdfs
      BY <1>a, <2>1 DEF PdfsOfCalls
    <3>2. op[c].at = "dropped" => op[e].row.minioKey # c
      BY <1>a DEF KeysOfDocs, Made
    <3>3. QED
      BY <2>1, <3>1, <3>2, PdfSteps
  <2>2. CASE e # c
    BY <1>a, <1>2, <2>1, <2>2 DEF Remembers, OthersStay
  <2>3. CASE e = c /\ op[c].dropped
    <3>1. op[c].at \in Reading /\ op'[c].kind = op[c].kind
      BY <1>a, <2>3 DEF Placed, Remembers, Reading, Call, Places
    <3>2. QED
      BY <1>a, <1>2, <2>1, <2>3, <3>1 DEF Remembers, Reading
  <2>4. CASE e = c /\ ~op[c].dropped
    <3>1. op[c].at \in {"read", "found"} /\ op[c].kind \in OfDocument
      BY <1>a, <1>2, <2>4, HistorySteps DEF Comes, Remembers
    <3>2. op'[c].row = op[c].row
      BY <1>a, <3>1 DEF Remembers, Reading
    <3>3. QED
      BY <1>2, <2>4, <3>1, <3>2, Drops
  <2>5. QED
    BY <2>2, <2>3, <2>4
<1>3. ASSUME NEW e \in Calls, op'[e].at \in Reading, op'[e].kind \in OfDocument,
             rows'[op'[e].doc].minioKey \in before'[e]
      PROVE  op'[e].row.minioKey = rows'[op'[e].doc].minioKey
  <2>1. CASE e # c
    <3>1. /\ op'[e] = op[e] /\ before'[e] = before[e] /\ before[e] \subseteq Ended
          /\ op[e].doc \in Docs /\ c \notin Ended
      BY <1>a, <1>3, <2>1, HistorySteps, EndedGrows
         DEF Remembers, OthersStay, Histories, IInv, Placed, Reading
    <3>2. rows'[op[e].doc].minioKey = rows[op[e].doc].minioKey
      <4>1. CASE Creates(c)
        BY <3>1, <4>1 DEF Creates
      <4>2. CASE Rewrites(c)
        <5>1. rows'[op[e].doc].minioKey \in Calls \ {c}
          BY <1>3, <3>1 DEF Ended
        <5>2. QED
          BY <3>1, <4>2, <5>1 DEF Rewrites
      <4>3. QED
        BY <4>1, <4>2, RowSteps
    <3>3. QED
      BY <1>a, <1>3, <3>1, <3>2 DEF PdfsOfCalls
  <2>2. CASE e = c /\ op'[c].at = "read"
    <3>1. op[c].at = "asked" /\ op[c].kind \in OfDocument /\ op'[c].doc = op[c].doc
      BY <1>a, <1>3, <2>2 DEF Comes, Remembers, OfDocument
    <3>2. QED
      BY <1>a, <2>2, <3>1 DEF Comes
  <2>3. CASE e = c /\ op'[c].at # "read"
    <3>1. op[c].at \in Reading /\ op[c].kind \in OfDocument /\ op'[c].doc = op[c].doc
      BY <1>a, <1>3, <2>3 DEF Comes, Remembers, OfDocument, Reading
    <3>2. rows' = rows /\ before' = before /\ op'[c].row = op[c].row
      BY <1>a, <1>3, <2>3, <3>1, RowSteps, HistorySteps
         DEF Remembers, Reading, Creates, Rewrites
    <3>3. QED
      BY <1>a, <1>3, <2>3, <3>1, <3>2 DEF PdfsOfCalls
  <2>4. QED
    BY <2>1, <2>2, <2>3
<1>4. ASSUME NEW e \in Calls, e \in pdfs'
      PROVE  op'[e].at # "idle" /\ op'[e].kind = "generatePdf"
  BY <1>a, <1>4, PdfSteps DEF Remembers, OthersStay, PdfsOfCalls
<1>5. QED
  BY <1>1, <1>2, <1>3, <1>4 DEF PdfsOfCalls

\* PdfIsThere is kept: who removes a PDF owns up to it until the end.
LEMMA PdfIsThereInductive ==
  ASSUME IInv, NEW c \in Calls, Step(c)
  PROVE  PdfIsThere'
<1> USE Names
<1>a. /\ op \in [Calls -> Call] /\ Placed(c) /\ Remembers(c) /\ KeysOfDocs
      /\ PdfsOfCalls /\ Comes(c) /\ PdfIsThere
  BY Types, CallsInductive, CallComes DEF IInv
<1> SUFFICES ASSUME NEW d \in Docs, rows'[d].minioKey \notin pdfs' \cup {None}
             PROVE  \E e \in Calls : op'[e].doc = d /\ op'[e].dropped /\ op'[e].at # "done"
  BY DEF PdfIsThere
<1>1. op[c].dropped => op[c].at \in {"dropped", "stored"} /\ op[c].kind # "create"
  BY <1>a DEF Placed, Remembers, Call, Places
<1>2. rows'[d].minioKey = rows[d].minioKey
  <2>1. op[c].kind = "generatePdf" /\ op[c].at = "stored" => c \in pdfs
    BY <1>a DEF PdfsOfCalls
  <2>2. QED
    BY <2>1, RowSteps DEF Creates, Rewrites
<1>3. CASE rows[d].minioKey \in pdfs
  <2>1. /\ pdfs' = pdfs \ {op[c].row.minioKey} /\ op'[c].dropped /\ op'[c].at = "dropped"
        /\ op[c].kind \in {"generatePdf", "delete"} /\ op[c].at # "idle"
        /\ op[c].row.minioKey = rows[d].minioKey
    BY <1>2, <1>3, PdfSteps
  <2>2. op[c].doc = d
    <3>1. rows[d].minioKey \in Calls \cup {Seeded}
      BY <1>2, Types DEF IInv, Row, Keys
    <3>2. QED
      BY <1>a, <2>1, <3>1 DEF KeysOfDocs, Made
  <2>3. QED
    BY <1>a, <2>1, <2>2 DEF Remembers
<1>4. CASE rows[d].minioKey \notin pdfs
  <2>1. PICK e \in Calls : op[e].doc = d /\ op[e].dropped /\ op[e].at # "done"
    BY <1>a, <1>2, <1>4 DEF PdfIsThere
  <2>2. CASE e # c
    BY <1>a, <2>1, <2>2 DEF Remembers, OthersStay
  <2>3. CASE e = c
    <3>1. op'[c].doc = d /\ op'[c].dropped /\ op[c].kind \in {"generatePdf", "delete"}
      BY <1>a, <1>1, <2>1, <2>3 DEF Remembers, Placed
    <3>2. op'[c].at # "done"
      <4> SUFFICES ASSUME op'[c].at = "done" PROVE FALSE
        OBVIOUS
      <4>1. Rewrites(c)
        BY <1>a, <3>1, RowSteps DEF Comes, OfDocument
      <4>2. op[c].kind = "generatePdf" => c \in pdfs
        BY <1>a, <4>1 DEF PdfsOfCalls, Rewrites
      <4>3. rows'[d].minioKey = c \/ rows'[d].minioKey = None
        BY <2>1, <2>3, <3>1, <4>1 DEF Rewrites
      <4>4. QED
        BY <1>2, <1>4, <3>1, <4>1, <4>2, <4>3, <2>1, <2>3 DEF Rewrites
    <3>3. QED
      BY <3>1, <3>2
  <2>4. QED
    BY <2>2, <2>3
<1>5. QED
  BY <1>3, <1>4

\* StrayKnown is kept: who replaces a key that had been there when it began has
\* read this key.
LEMMA StrayInductive ==
  ASSUME IInv, NEW c \in Calls, Step(c)
  PROVE  StrayKnown'
<1> USE Names
<1>a. /\ op \in [Calls -> Call] /\ Placed(c) /\ Remembers(c) /\ KeysOfDocs /\ Comes(c)
      /\ PdfsOfCalls /\ Histories /\ StrayKnown /\ pdfs \subseteq Calls \cup {Seeded}
  BY Types, CallsInductive, CallComes DEF IInv
<1> SUFFICES ASSUME NEW k \in pdfs' \ {Seeded}, \A d \in Docs : rows'[d].minioKey # k,
                    op'[k].at = "done"
             PROVE  \E e \in Calls \ {k} :
                      /\ op'[e].doc = op'[k].doc /\ op'[e].at = "done"
                      /\ op'[e].kind \in {"generatePdf", "delete"}
                      /\ (e \notin before'[k] /\ k \notin before'[e]) \/ ~op'[e].dropped
  BY DEF StrayKnown, Overlap
<1>1. k \in Calls
  BY <1>a, PdfSteps
<1>2. k # c
  <2> SUFFICES ASSUME k = c PROVE FALSE
    OBVIOUS
  <2>1. op[c].kind = "generatePdf"
    BY <1>a, PdfSteps DEF PdfsOfCalls
  <2>2. Rewrites(c)
    BY <1>a, <2>1, RowSteps DEF Comes, OfDocument
  <2>3. QED
    BY <2>1, <2>2 DEF Rewrites
<1>3. op'[k] = op[k] /\ op[k].at = "done" /\ before'[k] = before[k] /\ k \in pdfs
  BY <1>a, <1>1, <1>2, PdfSteps, HistorySteps DEF Remembers, OthersStay
<1>4. CASE \A d \in Docs : rows[d].minioKey # k
  <2>1. PICK e \in Calls \ {k} : /\ op[e].doc = op[k].doc /\ op[e].at = "done"
                                 /\ op[e].kind \in {"generatePdf", "delete"}
                                 /\ Overlap(e, k) \/ ~op[e].dropped
    BY <1>a, <1>3, <1>4 DEF StrayKnown
  <2>2. e # c /\ op'[e] = op[e] /\ before'[e] = before[e]
    BY <1>a, <2>1, HistorySteps DEF Remembers, OthersStay
  <2>3. QED
    BY <1>3, <2>1, <2>2 DEF Overlap
<1>5. CASE \E d \in Docs : rows[d].minioKey = k
  <2>1. PICK d \in Docs : rows[d].minioKey = k
    BY <1>5
  <2>2. op[k].doc = d
    BY <1>a, <1>1, <2>1 DEF KeysOfDocs, Made
  <2>3. Rewrites(c) /\ op[c].doc = d /\ op[c].kind \in {"generatePdf", "delete"}
    BY <1>1, <2>1, <2>2, RowSteps DEF Creates, Rewrites, OfDocument
  <2>4. /\ op'[c].doc = d /\ op'[c].at = "done" /\ op'[c].dropped = op[c].dropped
        /\ op'[c].kind = op[c].kind /\ before'[c] = before[c]
    BY <1>a, <2>3, HistorySteps DEF Remembers, Rewrites, Reading
  <2>5. c \notin before[k]
    BY <1>a, <1>1, EndedGrows DEF Histories
  <2>6. k \in before[c] => ~op[c].dropped
    BY <1>a, <1>3, <2>1, <2>3 DEF PdfsOfCalls, Rewrites
  <2>7. QED
    BY <1>2, <1>3, <2>2, <2>3, <2>4, <2>5, <2>6
<1>6. QED
  BY <1>4, <1>5

\* The template comes, goes, or is given its object; which comes and goes too.
LEMMA TemplateSteps ==
  ASSUME IInv, NEW c \in Calls, Step(c)
  PROVE  /\ \/ template' = template
            \/ template' = [id |-> c, hbsTemplate |-> FALSE] /\ op'[c].at = "done"
            \/ template' = NoTemplate
            \/ /\ template' = [template EXCEPT !.hbsTemplate = TRUE]
               /\ template.id = op[c].template.id /\ source' = source
               /\ op[c].kind = "uploadHbs" /\ op[c].at = "stored"
         /\ \/ source' = source
            \/ source' = c
            \/ source' = None /\ op'[c].dropped /\ op'[c].at = "dropped"
               /\ op'[c].kind = "deleteTemplate"
         /\ op'[c].at = "done" /\ op[c].kind = "deleteTemplate" /\ op[c].at # "idle" =>
              template' = NoTemplate
         /\ op'[c].template.id \in {op[c].template.id, template.id, None}
<1> USE Names
<1>a. op \in [Calls -> Call] /\ Placed(c) /\ Remembers(c)
  BY Types, CallsInductive DEF IInv
<1>1. \/ template' = template
      \/ template' = [id |-> c, hbsTemplate |-> FALSE] /\ op'[c].at = "done"
      \/ template' = NoTemplate
      \/ /\ template' = [template EXCEPT !.hbsTemplate = TRUE]
         /\ template.id = op[c].template.id /\ source' = source
         /\ op[c].kind = "uploadHbs" /\ op[c].at = "stored"
  <2>1. CASE CreateTemplate(c)
    BY <1>a, <2>1 DEF CreateTemplate, Goto, Call
  <2>2. CASE DeleteTemplate(c)
    BY <2>2 DEF DeleteTemplate
  <2>3. CASE NameHbs(c)
    BY <2>3 DEF NameHbs, At
  <2>4. QED
    BY <2>1, <2>2, <2>3
       DEF Step, Ask, ReadDocument, ReadTemplate, Create, WriteRow, Render, DropPdf,
           DropFails, UploadPdf, FindHbs, DropHbs, StoreHbs, Fails
<1>2. \/ source' = source
      \/ source' = c
      \/ source' = None /\ op'[c].dropped /\ op'[c].at = "dropped"
         /\ op'[c].kind = "deleteTemplate"
  <2>1. CASE DropHbs(c)
    BY <1>a, <2>1 DEF DropHbs, At, Call
  <2>2. QED
    BY <2>1
       DEF Step, Ask, ReadDocument, ReadTemplate, Create, WriteRow, Render, DropPdf,
           DropFails, UploadPdf, CreateTemplate, FindHbs, DeleteTemplate, StoreHbs,
           NameHbs, Fails
<1>3. op'[c].at = "done" /\ op[c].kind = "deleteTemplate" /\ op[c].at # "idle" =>
        template' = NoTemplate
  <2>1. CASE ReadTemplate(c) \/ FindHbs(c) \/ DropHbs(c) \/ Fails(c)
    <3>1. op'[c].at # "done"
      BY <1>a, <2>1 DEF ReadTemplate, FindHbs, DropHbs, Fails, Goto, Call
    <3>2. QED
      BY <3>1
  <2>2. CASE DeleteTemplate(c)
    BY <1>a, <2>2 DEF DeleteTemplate, Goto, Call
  <2>3. QED
    BY <2>1, <2>2
       DEF Step, Ask, ReadDocument, Create, WriteRow, Render, DropPdf, DropFails,
           UploadPdf, CreateTemplate, StoreHbs, NameHbs, At
<1>4. op'[c].template.id \in {op[c].template.id, template.id, None}
  <2>1. CASE op[c].at = "idle"
    BY <2>1, HistorySteps
  <2>2. CASE op[c].at \in Reading
    BY <1>a, <2>2 DEF Remembers, Reading
  <2>3. CASE ReadDocument(c) \/ ReadTemplate(c)
    BY <1>a, <2>3 DEF ReadDocument, ReadTemplate, Call
  <2>4. CASE CreateTemplate(c) \/ Fails(c)
    BY <1>a, <2>4 DEF CreateTemplate, Fails, Goto, Call
  <2>5. QED
    BY <2>1, <2>2, <2>3, <2>4
       DEF Step, Ask, Create, WriteRow, Render, DropPdf, DropFails, UploadPdf, FindHbs,
           DropHbs, DeleteTemplate, StoreHbs, NameHbs, At, Reading
<1>5. QED
  BY <1>1, <1>2, <1>3, <1>4

DroppingNext == \E c \in Calls :
  op'[c].kind = "deleteTemplate" /\ op'[c].dropped /\ op'[c].at # "done"

\* Who removes the object of the template owns up to it, or takes the template too.
LEMMA DroppingStays ==
  ASSUME IInv, NEW c \in Calls, Step(c), Dropping, template' # NoTemplate
  PROVE  DroppingNext
<1>1. PICK e \in Calls : op[e].kind = "deleteTemplate" /\ op[e].dropped /\ op[e].at # "done"
  BY DEF Dropping
<1>2. op[e].at # "idle"
  BY <1>1 DEF IInv, Placed
<1>3. QED
  BY <1>1, <1>2, CallsInductive, TemplateSteps DEF Remembers, OthersStay, DroppingNext

\* TemplateKnown is kept.
LEMMA TemplateInductive ==
  ASSUME IInv, NEW c \in Calls, Step(c)
  PROVE  TemplateKnown'
<1> USE Names
<1>a. /\ op \in [Calls -> Call] /\ Placed(c) /\ Remembers(c) /\ Comes(c) /\ TemplateKnown
      /\ template \in Template
  BY Types, CallsInductive, CallComes DEF IInv
<1>1. \A e \in Calls : op[e].at = "done" => op'[e].at = "done"
  BY <1>a DEF Remembers, OthersStay
<1>2. template'.id \in Calls => op'[template'.id].at = "done"
  BY <1>a, <1>1, TemplateSteps DEF TemplateKnown, Template
<1>3. \A e \in Calls : op'[e].template.id \in Calls => op'[op'[e].template.id].at = "done"
  BY <1>a, <1>1, TemplateSteps DEF TemplateKnown, Remembers, OthersStay
<1>4. source # None /\ source' = None => DroppingNext
  BY <1>a, TemplateSteps DEF DroppingNext
<1>5. ASSUME template'.hbsTemplate, source' = None PROVE DroppingNext
  <2>1. CASE source = None
    <3>1. Dropping
      BY <1>a, <1>5, <2>1, TemplateSteps DEF TemplateKnown, Template
    <3>2. QED
      BY <1>5, <3>1, DroppingStays
  <2>2. QED
    BY <1>4, <1>5, <2>1
<1>6. ASSUME NEW e \in Calls, op'[e].kind = "uploadHbs", op'[e].at = "stored",
             template'.id = op'[e].template.id, source' = None
      PROVE  DroppingNext
  <2>1. e # c
    <3>1. e = c => op[c].at # "idle" /\ op[c].kind = op'[c].kind
      BY <1>a, <1>6, HistorySteps DEF Remembers
    <3>2. QED
      BY <1>a, <1>6, <3>1 DEF Comes
  <2>2. op'[e] = op[e] /\ op[e].template.id # None
    BY <1>a, <1>6, <2>1 DEF Remembers, OthersStay, IInv, Placed, Reading, OfTemplate
  <2>3. template'.id = template.id /\ template' # NoTemplate
    <3>1. op[e].template.id # c
      BY <1>a DEF TemplateKnown, Remembers
    <3>2. QED
      BY <1>a, <1>6, <2>2, <3>1, TemplateSteps DEF Template
  <2>4. source = None => Dropping
    BY <1>a, <1>6, <2>2, <2>3 DEF TemplateKnown
  <2>5. QED
    BY <1>4, <1>6, <2>3, <2>4, DroppingStays
<1>7. QED
  BY <1>2, <1>3, <1>5, <1>6 DEF TemplateKnown, Dropping, DroppingNext

\* Who holds the template when deleteTemplate fails is noted then.
LEMMA HeldSteps ==
  ASSUME IInv, NEW c \in Calls, Step(c)
  PROVE  \/ op'[c].held = op[c].held
         \/ op'[c].held = {}
         \/ /\ op[c].at = "dropped" /\ op[c].kind = "deleteTemplate"
            /\ op'[c].held = {rows[d].by : d \in {e \in Docs : Exists(e)}}
<1>a. op \in [Calls -> Call]
  BY Types DEF IInv
<1>1. CASE DeleteTemplate(c)
  <2> DEFINE held == {rows[d].by : d \in {e \in Docs : Exists(e)}}
  <2>1. CASE Goto(c, "done")
    BY <1>a, <2>1 DEF Goto, Call
  <2>2. CASE op' = [op EXCEPT ![c].at = "refused", ![c].held = held]
    <3> HIDE DEF held
    <3>1. op'[c].held = held
      BY <1>a, <2>2 DEF Call
    <3>2. QED
      BY <1>1, <3>1 DEF held, DeleteTemplate, At
  <2>3. QED
    BY <1>1, <2>1, <2>2 DEF DeleteTemplate
<1>2. CASE Ask(c)
  BY <1>2, HistorySteps DEF Ask
<1>3. CASE ReadDocument(c) \/ ReadTemplate(c)
  BY <1>a, <1>3 DEF ReadDocument, ReadTemplate, Call
<1>4. CASE Create(c) \/ WriteRow(c) \/ Render(c) \/ DropPdf(c) \/ DropFails(c)
  BY <1>a, <1>4 DEF Create, WriteRow, Render, DropPdf, DropFails, Goto, Call
<1>5. CASE UploadPdf(c) \/ CreateTemplate(c) \/ FindHbs(c) \/ DropHbs(c) \/ StoreHbs(c)
           \/ NameHbs(c) \/ Fails(c)
  BY <1>a, <1>5 DEF UploadPdf, CreateTemplate, FindHbs, DropHbs, StoreHbs, NameHbs, Fails,
                    Goto, Call
<1>6. QED
  BY <1>1, <1>2, <1>3, <1>4, <1>5 DEF Step

\* HoldersAreNew is kept.
LEMMA HoldersInductive ==
  ASSUME IInv, NEW c \in Calls, Step(c)
  PROVE  HoldersAreNew'
<1> USE Names
<1>a. /\ op \in [Calls -> Call] /\ Placed(c) /\ Remembers(c) /\ Comes(c) /\ Histories
      /\ HoldersAreNew
  BY Types, CallsInductive, CallComes DEF IInv
<1>1. ASSUME NEW e \in Calls, op'[e].kind = "deleteTemplate", op'[e].at \in Reading,
             NEW d \in Docs, rows'[d].status # None
      PROVE  rows'[d].by \notin before'[e] \cup {Seeded}
  <2>1. CASE e # c
    <3>1. /\ op'[e] = op[e] /\ before'[e] = before[e] /\ before[e] \subseteq Ended
          /\ c \notin Ended
      BY <1>a, <2>1, HistorySteps, EndedGrows DEF Remembers, OthersStay, Histories
    <3>2. \A h \in Docs : rows[h].status # None => rows[h].by \notin before[e] \cup {Seeded}
      BY <1>a, <1>1, <3>1 DEF HoldersAreNew, Exists
    <3>3. CASE Creates(c)
      BY <1>1, <3>1, <3>2, <3>3 DEF Creates
    <3>4. CASE Rewrites(c)
      BY <1>1, <3>1, <3>2, <3>4 DEF Rewrites, Exists
    <3>5. QED
      BY <1>1, <3>1, <3>2, <3>3, <3>4, RowSteps
  <2>2. CASE e = c
    <3>1. op[c].at # "idle" /\ op[c].kind = "deleteTemplate" /\ before' = before
      BY <1>a, <1>1, <2>2, HistorySteps DEF Remembers, Reading
    <3>2. rows' = rows
      BY <1>1, <2>2, RowSteps DEF Creates, Rewrites, Reading
    <3>3. CASE op'[c].at = "read"
      BY <1>a, <1>1, <3>1, <3>2, <3>3 DEF Comes, Unused, Exists
    <3>4. CASE op'[c].at # "read"
      <4>1. op[c].at \in Reading
        BY <1>a, <1>1, <2>2, <3>4 DEF Comes, Reading
      <4>2. QED
        BY <1>a, <1>1, <2>2, <3>1, <3>2, <4>1 DEF HoldersAreNew, Exists
    <3>5. QED
      BY <3>3, <3>4
  <2>3. QED
    BY <2>1, <2>2
<1>2. ASSUME NEW e \in Calls, op'[e].kind = "deleteTemplate"
      PROVE  op'[e].held \cap (before'[e] \cup {Seeded}) = {}
  <2>1. CASE e # c
    BY <1>a, <1>2, <2>1, HistorySteps DEF Remembers, OthersStay, HoldersAreNew
  <2>2. CASE e = c /\ op[c].at = "idle"
    BY <2>2, HistorySteps
  <2>3. CASE e = c /\ op[c].at # "idle"
    <3>1. op[c].kind = "deleteTemplate" /\ before' = before
      BY <1>a, <1>2, <2>3, HistorySteps DEF Remembers
    <3>2. op[c].held \cap (before[c] \cup {Seeded}) = {}
      BY <1>a, <3>1 DEF HoldersAreNew
    <3>3. op[c].at = "dropped" =>
            {rows[d].by : d \in {h \in Docs : Exists(h)}} \cap (before[c] \cup {Seeded}) = {}
      BY <1>a, <3>1 DEF HoldersAreNew, Reading
    <3>4. QED
      BY <2>3, <3>1, <3>2, <3>3, HeldSteps
  <2>4. QED
    BY <2>1, <2>2, <2>3
<1>3. QED
  BY <1>1, <1>2 DEF HoldersAreNew, Exists

\* FinalKnown is kept.
LEMMA FinalInductive ==
  ASSUME IInv, NEW c \in Calls, Step(c)
  PROVE  FinalKnown'
<1> USE Names
<1>a. /\ op \in [Calls -> Call] /\ Placed(c) /\ Remembers(c) /\ Comes(c) /\ FinalKnown
      /\ final \in [Calls -> SUBSET Docs]
  BY Types, CallsInductive, CallComes DEF IInv, Histories
<1>1. ASSUME NEW x \in Calls, NEW d \in Docs, op[x].doc = d
      PROVE  op'[x].doc = d
  <2>1. x = c => op[c].at \notin {"idle", "done"} /\ op[c].kind # "create"
    BY <1>a, <1>1 DEF Placed, Remembers
  <2>2. QED
    BY <1>a, <1>1, <2>1 DEF Remembers, OthersStay
<1>2. ASSUME NEW d \in Docs, rows[d].status \in {"FINALIZED", None},
             rows[d].status = None => \E x \in Calls : op[x].doc = d
      PROVE  /\ rows'[d].status \in {"FINALIZED", None}
             /\ rows'[d].status = None => \E x \in Calls : op'[x].doc = d
  <2>1. CASE Creates(c)
    BY <1>1, <1>2, <2>1 DEF Creates, Exists
  <2>2. CASE Rewrites(c)
    <3>1. op'[c].doc = op[c].doc
      BY <1>1, <2>2 DEF Rewrites
    <3>2. \/ rows'[d].status \in {rows[d].status, "FINALIZED"}
          \/ rows'[d].status = None /\ op[c].doc = d
      BY <2>2 DEF Rewrites
    <3>3. QED
      BY <1>1, <1>2, <3>1, <3>2
  <2>3. QED
    BY <1>1, <1>2, <2>1, <2>2, RowSteps
<1>3. ASSUME NEW e \in Calls, NEW d \in final'[e]
      PROVE  /\ rows'[d].status \in {"FINALIZED", None}
             /\ rows'[d].status = None => \E x \in Calls : op'[x].doc = d
  <2>1. d \in Docs
    BY HistorySteps
  <2>2. CASE e = c /\ op[c].at = "idle"
    BY <1>3, <2>2, HistorySteps
  <2>3. CASE ~(e = c /\ op[c].at = "idle")
    <3>1. d \in final[e]
      BY <1>3, <2>3, HistorySteps
    <3>2. QED
      BY <1>2, <1>a, <2>1, <3>1 DEF FinalKnown, Exists
  <2>4. QED
    BY <2>2, <2>3
<1>4. ASSUME NEW e \in Calls, op'[e].at \in Reading,
             op'[e].kind \in {"update", "finalize", "delete"}
      PROVE  op'[e].doc \notin final'[e]
  <2>1. CASE e # c
    BY <1>a, <1>4, <2>1, HistorySteps DEF Remembers, OthersStay, FinalKnown
  <2>2. CASE e = c
    <3>1. /\ op[c].at # "idle" /\ op'[c].kind = op[c].kind /\ op'[c].doc = op[c].doc
          /\ final' = final
      BY <1>a, <1>4, <2>2, HistorySteps DEF Remembers, Reading
    <3>2. CASE op'[c].at = "read"
      <4>1. rows[op[c].doc].status = "DRAFT"
        BY <1>a, <1>4, <2>2, <3>1, <3>2 DEF Comes, Accepts, OfDocument
      <4>2. QED
        BY <1>a, <2>2, <3>1, <4>1, NamesAssumption DEF FinalKnown
    <3>3. CASE op'[c].at # "read"
      <4>1. op[c].at \in Reading
        BY <1>a, <1>4, <2>2, <3>3 DEF Comes, Reading
      <4>2. QED
        BY <1>a, <1>4, <2>2, <3>1, <4>1 DEF FinalKnown
    <3>4. QED
      BY <3>2, <3>3
  <2>3. QED
    BY <2>1, <2>2
<1>5. QED
  BY <1>3, <1>4 DEF FinalKnown, Exists

-----------------------------------------------------------------------------

\* IInv is inductive.
LEMMA Inductive == IInv /\ [Next]_vars => IInv'
<1> SUFFICES ASSUME IInv, [Next]_vars PROVE IInv'
  OBVIOUS
<1>1. CASE UNCHANGED vars
  <2>1. (\A c \in Calls : Placed(c)') /\ Histories' /\ KeysOfDocs' /\ TypeOK'
    BY <1>1 DEF vars, IInv, TypeOK, Placed, Histories, Ended, KeysOfDocs, Made
  <2>2. PdfsOfCalls' /\ PdfIsThere' /\ StrayKnown'
    BY <1>1 DEF vars, IInv, PdfsOfCalls, PdfIsThere, StrayKnown, Overlap
  <2>3. TemplateKnown' /\ HoldersAreNew' /\ NothingHeld' /\ FinalKnown' /\ ByIsKnown'
    BY <1>1 DEF vars, IInv, TemplateKnown, Dropping, HoldersAreNew, NothingHeld,
       FinalKnown, ByIsKnown, Exists
  <2>4. QED
    BY <2>1, <2>2, <2>3 DEF IInv
<1>2. ASSUME NEW c \in Calls, Step(c) PROVE IInv'
  BY <1>2, TypeInductive, PlacedInductive, HistoriesInductive, KeysInductive,
     PdfsInductive, PdfIsThereInductive, StrayInductive, TemplateInductive,
     HoldersInductive, HeldInductive, FinalInductive DEF IInv
<1>3. QED
  BY <1>1, <1>2 DEF Next, Step

\* Every reachable state of the documents satisfies the inductive invariant.
THEOREM Invariance == Spec => []IInv
BY Initial, Inductive, PTL DEF Spec

\* The PDF that a document names and the object that the template names are in
\* storage, unless a call that has removed one is under way or has failed; and a
\* foreign key that keeps a template is of a document created meanwhile.
THEOREM NamedStored == Spec => []NamedIsStored
<1>1. IInv => NamedIsStored
  <2> SUFFICES ASSUME IInv PROVE NamedIsStored
    OBVIOUS
  <2>1. TemplateIsThere
    BY DEF IInv, TemplateKnown, Dropping, HoldersAreNew, NothingHeld, TemplateIsThere
  <2>2. QED
    BY <2>1 DEF IInv, NamedIsStored
<1>2. QED
  BY Invariance, <1>1, PTL

\* A PDF that no document names any more has been left by a call that failed, or
\* could not remove it, or by two that overlapped.
THEOREM StraysExplained == Spec => []StrayHasCause
<1>1. IInv => StrayHasCause
  BY DEF IInv, StrayKnown, StrayHasCause
<1>2. QED
  BY Invariance, <1>1, PTL

\* Once a document is final, what it says stays, but for calls that read it before.
THEOREM FinalKept == Spec => FinalStands
<1>1. IInv /\ [Next]_vars =>
        [\A d \in Docs :
           rows[d].status = "FINALIZED" /\ [rows'[d] EXCEPT !.minioKey = None]
                                         # [rows[d] EXCEPT !.minioKey = None] =>
             \E c \in Calls : op'[c].at = "done" /\ op[c].at # "done" /\ d \notin final[c]]_vars
  <2> SUFFICES ASSUME IInv, Next, NEW d \in Docs, rows[d].status = "FINALIZED",
                      [rows'[d] EXCEPT !.minioKey = None] # [rows[d] EXCEPT !.minioKey = None]
               PROVE  \E c \in Calls : /\ op'[c].at = "done" /\ op[c].at # "done"
                                       /\ d \notin final[c]
    OBVIOUS
  <2>1. PICK c \in Calls : Step(c)
    BY DEF Next, Step
  <2>2. rows[d] \in Row /\ Exists(d)
    BY Types, NamesAssumption DEF IInv, Exists
  <2>3. Rewrites(c) /\ op[c].doc = d
    BY <2>1, <2>2, RowSteps DEF Creates, Rewrites
  <2>4. op[c].kind # "generatePdf"
    BY <2>1, <2>2, <2>3, RowSteps DEF OnlyTheKey, Row
  <2>5. d \notin final[c]
    BY <2>3, <2>4 DEF IInv, FinalKnown, Rewrites, OfDocument
  <2>6. QED
    BY <2>3, <2>5 DEF Rewrites, Reading
<1>2. QED
  BY Invariance, <1>1, PTL DEF Spec, FinalStands
=============================================================================
