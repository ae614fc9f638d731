----------------------------- MODULE DeskProofs -----------------------------
(***************************************************************************)
(* The files of the letters (Attachments), and the desk where letters and  *)
(* nominations are written (Desk). They share no state; each part has its  *)
(* own inductive invariant and rests on its own module's assumptions.      *)
(*                                                                         *)
(* Files: what was mailed stays archived, and a resend is exact, for any   *)
(* uploads, requests, calls and sends. Calls act on uploads and sends on   *)
(* copies, so the copies of a dispatch only grow; a mail leaves when       *)
(* nothing is left to copy; and a resend takes the copies of a dispatch    *)
(* whose mail has left.                                                    *)
(*                                                                         *)
(* Desk: for any selections, texts, writes, creations and lookups. The     *)
(* page: the last write of a field is the one that was told, or the last   *)
(* of those whose answers are to come; and no draft is older than the last *)
(* save that was told. The form: what is loaded has been seen, and what is *)
(* filled in is of what was seen last; until one of the three reasons has  *)
(* happened, the one creation of a draft is the form's own. The dialog: a  *)
(* lookup that still counts is for the number that is there. The three     *)
(* take their steps apart, so the invariant of the desk is their           *)
(* conjunction.                                                            *)
(***************************************************************************)
EXTENDS Attachments, Desk, TLAPS

-----------------------------------------------------------------------------
\* The files.


\* An upload is a name and no copy; a copy is a name and no upload.
LEMMA NamesApart ==
  /\ \A f \in Files : f \in Names /\ ~Linked(f) /\ Original(f) = f
  /\ \A s \in Sends, f \in Files :
       /\ <<s, f>> \in Names /\ <<s, f>> \notin Files
       /\ Linked(<<s, f>>) /\ Original(<<s, f>>) = f
  /\ \A n \in Names : Original(n) \in Files
  /\ None \notin Names
  /\ NewRow \in Row
BY NamesAssumption, NoneAssumption DEF Names, Linked, Original, Row, NewRow

\* No mail and no upload is the state the program starts from.
LEMMA Initial == Init => IInv
BY NoneAssumption, NamesApart
   DEF Init, IInv, TypeOK, CallsOnUploads, CopiesOfSend, MailOfSend,
       ResendOfSent, Call, Places, Sending

-----------------------------------------------------------------------------
\* Types.

\* A step of a call moves it and leaves the rest of it alone.
LEMMA CallMoves ==
  ASSUME op \in [Calls -> Call], NEW c \in Calls, NEW place \in Places, Goto(c, place)
  PROVE  /\ op' \in [Calls -> Call]
         /\ \A d \in Calls : op'[d].file = op[d].file
         /\ \A d \in Calls \ {c} : op'[d] = op[d]
<1>1. [op[c] EXCEPT !.at = place] \in Call
  BY DEF Call
<1>2. op' = [op EXCEPT ![c] = [op[c] EXCEPT !.at = place]]
  BY DEF Goto
<1>3. QED
  BY <1>1, <1>2 DEF Call

\* What the copying of one file does: all that other steps need to know of it.
LEMMA ArchiveStep ==
  ASSUME IInv, NEW s \in Sends, Archive(s)
  PROVE  \E n \in send[s].todo, place \in {"archive", "done"} :
           LET copy == <<s, Original(n)>>
           IN /\ copy \in Names
              /\ row' \in {row, [row EXCEPT ![copy] = NewRow]}
              /\ objects' \in {objects, objects \cup {copy}}
              /\ row' = row \/ copy \in objects'
              /\ \/ /\ place = "archive" /\ row'[copy] # None
                    /\ copy \in objects'
                    /\ send' = [send EXCEPT ![s] =
                                  [send[s] EXCEPT !.todo = send[s].todo \ {n}]]
                 \/ /\ place = "done"
                    /\ send' = [send EXCEPT ![s] = [send[s] EXCEPT !.at = "done"]]
<1> USE NamesApart DEF IInv, TypeOK
<1>1. PICK n \in send[s].todo : 
       LET copy == <<s, Original(n)>>
       IN \/ /\ row[n] # None /\ n \in objects
             /\ objects' = objects \cup {copy}
             /\ row' \in {row, [row EXCEPT ![copy] = NewRow]}
             /\ \/ row' # row /\ send' = [send EXCEPT ![s].todo = @ \ {n}]
                \/ send' = [send EXCEPT ![s].at = "done"]
          \/ /\ send' = [send EXCEPT ![s].at = "done"]
             /\ UNCHANGED <<row, objects>>
  BY DEF Archive
<1> DEFINE copy == <<s, Original(n)>>
<1>2. n \in Names
  BY DEF Sending
<1>3. copy \in Names /\ NewRow # None
  BY <1>2, NoneAssumption DEF Names
<1>4. CASE row' # row /\ send' = [send EXCEPT ![s].todo = @ \ {n}]
  <2>1. row' = [row EXCEPT ![copy] = NewRow] /\ objects' = objects \cup {copy}
    BY <1>1, <1>4
  <2>2. row'[copy] # None /\ copy \in objects'
    BY <2>1, <1>3
  <2>3. send' = [send EXCEPT ![s] = [send[s] EXCEPT !.todo = send[s].todo \ {n}]]
    BY <1>4
  <2>4. QED
    BY <2>1, <2>2, <2>3, <1>3
<1>5. CASE send' = [send EXCEPT ![s].at = "done"]
  BY <1>1, <1>3, <1>5
<1>6. QED
  BY <1>1, <1>4, <1>5

\* Every step keeps the shape of rows, objects, calls and sends.
LEMMA TypeInductive == IInv /\ [Next]_vars => TypeOK'
<1> SUFFICES ASSUME IInv, [Next]_vars PROVE TypeOK'
  OBVIOUS
<1> USE NamesApart DEF IInv, TypeOK
<1>1. ASSUME NEW f \in Files, Upload(f) PROVE TypeOK'
  BY <1>1 DEF Upload
<1>2. ASSUME NEW f \in Files, FileAtTerminal(f) PROVE TypeOK'
  <2>1. [row[f] EXCEPT !.terminal = TRUE] \in Row
    BY <1>2 DEF FileAtTerminal, Row, Staged
  <2>2. QED
    BY <1>2, <2>1 DEF FileAtTerminal
<1>3. ASSUME NEW c \in Calls, Read(c) PROVE TypeOK'
  BY <1>3 DEF Read, FirstPlace, Kinds, Call, Places
<1>4. ASSUME NEW c \in Calls, RemoveObject(c) PROVE TypeOK'
  BY <1>4, CallMoves DEF RemoveObject, Places
<1>5. ASSUME NEW c \in Calls, RemoveRow(c) PROVE TypeOK'
  BY <1>5, CallMoves DEF RemoveRow, Places
<1>6. ASSUME NEW c \in Calls, FileOnRequest(c) PROVE TypeOK'
  <2>1. op[c].file \in Files /\ op[c].request \in Requests \cup {None}
    BY <1>6 DEF FileOnRequest, CallsOnUploads, Call
  <2>2. row[op[c].file] # None =>
          [row[op[c].file] EXCEPT !.request = op[c].request] \in Row
    BY <2>1 DEF Row
  <2>3. row' \in [Names -> Row \cup {None}]
    BY <1>6, <2>1, <2>2 DEF FileOnRequest
  <2>4. QED
    BY <1>6, <2>3, CallMoves DEF FileOnRequest, Places
<1>7. ASSUME NEW c \in Calls, RecordReceipt(c) PROVE TypeOK'
  BY <1>7, CallMoves DEF RecordReceipt, Places, Call
<1>8. ASSUME NEW c \in Calls, PurgeRow(c) PROVE TypeOK'
  BY <1>8, CallMoves DEF PurgeRow, Places
<1>9. ASSUME NEW s \in Sends, StartSend(s) PROVE TypeOK'
  BY <1>9 DEF StartSend, Begin, Names, Sending
<1>10. ASSUME NEW s \in Sends, StartResend(s) PROVE TypeOK'
  BY <1>10 DEF StartResend, Begin, CopiesOf, Names, Sending
<1>11. ASSUME NEW s \in Sends, Archive(s) PROVE TypeOK'
  <2>1. PICK n \in send[s].todo, place \in {"archive", "done"} :
           LET copy == <<s, Original(n)>>
           IN /\ copy \in Names
              /\ row' \in {row, [row EXCEPT ![copy] = NewRow]}
              /\ objects' \in {objects, objects \cup {copy}}
              /\ \/ send' = [send EXCEPT ![s] =
                              [send[s] EXCEPT !.todo = send[s].todo \ {n}]]
                 \/ send' = [send EXCEPT ![s] = [send[s] EXCEPT !.at = "done"]]
    BY <1>11, ArchiveStep
  <2>2. /\ [send[s] EXCEPT !.todo = send[s].todo \ {n}] \in Sending
        /\ [send[s] EXCEPT !.at = "done"] \in Sending
    BY DEF Sending
  <2>3. send' \in [Sends -> Sending]
    BY <2>1, <2>2
  <2>4. row' \in [Names -> Row \cup {None}] /\ objects' \subseteq Names
    BY <2>1
  <2>5. QED
    BY <1>11, <2>3, <2>4 DEF Archive
<1>12. ASSUME NEW s \in Sends, SendMail(s) PROVE TypeOK'
  <2>1. {Original(n) : n \in send[s].files} \subseteq Files
    BY DEF Sending
  <2>2. QED
    BY <1>12, <2>1 DEF SendMail, Sending
<1>13. ASSUME NEW s \in Sends, StampDispatch(s) PROVE TypeOK'
  BY <1>13 DEF StampDispatch, Sending
<1>14. CASE UNCHANGED vars
  BY <1>14 DEF vars
<1>15. QED
  BY <1>1, <1>2, <1>3, <1>4, <1>5, <1>6, <1>7, <1>8, <1>9, <1>10, <1>11, <1>12,
     <1>13, <1>14 DEF Next

-----------------------------------------------------------------------------
\* Calls and sends keep apart.

\* The steps of uploads and of calls.
OfUploads ==
  \/ \E f \in Files : Upload(f) \/ FileAtTerminal(f)
  \/ \E c \in Calls :
       \/ Read(c) \/ RemoveObject(c) \/ RemoveRow(c)
       \/ FileOnRequest(c) \/ RecordReceipt(c) \/ PurgeRow(c)

\* They act on uploads, and touch neither a copy nor a send.
LEMMA UploadsApart ==
  ASSUME IInv, OfUploads
  PROVE  /\ CallsOnUploads'
         /\ UNCHANGED <<send, mail, sent>>
         /\ \A s \in Sends, f \in Files :
              /\ row'[<<s, f>>] = row[<<s, f>>]
              /\ <<s, f>> \in objects => <<s, f>> \in objects'
<1> USE NamesApart DEF IInv, TypeOK, CallsOnUploads
<1> DEFINE Apart ==
      /\ CallsOnUploads'
      /\ UNCHANGED <<send, mail, sent>>
      /\ \A s \in Sends, f \in Files :
           /\ row'[<<s, f>>] = row[<<s, f>>]
           /\ <<s, f>> \in objects => <<s, f>> \in objects'
<1>1. ASSUME NEW f \in Files, Upload(f) PROVE Apart
  BY <1>1 DEF Upload
<1>2. ASSUME NEW f \in Files, FileAtTerminal(f) PROVE Apart
  BY <1>2 DEF FileAtTerminal
<1>3. ASSUME NEW c \in Calls, Read(c) PROVE Apart
  <2>1. PICK kind \in Kinds, n \in Names, q \in Requests :
          /\ Permitted(kind, n, q)
          /\ op' = [op EXCEPT ![c] = [kind |-> kind, at |-> FirstPlace(kind),
                                     file |-> n, request |-> q,
                                     seen |-> receipt[q]]]
    BY <1>3 DEF Read
  <2>2. n \in Files
    BY <2>1 DEF Permitted, Staged, Linked, Kinds
  <2>3. QED
    BY <1>3, <2>1, <2>2 DEF Read
<1>4. ASSUME NEW c \in Calls, NEW place \in Places, op[c].at # "idle",
             Goto(c, place)
      PROVE  CallsOnUploads' /\ op[c].file \in Files
  BY <1>4, CallMoves
<1>5. ASSUME NEW c \in Calls, RemoveObject(c) PROVE Apart
  BY <1>4, <1>5 DEF RemoveObject, Places
<1>6. ASSUME NEW c \in Calls, RemoveRow(c) PROVE Apart
  BY <1>4, <1>6 DEF RemoveRow, Places
<1>7. ASSUME NEW c \in Calls, FileOnRequest(c) PROVE Apart
  BY <1>4, <1>7 DEF FileOnRequest, Places
<1>8. ASSUME NEW c \in Calls, RecordReceipt(c) PROVE Apart
  BY <1>4, <1>8 DEF RecordReceipt, Places
<1>9. ASSUME NEW c \in Calls, PurgeRow(c) PROVE Apart
  BY <1>4, <1>9 DEF PurgeRow, Places
<1>10. QED
  BY <1>1, <1>2, <1>3, <1>5, <1>6, <1>7, <1>8, <1>9 DEF OfUploads

\* What is known of a send, in one name.
SendKnown(s) == CopiesOfSend(s) /\ MailOfSend(s) /\ ResendOfSent(s)

\* A step that leaves a send, its copies and the mails already sent alone
\* keeps what is known of it.
LEMMA Undisturbed ==
  ASSUME IInv, NEW s \in Sends,
         send'[s] = send[s], mail'[s] = mail[s], s \in sent' => s \in sent,
         sent \subseteq sent', \A t \in sent : mail'[t] = mail[t],
         \A f \in Files : /\ row'[<<s, f>>] = row[<<s, f>>]
                          /\ <<s, f>> \in objects => <<s, f>> \in objects'
  PROVE  SendKnown(s)'
<1> USE NamesApart DEF IInv, TypeOK
<1>1. CopiesOfSend(s)'
  <2>1. \A n \in send[s].files : Original(n) \in Files
    BY DEF Sending
  <2>2. QED
    BY <2>1 DEF CopiesOfSend
<1>2. MailOfSend(s)'
  BY DEF MailOfSend
<1>3. ResendOfSent(s)'
  BY DEF ResendOfSent
<1>4. QED
  BY <1>1, <1>2, <1>3 DEF SendKnown

-----------------------------------------------------------------------------
\* The steps of sends.

\* A mail that was sent has left, so its send is over.
LEMMA SentIsOver ==
  ASSUME IInv, NEW t \in sent
  PROVE  /\ t \in Sends /\ mail[t] # None
         /\ send[t].at \in {"stamp", "done"} /\ send[t].todo = {}
         /\ mail[t] = {Original(n) : n \in send[t].files}
BY DEF IInv, TypeOK, MailOfSend

\* A send begins with nothing copied and nothing mailed.
LEMMA BeginKnown ==
  ASSUME IInv, NEW s \in Sends, NEW files \in SUBSET Names,
         NEW of \in Sends \cup {None}, Begin(s, files, of),
         of # None => of \in sent /\ {Original(n) : n \in files} = mail[of]
  PROVE  CallsOnUploads' /\ \A t \in Sends : SendKnown(t)'
<1> USE NamesApart DEF IInv, TypeOK
<1>1. /\ send[s].at = "idle" /\ UNCHANGED <<row, objects, op, mail, sent>>
      /\ send' = [send EXCEPT ![s] = [at |-> "archive", files |-> files,
                                     todo |-> files, of |-> of]]
  BY DEF Begin
<1>2. mail[s] = None /\ s \notin sent /\ \A f \in Files : row[<<s, f>>] = None
  BY <1>1 DEF MailOfSend, CopiesOfSend
<1>3. CopiesOfSend(s)' /\ MailOfSend(s)' /\ ResendOfSent(s)'
  BY <1>1, <1>2 DEF CopiesOfSend, MailOfSend, ResendOfSent
<1>4. ASSUME NEW t \in Sends \ {s} PROVE SendKnown(t)'
  BY <1>1, Undisturbed
<1>5. QED
  BY <1>1, <1>3, <1>4 DEF SendKnown, CallsOnUploads

\* The copies of a dispatch that was sent are those of the files it mailed.
LEMMA CopiesAreMailed ==
  ASSUME IInv, NEW t \in sent
  PROVE  {Original(n) : n \in CopiesOf(t)} = mail[t]
<1> USE NamesApart, SentIsOver DEF IInv, TypeOK
<1>1. \A f \in Files : f \in mail[t] <=> row[<<t, f>>] # None
  <2>1. \A n \in send[t].files : Original(n) \in Files /\ row[<<t, Original(n)>>] # None
    BY DEF CopiesOfSend, Sending
  <2>2. \A f \in Files : row[<<t, f>>] # None =>
                          \E n \in send[t].files : Original(n) = f
    BY DEF CopiesOfSend
  <2>3. QED
    BY <2>1, <2>2
<1>2. mail[t] \subseteq Files
  BY DEF Sending
<1>3. CopiesOf(t) = {<<t, f>> : f \in mail[t]}
  BY <1>1, <1>2 DEF CopiesOf
<1>4. \A f \in mail[t] : Original(<<t, f>>) = f
  BY <1>2
<1>5. ASSUME NEW f \in mail[t] PROVE f \in {Original(n) : n \in CopiesOf(t)}
  <2>1. <<t, f>> \in CopiesOf(t)
    BY <1>3
  <2>2. QED
    BY <2>1, <1>4
<1>6. ASSUME NEW n \in CopiesOf(t) PROVE Original(n) \in mail[t]
  <2>1. PICK f \in mail[t] : n = <<t, f>>
    BY <1>3
  <2>2. QED
    BY <2>1, <1>4
<1>7. QED
  BY <1>5, <1>6

\* Copying a file adds to what is copied of its own dispatch only.
LEMMA ArchiveKnown ==
  ASSUME IInv, NEW s \in Sends, Archive(s)
  PROVE  CallsOnUploads' /\ \A t \in Sends : SendKnown(t)'
<1> USE NamesApart DEF IInv, TypeOK
<1>1. send[s].at = "archive" /\ UNCHANGED <<op, mail, sent>>
  BY DEF Archive
<1>2. mail[s] = None /\ s \notin sent
  BY <1>1 DEF MailOfSend
<1>3. PICK n \in send[s].todo, place \in {"archive", "done"} :
        LET copy == <<s, Original(n)>>
        IN /\ copy \in Names
           /\ row' \in {row, [row EXCEPT ![copy] = NewRow]}
           /\ objects' \in {objects, objects \cup {copy}}
           /\ \/ /\ place = "archive" /\ row'[copy] # None
                 /\ copy \in objects'
                 /\ send' = [send EXCEPT ![s] =
                               [send[s] EXCEPT !.todo = send[s].todo \ {n}]]
              \/ /\ place = "done"
                 /\ send' = [send EXCEPT ![s] = [send[s] EXCEPT !.at = "done"]]
  BY ArchiveStep
<1>4. n \in send[s].files /\ send[s].files \subseteq Names /\ Original(n) \in Files
  BY DEF CopiesOfSend, Sending
<1>5. /\ send'[s].files = send[s].files /\ send'[s].of = send[s].of
      /\ send'[s].at = place /\ send'[s].todo \in {send[s].todo, send[s].todo \ {n}}
      /\ n \notin send'[s].todo =>
           row'[<<s, Original(n)>>] # None /\ <<s, Original(n)>> \in objects'
  BY <1>1, <1>3 DEF Sending
<1>6. \A m \in Names : /\ row[m] # None => row'[m] # None
                       /\ m \in objects => m \in objects'
                       /\ m # <<s, Original(n)>> => row'[m] = row[m]
  BY <1>3, NoneAssumption
<1>7. CopiesOfSend(s)'
  <2>1. send'[s].todo \subseteq send'[s].files
    BY <1>5 DEF CopiesOfSend
  <2>2. ASSUME NEW m \in send'[s].files \ send'[s].todo
        PROVE  row'[<<s, Original(m)>>] # None /\ <<s, Original(m)>> \in objects'
    <3>1. <<s, Original(m)>> \in Names
      BY <1>4, <1>5
    <3>2. CASE m = n
      BY <1>5, <3>2
    <3>3. CASE m # n
      BY <1>5, <1>6, <3>1, <3>3 DEF CopiesOfSend
    <3>4. QED
      BY <3>2, <3>3
  <2>3. ASSUME NEW f \in Files, row'[<<s, f>>] # None
        PROVE  \E m \in send'[s].files : Original(m) = f
    BY <1>4, <1>5, <1>6, <2>3 DEF CopiesOfSend
  <2>4. send'[s].at # "idle"
    BY <1>5
  <2>5. QED
    BY <2>1, <2>2, <2>3, <2>4 DEF CopiesOfSend
<1>8. MailOfSend(s)' /\ ResendOfSent(s)'
  BY <1>1, <1>2, <1>5 DEF MailOfSend, ResendOfSent
<1>9. ASSUME NEW t \in Sends \ {s} PROVE SendKnown(t)'
  <2>1. send'[t] = send[t]
    BY <1>3
  <2>2. \A f \in Files : <<t, f>> # <<s, Original(n)>>
    OBVIOUS
  <2>3. QED
    BY <1>1, <1>6, <2>1, <2>2, Undisturbed
<1>10. QED
  BY <1>1, <1>7, <1>8, <1>9 DEF SendKnown, CallsOnUploads

\* The mail leaves when nothing is left to copy.
LEMMA SendMailKnown ==
  ASSUME IInv, NEW s \in Sends, SendMail(s)
  PROVE  CallsOnUploads' /\ \A t \in Sends : SendKnown(t)'
<1> USE NamesApart DEF IInv, TypeOK
<1>1. /\ send[s].at = "archive" /\ send[s].todo = {}
      /\ UNCHANGED <<row, objects, op, sent>>
  BY DEF SendMail
<1>2. mail[s] = None /\ s \notin sent
  BY <1>1 DEF MailOfSend
<1>3. PICK place \in {"stamp", "done"} :
        /\ send' = [send EXCEPT ![s].at = place]
        /\ \/ mail' = [mail EXCEPT ![s] = {Original(n) : n \in send[s].files}]
           \/ mail' = mail /\ place = "done"
  BY DEF SendMail
<1>4. /\ send'[s].files = send[s].files /\ send'[s].of = send[s].of
      /\ send'[s].at = place /\ send'[s].todo = {}
      /\ \A t \in Sends \ {s} : send'[t] = send[t] /\ mail'[t] = mail[t]
  BY <1>1, <1>3 DEF Sending
<1>5. CopiesOfSend(s)'
  BY <1>1, <1>4 DEF CopiesOfSend
<1>6. MailOfSend(s)'
  <2>1. {Original(n) : n \in send[s].files} \in SUBSET Files
    BY DEF Sending
  <2>2. {Original(n) : n \in send[s].files} # None
    BY <2>1, NoneAssumption
  <2>3. QED
    BY <1>1, <1>2, <1>3, <1>4, <2>2 DEF MailOfSend
<1>7. ResendOfSent(s)'
  BY <1>1, <1>2, <1>4 DEF ResendOfSent
<1>8. ASSUME NEW t \in Sends \ {s} PROVE SendKnown(t)'
  BY <1>1, <1>2, <1>4, Undisturbed
<1>9. QED
  BY <1>1, <1>5, <1>6, <1>7, <1>8 DEF SendKnown, CallsOnUploads

\* sentAt is set after the mail has left.
LEMMA StampKnown ==
  ASSUME IInv, NEW s \in Sends, StampDispatch(s)
  PROVE  CallsOnUploads' /\ \A t \in Sends : SendKnown(t)'
<1> USE NamesApart DEF IInv, TypeOK
<1>1. /\ send[s].at = "stamp" /\ UNCHANGED <<row, objects, op, mail>>
      /\ sent' \in {sent, sent \cup {s}} /\ send' = [send EXCEPT ![s].at = "done"]
  BY DEF StampDispatch
<1>2. /\ send'[s].files = send[s].files /\ send'[s].of = send[s].of
      /\ send'[s].at = "done" /\ send'[s].todo = send[s].todo
      /\ \A t \in Sends \ {s} : send'[t] = send[t]
  BY <1>1 DEF Sending
<1>3. CopiesOfSend(s)'
  BY <1>1, <1>2 DEF CopiesOfSend
<1>4. MailOfSend(s)'
  BY <1>1, <1>2 DEF MailOfSend
<1>5. ResendOfSent(s)'
  BY <1>1, <1>2 DEF ResendOfSent
<1>6. ASSUME NEW t \in Sends \ {s} PROVE SendKnown(t)'
  BY <1>1, <1>2, Undisturbed
<1>7. QED
  BY <1>1, <1>3, <1>4, <1>5, <1>6 DEF SendKnown, CallsOnUploads

-----------------------------------------------------------------------------
\* The inductive invariant, and what it implies.

\* Every step keeps it: a step of uploads leaves sends alone, and a step of a
\* send is one of the five above.
LEMMA Inductive == IInv /\ [Next]_vars => IInv'
<1> SUFFICES ASSUME IInv, [Next]_vars PROVE IInv'
  OBVIOUS
<1> DEFINE Known == CallsOnUploads' /\ \A t \in Sends : SendKnown(t)'
<1>1. CASE OfUploads
  <2>1. UNCHANGED <<send, mail, sent>>
    BY <1>1, UploadsApart
  <2>2. ASSUME NEW t \in Sends PROVE SendKnown(t)'
    BY <1>1, <2>1, UploadsApart, Undisturbed
  <2>3. QED
    BY <1>1, <2>2, UploadsApart, TypeInductive DEF IInv, SendKnown
<1>2. ASSUME NEW s \in Sends, StartSend(s) PROVE Known
  <2>1. PICK files \in SUBSET Files : Begin(s, files, None)
    BY <1>2 DEF StartSend
  <2>2. files \in SUBSET Names
    BY NamesApart
  <2>3. QED
    BY <2>1, <2>2, BeginKnown
<1>3. ASSUME NEW s \in Sends, StartResend(s) PROVE Known
  <2>1. PICK t \in sent : Begin(s, CopiesOf(t), t)
    BY <1>3 DEF StartResend
  <2>2. t \in Sends /\ CopiesOf(t) \in SUBSET Names
    BY NamesApart DEF IInv, TypeOK, CopiesOf
  <2>3. QED
    BY <2>1, <2>2, BeginKnown, CopiesAreMailed
<1>4. ASSUME NEW s \in Sends, Archive(s) PROVE Known
  BY <1>4, ArchiveKnown
<1>5. ASSUME NEW s \in Sends, SendMail(s) PROVE Known
  BY <1>5, SendMailKnown
<1>6. ASSUME NEW s \in Sends, StampDispatch(s) PROVE Known
  BY <1>6, StampKnown
<1>7. CASE UNCHANGED vars
  BY <1>7 DEF vars, IInv, TypeOK, CallsOnUploads, CopiesOfSend, MailOfSend,
     ResendOfSent
<1>8. CASE Known
  BY <1>8, TypeInductive DEF IInv, SendKnown
<1>9. QED
  BY <1>1, <1>2, <1>3, <1>4, <1>5, <1>6, <1>7, <1>8 DEF Next, OfUploads

\* Every reachable state satisfies the inductive invariant.
THEOREM Invariance == Spec => []IInv
<1>1. Init => IInv
  BY Initial
<1>2. IInv /\ [Next]_vars => IInv'
  BY Inductive
<1>3. QED
  BY <1>1, <1>2, PTL DEF Spec

\* Rows, objects and calls keep the shape of the code's (AttachmentsService).
THEOREM TypeCorrect == Spec => []TypeOK
<1>1. IInv => TypeOK
  BY DEF IInv
<1>2. QED
  BY <1>1, Invariance, PTL

\* A copy of every mailed file is stored under its dispatch from the moment
\* the mail leaves (archive, then EmailService.send).
THEOREM Archived == Spec => []MailIsArchived
<1>1. IInv => MailIsArchived
  BY DEF IInv, MailIsArchived, MailOfSend, CopiesOfSend
<1>2. QED
  BY <1>1, Invariance, PTL

\* A resend mails the files the original mailed (resendMessage).
THEOREM ExactResend == Spec => []ResendIsExact
<1>1. IInv => ResendIsExact
  BY DEF IInv, ResendIsExact, MailOfSend, ResendOfSent
<1>2. QED
  BY <1>1, Invariance, PTL

-----------------------------------------------------------------------------
\* The cleanup.

\* A call that moves stays on its file, and a call that begins has one.
LEMMA CallStep ==
  ASSUME IInv, RowGoesFirst, [Next]_vars, NEW c \in Calls, op'[c] # op[c]
  PROVE  \/ /\ op[c].at = "idle" /\ op[c].file = None
            /\ op'[c].at # "idle" /\ UNCHANGED <<row, objects>>
            /\ op'[c].kind = "purge" => op'[c].at = "row"
            /\ op'[c].at = "object" => op'[c].kind \in {"delete", "detach"}
         \/ /\ op[c].at # "idle" /\ op'[c].at # "idle"
            /\ op'[c].kind = op[c].kind /\ op'[c].file = op[c].file
            /\ op'[c].kind = "purge" /\ op'[c].at = "object" =>
                 row'[op[c].file] = None
            /\ op'[c].at = "object" => op'[c].kind = "purge"
<1> USE DEF IInv, TypeOK
<1>1. ASSUME NEW d \in Calls, Read(d)
      PROVE  /\ op[d].at = "idle" /\ op'[d].at = FirstPlace(op'[d].kind)
             /\ op'[d].kind \in Kinds /\ UNCHANGED <<row, objects>>
             /\ \A e \in Calls \ {d} : op'[e] = op[e]
  BY <1>1 DEF Read
<1>2. ASSUME NEW d \in Calls, NEW place \in Places \ {"idle"}, Goto(d, place)
      PROVE  /\ op'[d].at = place /\ op'[d].kind = op[d].kind
             /\ op'[d].file = op[d].file
             /\ \A e \in Calls \ {d} : op'[e] = op[e]
  BY <1>2, CallMoves DEF Goto, Call
<1>3. ASSUME NEW d \in Calls, PurgeRow(d)
      PROVE  /\ op[d].at = "row" /\ op[d].kind = "purge"
             /\ \E place \in {"object", "done"} : Goto(d, place)
             /\ Goto(d, "object") => row'[op[d].file] = None
  <2>1. op[d].file \in Files
    BY <1>3 DEF PurgeRow, CallsOnUploads
  <2>2. CASE StillStaged(op[d].file)
    BY <1>3, <2>1, <2>2, NamesApart DEF PurgeRow
  <2>3. CASE ~StillStaged(op[d].file)
    BY <1>3, <1>2, <2>3 DEF PurgeRow, Places
  <2>4. QED
    BY <2>2, <2>3
<1>4. CASE \E d \in Calls : Read(d)
  BY <1>1, <1>4 DEF RowGoesFirst, FirstPlace, Kinds
<1>5. CASE \E d \in Calls : RemoveObject(d)
  BY <1>2, <1>5 DEF RemoveObject, Places
<1>6. CASE \E d \in Calls : RemoveRow(d)
  BY <1>2, <1>6 DEF RemoveRow, Places
<1>7. CASE \E d \in Calls : FileOnRequest(d) \/ RecordReceipt(d)
  BY <1>2, <1>7 DEF FileOnRequest, RecordReceipt, Places
<1>8. CASE \E d \in Calls : PurgeRow(d)
  <2>1. PICK d \in Calls : PurgeRow(d)
    BY <1>8
  <2>2. PICK place \in {"object", "done"} : Goto(d, place)
    BY <2>1, <1>3
  <2>3. c = d
    BY <1>2, <2>2 DEF Places
  <2>4. QED
    BY <1>2, <1>3, <2>1, <2>2, <2>3 DEF Places
<1>9. CASE UNCHANGED op
  BY <1>9
<1>10. QED
  BY <1>4, <1>5, <1>6, <1>7, <1>8, <1>9
     DEF Next, vars, Upload, FileAtTerminal, StartSend, StartResend, Begin,
         Archive, SendMail, StampDispatch

\* A row appears with its object, under a name no call is at work on.
LEMMA RowsAppear ==
  ASSUME IInv, [Next]_vars, NEW n \in Names, row[n] = None, row'[n] # None
  PROVE  n \in objects' /\ \A c \in Calls : op[c].at # "idle" => op[c].file # n
<1> USE NamesApart DEF IInv, TypeOK
<1>1. ASSUME NEW f \in Files, Upload(f)
      PROVE  n = f /\ n \in objects' /\ \A c \in Calls : op[c].file # n
  BY <1>1 DEF Upload
<1>2. ASSUME NEW s \in Sends, Archive(s)
      PROVE  n \in objects' /\ n \notin Files
  <2>1. PICK m \in send[s].todo :
          LET copy == <<s, Original(m)>>
          IN /\ copy \in Names /\ row' \in {row, [row EXCEPT ![copy] = NewRow]}
             /\ row' = row \/ copy \in objects'
    BY <1>2, ArchiveStep
  <2>2. n = <<s, Original(m)>> /\ Original(m) \in Files
    BY <2>1 DEF Sending
  <2>3. QED
    BY <2>1, <2>2
<1>3. ASSUME NEW f \in Files, FileAtTerminal(f) PROVE FALSE
  BY <1>3 DEF FileAtTerminal, Staged
<1>4. ASSUME NEW c \in Calls,
             Read(c) \/ RemoveObject(c) \/ RemoveRow(c) \/ FileOnRequest(c)
               \/ RecordReceipt(c) \/ PurgeRow(c)
      PROVE  FALSE
  BY <1>4 DEF Read, RemoveObject, RemoveRow, FileOnRequest, RecordReceipt,
              PurgeRow
<1>5. ASSUME NEW s \in Sends,
             StartSend(s) \/ StartResend(s) \/ SendMail(s) \/ StampDispatch(s)
      PROVE  FALSE
  BY <1>5 DEF StartSend, StartResend, Begin, SendMail, StampDispatch
<1>6. QED
  BY <1>1, <1>2, <1>3, <1>4, <1>5 DEF Next, vars, CallsOnUploads

\* An object vanishes only by the step that removes it.
LEMMA ObjectsVanish ==
  ASSUME IInv, [Next]_vars, NEW n \in objects, n \notin objects'
  PROVE  \E c \in Calls : RemoveObject(c) /\ op[c].file = n
<1>1. ASSUME NEW s \in Sends, Archive(s) PROVE objects \subseteq objects'
  BY <1>1, ArchiveStep
<1>2. QED
  BY <1>1 DEF Next, vars, Upload, FileAtTerminal, Read, RemoveObject, RemoveRow,
     FileOnRequest, RecordReceipt, PurgeRow, StartSend, StartResend, Begin,
     SendMail, StampDispatch

\* Every step keeps the order of a cleanup, and that listed files are readable.
LEMMA CleanupInductive ==
  ASSUME IInv, RowGoesFirst, ListedIsReadable, [Next]_vars
  PROVE  RowGoesFirst' /\ ListedIsReadable'
<1> USE DEF IInv, TypeOK
<1>1. ASSUME NEW c \in Calls
      PROVE  /\ op'[c].at = "idle" => op'[c].file = None
             /\ op'[c].at = "object" => op'[c].kind \in {"delete", "detach", "purge"}
             /\ op'[c].kind = "purge" /\ op'[c].at = "object" => row'[op'[c].file] = None
  <2>1. CASE op'[c] = op[c]
    BY <2>1, RowsAppear, NamesApart DEF RowGoesFirst, CallsOnUploads
  <2>2. CASE op'[c] # op[c]
    BY <2>2, CallStep
  <2>3. QED
    BY <2>1, <2>2
<1>2. ASSUME NEW n \in Names, row'[n] # None, n \notin objects'
      PROVE  \E c \in Calls : op'[c].kind \in {"delete", "detach"} /\ op'[c].file = n
  <2>1. row[n] # None
    BY <1>2, RowsAppear
  <2>2. PICK c \in Calls : op[c].kind \in {"delete", "detach"} /\ op[c].file = n
    <3>1. CASE n \notin objects
      BY <2>1, <3>1 DEF ListedIsReadable
    <3>2. CASE n \in objects
      BY <1>2, <2>1, <3>2, ObjectsVanish DEF RemoveObject, RowGoesFirst
    <3>3. QED
      BY <3>1, <3>2
  <2>3. op[c].at # "idle"
    BY <2>2, NamesApart DEF RowGoesFirst
  <2>4. QED
    BY <2>2, <2>3, CallStep
<1>3. QED
  BY <1>1, <1>2 DEF RowGoesFirst, ListedIsReadable

\* A listed file can be read, but for one that is being deleted (purgeStaged
\* deletes the row first, upload and archive create it last).
THEOREM Readable == Spec => []ListedIsReadable
<1>1. Init => RowGoesFirst /\ ListedIsReadable
  BY DEF Init, RowGoesFirst, ListedIsReadable
<1>2. IInv /\ RowGoesFirst /\ ListedIsReadable /\ [Next]_vars
        => RowGoesFirst' /\ ListedIsReadable'
  BY CleanupInductive
<1>3. QED
  BY <1>1, <1>2, Invariance, PTL DEF Spec

\* What was mailed stays archived and can be mailed again, and every listed file
\* can be read (AttachmentsService as a whole).
THEOREM FilesKept == Spec => []FilesAreKept
<1>1. IInv /\ MailIsArchived /\ ResendIsExact /\ ListedIsReadable => FilesAreKept
  BY DEF FilesAreKept
<1>2. QED
  BY <1>1, Invariance, Archived, ExactResend, Readable, PTL

\* The cleanup takes neither row nor object of a file that is filed
\* (purgeStaged repeats its test in the where clause).
THEOREM CleanupSpares == Spec => CleanupSparesFiled
<1> DEFINE Spares == \A c \in Calls, n \in Names :
       op[c].kind = "purge" /\ op'[c].at # op[c].at /\ Filed(n)
         => row'[n] = row[n] /\ (n \in objects => n \in objects')
<1>1. Init => RowGoesFirst /\ ListedIsReadable
  BY DEF Init, RowGoesFirst, ListedIsReadable
<1>2. IInv /\ RowGoesFirst /\ ListedIsReadable /\ [Next]_vars
        => RowGoesFirst' /\ ListedIsReadable'
  BY CleanupInductive
<1>3. IInv /\ RowGoesFirst /\ [Next]_vars => [Spares]_vars
  <2> SUFFICES ASSUME IInv, RowGoesFirst, Next, NEW c \in Calls, NEW n \in Names,
                      op[c].kind = "purge", op'[c].at # op[c].at, Filed(n)
               PROVE  row'[n] = row[n] /\ (n \in objects => n \in objects')
    OBVIOUS
  <2> USE DEF IInv, TypeOK
  <2>1. ASSUME NEW d \in Calls, Goto(d, "row") \/ Goto(d, "write") \/
                                Goto(d, "object") \/ Goto(d, "done")
        PROVE  d = c
    BY <2>1, CallMoves DEF Places
  <2>2. CASE \E d \in Calls : Read(d)
    BY <2>2 DEF Read
  <2>3. CASE \E d \in Calls : RemoveObject(d)
    BY <2>1, <2>3 DEF RemoveObject, RowGoesFirst, Filed
  <2>4. CASE \E d \in Calls : RemoveRow(d) \/ FileOnRequest(d) \/ RecordReceipt(d)
    BY <2>1, <2>4 DEF RemoveRow, FileOnRequest, RecordReceipt
  <2>5. CASE \E d \in Calls : PurgeRow(d)
    <3>1. PurgeRow(c)
      BY <2>1, <2>5 DEF PurgeRow
    <3>2. op[c].file \in Files
      BY <3>1 DEF PurgeRow, CallsOnUploads
    <3>3. StillStaged(op[c].file) => op[c].file # n
      BY DEF StillStaged, Staged, Filed
    <3>4. QED
      BY <3>1, <3>2, <3>3 DEF PurgeRow
  <2>6. QED
    BY <2>2, <2>3, <2>4, <2>5
       DEF Next, Upload, FileAtTerminal, StartSend, StartResend, Begin, Archive,
           SendMail, StampDispatch
<1>4. QED
  BY <1>1, <1>2, <1>3, Invariance, PTL DEF Spec, CleanupSparesFiled

-----------------------------------------------------------------------------
\* The page of a nomination.

\* The editors whose save of a field is written and not answered.
Unanswered(f) ==
  {e \in Editors : saving[e] # Null /\ f \in Concerns(e) /\ saving[e].write # Null}

\* Writes are counted: no two saves have the same, and none is to come.
WritesKnown ==
  /\ \A f \in Named : kept[f].at <= stored.writes
  /\ \A e \in Editors : saving[e] # Null /\ saving[e].write # Null =>
       /\ saving[e].write <= stored.writes
       /\ \A g \in Editors \ {e} : saving[g] # Null => saving[g].write # saving[e].write

\* The last write of a field is the one that was told, or one that is not answered.
KeptStands ==
  \A f \in Named :
    \/ /\ kept[f].text \in {Null, stored[f]}
       /\ \A e \in Unanswered(f) : saving[e].write < kept[f].at
    \/ \E e \in Unanswered(f) :
         /\ saving[e].fields[f] = stored[f] /\ kept[f].at < saving[e].write
         /\ \A g \in Unanswered(f) : saving[g].write <= saving[e].write

\* Nothing that is composed, or being composed, is from before the last save that
\* was told, and what a letter is made from is not older than what was told when it
\* was asked for.
ComposedSince ==
  /\ told <= stored.writes
  /\ composed \in Writes => told <= composed
  /\ composing # Null => told <= composing
  /\ saving["cargo"] # Null =>
       /\ saving["cargo"].since <= told
       /\ saving["cargo"].header \in Writes => saving["cargo"].since <= saving["cargo"].header
  /\ drawer # Null =>
       /\ drawer.since <= told
       /\ drawer.header \in Writes => drawer.since <= drawer.header

\* No other letter is open while the cargo update of this one is saved, the members
\* of a group are for a letter that is open, and its own recipients count as dirty.
DrawerKnown ==
  /\ saving["cargo"] # Null /\ saving["cargo"].mail => letter = "cargo" /\ drawer = Null
  /\ saving["eta"] # Null /\ saving["eta"].mail => letter = "notice"
  /\ resolving # Null => drawer # Null
  /\ drawer # Null /\ drawer.to => drawer.dirty

PageInv ==
  /\ PageTypeOK /\ WritesKnown /\ KeptStands
  /\ ComposedSince /\ DraftIsFresh /\ FilesAreShown /\ DrawerKnown

LEMMA PageNames ==
  /\ MaxEdits \in Nat /\ MaxWrites \in Nat /\ Null # Failed
  /\ Null \notin Nat /\ Failed \notin Nat
  /\ Null \notin Save /\ Null \notin Loose /\ Null \notin Draft /\ Null \notin Group
  /\ Texts = 0..MaxEdits /\ Writes = 0..MaxWrites
  /\ Editors = {"form", "eta", "cargo"} /\ Named = {"parcels", "rest"}
BY LettersAssumption DEF Texts, Writes, Editors, Named

LEMMA SaveTypes ==
  ASSUME PageTypeOK, NEW e \in Editors, saving[e] # Null
  PROVE  /\ saving[e] \in Save /\ saving[e].fields \in Fields
         /\ saving[e].fields.parcels \in Texts /\ saving[e].fields.rest \in Texts
         /\ \A f \in Named : saving[e].fields[f] \in Texts
         /\ saving[e].mail \in BOOLEAN /\ saving[e].header \in Writes \cup {Null, Failed}
         /\ saving[e].since \in Writes /\ saving[e].write \in Writes \cup {Null}
<1>1. saving[e] \in Save
  BY DEF PageTypeOK
<1>2. /\ saving[e].fields \in Fields
      /\ saving[e].mail \in BOOLEAN /\ saving[e].header \in Writes \cup {Null, Failed}
      /\ saving[e].since \in Writes /\ saving[e].write \in Writes \cup {Null}
  BY <1>1 DEF Save
<1>3. saving[e].fields.parcels \in Texts /\ saving[e].fields.rest \in Texts
  BY <1>2 DEF Fields
<1>4. QED
  BY <1>1, <1>2, <1>3, PageNames

LEMMA PageTypes ==
  ASSUME PageTypeOK
  PROVE  /\ stored \in Stored /\ stored.parcels \in Texts /\ stored.rest \in Texts
         /\ stored.writes \in Writes
         /\ form \in Fields /\ form.parcels \in Texts /\ form.rest \in Texts
         /\ saving \in [Editors -> Save \cup {Null}]
         /\ kept \in [Named -> Told]
         /\ \A f \in Named : /\ kept[f] \in Told /\ kept[f].text \in Texts \cup {Null}
                             /\ kept[f].at \in Writes /\ stored[f] \in Texts
         /\ told \in Writes /\ composed \in Writes \cup {Null, Failed}
         /\ composing \in Writes \cup {Null} /\ resolving \in Group \cup {Null}
<1>1. stored \in Stored /\ form \in Fields /\ kept \in [Named -> Told]
  BY DEF PageTypeOK
<1>2. stored.parcels \in Texts /\ stored.rest \in Texts /\ stored.writes \in Writes
      /\ form.parcels \in Texts /\ form.rest \in Texts
  BY <1>1 DEF Stored, Fields
<1>3. \A f \in Named : kept[f] \in Told /\ stored[f] \in Texts
  BY <1>1, <1>2, PageNames
<1>4. \A f \in Named : kept[f].text \in Texts \cup {Null} /\ kept[f].at \in Writes
  BY <1>3 DEF Told
<1>5. QED
  BY <1>1, <1>2, <1>3, <1>4 DEF PageTypeOK

LEMMA DrawerTypes ==
  ASSUME PageTypeOK, drawer # Null
  PROVE  /\ drawer \in Draft /\ drawer.since \in Writes /\ drawer.header \in Writes \cup {Null}
         /\ drawer.filled \in BOOLEAN /\ drawer.torn \in BOOLEAN /\ drawer.pending \in BOOLEAN
         /\ drawer.stale \in BOOLEAN /\ drawer.to \in BOOLEAN /\ drawer.dirty \in BOOLEAN
         /\ drawer.cc \in BOOLEAN /\ drawer.ccDirty \in BOOLEAN
<1>1. drawer \in Draft
  BY DEF PageTypeOK
<1>2. QED
  BY <1>1 DEF Draft

LEMMA PageStarts == PageInit => PageInv
<1> SUFFICES ASSUME PageInit PROVE PageInv
  OBVIOUS
<1> USE PageNames
<1>1. /\ letter \in {"notice", "cargo", "none"}
      /\ stored = [parcels |-> 0, rest |-> 0, writes |-> 0]
      /\ form = [parcels |-> 0, rest |-> 0] /\ cache = 0 /\ cargo = 0 /\ cargoOpen = FALSE
      /\ saving = [e \in Editors |-> Null] /\ loose = Null
      /\ composed = Null /\ composing = Null
      /\ drawer = Null /\ resolving = Null /\ edits = 0
      /\ kept = [f \in Named |-> [text |-> 0, at |-> 0]] /\ told = 0
  BY DEF PageInit
<1>2. 0 \in Texts /\ 0 \in Writes
  OBVIOUS
<1>3. stored \in Stored /\ form \in Fields /\ kept \in [Named -> Told]
  BY <1>1, <1>2 DEF Stored, Fields, Told
<1>a. /\ saving \in [Editors -> Save \cup {Null}] /\ \A e \in Editors : saving[e] = Null
      /\ \A f \in Named : kept[f].text = 0 /\ kept[f].at = 0 /\ stored[f] = 0
      /\ stored.writes = 0
  BY <1>1
<1>4. PageTypeOK
  BY <1>1, <1>2, <1>3, <1>a DEF PageTypeOK
<1>5. WritesKnown /\ KeptStands
  BY <1>a DEF WritesKnown, KeptStands, Unanswered
<1>6. ComposedSince /\ DraftIsFresh /\ FilesAreShown /\ DrawerKnown
  BY <1>1, <1>a DEF ComposedSince, DraftIsFresh, FilesAreShown, DrawerKnown
<1>7. QED
  BY <1>4, <1>5, <1>6 DEF PageInv

\* A drawer that takes a draft, one that is opened, and one whose fields go.
LEMMA FilledIs ==
  ASSUME NEW d \in Draft, NEW writes \in Writes, d.to => d.dirty,
         IF d.header = Null THEN d.since <= writes ELSE d.since <= d.header
  PROVE  /\ Fill(d, writes) \in Draft /\ ~Fill(d, writes).stale
         /\ Fill(d, writes).since = 0 /\ Fill(d, writes).header = Null
         /\ Fill(d, writes).file = d.file
         /\ Fill(d, writes).pending <=> d.pending
         /\ Fill(d, writes).torn <=> d.torn
         /\ Fill(d, writes).to <=> d.to
         /\ Fill(d, writes).dirty <=> d.dirty
         /\ Fill(d, writes).cc <=> d.cc /\ d.ccDirty
<1> USE PageNames
<1> DEFINE stale == (IF d.header = Null THEN writes ELSE d.header) < d.since
           to_ == d.to /\ d.dirty
           cc_ == d.cc /\ d.ccDirty
           e == [d EXCEPT !.filled = TRUE, !.body = "draft", !.to = to_, !.cc = cc_,
                          !.stale = stale, !.header = Null, !.since = 0]
<1>1. /\ d.header \in Writes \cup {Null} /\ d.since \in Writes /\ 0 \in Writes
      /\ d.to \in BOOLEAN /\ d.cc \in BOOLEAN
  BY DEF Draft
<1>2. Fill(d, writes) = e
  BY DEF Fill, Filled
<1>3. ~stale
  BY <1>1
<1>4. stale \in BOOLEAN /\ to_ \in BOOLEAN /\ cc_ \in BOOLEAN /\ (to_ <=> d.to)
      /\ (cc_ <=> d.cc /\ d.ccDirty)
  BY <1>1
<1> HIDE DEF stale, to_, cc_
<1>5. e \in Draft
  BY <1>1, <1>4 DEF Draft
<1>6. /\ (e.stale <=> stale) /\ e.since = 0 /\ e.header = Null /\ e.file = d.file
      /\ e.pending <=> d.pending
  BY DEF Draft
<1>7. (e.torn <=> d.torn) /\ (e.to <=> to_) /\ (e.dirty <=> d.dirty) /\ (e.cc <=> cc_)
  BY DEF Draft
<1> HIDE DEF e
<1>8. QED
  BY <1>2, <1>3, <1>4, <1>5, <1>6, <1>7

\* What a drawer has to be, once the user was told of the write at.
Sound(d, at) ==
  /\ d \in Draft /\ ~d.stale
  /\ d.since \in Writes /\ d.since <= at
  /\ d.header \in Writes => d.since <= d.header
  /\ d.to => d.dirty
  /\ d.torn \/ /\ d.pending <=> (d.file = "uploading")
               /\ d.file # "unlisted"

LEMMA DrawerIsSound == ASSUME PageInv, drawer # Null PROVE Sound(drawer, told)
BY DrawerTypes DEF PageInv, ComposedSince, DraftIsFresh, FilesAreShown, DrawerKnown, Sound

LEMMA FilledIsSound ==
  ASSUME NEW at \in Writes, NEW d, Sound(d, at), NEW writes \in Writes, at <= writes
  PROVE  Sound(Fill(d, writes), at)
<1> USE PageNames
<1>1. d \in Draft /\ d.header \in Writes \cup {Null} /\ d.since \in Writes
  BY DEF Sound, Draft
<1>2. (d.to => d.dirty) /\ (IF d.header = Null THEN d.since <= writes ELSE d.since <= d.header)
  BY <1>1 DEF Sound
<1>3. /\ Fill(d, writes) \in Draft /\ ~Fill(d, writes).stale
      /\ Fill(d, writes).since = 0 /\ Fill(d, writes).header = Null
      /\ Fill(d, writes).file = d.file
      /\ Fill(d, writes).pending <=> d.pending
      /\ Fill(d, writes).torn <=> d.torn
      /\ Fill(d, writes).to <=> d.to
      /\ Fill(d, writes).dirty <=> d.dirty
  BY <1>1, <1>2, FilledIs
<1>4. 0 \in Writes /\ 0 <= at /\ Null \notin Writes
  OBVIOUS
<1>5. QED
  BY <1>3, <1>4 DEF Sound

LEMMA OpenedIsSound ==
  ASSUME NEW at \in Writes, NEW header \in Writes \cup {Null}, NEW has, NEW since \in Writes,
         since <= at, has \in Writes => at <= has,
         header \in Writes => since <= header
  PROVE  Sound(Opened(header, has, since), at)
<1> USE PageNames
<1> DEFINE d == [header |-> header, filled |-> FALSE, to |-> FALSE, dirty |-> FALSE,
                 cc |-> FALSE, ccDirty |-> FALSE, body |-> "blank", stale |-> FALSE,
                 since |-> since, file |-> "none", pending |-> FALSE, torn |-> FALSE]
<1>1. d \in Draft
  BY DEF Draft
<1>2. Sound(d, at)
  BY <1>1 DEF Sound
<1>3. Opened(header, has, since) = IF has \in Writes THEN Fill(d, has) ELSE d
  BY DEF Opened
<1> HIDE DEF d
<1>4. CASE has \in Writes
  BY <1>2, <1>3, <1>4, FilledIsSound
<1>5. CASE has \notin Writes
  BY <1>2, <1>3, <1>5
<1>6. QED
  BY <1>4, <1>5

LEMMA TornIs ==
  ASSUME PageTypeOK
  PROVE  /\ drawer = Null => Torn(drawer) = Null
         /\ drawer # Null =>
              /\ Torn(drawer) \in Draft /\ Torn(drawer).torn
              /\ Torn(drawer).stale <=> drawer.stale
              /\ Torn(drawer).since = drawer.since /\ Torn(drawer).header = drawer.header
              /\ Torn(drawer).body = drawer.body
              /\ Torn(drawer).to <=> drawer.to
              /\ Torn(drawer).cc <=> drawer.cc
              /\ Torn(drawer).dirty <=> drawer.dirty
<1>1. drawer = Null => Torn(drawer) = Null
  BY DEF Torn
<1>2. ASSUME drawer # Null
      PROVE  /\ Torn(drawer) \in Draft /\ Torn(drawer).torn
             /\ Torn(drawer).stale <=> drawer.stale
             /\ Torn(drawer).since = drawer.since /\ Torn(drawer).header = drawer.header
             /\ Torn(drawer).body = drawer.body
             /\ Torn(drawer).to <=> drawer.to
             /\ Torn(drawer).cc <=> drawer.cc
             /\ Torn(drawer).dirty <=> drawer.dirty
  <2>1. drawer \in Draft
    BY <1>2 DEF PageTypeOK
  <2> DEFINE file == CASE drawer.file = "uploading" -> "none"
                       [] drawer.file = "listed" -> "unlisted"
                       [] OTHER -> drawer.file
             t == [drawer EXCEPT !.torn = TRUE, !.file = file]
  <2>2. file \in {"none", "uploading", "listed", "unlisted"}
    BY <2>1 DEF Draft
  <2>3. Torn(drawer) = t
    BY <1>2 DEF Torn
  <2> HIDE DEF file
  <2>4. t \in Draft /\ t.torn
    BY <2>1, <2>2 DEF Draft
  <2>5. (t.stale <=> drawer.stale) /\ t.since = drawer.since /\ t.header = drawer.header
        /\ t.body = drawer.body
    BY <2>1 DEF Draft
  <2>6. (t.to <=> drawer.to) /\ (t.cc <=> drawer.cc) /\ (t.dirty <=> drawer.dirty)
    BY <2>1 DEF Draft
  <2> HIDE DEF t
  <2>7. QED
    BY <2>3, <2>4, <2>5, <2>6
<1>3. QED
  BY <1>1, <1>2

LEMMA TornIsSound == ASSUME PageInv, drawer # Null PROVE Sound(Torn(drawer), told)
<1>1. PageTypeOK
  BY DEF PageInv
<1>2. QED
  BY <1>1, TornIs, DrawerIsSound DEF Sound

\* The editors, and what is submitted from them.
LEMMA EditorSteps ==
  ASSUME PageInv, EditForm \/ EditCargo \/ OpenCargo \/ CloseCargo \/ RemountPanel \/ Reread
  PROVE  PageInv'
<1> USE PageNames
<1>a. /\ UNCHANGED letter /\ UNCHANGED stored /\ UNCHANGED saving /\ UNCHANGED composed
      /\ UNCHANGED composing /\ UNCHANGED drawer /\ UNCHANGED resolving /\ UNCHANGED kept
      /\ UNCHANGED told /\ UNCHANGED loose
  BY DEF EditForm, EditCargo, OpenCargo, CloseCargo, RemountPanel, Reread, OnlyDialog,
     drafts, letter_, history, saves
<1>b. /\ cache \in Texts /\ stored.parcels \in Texts /\ form \in Fields /\ cargo \in Texts
      /\ cargoOpen \in BOOLEAN /\ edits \in Texts
  BY PageTypes DEF PageInv, PageTypeOK
<1>c. edits' \in Texts /\ (edits' = edits \/ edits' = edits + 1)
  BY <1>b DEF EditForm, EditCargo, OpenCargo, CloseCargo, RemountPanel, Reread, OnlyDialog
<1>d. form' \in Fields
  <2>1. CASE EditForm
    BY <1>b, <1>c, <2>1 DEF EditForm, Fields
  <2>2. QED
    BY <1>b, <2>1 DEF EditCargo, OpenCargo, CloseCargo, RemountPanel, Reread, OnlyDialog
<1>e. cache' \in Texts /\ cargo' \in Texts /\ cargoOpen' \in BOOLEAN
  BY <1>b, <1>c DEF EditForm, EditCargo, OpenCargo, CloseCargo, RemountPanel, Reread, OnlyDialog
<1>1. PageTypeOK'
  BY <1>a, <1>c, <1>d, <1>e DEF PageInv, PageTypeOK
<1>2. WritesKnown' /\ KeptStands'
  BY <1>a DEF PageInv, WritesKnown, KeptStands, Unanswered
<1>3. ComposedSince' /\ DraftIsFresh' /\ FilesAreShown' /\ DrawerKnown'
  BY <1>a DEF PageInv, ComposedSince, DraftIsFresh, FilesAreShown, DrawerKnown
<1>4. QED
  BY <1>1, <1>2, <1>3 DEF PageInv

\* A save that was not written comes or goes.
LEMMA UnwrittenKeeps ==
  ASSUME PageInv, NEW e \in Editors, UNCHANGED stored, UNCHANGED kept,
         \A g \in Editors \ {e} : saving'[g] = saving[g],
         saving[e] = Null \/ saving[e].write = Null,
         saving'[e] = Null \/ saving'[e].write = Null
  PROVE  WritesKnown' /\ KeptStands'
<1>1. \A f \in Named : Unanswered(f)' = Unanswered(f)
  BY DEF Unanswered
<1>2. \A f \in Named : \A g \in Unanswered(f) : saving'[g] = saving[g]
  BY DEF Unanswered
<1>3. KeptStands'
  BY <1>1, <1>2 DEF PageInv, KeptStands
<1>4. WritesKnown'
  BY DEF PageInv, WritesKnown
<1>5. QED
  BY <1>3, <1>4

\* One that was written is answered, or its answer is lost.
LEMMA WrittenKeeps ==
  ASSUME PageInv, NEW e \in Editors, UNCHANGED stored, saving[e] # Null,
         saving[e].write # Null,
         \A g \in Editors \ {e} : saving'[g] = saving[g], saving'[e] = Null,
         \A f \in Named :
           \/ /\ f \notin Concerns(e) \/ saving[e].write <= kept[f].at
              /\ kept'[f].at = kept[f].at /\ kept'[f].text \in {Null, kept[f].text}
           \/ /\ f \in Concerns(e) /\ kept[f].at <= saving[e].write
              /\ kept'[f].at = saving[e].write
              /\ kept'[f].text \in {Null, saving[e].fields[f]}
  PROVE  WritesKnown' /\ KeptStands'
<1> USE PageNames
<1>1. /\ saving[e].write \in Writes /\ saving[e].write <= stored.writes
      /\ \A g \in Editors \ {e} : saving[g] # Null => saving[g].write # saving[e].write
      /\ \A g \in Editors : saving[g] # Null => saving[g].write \in Writes \cup {Null}
      /\ \A f \in Named : kept[f].at \in Writes
  BY SaveTypes, PageTypes DEF PageInv, WritesKnown
<1>2. ASSUME NEW f \in Named
      PROVE  /\ Unanswered(f)' = Unanswered(f) \ {e}
             /\ \A g \in Unanswered(f)' : saving'[g] = saving[g]
  BY DEF Unanswered
<1>3. WritesKnown'
  BY <1>1 DEF PageInv, WritesKnown
<1>4. ASSUME NEW f \in Named
      PROVE  \/ /\ kept'[f].text \in {Null, stored[f]}
                /\ \A g \in Unanswered(f) \ {e} : saving[g].write < kept'[f].at
             \/ \E d \in Unanswered(f) \ {e} :
                  /\ saving[d].fields[f] = stored[f] /\ kept'[f].at < saving[d].write
                  /\ \A g \in Unanswered(f) \ {e} : saving[g].write <= saving[d].write
  <2>0. \A g \in Unanswered(f) : saving[g].write \in Writes
    BY <1>1 DEF Unanswered
  <2>a. f \in Concerns(e) <=> e \in Unanswered(f)
    BY DEF Unanswered
  <2>1. CASE /\ kept[f].text \in {Null, stored[f]}
             /\ \A g \in Unanswered(f) : saving[g].write < kept[f].at
    BY <1>1, <2>0, <2>1, <2>a
  <2>2. ASSUME NEW d \in Unanswered(f), saving[d].fields[f] = stored[f],
               kept[f].at < saving[d].write,
               \A g \in Unanswered(f) : saving[g].write <= saving[d].write
        PROVE  \/ /\ kept'[f].text \in {Null, stored[f]}
                  /\ \A g \in Unanswered(f) \ {e} : saving[g].write < kept'[f].at
               \/ \E c \in Unanswered(f) \ {e} :
                    /\ saving[c].fields[f] = stored[f] /\ kept'[f].at < saving[c].write
                    /\ \A g \in Unanswered(f) \ {e} : saving[g].write <= saving[c].write
    <3>1. CASE d = e
      <4>1. /\ kept'[f].at = saving[e].write
            /\ kept'[f].text \in {Null, stored[f]}
        BY <1>1, <2>2, <2>a, <3>1
      <4>2. \A g \in Unanswered(f) \ {e} : saving[g].write < saving[e].write
        BY <1>1, <2>0, <2>2, <3>1 DEF Unanswered
      <4>3. QED
        BY <4>1, <4>2
    <3>2. CASE d # e
      <4>1. saving[d].write # saving[e].write /\ saving[d].write \in Writes
        BY <1>1, <2>0, <3>2 DEF Unanswered
      <4>2. e \in Unanswered(f) => saving[e].write < saving[d].write
        BY <1>1, <2>2, <4>1
      <4>3. kept'[f].at < saving[d].write
        BY <1>1, <2>2, <2>a, <4>1, <4>2
      <4>4. QED
        BY <2>2, <3>2, <4>3
    <3>3. QED
      BY <3>1, <3>2
  <2>3. QED
    BY <2>1, <2>2 DEF PageInv, KeptStands
<1>5. KeptStands'
  BY <1>2, <1>4 DEF KeptStands
<1>6. QED
  BY <1>3, <1>5

LEMMA ConcernsIs ==
  /\ Concerns("form") = Named /\ Concerns("cargo") = {"parcels"} /\ Concerns("eta") = {}
  /\ \A e \in Editors : Concerns(e) \subseteq Named
<1>1. Concerns("form") = Named /\ Concerns("cargo") = {"parcels"} /\ Concerns("eta") = {}
  BY DEF Concerns
<1>2. QED
  BY <1>1, PageNames

LEMMA WritingIs ==
  ASSUME PageTypeOK, NEW e \in Editors, NEW fields \in Fields, Writing(e, fields)
  PROVE  /\ stored' \in Stored /\ stored'.writes \in Writes
         /\ stored'.writes = stored.writes + 1
         /\ \A f \in Named : stored'[f] = IF f \in Concerns(e) THEN fields[f] ELSE stored[f]
<1> USE PageNames
<1>a. /\ stored \in Stored /\ stored.parcels \in Texts /\ stored.rest \in Texts
      /\ stored.writes \in Writes /\ fields.parcels \in Texts /\ fields.rest \in Texts
      /\ stored.writes < MaxWrites
      /\ stored' = [Written(stored, e, fields) EXCEPT !.writes = @ + 1]
  BY PageTypes DEF Fields, Writing
<1> DEFINE parcels == IF "parcels" \in Concerns(e) THEN fields.parcels ELSE stored.parcels
           rest == IF "rest" \in Concerns(e) THEN fields.rest ELSE stored.rest
           w == Written(stored, e, fields)
<1>b. parcels \in Texts /\ rest \in Texts /\ stored.writes + 1 \in Writes
  BY <1>a
<1>c. w = [stored EXCEPT !.parcels = parcels, !.rest = rest]
  BY DEF Written
<1> HIDE DEF parcels, rest, w
<1>d. w \in Stored /\ w.parcels = parcels /\ w.rest = rest /\ w.writes = stored.writes
  BY <1>a, <1>b, <1>c DEF Stored
<1>e. stored' = [w EXCEPT !.writes = stored.writes + 1]
  BY <1>a, <1>d DEF w
<1>f. /\ stored' \in Stored /\ stored'.writes = stored.writes + 1
      /\ stored'.parcels = parcels /\ stored'.rest = rest
  BY <1>b, <1>d, <1>e DEF Stored
<1>g. QED
  BY <1>b, <1>f DEF parcels, rest

\* What the rest of the page keeps while a save comes, is written or goes.
LEMMA SaveKeeps ==
  ASSUME PageInv, NEW e \in Editors, UNCHANGED letter, UNCHANGED composed, UNCHANGED composing,
         UNCHANGED drawer, UNCHANGED resolving, UNCHANGED told, UNCHANGED edits,
         UNCHANGED cache, UNCHANGED form, UNCHANGED cargo, UNCHANGED cargoOpen,
         stored' \in Stored, stored'.writes \in Writes, stored.writes <= stored'.writes,
         saving' \in [Editors -> Save \cup {Null}], loose' \in Loose \cup {Null},
         kept' \in [Named -> Told],
         \A g \in Editors \ {e} : saving'[g] = saving[g],
         saving'[e] # Null =>
           \/ /\ saving[e] # Null /\ saving'[e].since = saving[e].since
              /\ saving'[e].header = saving[e].header
              /\ saving'[e].mail <=> saving[e].mail
           \/ /\ e = "cargo" =>
                   /\ saving'[e].since <= told
                   /\ saving'[e].header \in Writes => saving'[e].since <= saving'[e].header
                   /\ saving'[e].mail => letter = "cargo" /\ drawer = Null
              /\ e = "eta" /\ saving'[e].mail => letter = "notice",
         WritesKnown', KeptStands'
  PROVE  PageInv'
<1> USE PageNames
<1>1. PageTypeOK'
  BY DEF PageInv, PageTypeOK
<1>2. ComposedSince'
  <2>1. told \in Nat /\ told <= stored.writes /\ stored.writes \in Nat
    BY PageTypes DEF PageInv, ComposedSince
  <2>2. told' <= stored'.writes
    BY <2>1
  <2>3. saving'["cargo"] # Null =>
          /\ saving'["cargo"].since <= told
          /\ saving'["cargo"].header \in Writes
               => saving'["cargo"].since <= saving'["cargo"].header
    BY DEF PageInv, ComposedSince
  <2>4. QED
    BY <2>2, <2>3 DEF PageInv, ComposedSince
<1>3. DraftIsFresh' /\ FilesAreShown'
  BY DEF PageInv, DraftIsFresh, FilesAreShown
<1>4. DrawerKnown'
  BY DEF PageInv, DrawerKnown
<1>5. QED
  BY <1>1, <1>2, <1>3, <1>4 DEF PageInv

LEMMA SubmitKeeps ==
  ASSUME PageInv, NEW e \in Editors, NEW fields \in Fields, NEW mailed \in BOOLEAN,
         Submit(e, fields, mailed),
         e = "cargo" /\ mailed => letter = "cargo" /\ drawer = Null,
         e = "eta" /\ mailed => letter = "notice"
  PROVE  PageInv'
<1> USE PageNames
<1> DEFINE x == [fields |-> fields, mail |-> mailed, write |-> Null,
                 header |-> IF mailed /\ e = "cargo" THEN composed ELSE Null,
                 since |-> IF mailed /\ e = "cargo" THEN told ELSE 0]
<1>a. /\ UNCHANGED letter /\ UNCHANGED stored /\ UNCHANGED composed
      /\ UNCHANGED composing /\ UNCHANGED drawer /\ UNCHANGED resolving /\ UNCHANGED kept
      /\ UNCHANGED told /\ UNCHANGED edits /\ UNCHANGED cache /\ UNCHANGED form
      /\ UNCHANGED cargo /\ UNCHANGED cargoOpen /\ UNCHANGED loose /\ saving[e] = Null
      /\ saving' = [saving EXCEPT ![e] = x]
  BY DEF Submit, page, drafts, letter_, history
<1>b. /\ composed \in Writes \cup {Null, Failed} /\ told \in Writes /\ 0 \in Writes
      /\ composed \in Writes => told <= composed
      /\ saving \in [Editors -> Save \cup {Null}] /\ kept \in [Named -> Told]
      /\ stored \in Stored /\ stored.writes \in Writes /\ loose \in Loose \cup {Null}
      /\ stored.writes <= stored.writes /\ told <= told /\ 0 <= told
  BY PageTypes DEF PageInv, PageTypeOK, ComposedSince
<1>c. /\ x \in Save /\ x.write = Null /\ (x.mail <=> mailed)
      /\ x.since <= told /\ (x.header \in Writes => x.since <= x.header)
  BY <1>b DEF Save
<1> HIDE DEF x
<1>d. /\ saving' \in [Editors -> Save \cup {Null}] /\ saving'[e] = x
      /\ \A g \in Editors \ {e} : saving'[g] = saving[g]
  BY <1>a, <1>b, <1>c
<1>1. WritesKnown' /\ KeptStands'
  BY <1>a, <1>c, <1>d, UnwrittenKeeps
<1>2. QED
  BY <1>a, <1>b, <1>c, <1>d, <1>1, SaveKeeps

LEMMA PageSubmits ==
  ASSUME PageInv, SubmitForm \/ SubmitEta \/ SubmitCargo PROVE PageInv'
<1> USE PageNames
<1>1. form \in Fields /\ cargo \in Texts
  BY DEF PageInv, PageTypeOK
<1>2. [form EXCEPT !.parcels = cargo] \in Fields
  BY <1>1 DEF Fields
<1>3. CASE SubmitForm
  BY <1>1, <1>3, SubmitKeeps DEF SubmitForm
<1>4. CASE SubmitEta
  <2>1. PICK mailed \in {FALSE, letter = "notice"} : Submit("eta", form, mailed)
    BY <1>4 DEF SubmitEta
  <2>2. mailed \in BOOLEAN /\ (mailed => letter = "notice")
    OBVIOUS
  <2>3. QED
    BY <1>1, <2>1, <2>2, SubmitKeeps
<1>5. CASE SubmitCargo
  <2>1. PICK mailed \in {FALSE, letter = "cargo"} :
          Submit("cargo", [form EXCEPT !.parcels = cargo], mailed)
    BY <1>5 DEF SubmitCargo
  <2>2. mailed \in BOOLEAN /\ (mailed => letter = "cargo") /\ drawer = Null
    BY <1>5 DEF SubmitCargo, InCargo
  <2>3. QED
    BY <1>2, <2>1, <2>2, SubmitKeeps
<1>6. QED
  BY <1>3, <1>4, <1>5

\* The backend writes.
LEMMA PageApplyStep == ASSUME PageInv, NEW e \in Editors, Apply(e) PROVE PageInv'
<1> USE PageNames
<1> DEFINE x == [saving[e] EXCEPT !.write = stored'.writes]
<1>a. /\ UNCHANGED letter /\ UNCHANGED composed
      /\ UNCHANGED composing /\ UNCHANGED drawer /\ UNCHANGED resolving /\ UNCHANGED kept
      /\ UNCHANGED told /\ UNCHANGED edits /\ UNCHANGED cache /\ UNCHANGED form
      /\ UNCHANGED cargo /\ UNCHANGED cargoOpen /\ UNCHANGED loose
      /\ saving[e] # Null /\ saving[e].write = Null /\ Writing(e, saving[e].fields)
      /\ saving' = [saving EXCEPT ![e].write = stored'.writes]
  BY DEF Apply, page, drafts, letter_, history
<1>b. /\ stored.writes \in Writes /\ saving[e] \in Save /\ saving[e].fields \in Fields
      /\ kept \in [Named -> Told] /\ loose \in Loose \cup {Null}
      /\ saving \in [Editors -> Save \cup {Null}]
      /\ \A f \in Named : kept[f].at \in Writes /\ kept[f].at <= stored.writes
      /\ \A g \in Editors : saving[g] # Null =>
           /\ saving[g].write \in Writes \cup {Null}
           /\ saving[g].write # Null => saving[g].write <= stored.writes
  BY <1>a, PageTypes, SaveTypes DEF PageInv, PageTypeOK, WritesKnown
<1>c. /\ stored' \in Stored /\ stored'.writes \in Writes
      /\ stored'.writes = stored.writes + 1
      /\ \A f \in Named :
           stored'[f] = IF f \in Concerns(e) THEN saving[e].fields[f] ELSE stored[f]
  BY <1>a, <1>b, WritingIs DEF PageInv
<1>d. /\ x \in Save /\ x.write = stored'.writes /\ x.fields = saving[e].fields
      /\ x.since = saving[e].since /\ x.header = saving[e].header
      /\ x.mail <=> saving[e].mail
  BY <1>b, <1>c DEF Save
<1>e. saving' = [saving EXCEPT ![e] = x]
  BY <1>a
<1> HIDE DEF x
<1>f. /\ saving' \in [Editors -> Save \cup {Null}] /\ saving'[e] = x /\ x # Null
      /\ \A g \in Editors \ {e} : saving'[g] = saving[g]
  BY <1>b, <1>d, <1>e
<1>1. WritesKnown'
  <2>1. \A f \in Named : kept'[f].at <= stored'.writes
    BY <1>a, <1>b, <1>c
  <2>2. \A g \in Editors \ {e} : saving'[g] # Null =>
          /\ saving'[g].write # Null => saving'[g].write <= stored'.writes
          /\ saving'[g].write # x.write
    BY <1>b, <1>c, <1>d, <1>f
  <2>3. \A g \in Editors \ {e} : saving'[g] # Null /\ saving'[g].write # Null =>
          \A h \in Editors \ {g} : saving'[h] # Null => saving'[h].write # saving'[g].write
    BY <1>f, <2>2 DEF PageInv, WritesKnown
  <2>4. saving'[e].write <= stored'.writes
        /\ \A h \in Editors \ {e} : saving'[h] # Null => saving'[h].write # saving'[e].write
    BY <1>c, <1>d, <1>f, <2>2
  <2>5. QED
    BY <2>1, <2>2, <2>3, <2>4 DEF WritesKnown
<1>2. KeptStands'
  <2>1. ASSUME NEW f \in Named, f \notin Concerns(e)
        PROVE  /\ Unanswered(f)' = Unanswered(f) /\ stored'[f] = stored[f]
               /\ \A g \in Unanswered(f) : saving'[g] = saving[g]
    BY <1>c, <1>f, <2>1 DEF Unanswered
  <2>2. ASSUME NEW f \in Named, f \in Concerns(e)
        PROVE  \E d \in Unanswered(f)' :
                 /\ saving'[d].fields[f] = stored'[f] /\ kept'[f].at < saving'[d].write
                 /\ \A g \in Unanswered(f)' : saving'[g].write <= saving'[d].write
    <3>1. e \in Unanswered(f)' /\ saving'[e].fields[f] = stored'[f]
      BY <1>b, <1>c, <1>d, <1>f, <2>2 DEF Unanswered
    <3>2. kept'[f].at < saving'[e].write
      BY <1>a, <1>b, <1>c, <1>d, <1>f
    <3>3. \A g \in Unanswered(f)' : saving'[g].write <= saving'[e].write
      BY <1>b, <1>c, <1>d, <1>f DEF Unanswered
    <3>4. QED
      BY <3>1, <3>2, <3>3
  <2>3. ASSUME NEW f \in Named, f \notin Concerns(e)
        PROVE  \/ /\ kept'[f].text \in {Null, stored'[f]}
                  /\ \A d \in Unanswered(f)' : saving'[d].write < kept'[f].at
               \/ \E d \in Unanswered(f)' :
                    /\ saving'[d].fields[f] = stored'[f] /\ kept'[f].at < saving'[d].write
                    /\ \A g \in Unanswered(f)' : saving'[g].write <= saving'[d].write
    <3>1. kept'[f] = kept[f]
      BY <1>a
    <3>2. CASE /\ kept[f].text \in {Null, stored[f]}
               /\ \A d \in Unanswered(f) : saving[d].write < kept[f].at
      BY <2>1, <2>3, <3>1, <3>2
    <3>3. CASE \E d \in Unanswered(f) :
                 /\ saving[d].fields[f] = stored[f] /\ kept[f].at < saving[d].write
                 /\ \A g \in Unanswered(f) : saving[g].write <= saving[d].write
      BY <2>1, <2>3, <3>1, <3>3
    <3>4. QED
      BY <3>2, <3>3 DEF PageInv, KeptStands
  <2>4. QED
    BY <2>2, <2>3 DEF KeptStands
<1>3. QED
  BY <1>a, <1>b, <1>c, <1>d, <1>f, <1>1, <1>2, SaveKeeps

\* A save that is given up, and one that is written after that.
LEMMA GivenUpIs ==
  ASSUME PageTypeOK, NEW e \in Editors, NEW write \in Writes
  PROVE  /\ GivenUp(e, write) \in [Named -> Told]
         /\ \A f \in Named :
              IF f \in Concerns(e) /\ kept[f].at < write
              THEN GivenUp(e, write)[f].text = Null /\ GivenUp(e, write)[f].at = write
              ELSE GivenUp(e, write)[f] = kept[f]
<1>1. [text |-> Null, at |-> write] \in Told
  BY DEF Told
<1>2. QED
  BY <1>1, PageTypes DEF GivenUp

LEMMA PageSaveFails == ASSUME PageInv, NEW e \in Editors, SaveFails(e) PROVE PageInv'
<1> USE PageNames
<1>a. /\ UNCHANGED letter /\ UNCHANGED stored /\ UNCHANGED composed
      /\ UNCHANGED composing /\ UNCHANGED drawer /\ UNCHANGED resolving
      /\ UNCHANGED told /\ UNCHANGED edits /\ UNCHANGED cache /\ UNCHANGED form
      /\ UNCHANGED cargo /\ UNCHANGED cargoOpen /\ saving[e] # Null
      /\ saving' = [saving EXCEPT ![e] = Null]
      /\ kept' = IF saving[e].write = Null THEN kept ELSE GivenUp(e, saving[e].write)
  BY DEF SaveFails, page, drafts, letter_
<1>b. /\ stored \in Stored /\ stored.writes \in Writes /\ stored.writes <= stored.writes
      /\ kept \in [Named -> Told] /\ saving \in [Editors -> Save \cup {Null}]
      /\ loose \in Loose \cup {Null} /\ saving[e].fields \in Fields
      /\ saving[e].write \in Writes \cup {Null} /\ PageTypeOK
      /\ \A f \in Named : kept[f].at \in Writes
  BY <1>a, PageTypes, SaveTypes DEF PageInv, PageTypeOK
<1>c. loose' \in Loose \cup {Null}
  <2>1. CASE UNCHANGED loose
    BY <1>b, <2>1
  <2>2. CASE e # "eta" /\ loose' = [by |-> e, fields |-> saving[e].fields]
    BY <1>b, <2>2 DEF Loose
  <2>3. QED
    BY <2>1, <2>2 DEF SaveFails
<1>d. /\ saving' \in [Editors -> Save \cup {Null}] /\ saving'[e] = Null
      /\ \A g \in Editors \ {e} : saving'[g] = saving[g]
  BY <1>a, <1>b
<1>1. CASE saving[e].write = Null
  <2>1. kept' = kept
    BY <1>a, <1>1
  <2>2. WritesKnown' /\ KeptStands'
    BY <1>1, <1>a, <1>d, <2>1, UnwrittenKeeps
  <2>3. QED
    BY <1>a, <1>b, <1>c, <1>d, <2>1, <2>2, SaveKeeps
<1>2. CASE saving[e].write # Null
  <2>1. saving[e].write \in Writes /\ kept' = GivenUp(e, saving[e].write)
    BY <1>2, <1>a, <1>b
  <2>2. /\ kept' \in [Named -> Told]
        /\ \A f \in Named :
             IF f \in Concerns(e) /\ kept[f].at < saving[e].write
             THEN kept'[f].text = Null /\ kept'[f].at = saving[e].write
             ELSE kept'[f] = kept[f]
    BY <1>b, <2>1, GivenUpIs
  <2>3. \A f \in Named :
          \/ /\ f \notin Concerns(e) \/ saving[e].write <= kept[f].at
             /\ kept'[f].at = kept[f].at /\ kept'[f].text \in {Null, kept[f].text}
          \/ /\ f \in Concerns(e) /\ kept[f].at <= saving[e].write
             /\ kept'[f].at = saving[e].write
             /\ kept'[f].text \in {Null, saving[e].fields[f]}
    BY <1>b, <2>1, <2>2
  <2>4. WritesKnown' /\ KeptStands'
    BY <1>2, <1>a, <1>d, <2>3, WrittenKeeps
  <2>5. QED
    BY <1>a, <1>b, <1>c, <1>d, <2>2, <2>4, SaveKeeps
<1>3. QED
  BY <1>1, <1>2

LEMMA PageApplyLoose == ASSUME PageInv, ApplyLoose PROVE PageInv'
<1> USE PageNames
<1> DEFINE e == loose.by
<1>a. /\ UNCHANGED letter /\ UNCHANGED composed
      /\ UNCHANGED composing /\ UNCHANGED drawer /\ UNCHANGED resolving
      /\ UNCHANGED told /\ UNCHANGED edits /\ UNCHANGED cache /\ UNCHANGED form
      /\ UNCHANGED cargo /\ UNCHANGED cargoOpen /\ UNCHANGED saving
      /\ loose # Null /\ loose' = Null /\ Writing(e, loose.fields)
      /\ kept' = GivenUp(e, stored'.writes)
  BY DEF ApplyLoose, page, drafts, letter_
<1>b. loose \in Loose
  BY <1>a DEF PageInv, PageTypeOK
<1>c. /\ e \in Editors /\ loose.fields \in Fields /\ PageTypeOK
      /\ stored.writes \in Writes /\ saving \in [Editors -> Save \cup {Null}]
      /\ \A f \in Named : kept[f].at \in Writes /\ kept[f].at <= stored.writes
      /\ \A g \in Editors : saving[g] # Null =>
           /\ saving[g].write \in Writes \cup {Null}
           /\ saving[g].write # Null => saving[g].write <= stored.writes
  BY <1>b, PageTypes, SaveTypes DEF PageInv, PageTypeOK, WritesKnown, Loose
<1> HIDE DEF e
<1>d. /\ stored' \in Stored /\ stored'.writes \in Writes
      /\ stored'.writes = stored.writes + 1
      /\ \A f \in Named :
           stored'[f] = IF f \in Concerns(e) THEN loose.fields[f] ELSE stored[f]
  BY <1>a, <1>c, WritingIs
<1>e. /\ kept' \in [Named -> Told]
      /\ \A f \in Named :
           IF f \in Concerns(e) /\ kept[f].at < stored'.writes
           THEN kept'[f].text = Null /\ kept'[f].at = stored'.writes
           ELSE kept'[f] = kept[f]
  <2> DEFINE w == stored'.writes
  <2>1. w \in Writes /\ kept' = GivenUp(e, w)
    BY <1>a, <1>d
  <2> HIDE DEF w
  <2>2. /\ kept' \in [Named -> Told]
        /\ \A f \in Named :
             IF f \in Concerns(e) /\ kept[f].at < w
             THEN kept'[f].text = Null /\ kept'[f].at = w
             ELSE kept'[f] = kept[f]
    BY <1>c, <2>1, GivenUpIs
  <2>3. QED
    BY <2>2 DEF w
<1>1. WritesKnown'
  <2>1. \A f \in Named : kept'[f].at <= stored'.writes
    BY <1>c, <1>d, <1>e
  <2>2. QED
    BY <1>a, <1>c, <1>d, <2>1 DEF PageInv, WritesKnown
<1>2. KeptStands'
  <2>0. \A f \in Named : Unanswered(f)' = Unanswered(f)
    BY <1>a DEF Unanswered
  <2>1. ASSUME NEW f \in Named, f \notin Concerns(e)
        PROVE  stored'[f] = stored[f] /\ kept'[f] = kept[f]
    BY <1>d, <1>e, <2>1
  <2>2. ASSUME NEW f \in Named, f \in Concerns(e)
        PROVE  /\ kept'[f].text = Null
               /\ \A g \in Unanswered(f) : saving[g].write < kept'[f].at
    <3>1. kept'[f].text = Null /\ kept'[f].at = stored'.writes
      BY <1>c, <1>d, <1>e, <2>2
    <3>2. QED
      BY <1>c, <1>d, <3>1 DEF Unanswered
  <2>3. QED
    BY <1>a, <2>0, <2>1, <2>2 DEF PageInv, KeptStands
<1>3. \A g \in Editors \ {e} : saving'[g] = saving[g]
  BY <1>a
<1>4. stored.writes <= stored'.writes
  BY <1>c, <1>d
<1>5. QED
  BY <1>a, <1>c, <1>d, <1>e, <1>1, <1>2, <1>3, <1>4, SaveKeeps

\* A save is answered: what the histories then hold.
LEMMA KeptIs ==
  ASSUME PageTypeOK, NEW e \in Editors, saving[e] # Null, saving[e].write \in Writes
  PROVE  /\ Kept(e) \in [Named -> Told]
         /\ \A f \in Named :
              \/ /\ f \notin Concerns(e) /\ Kept(e)[f] = kept[f]
              \/ /\ f \in Concerns(e) /\ saving[e].write < kept[f].at
                 /\ Kept(e)[f].at = kept[f].at /\ Kept(e)[f].text = Null
              \/ /\ f \in Concerns(e) /\ ~(saving[e].write < kept[f].at)
                 /\ Kept(e)[f].at = saving[e].write
                 /\ Kept(e)[f].text \in {Null, saving[e].fields[f]}
<1> USE PageNames
<1> DEFINE late(f) == [text |-> Null, at |-> kept[f].at]
           older(f) == kept[f].text # Null /\ saving[e].fields[f] < kept[f].text
           fresh(f) == [text |-> IF older(f) THEN Null ELSE saving[e].fields[f],
                        at |-> saving[e].write]
           k(f) == CASE f \notin Concerns(e) -> kept[f]
                     [] f \in Concerns(e) /\ saving[e].write < kept[f].at -> late(f)
                     [] OTHER -> fresh(f)
<1>1. \A f \in Named : /\ kept[f] \in Told /\ kept[f].at \in Writes
                       /\ saving[e].fields[f] \in Texts
  BY PageTypes, SaveTypes
<1>2. \A f \in Named :
        /\ late(f) \in Told /\ fresh(f) \in Told
        /\ late(f).at = kept[f].at /\ late(f).text = Null
        /\ fresh(f).at = saving[e].write /\ fresh(f).text \in {Null, saving[e].fields[f]}
  BY <1>1 DEF Told
<1>3. Kept(e) = [f \in Named |-> k(f)]
  BY DEF Kept
<1> HIDE DEF late, fresh
<1>4. \A f \in Named :
        \/ f \notin Concerns(e) /\ k(f) = kept[f]
        \/ f \in Concerns(e) /\ saving[e].write < kept[f].at /\ k(f) = late(f)
        \/ f \in Concerns(e) /\ ~(saving[e].write < kept[f].at) /\ k(f) = fresh(f)
  OBVIOUS
<1> HIDE DEF k
<1>5. \A f \in Named : k(f) \in Told
  BY <1>1, <1>2, <1>4
<1>6. Kept(e) \in [Named -> Told] /\ \A f \in Named : Kept(e)[f] = k(f)
  BY <1>3, <1>5
<1>7. QED
  BY <1>2, <1>4, <1>6

\* What it does to the drafts and to the drawer.
LEMMA SavedDrawer ==
  ASSUME PageInv, NEW e \in Editors, Saved(e)
  PROVE  /\ told' \in Writes /\ told <= told' /\ told' <= stored.writes
         /\ \/ UNCHANGED composed /\ UNCHANGED composing /\ told' = told
            \/ composed' = Null /\ composing' = Null
         /\ resolving' \in {resolving, Null} /\ (resolving' # Null => drawer' # Null)
         /\ \/ drawer' = drawer \/ drawer' = Torn(drawer)
            \/ /\ drawer = Null
               /\ \E header \in Writes \cup {Null}, has \in Writes \cup {Null, Failed},
                     since \in Writes :
                    /\ drawer' = Opened(header, has, since) /\ since <= told'
                    /\ has \in Writes => told' <= has
                    /\ header \in Writes => since <= header
               /\ e # "cargo" /\ saving["cargo"] # Null => ~saving["cargo"].mail
<1> USE PageNames
<1>a. /\ saving[e] # Null /\ saving[e].write # Null
      /\ CASE e = "form" -> FormSaved [] e = "eta" -> EtaSaved [] e = "cargo" -> CargoSaved
  BY DEF Saved
<1>b. /\ saving[e].write \in Writes /\ saving[e].write <= stored.writes
      /\ told \in Writes /\ told <= stored.writes /\ stored.writes \in Writes
      /\ composed \in Writes \cup {Null, Failed} /\ resolving \in Group \cup {Null}
      /\ composed \in Writes => told <= composed
      /\ resolving # Null => drawer # Null
      /\ drawer = Null => Torn(drawer) = Null
  BY <1>a, PageTypes, SaveTypes, TornIs DEF PageInv, WritesKnown, ComposedSince, DrawerKnown
<1>c. Tells(saving[e].write) =>
        told' \in Writes /\ told <= told' /\ told' <= stored.writes
  BY <1>b DEF Tells
<1>1. CASE e = "form"
  <2>1. FormSaved
    BY <1>1, <1>a
  <2>2. QED
    BY <1>1, <1>b, <1>c, <2>1 DEF FormSaved, DropDrafts, TearDown
<1>2. CASE e = "eta"
  <2>1. EtaSaved
    BY <1>2, <1>a
  <2>2. /\ composed' = Null /\ composing' = Null
        /\ told' \in Writes /\ told <= told' /\ told' <= stored.writes
    BY <1>2, <1>c, <2>1 DEF EtaSaved, DropDrafts
  <2>3. CASE saving["eta"].mail /\ drawer = Null
    <3>1. drawer' = Opened(Null, composed', told') /\ UNCHANGED resolving
      BY <2>1, <2>3 DEF EtaSaved
    <3>2. letter = "notice" /\ (saving["cargo"] # Null => ~saving["cargo"].mail)
      BY <1>2, <1>a, <2>3 DEF PageInv, DrawerKnown
    <3>3. resolving' = Null
      BY <1>b, <2>3, <3>1
    <3> DEFINE w == told'
               c == composed'
    <3>4. /\ w \in Writes /\ c = Null /\ drawer' = Opened(Null, c, w) /\ w <= w
      BY <2>2, <3>1
    <3> HIDE DEF w, c
    <3>5. \E header \in Writes \cup {Null}, has \in Writes \cup {Null, Failed}, since \in Writes :
            /\ drawer' = Opened(header, has, since) /\ since <= w
            /\ has \in Writes => w <= has
            /\ header \in Writes => since <= header
      <4>1. Null \in Writes \cup {Null} /\ Null \in Writes \cup {Null, Failed} /\ Null \notin Writes
        OBVIOUS
      <4>2. QED
        BY <3>4, <4>1
    <3>6. QED
      BY <1>2, <2>2, <2>3, <3>2, <3>3, <3>5 DEF w
  <2>4. CASE ~(saving["eta"].mail /\ drawer = Null)
    <3>1. drawer' = Torn(drawer) /\ resolving' = Null
      BY <2>1, <2>4 DEF EtaSaved, TearDown
    <3>2. QED
      BY <2>2, <3>1
  <2>5. QED
    BY <2>3, <2>4
<1>3. CASE e = "cargo"
  <2>1. CargoSaved
    BY <1>3, <1>a
  <2>2. /\ UNCHANGED composed /\ UNCHANGED composing /\ UNCHANGED told
        /\ UNCHANGED resolving
        /\ drawer' = IF saving["cargo"].mail /\ saving["cargo"].header \in Writes
                     THEN Opened(saving["cargo"].header, composed, saving["cargo"].since)
                     ELSE drawer
    BY <2>1 DEF CargoSaved, drafts
  <2>3. CASE saving["cargo"].mail /\ saving["cargo"].header \in Writes
    <3>1. /\ drawer = Null /\ resolving' = Null
          /\ saving["cargo"].since \in Writes /\ saving["cargo"].since <= told
          /\ saving["cargo"].since <= saving["cargo"].header
      BY <1>3, <1>a, <1>b, <2>2, <2>3, SaveTypes DEF PageInv, DrawerKnown, ComposedSince
    <3>2. \E header \in Writes \cup {Null}, has \in Writes \cup {Null, Failed}, since \in Writes :
            /\ drawer' = Opened(header, has, since) /\ since <= told
            /\ has \in Writes => told <= has
            /\ header \in Writes => since <= header
      BY <1>b, <2>2, <2>3, <3>1
    <3>3. QED
      BY <1>3, <1>b, <2>2, <3>1, <3>2
  <2>4. CASE ~(saving["cargo"].mail /\ saving["cargo"].header \in Writes)
    BY <1>b, <2>2, <2>4
  <2>5. QED
    BY <2>3, <2>4
<1>4. QED
  BY <1>1, <1>2, <1>3

LEMMA PageSavedStep == ASSUME PageInv, NEW e \in Editors, Saved(e) PROVE PageInv'
<1> USE PageNames
<1>a. /\ saving[e] # Null /\ saving[e].write # Null /\ kept' = Kept(e)
      /\ saving' = [saving EXCEPT ![e] = Null]
      /\ UNCHANGED letter /\ UNCHANGED stored /\ UNCHANGED loose /\ UNCHANGED edits
      /\ UNCHANGED cache /\ UNCHANGED form /\ UNCHANGED cargo /\ UNCHANGED cargoOpen
  BY DEF Saved, page
<1>b. /\ saving \in [Editors -> Save \cup {Null}] /\ PageTypeOK
      /\ saving[e].write \in Writes /\ stored.writes \in Writes
      /\ \A f \in Named : kept[f].at \in Writes
      /\ told \in Writes /\ resolving \in Group \cup {Null}
      /\ composed \in Writes \cup {Null, Failed}
  BY <1>a, PageTypes, SaveTypes DEF PageInv
<1>c. /\ told' \in Writes /\ told <= told' /\ told' <= stored.writes
      /\ \/ UNCHANGED composed /\ UNCHANGED composing /\ told' = told
         \/ composed' = Null /\ composing' = Null
      /\ resolving' \in {resolving, Null} /\ (resolving' # Null => drawer' # Null)
      /\ \/ drawer' = drawer \/ drawer' = Torn(drawer)
         \/ /\ drawer = Null
            /\ \E header \in Writes \cup {Null}, has \in Writes \cup {Null, Failed},
                  since \in Writes :
                 /\ drawer' = Opened(header, has, since) /\ since <= told'
                 /\ has \in Writes => told' <= has
                 /\ header \in Writes => since <= header
            /\ e # "cargo" /\ saving["cargo"] # Null => ~saving["cargo"].mail
  BY SavedDrawer
<1>d. /\ saving' \in [Editors -> Save \cup {Null}] /\ saving'[e] = Null
      /\ \A g \in Editors \ {e} : saving'[g] = saving[g]
  BY <1>a, <1>b
<1>e. /\ Kept(e) \in [Named -> Told]
      /\ \A f \in Named :
           \/ /\ f \notin Concerns(e) /\ Kept(e)[f] = kept[f]
           \/ /\ f \in Concerns(e) /\ saving[e].write < kept[f].at
              /\ Kept(e)[f].at = kept[f].at /\ Kept(e)[f].text = Null
           \/ /\ f \in Concerns(e) /\ ~(saving[e].write < kept[f].at)
              /\ Kept(e)[f].at = saving[e].write
              /\ Kept(e)[f].text \in {Null, saving[e].fields[f]}
  BY <1>a, <1>b, KeptIs
<1>f. drawer' = Null \/ Sound(drawer', told')
  <2>1. CASE drawer' = drawer /\ drawer # Null
    BY <1>b, <1>c, <2>1, DrawerIsSound DEF Sound
  <2>2. CASE drawer' = Torn(drawer) /\ drawer # Null
    <3> DEFINE t == Torn(drawer)
    <3>1. Sound(t, told) /\ drawer' = t
      BY <2>2, TornIsSound
    <3> HIDE DEF t
    <3>2. QED
      BY <1>b, <1>c, <3>1 DEF Sound
  <2>3. CASE \E header \in Writes \cup {Null}, has \in Writes \cup {Null, Failed},
                since \in Writes :
               /\ drawer' = Opened(header, has, since) /\ since <= told'
               /\ has \in Writes => told' <= has
               /\ header \in Writes => since <= header
    <3>1. PICK header \in Writes \cup {Null}, has \in Writes \cup {Null, Failed},
                since \in Writes :
            /\ drawer' = Opened(header, has, since) /\ since <= told'
            /\ has \in Writes => told' <= has
            /\ header \in Writes => since <= header
      BY <2>3
    <3>2. told' \in Writes
      BY <1>c
    <3> DEFINE at == told'
    <3>3. /\ at \in Writes /\ since <= at /\ drawer' = Opened(header, has, since)
          /\ (has \in Writes => at <= has) /\ (header \in Writes => since <= header)
      BY <3>1, <3>2
    <3> HIDE DEF at
    <3>4. Sound(Opened(header, has, since), at)
      BY <3>1, <3>3, OpenedIsSound
    <3>5. QED
      BY <3>3, <3>4 DEF at
  <2>4. drawer = Null => Torn(drawer) = Null
    BY <1>b, TornIs
  <2>5. QED
    BY <1>c, <2>1, <2>2, <2>3, <2>4
<1>1. WritesKnown' /\ KeptStands'
  <2>1. \A f \in Named :
          \/ /\ f \notin Concerns(e) \/ saving[e].write <= kept[f].at
             /\ kept'[f].at = kept[f].at /\ kept'[f].text \in {Null, kept[f].text}
          \/ /\ f \in Concerns(e) /\ kept[f].at <= saving[e].write
             /\ kept'[f].at = saving[e].write
             /\ kept'[f].text \in {Null, saving[e].fields[f]}
    BY <1>a, <1>b, <1>e
  <2>2. QED
    BY <1>a, <1>d, <2>1, WrittenKeeps
<1>2. PageTypeOK'
  BY <1>a, <1>b, <1>c, <1>d, <1>e, <1>f DEF PageTypeOK, Sound
<1>3. ComposedSince'
  <2>1. told' <= stored'.writes
    BY <1>a, <1>c
  <2>2. /\ composed' \in Writes => told' <= composed'
        /\ composing' # Null => told' <= composing'
    BY <1>c DEF PageInv, ComposedSince
  <2>3. saving'["cargo"] # Null =>
          /\ saving'["cargo"].since <= told'
          /\ saving'["cargo"].header \in Writes
               => saving'["cargo"].since <= saving'["cargo"].header
    <3> SUFFICES ASSUME saving'["cargo"] # Null
                 PROVE  /\ saving'["cargo"].since <= told'
                        /\ saving'["cargo"].header \in Writes
                             => saving'["cargo"].since <= saving'["cargo"].header
      OBVIOUS
    <3>1. saving'["cargo"] = saving["cargo"]
      BY <1>d
    <3>2. saving["cargo"].since \in Writes /\ saving["cargo"].since <= told
          /\ (saving["cargo"].header \in Writes
               => saving["cargo"].since <= saving["cargo"].header)
      BY <1>b, <3>1, SaveTypes DEF PageInv, ComposedSince
    <3>3. QED
      BY <1>b, <1>c, <3>1, <3>2
  <2>4. drawer' # Null =>
          /\ drawer'.since <= told'
          /\ drawer'.header \in Writes => drawer'.since <= drawer'.header
    BY <1>f DEF Sound
  <2>5. QED
    BY <2>1, <2>2, <2>3, <2>4 DEF ComposedSince
<1>4. DraftIsFresh' /\ FilesAreShown'
  BY <1>f DEF DraftIsFresh, FilesAreShown, Sound
<1>5. DrawerKnown'
  <2>1. drawer' # Null => (drawer'.to => drawer'.dirty)
    BY <1>f DEF Sound
  <2>2. saving'["cargo"] # Null /\ saving'["cargo"].mail => letter' = "cargo" /\ drawer' = Null
    <3> SUFFICES ASSUME saving'["cargo"] # Null, saving'["cargo"].mail
                 PROVE  letter' = "cargo" /\ drawer' = Null
      OBVIOUS
    <3>1. e # "cargo" /\ saving'["cargo"] = saving["cargo"]
      BY <1>d
    <3>2. letter = "cargo" /\ drawer = Null
      BY <3>1 DEF PageInv, DrawerKnown
    <3>3. Torn(drawer) = Null
      BY <1>b, <3>2, TornIs
    <3>4. QED
      BY <1>a, <1>c, <3>1, <3>2, <3>3
  <2>3. saving'["eta"] # Null /\ saving'["eta"].mail => letter' = "notice"
    BY <1>a, <1>d DEF PageInv, DrawerKnown
  <2>4. QED
    BY <1>c, <2>1, <2>2, <2>3 DEF DrawerKnown
<1>6. QED
  BY <1>1, <1>2, <1>3, <1>4, <1>5 DEF PageInv

\* What the draft of a letter and the drawer keep, with the saves as they are.
LEMMA LetterKeeps ==
  ASSUME PageInv, UNCHANGED letter, UNCHANGED stored, UNCHANGED edits, UNCHANGED page,
         UNCHANGED saves, UNCHANGED history,
         composed' \in Writes => told <= composed',
         composed' \in Writes \cup {Null, Failed},
         composing' # Null => told <= composing',
         composing' \in Writes \cup {Null},
         resolving' \in Group \cup {Null}, resolving' # Null => drawer' # Null,
         drawer' = Null \/ Sound(drawer', told),
         drawer = Null /\ drawer' # Null => letter # "cargo"
  PROVE  PageInv'
<1> USE PageNames
<1>a. /\ UNCHANGED cache /\ UNCHANGED form /\ UNCHANGED cargo /\ UNCHANGED cargoOpen
      /\ UNCHANGED kept /\ UNCHANGED told /\ UNCHANGED saving /\ UNCHANGED loose
  BY DEF page, history, saves
<1>1. PageTypeOK'
  BY <1>a DEF PageInv, PageTypeOK, Sound
<1>2. WritesKnown' /\ KeptStands'
  BY <1>a DEF PageInv, WritesKnown, KeptStands, Unanswered
<1>3. ComposedSince' /\ DraftIsFresh' /\ FilesAreShown'
  BY <1>a DEF PageInv, ComposedSince, DraftIsFresh, FilesAreShown, Sound
<1>4. DrawerKnown'
  BY <1>a DEF PageInv, DrawerKnown, Sound
<1>5. QED
  BY <1>1, <1>2, <1>3, <1>4 DEF PageInv

\* The draft of a letter is composed.
LEMMA PageComposeStep == ASSUME PageInv, Compose PROVE PageInv'
<1> USE PageNames
<1>a. /\ UNCHANGED letter /\ UNCHANGED stored /\ UNCHANGED edits /\ UNCHANGED page
      /\ UNCHANGED saves /\ UNCHANGED history /\ UNCHANGED composed
      /\ composing' = stored.writes
      /\ \/ drawer' = drawer /\ resolving' = resolving
         \/ drawer' = Torn(drawer) /\ resolving' = Null
  BY DEF Compose, letter_, TearDown
<1>b. /\ stored.writes \in Writes /\ told <= stored.writes
      /\ composed \in Writes \cup {Null, Failed} /\ (composed \in Writes => told <= composed)
      /\ resolving \in Group \cup {Null} /\ (resolving # Null => drawer # Null)
      /\ drawer = Null => Torn(drawer) = Null
  BY TornIs, PageTypes DEF PageInv, ComposedSince, DrawerKnown
<1>c. drawer # Null => Sound(drawer, told) /\ Sound(Torn(drawer), told)
  BY DrawerIsSound, TornIsSound
<1>d. composing' # Null => told <= composing'
  BY <1>a, <1>b
<1>e. drawer' = Null \/ Sound(drawer', told)
  <2>1. CASE drawer' = drawer
    BY <1>c, <2>1
  <2>2. CASE drawer' = Torn(drawer)
    <3> DEFINE t == Torn(drawer)
    <3>1. (drawer # Null => Sound(t, told)) /\ drawer' = t /\ (drawer = Null => t = Null)
      BY <1>b, <1>c, <2>2
    <3> HIDE DEF t
    <3>2. QED
      BY <3>1
  <2>3. QED
    BY <1>a, <2>1, <2>2
<1>f. drawer = Null => drawer' = Null
  BY <1>a, <1>b
<1>g. resolving' \in Group \cup {Null} /\ (resolving' # Null => drawer' # Null)
  BY <1>a, <1>b
<1>1. QED
  BY <1>a, <1>b, <1>d, <1>e, <1>f, <1>g, LetterKeeps

LEMMA PageDraftSteps == ASSUME PageInv, Composed \/ ComposeFails PROVE PageInv'
<1> USE PageNames
<1>a. /\ UNCHANGED letter /\ UNCHANGED stored /\ UNCHANGED edits /\ UNCHANGED page
      /\ UNCHANGED saves /\ UNCHANGED history /\ UNCHANGED resolving
      /\ composing # Null /\ composing' = Null
  BY DEF Composed, ComposeFails, letter_
<1>b. /\ composing \in Writes /\ told <= composing /\ told \in Writes
      /\ composed \in Writes \cup {Null, Failed} /\ (composed \in Writes => told <= composed)
      /\ resolving \in Group \cup {Null} /\ (resolving # Null => drawer # Null)
  BY <1>a, PageTypes DEF PageInv, ComposedSince, DrawerKnown
<1>1. composed' \in Writes \cup {Null, Failed} /\ (composed' \in Writes => told <= composed')
  BY <1>b DEF Composed, ComposeFails
<1>2. drawer' = drawer \/ (drawer # Null /\ drawer' = Fill(drawer, composing))
  BY DEF Composed, ComposeFails, letter_
<1>3. drawer' = Null \/ Sound(drawer', told)
  <2>1. CASE drawer' = drawer
    BY <2>1, DrawerIsSound
  <2>2. CASE drawer # Null /\ drawer' = Fill(drawer, composing)
    <3>1. Sound(drawer, told)
      BY <2>2, DrawerIsSound
    <3>2. Sound(Fill(drawer, composing), told)
      BY <1>b, <3>1, FilledIsSound
    <3> DEFINE t == Fill(drawer, composing)
    <3>3. Sound(t, told) /\ drawer' = t
      BY <2>2, <3>2
    <3> HIDE DEF t
    <3>4. QED
      BY <3>3
  <2>3. QED
    BY <1>2, <2>1, <2>2
<1>4. (drawer = Null => drawer' = Null) /\ (drawer # Null => drawer' # Null)
  <2>1. ASSUME drawer # Null PROVE drawer' # Null
    <3>1. Sound(drawer, told)
      BY <2>1, DrawerIsSound
    <3>2. Sound(Fill(drawer, composing), told)
      BY <1>b, <3>1, FilledIsSound
    <3>3. Fill(drawer, composing) # Null
      BY <3>2 DEF Sound
    <3>4. QED
      BY <1>2, <2>1, <3>3
  <2>2. QED
    BY <1>2, <2>1
<1>5. QED
  BY <1>a, <1>b, <1>1, <1>3, <1>4, LetterKeeps

\* The user changes the letter that is open.
LEMMA ChangedIsSound ==
  ASSUME PageInv, drawer # Null,
         TypeTo \/ TypeCc \/ TypeBody \/ GroupResolved \/ SelectFile \/ UploadEnds \/ RemoveFile
  PROVE  /\ Sound(drawer', told)
         /\ resolving' = resolving \/ resolving' = Null
<1> USE PageNames
<1>1. Sound(drawer, told) /\ drawer \in Draft /\ drawer.cc \in BOOLEAN
  BY DrawerIsSound, DrawerTypes DEF PageInv
<1>2. CASE TypeTo
  BY <1>1, <1>2 DEF TypeTo, Sound, Draft
<1>3. CASE TypeCc
  BY <1>1, <1>3 DEF TypeCc, Sound, Draft
<1>4. CASE TypeBody
  BY <1>1, <1>4 DEF TypeBody, Sound, Draft
<1>5. CASE GroupResolved
  <2>1. resolving \in Group /\ resolving' = Null
    BY <1>5 DEF GroupResolved, PageInv, PageTypeOK
  <2>2. resolving.to \in BOOLEAN /\ resolving.cc \in BOOLEAN
    BY <2>1 DEF Group
  <2> DEFINE to_ == resolving.to
             cc_ == resolving.cc
  <2>3. to_ \in BOOLEAN /\ cc_ \in BOOLEAN
    BY <2>2
  <2>4. \/ drawer' = [drawer EXCEPT !.to = to_, !.dirty = TRUE, !.cc = cc_, !.ccDirty = cc_]
        \/ drawer' = [drawer EXCEPT !.cc = cc_]
    BY <1>5 DEF GroupResolved
  <2> HIDE DEF to_, cc_
  <2>5. CASE drawer' = [drawer EXCEPT !.to = to_, !.dirty = TRUE, !.cc = cc_, !.ccDirty = cc_]
    BY <1>1, <2>1, <2>3, <2>5 DEF Sound, Draft
  <2>6. CASE drawer' = [drawer EXCEPT !.cc = cc_]
    BY <1>1, <2>1, <2>3, <2>6 DEF Sound, Draft
  <2>7. QED
    BY <2>4, <2>5, <2>6
<1>6. CASE SelectFile
  BY <1>1, <1>6 DEF SelectFile, Sound, Draft
<1>7. CASE UploadEnds
  <2>1. PICK file \in {"listed", "none"} :
          drawer' = [drawer EXCEPT !.file = file, !.pending = FALSE]
    BY <1>7 DEF UploadEnds, Uploaded
  <2>2. UNCHANGED resolving
    BY <1>7 DEF UploadEnds
  <2>3. QED
    BY <1>1, <2>1, <2>2 DEF Sound, Draft
<1>8. CASE RemoveFile
  BY <1>1, <1>8 DEF RemoveFile, Sound, Draft
<1>9. QED
  BY <1>2, <1>3, <1>4, <1>5, <1>6, <1>7, <1>8

\* What is done in the drawer.
LEMMA PageDrawerSteps ==
  ASSUME PageInv,
         OpenNotice \/ TypeTo \/ TypeCc \/ TypeBody \/ ApplyGroup \/ GroupResolved \/ GroupFails
           \/ SelectFile \/ UploadEnds \/ RemoveFile \/ Send \/ CloseDrawer
  PROVE  PageInv'
<1> USE PageNames
<1>a. /\ UNCHANGED letter /\ UNCHANGED stored /\ UNCHANGED edits /\ UNCHANGED page
      /\ UNCHANGED saves /\ UNCHANGED history /\ UNCHANGED composed /\ UNCHANGED composing
  BY DEF OpenNotice, TypeTo, TypeCc, TypeBody, ApplyGroup, GroupResolved, GroupFails,
     SelectFile, UploadEnds, RemoveFile, Send, CloseDrawer, InDrawer, drafts
<1>b. /\ composed \in Writes \cup {Null, Failed} /\ (composed \in Writes => told <= composed)
      /\ composing \in Writes \cup {Null} /\ (composing # Null => told <= composing)
      /\ told \in Writes /\ resolving \in Group \cup {Null}
      /\ (resolving # Null => drawer # Null) /\ told <= told
  BY PageTypes DEF PageInv, ComposedSince, DrawerKnown
<1>1. CASE OpenNotice
  <2>1. /\ drawer = Null /\ letter = "notice" /\ UNCHANGED resolving
        /\ drawer' = Opened(Null, composed, told)
    BY <1>1 DEF OpenNotice, OnPage
  <2>2. Sound(Opened(Null, composed, told), told)
    <3>1. Null \in Writes \cup {Null} /\ Null \notin Writes
      OBVIOUS
    <3>2. QED
      BY <1>b, <3>1, OpenedIsSound
  <2> DEFINE t == Opened(Null, composed, told)
  <2>3. Sound(t, told) /\ drawer' = t
    BY <2>1, <2>2
  <2> HIDE DEF t
  <2>4. Sound(drawer', told) /\ drawer' # Null
    BY <2>3 DEF Sound
  <2>5. QED
    BY <1>a, <1>b, <2>1, <2>4, LetterKeeps
<1>2. CASE TypeTo \/ TypeCc \/ TypeBody \/ GroupResolved \/ SelectFile \/ UploadEnds
             \/ RemoveFile
  <2>1. drawer # Null
    BY <1>2, <1>b DEF TypeTo, TypeCc, TypeBody, GroupResolved, SelectFile, UploadEnds,
       RemoveFile, Shown
  <2>2. Sound(drawer', told) /\ (resolving' = resolving \/ resolving' = Null)
    BY <1>2, <2>1, ChangedIsSound
  <2>3. drawer' # Null
    BY <2>2 DEF Sound
  <2>4. QED
    BY <1>a, <1>b, <2>1, <2>2, <2>3, LetterKeeps
<1>3. CASE ApplyGroup \/ GroupFails
  <2>1. UNCHANGED drawer /\ (resolving' # Null => drawer # Null)
    BY <1>3 DEF ApplyGroup, GroupFails, Shown
  <2>2. resolving' \in Group \cup {Null}
    <3>1. CASE ApplyGroup
      <4>1. PICK append \in BOOLEAN :
              resolving' \in {[target |-> "to", to |-> append /\ drawer.to, cc |-> drawer.cc],
                              [target |-> "cc", to |-> FALSE, cc |-> append /\ drawer.cc]}
        BY <3>1 DEF ApplyGroup
      <4>2. drawer.to \in BOOLEAN /\ drawer.cc \in BOOLEAN
        BY <3>1, DrawerTypes DEF ApplyGroup, Shown, PageInv
      <4> DEFINE x == append /\ drawer.to
                 y == append /\ drawer.cc
                 z == drawer.cc
      <4>3. x \in BOOLEAN /\ y \in BOOLEAN /\ z \in BOOLEAN
        BY <4>2
      <4>4. \/ resolving' = [target |-> "to", to |-> x, cc |-> z]
            \/ resolving' = [target |-> "cc", to |-> FALSE, cc |-> y]
        BY <4>1
      <4> HIDE DEF x, y, z
      <4>5. /\ [target |-> "to", to |-> x, cc |-> z] \in Group
            /\ [target |-> "cc", to |-> FALSE, cc |-> y] \in Group
        BY <4>3 DEF Group
      <4>6. QED
        BY <4>4, <4>5
    <3>2. QED
      BY <1>3, <3>1 DEF GroupFails
  <2>3. drawer' = Null \/ Sound(drawer', told)
    BY <2>1, DrawerIsSound
  <2>4. QED
    BY <1>a, <1>b, <2>1, <2>2, <2>3, LetterKeeps
<1>4. CASE Send \/ CloseDrawer
  <2>1. drawer' = Null /\ resolving' = Null
    BY <1>4 DEF Send, CloseDrawer
  <2>2. QED
    BY <1>a, <1>b, <2>1, LetterKeeps
<1>5. QED
  BY <1>1, <1>2, <1>3, <1>4

LEMMA PageInductive == PageInv /\ [PageNext]_pageVars => PageInv'
<1>1. CASE UNCHANGED pageVars
  <2>1. /\ UNCHANGED letter /\ UNCHANGED stored /\ UNCHANGED cache /\ UNCHANGED form
        /\ UNCHANGED cargo /\ UNCHANGED cargoOpen /\ UNCHANGED saving /\ UNCHANGED composed
        /\ UNCHANGED composing /\ UNCHANGED drawer /\ UNCHANGED resolving /\ UNCHANGED edits
        /\ UNCHANGED kept /\ UNCHANGED told /\ UNCHANGED loose
    BY <1>1 DEF pageVars, page, drafts, letter_, history, saves
  <2>2. PageInv => PageTypeOK'
    BY <2>1 DEF PageInv, PageTypeOK
  <2>3. PageInv => WritesKnown' /\ KeptStands'
    BY <2>1 DEF PageInv, WritesKnown, KeptStands, Unanswered
  <2>4. QED
    BY <2>1, <2>2, <2>3 DEF PageInv, ComposedSince, DraftIsFresh, FilesAreShown, DrawerKnown
<1>2. QED
  BY <1>1, EditorSteps, PageSubmits, PageApplyStep, PageSavedStep, PageSaveFails,
     PageApplyLoose, PageComposeStep, PageDraftSteps, PageDrawerSteps DEF PageNext

\* What was typed into the letter stays.
LEMMA TypedStays ==
  ASSUME PageInv, [PageNext]_pageVars, drawer # Null, drawer' # Null
  PROVE  /\ drawer.to /\ ~drawer'.to => resolving # Null
         /\ drawer.cc /\ ~drawer'.cc =>
              resolving # Null \/ (~drawer.filled /\ ~drawer.ccDirty)
         /\ drawer.body = "typed" /\ drawer'.body # "typed" => ~drawer.filled
<1> USE PageNames
<1>1. drawer \in Draft /\ PageTypeOK
  BY DEF PageInv, PageTypeOK
<1>2. CASE drawer' = drawer
  BY <1>2
<1>3. CASE drawer' = Torn(drawer)
  BY <1>1, <1>3, TornIs
<1>4. CASE ~drawer.filled /\ composing # Null /\ drawer' = Fill(drawer, composing)
  <2>1. composing \in Writes /\ (drawer.to => drawer.dirty)
    BY <1>1, <1>4 DEF PageTypeOK, PageInv, DrawerKnown
  <2>2. IF drawer.header = Null THEN drawer.since <= composing
        ELSE drawer.since <= drawer.header
    BY <1>1, <1>4, <2>1, DrawerTypes DEF PageInv, ComposedSince, PageTypeOK
  <2> DEFINE t == Fill(drawer, composing)
  <2>3. (t.to <=> drawer.to) /\ (t.cc <=> drawer.cc /\ drawer.ccDirty)
    BY <1>1, <2>1, <2>2, FilledIs
  <2>4. drawer' = t
    BY <1>4
  <2> HIDE DEF t
  <2>5. QED
    BY <1>4, <2>3, <2>4
<1>5. CASE TypeTo \/ TypeCc \/ TypeBody \/ SelectFile \/ UploadEnds \/ RemoveFile
  BY <1>1, <1>5 DEF TypeTo, TypeCc, TypeBody, SelectFile, UploadEnds, RemoveFile,
     Uploaded, Draft
<1>6. CASE GroupResolved
  <2>1. resolving # Null /\ drawer'.body = drawer.body
    BY <1>1, <1>6 DEF GroupResolved, Draft
  <2>2. QED
    BY <2>1
<1>7. CASE \E e \in Editors : Saved(e)
  <2>1. drawer' = drawer \/ drawer' = Torn(drawer)
    BY <1>7, SavedDrawer
  <2>2. QED
    BY <1>2, <1>3, <2>1
<1>8. \/ drawer' = drawer
      \/ drawer' = Torn(drawer)
      \/ ~drawer.filled /\ composing # Null /\ drawer' = Fill(drawer, composing)
      \/ TypeTo \/ TypeCc \/ TypeBody \/ SelectFile \/ UploadEnds \/ RemoveFile
      \/ GroupResolved
      \/ \E e \in Editors : Saved(e)
  <2>1. CASE EditForm \/ EditCargo \/ OpenCargo \/ CloseCargo \/ RemountPanel \/ Reread
    BY <2>1 DEF EditForm, EditCargo, OpenCargo, CloseCargo, RemountPanel, Reread, OnlyDialog,
       letter_
  <2>2. CASE \/ SubmitForm \/ SubmitEta \/ SubmitCargo
             \/ \E e \in Editors : Apply(e) \/ SaveFails(e)
             \/ ApplyLoose
    BY <2>2 DEF SubmitForm, SubmitEta, SubmitCargo, Submit, Apply, SaveFails, ApplyLoose,
       letter_
  <2>3. CASE Compose \/ Composed \/ ComposeFails
    BY <2>3 DEF Compose, Composed, ComposeFails, TearDown, letter_
  <2>4. CASE OpenNotice \/ ApplyGroup \/ GroupFails \/ Send \/ CloseDrawer
    BY <2>4 DEF OpenNotice, OnPage, ApplyGroup, GroupFails, Send, CloseDrawer
  <2>5. CASE UNCHANGED pageVars
    BY <2>5 DEF pageVars, letter_
  <2>6. QED
    BY <2>1, <2>2, <2>3, <2>4, <2>5 DEF PageNext
<1>9. QED
  BY <1>2, <1>3, <1>4, <1>5, <1>6, <1>7, <1>8

-----------------------------------------------------------------------------
\* A nomination being written.

\* What was filled in last is of the ship and the branch that were seen last, and
\* what is loaded has been seen.
SeenFits ==
  /\ seen.ship # Empty => entry.loa \in {Empty, Hand, seen.ship}
  /\ seen.branch # Empty => entry.mobile \in {Empty, Hand, seen.branch}
  /\ loaded.ship => seen.ship = entry.ship
  /\ loaded.branch => seen.branch = entry.branch

\* Also while the page is left.
FilledAlways ==
  /\ loaded.ship => entry.loa \in {Empty, Hand, entry.ship}
  /\ loaded.branch => /\ entry.mic \in {Empty, Hand, entry.branch}
                      /\ entry.mobile \in {Empty, Hand, entry.branch}
  /\ /\ loaded.ship /\ loaded.branch
     /\ entry.port # Empty /\ entry.subject \notin {Empty, Hand}
     => entry.subject = [ship |-> entry.ship, port |-> entry.port,
                         branch |-> entry.branch]

\* A form that is not shown waits for nothing; a draft is asked about if there is one.
NotWaiting ==
  /\ view \in {"away", "asking"} => fetching = Empty /\ piering = Empty /\ porting = Empty
  /\ view = "asking" => draft

\* At most one creation of this draft is under way, and nothing has been created but
\* what its answer will tell.
OneTry ==
  /\ \A c, d \in Tries : tries[c].current /\ tries[d].current => c = d
  /\ \A c \in Tries : tries[c].current /\ ~tries[c].applied => created = 0
  /\ created <= 1

FormKnows ==
  /\ \A c \in Tries : tries[c].current => tries[c].mine
  /\ created # 0 =>
       \E c \in Tries : tries[c].current /\ tries[c].mine /\ tries[c].applied

Untried == created = 0 /\ \A c \in Tries : ~tries[c].current

CreatedInv ==
  ~twice =>
    /\ OneTry
    /\ view = "form" => FormKnows
    /\ view \in {"away", "asking"} /\ draft => Untried
    /\ view = "leaving" => ~draft

NewInv ==
  NewTypeOK /\ SeenFits /\ FilledAlways /\ PlacesFit /\ WorkIsKept /\ NotWaiting /\ CreatedInv

LEMMA NewTypes ==
  ASSUME NewTypeOK
  PROVE  /\ view \in {"away", "asking", "form", "leaving"} /\ entry \in Entry
         /\ entry.ship \in Ships \cup {Empty} /\ entry.branch \in Branches \cup {Empty}
         /\ entry.port \in Ports \cup {Empty} /\ entry.pier \in Ports \cup {Empty}
         /\ entry.loa \in Ships \cup {Empty, Hand} /\ entry.mic \in Branches \cup {Empty, Hand}
         /\ entry.mobile \in Branches \cup {Empty, Hand}
         /\ entry.subject \in Subject \cup {Empty, Hand}
         /\ loaded.ship \in BOOLEAN /\ loaded.branch \in BOOLEAN
         /\ seen.ship \in Ships \cup {Empty} /\ seen.branch \in Branches \cup {Empty}
         /\ tries \in [Tries -> Try] /\ entries \in 0..MaxEntries /\ created \in 0..2
         /\ fetching \in Ships \cup {Empty} /\ piering \in Ports \cup {Empty}
         /\ porting \in Branches \cup {Empty} /\ stray \subseteq {"port", "pier"}
         /\ {restored, draft, twice, typed, overtaken} \subseteq BOOLEAN
<1>1. /\ entry \in Entry /\ loaded \in [ship : BOOLEAN, branch : BOOLEAN]
      /\ seen \in [ship : Ships \cup {Empty}, branch : Branches \cup {Empty}]
  BY DEF NewTypeOK
<1>2. /\ entry.ship \in Ships \cup {Empty} /\ entry.branch \in Branches \cup {Empty}
      /\ entry.port \in Ports \cup {Empty} /\ entry.pier \in Ports \cup {Empty}
      /\ entry.loa \in Ships \cup {Empty, Hand} /\ entry.mic \in Branches \cup {Empty, Hand}
      /\ entry.mobile \in Branches \cup {Empty, Hand}
      /\ entry.subject \in Subject \cup {Empty, Hand}
  BY <1>1 DEF Entry
<1>3. /\ loaded.ship \in BOOLEAN /\ loaded.branch \in BOOLEAN
      /\ seen.ship \in Ships \cup {Empty} /\ seen.branch \in Branches \cup {Empty}
  BY <1>1
<1>4. QED
  BY <1>1, <1>2, <1>3 DEF NewTypeOK

LEMMA BlankIs ==
  /\ Blank \in Entry /\ Blank.ship = Empty /\ Blank.branch = Empty /\ Blank.port = Empty
  /\ Blank.pier = Empty /\ Blank.loa = Empty /\ Blank.mic = Empty /\ Blank.mobile = Empty
  /\ Blank.subject = Empty
BY DEF Blank, Entry

LEMMA NewStarts == NewInit => NewInv
<1> SUFFICES ASSUME NewInit PROVE NewInv
  OBVIOUS
<1> USE BlankIs
<1>1. /\ view = "away" /\ entry = Blank /\ restored = FALSE
      /\ seen = [ship |-> Empty, branch |-> Empty]
      /\ loaded = [ship |-> FALSE, branch |-> FALSE]
      /\ fetching = Empty /\ piering = Empty /\ porting = Empty /\ draft = FALSE
      /\ tries = [c \in Tries |-> Idle]
      /\ entries = 0 /\ created = 0
      /\ twice = FALSE /\ typed = FALSE /\ overtaken = FALSE /\ stray = {}
  BY DEF NewInit
<1>2. Idle \in Try /\ ~Idle.current
  BY DEF Idle, Try
<1>a. 0 \in 0..MaxEntries /\ 0 \in 0..2
  BY BranchOfPort
<1>b. tries \in [Tries -> Try] /\ \A c \in Tries : ~tries[c].current
  BY <1>1, <1>2
<1>3. NewTypeOK
  BY <1>1, <1>a, <1>b DEF NewTypeOK
<1>4. SeenFits /\ FilledAlways /\ PlacesFit
  BY <1>1 DEF SeenFits, FilledAlways, PlacesFit
<1>5. WorkIsKept /\ NotWaiting
  BY <1>1 DEF WorkIsKept, NotWaiting
<1>6. CreatedInv
  <2>1. OneTry /\ Untried
    BY <1>1, <1>b DEF OneTry, Untried
  <2>2. QED
    BY <1>1, <2>1 DEF CreatedInv
<1>7. QED
  BY <1>3, <1>4, <1>5, <1>6 DEF NewInv


\* A form for new work.
LEMMA NewStartStep == ASSUME NewInv, Start PROVE NewInv'
<1> USE BlankIs
<1>a. /\ view' = "form" /\ entry' = Blank /\ restored' = FALSE
      /\ seen' = [ship |-> Empty, branch |-> Empty]
      /\ loaded' = [ship |-> FALSE, branch |-> FALSE] /\ draft' = FALSE
      /\ tries' = [c \in Tries |-> [tries[c] EXCEPT !.current = FALSE]]
      /\ created' = 0
      /\ twice' = FALSE /\ typed' = FALSE /\ overtaken' = FALSE /\ stray' = {}
      /\ UNCHANGED fetching /\ UNCHANGED piering /\ UNCHANGED porting /\ UNCHANGED entries
  BY DEF Start
<1>b. tries' \in [Tries -> Try] /\ \A c \in Tries : ~tries'[c].current
  BY <1>a DEF NewInv, NewTypeOK, Try
<1>c. 0 \in 0..2
  OBVIOUS
<1>1. NewTypeOK'
  BY <1>a, <1>b, <1>c DEF NewInv, NewTypeOK
<1>2. SeenFits' /\ FilledAlways' /\ PlacesFit'
  BY <1>a DEF SeenFits, FilledAlways, PlacesFit
<1>3. WorkIsKept' /\ NotWaiting'
  BY <1>a DEF WorkIsKept, NotWaiting
<1>4. CreatedInv'
  BY <1>a, <1>b DEF CreatedInv, OneTry, FormKnows
<1>5. QED
  BY <1>1, <1>2, <1>3, <1>4 DEF NewInv

LEMMA NewOpenSteps == ASSUME NewInv, Open \/ Discard PROVE NewInv'
<1>1. CASE Start
  BY <1>1, NewStartStep
<1>2. CASE Open /\ draft
  <2>1. /\ view = "away" /\ view' = "asking" /\ UNCHANGED entry /\ UNCHANGED restored
        /\ UNCHANGED seen /\ UNCHANGED loaded /\ UNCHANGED fetching /\ UNCHANGED piering
        /\ UNCHANGED porting
        /\ UNCHANGED stray /\ UNCHANGED draft /\ UNCHANGED tries /\ UNCHANGED created
        /\ UNCHANGED twice /\ UNCHANGED overtaken /\ UNCHANGED entries /\ UNCHANGED typed
    BY <1>2 DEF Open, filling, creation
  <2>2. NewTypeOK'
    BY <2>1 DEF NewInv, NewTypeOK
  <2>3. SeenFits' /\ FilledAlways' /\ PlacesFit' /\ WorkIsKept'
    BY <2>1 DEF NewInv, SeenFits, FilledAlways, PlacesFit, WorkIsKept
  <2>4. NotWaiting'
    BY <1>2, <2>1 DEF NewInv, NotWaiting
  <2>5. CreatedInv'
    BY <1>2, <2>1 DEF NewInv, CreatedInv, OneTry, Untried
  <2>6. QED
    BY <2>2, <2>3, <2>4, <2>5 DEF NewInv
<1>3. QED
  BY <1>1, <1>2 DEF Open, Discard

LEMMA NewContinueStep == ASSUME NewInv, Continue PROVE NewInv'
<1>a. /\ view = "asking" /\ view' = "form" /\ entry' = Restored /\ restored' = TRUE
      /\ seen' = [ship |-> entry.ship, branch |-> entry.branch]
      /\ loaded' = [ship |-> FALSE, branch |-> FALSE]
      /\ UNCHANGED fetching /\ UNCHANGED piering /\ UNCHANGED porting
      /\ UNCHANGED stray /\ UNCHANGED draft /\ UNCHANGED tries /\ UNCHANGED created
      /\ UNCHANGED twice /\ UNCHANGED overtaken /\ UNCHANGED entries /\ UNCHANGED typed
  BY DEF Continue, creation
<1>b. entry \in Entry /\ seen'.ship = entry.ship /\ seen'.branch = entry.branch
      /\ entry.ship \in Ships \cup {Empty} /\ entry.branch \in Branches \cup {Empty}
  BY <1>a, NewTypes DEF NewInv
<1>c. /\ entry' \in Entry /\ entry'.ship = entry.ship /\ entry'.branch = entry.branch
      /\ entry'.port = entry.port /\ entry'.pier = entry.pier
      /\ entry'.loa \in {Empty, Hand} /\ entry'.mobile \in {Empty, Hand}
  <2> DEFINE kept_(v) == IF v = Empty THEN Empty ELSE Hand
  <2>1. entry' = [entry EXCEPT !.loa = kept_(entry.loa), !.mic = kept_(entry.mic),
                    !.mobile = kept_(entry.mobile), !.subject = kept_(entry.subject)]
    BY <1>a, <1>b DEF Restored
  <2>2. /\ kept_(entry.loa) \in {Empty, Hand} /\ kept_(entry.mic) \in {Empty, Hand}
        /\ kept_(entry.mobile) \in {Empty, Hand} /\ kept_(entry.subject) \in {Empty, Hand}
    OBVIOUS
  <2> HIDE DEF kept_
  <2>3. QED
    BY <1>b, <2>1, <2>2 DEF Entry
<1>1. NewTypeOK'
  BY <1>a, <1>b, <1>c DEF NewInv, NewTypeOK
<1>2. SeenFits' /\ FilledAlways' /\ PlacesFit' /\ WorkIsKept'
  <2>1. SeenFits' /\ FilledAlways'
    BY <1>a, <1>c DEF SeenFits, FilledAlways
  <2>2. PlacesFit' /\ WorkIsKept'
    BY <1>a, <1>c DEF NewInv, PlacesFit, WorkIsKept
  <2>3. QED
    BY <2>1, <2>2
<1>3. NotWaiting'
  BY <1>a DEF NotWaiting
<1>4. CreatedInv'
  BY <1>a DEF NewInv, NotWaiting, CreatedInv, OneTry, Untried, FormKnows
<1>5. QED
  BY <1>1, <1>2, <1>3, <1>4 DEF NewInv

LEMMA NewLeaveStep == ASSUME NewInv, Leave PROVE NewInv'
<1> USE BlankIs
<1>a. /\ view # "away" /\ view' = "away" /\ entry' = (IF draft THEN entry ELSE Blank)
      /\ restored' = FALSE /\ seen' = [ship |-> Empty, branch |-> Empty]
      /\ loaded' = [ship |-> FALSE, branch |-> FALSE]
      /\ fetching' = Empty /\ piering' = Empty /\ porting' = Empty
      /\ tries' = [c \in Tries |-> [tries[c] EXCEPT !.mine = FALSE]]
      /\ twice' = (twice \/ \E c \in Tries : tries[c].mine /\ view = "form")
      /\ UNCHANGED draft /\ UNCHANGED created /\ UNCHANGED overtaken /\ UNCHANGED entries
      /\ UNCHANGED typed /\ UNCHANGED stray
  BY DEF Leave
<1>b. /\ tries' \in [Tries -> Try]
      /\ \A c \in Tries : /\ tries'[c].applied <=> tries[c].applied
                          /\ tries'[c].current <=> tries[c].current
  BY <1>a DEF NewInv, NewTypeOK, Try
<1>1. NewTypeOK'
  BY <1>a, <1>b DEF NewInv, NewTypeOK
<1>2. SeenFits' /\ FilledAlways' /\ PlacesFit' /\ WorkIsKept'
  <2>1. SeenFits' /\ FilledAlways'
    BY <1>a DEF SeenFits, FilledAlways
  <2>2. PlacesFit' /\ WorkIsKept'
    BY <1>a DEF NewInv, PlacesFit, WorkIsKept
  <2>3. QED
    BY <2>1, <2>2
<1>3. NotWaiting'
  BY <1>a DEF NotWaiting
<1>4. CreatedInv'
  <2> SUFFICES ASSUME ~twice'
               PROVE  OneTry' /\ (draft => Untried')
    BY <1>a DEF CreatedInv
  <2>1. ~twice /\ (view = "form" => \A c \in Tries : ~tries[c].mine)
    BY <1>a DEF NewInv, NewTypeOK
  <2>2. OneTry'
    BY <1>a, <1>b, <2>1 DEF NewInv, CreatedInv, OneTry
  <2>3. draft => Untried
    BY <1>a, <2>1 DEF NewInv, NewTypeOK, CreatedInv, FormKnows, Untried
  <2>4. draft => Untried'
    BY <1>a, <1>b, <2>3 DEF Untried
  <2>5. QED
    BY <2>2, <2>4
<1>5. QED
  BY <1>1, <1>2, <1>3, <1>4 DEF NewInv

\* What an effect does to the subject.
LEMMA SubjectedIs ==
  ASSUME NEW e \in Entry, NEW ship \in BOOLEAN, NEW branch \in BOOLEAN
  PROVE  /\ Subjected(e, ship, branch) \in Entry
         /\ Subjected(e, ship, branch).ship = e.ship
         /\ Subjected(e, ship, branch).branch = e.branch
         /\ Subjected(e, ship, branch).port = e.port
         /\ Subjected(e, ship, branch).pier = e.pier
         /\ Subjected(e, ship, branch).loa = e.loa
         /\ Subjected(e, ship, branch).mic = e.mic
         /\ Subjected(e, ship, branch).mobile = e.mobile
         /\ /\ ship /\ branch /\ e.port # Empty
            /\ Subjected(e, ship, branch).subject \notin {Empty, Hand}
            => Subjected(e, ship, branch).subject
                 = [ship |-> e.ship, port |-> e.port, branch |-> e.branch]
<1> DEFINE all == [ship |-> e.ship, port |-> e.port, branch |-> e.branch]
<1>1. all \in Subject
  BY DEF Entry, Subject
<1>2. CASE ship /\ branch /\ e.port # Empty /\ e.subject # Hand
  <2>1. Subjected(e, ship, branch) = [e EXCEPT !.subject = all]
    BY <1>2 DEF Subjected
  <2> HIDE DEF all
  <2>2. /\ [e EXCEPT !.subject = all] \in Entry
        /\ [e EXCEPT !.subject = all].ship = e.ship
        /\ [e EXCEPT !.subject = all].branch = e.branch
        /\ [e EXCEPT !.subject = all].port = e.port
        /\ [e EXCEPT !.subject = all].pier = e.pier
        /\ [e EXCEPT !.subject = all].loa = e.loa
        /\ [e EXCEPT !.subject = all].mic = e.mic
        /\ [e EXCEPT !.subject = all].mobile = e.mobile
        /\ [e EXCEPT !.subject = all].subject = all
    BY <1>1 DEF Entry
  <2>3. QED
    BY <2>1, <2>2 DEF all
<1>3. CASE ~(ship /\ branch /\ e.port # Empty /\ e.subject # Hand)
  <2>1. Subjected(e, ship, branch) = e
    BY <1>3 DEF Subjected
  <2>2. QED
    BY <1>3, <2>1
<1>4. QED
  BY <1>2, <1>3

\* What is stored of a form that changes.
LEMMA StoredKeeps ==
  ASSUME NewInv, NEW changed \in BOOLEAN, Stores(changed),
         changed => view \notin {"away", "asking"},
         typed' => typed \/ changed,
         UNCHANGED view, UNCHANGED tries, UNCHANGED created, UNCHANGED overtaken
  PROVE  /\ WorkIsKept' /\ CreatedInv' /\ draft' \in BOOLEAN /\ twice' \in BOOLEAN
         /\ view = "asking" => draft'
<1>a. /\ draft \in BOOLEAN /\ twice \in BOOLEAN
      /\ draft' = (draft \/ changed) /\ twice' = (twice \/ (changed /\ view = "leaving"))
  BY NewTypes DEF NewInv, Stores
<1>1. WorkIsKept'
  BY <1>a DEF NewInv, WorkIsKept
<1>2. CreatedInv'
  <2> SUFFICES ASSUME ~twice'
               PROVE  /\ OneTry'
                      /\ view' = "form" => FormKnows'
                      /\ view' \in {"away", "asking"} /\ draft' => Untried'
                      /\ view' = "leaving" => ~draft'
    BY DEF CreatedInv
  <2>1. ~twice /\ ~(changed /\ view = "leaving")
    BY <1>a
  <2>2. /\ OneTry
        /\ view = "form" => FormKnows
        /\ view \in {"away", "asking"} /\ draft => Untried
        /\ view = "leaving" => ~draft
    BY <2>1 DEF NewInv, CreatedInv
  <2>3. OneTry' /\ (view' = "form" => FormKnows')
    BY <2>2 DEF OneTry, FormKnows
  <2>4. view' \in {"away", "asking"} /\ draft' => Untried'
    BY <1>a, <2>2 DEF Untried
  <2>5. view' = "leaving" => ~draft'
    BY <1>a, <2>1, <2>2
  <2>6. QED
    BY <2>3, <2>4, <2>5
<1>3. QED
  BY <1>a, <1>1, <1>2 DEF NewInv, NotWaiting

\* Data of the selection arrive.
LEMMA NewShipLoads == ASSUME NewInv, ShipLoads PROVE NewInv'
<1>a. /\ entry' = Subjected(Particulars, TRUE, loaded.branch) /\ Stores(entry' # entry)
      /\ seen' = [seen EXCEPT !.ship = entry.ship] /\ loaded' = [loaded EXCEPT !.ship = TRUE]
      /\ view \in {"form", "leaving"} /\ entry.ship # Empty /\ ~loaded.ship
      /\ UNCHANGED view /\ UNCHANGED restored /\ UNCHANGED fetching /\ UNCHANGED piering
      /\ UNCHANGED porting
      /\ UNCHANGED stray /\ UNCHANGED tries /\ UNCHANGED created /\ UNCHANGED overtaken
      /\ UNCHANGED entries /\ UNCHANGED typed
  BY DEF ShipLoads, Becomes
<1>b. /\ entry \in Entry /\ entry.ship \in Ships \cup {Empty} /\ loaded.branch \in BOOLEAN
      /\ seen \in [ship : Ships \cup {Empty}, branch : Branches \cup {Empty}]
      /\ loaded \in [ship : BOOLEAN, branch : BOOLEAN]
      /\ entry.loa \in Ships \cup {Empty, Hand}
  BY NewTypes DEF NewInv, NewTypeOK
<1>c. /\ seen' \in [ship : Ships \cup {Empty}, branch : Branches \cup {Empty}]
      /\ seen'.ship = entry.ship /\ seen'.branch = seen.branch
      /\ loaded' \in [ship : BOOLEAN, branch : BOOLEAN]
      /\ loaded'.ship /\ (loaded'.branch <=> loaded.branch)
  BY <1>a, <1>b
<1> DEFINE loa == IF entry.loa = Empty \/ seen.ship # entry.ship THEN entry.ship ELSE entry.loa
           e == [entry EXCEPT !.loa = loa]
<1>d. loa \in {entry.ship, Hand} /\ loa \in Ships \cup {Empty, Hand}
  BY <1>a, <1>b DEF NewInv, SeenFits
<1>e. Particulars = e
  BY DEF Particulars
<1> HIDE DEF loa
<1>f. /\ e \in Entry /\ e.loa = loa /\ e.ship = entry.ship /\ e.branch = entry.branch
      /\ e.port = entry.port /\ e.pier = entry.pier /\ e.mic = entry.mic
      /\ e.mobile = entry.mobile
  BY <1>b, <1>d DEF Entry
<1> HIDE DEF e
<1>g. /\ entry' \in Entry /\ entry'.loa = loa /\ entry'.ship = entry.ship
      /\ entry'.branch = entry.branch /\ entry'.port = entry.port /\ entry'.pier = entry.pier
      /\ entry'.mic = entry.mic /\ entry'.mobile = entry.mobile
      /\ loaded.branch /\ entry'.port # Empty /\ entry'.subject \notin {Empty, Hand}
           => entry'.subject = [ship |-> entry'.ship, port |-> entry'.port,
                                branch |-> entry'.branch]
  <2>1. /\ Subjected(e, TRUE, loaded.branch) \in Entry
        /\ Subjected(e, TRUE, loaded.branch).ship = e.ship
        /\ Subjected(e, TRUE, loaded.branch).branch = e.branch
        /\ Subjected(e, TRUE, loaded.branch).port = e.port
        /\ Subjected(e, TRUE, loaded.branch).pier = e.pier
        /\ Subjected(e, TRUE, loaded.branch).loa = e.loa
        /\ Subjected(e, TRUE, loaded.branch).mic = e.mic
        /\ Subjected(e, TRUE, loaded.branch).mobile = e.mobile
        /\ /\ TRUE /\ loaded.branch /\ e.port # Empty
           /\ Subjected(e, TRUE, loaded.branch).subject \notin {Empty, Hand}
           => Subjected(e, TRUE, loaded.branch).subject
                = [ship |-> e.ship, port |-> e.port, branch |-> e.branch]
    BY <1>b, <1>f, SubjectedIs
  <2>2. entry' = Subjected(e, TRUE, loaded.branch)
    BY <1>a, <1>e
  <2>3. QED
    BY <1>f, <2>1, <2>2
<1>1. WorkIsKept' /\ CreatedInv' /\ draft' \in BOOLEAN /\ twice' \in BOOLEAN
  BY <1>a, StoredKeeps
<1>2. NewTypeOK'
  BY <1>a, <1>c, <1>g, <1>1 DEF NewInv, NewTypeOK
<1>3. SeenFits' /\ FilledAlways'
  BY <1>c, <1>d, <1>g DEF NewInv, SeenFits, FilledAlways
<1>4. PlacesFit' /\ NotWaiting'
  BY <1>a, <1>g DEF NewInv, PlacesFit, NotWaiting
<1>5. QED
  BY <1>1, <1>2, <1>3, <1>4 DEF NewInv

LEMMA NewStaffLoads == ASSUME NewInv, StaffLoads PROVE NewInv'
<1>a. /\ entry' = Subjected(Staff, loaded.ship, TRUE) /\ Stores(entry' # entry)
      /\ seen' = [seen EXCEPT !.branch = entry.branch]
      /\ loaded' = [loaded EXCEPT !.branch = TRUE]
      /\ view \in {"form", "leaving"} /\ entry.branch # Empty /\ ~loaded.branch
      /\ UNCHANGED view /\ UNCHANGED restored /\ UNCHANGED fetching /\ UNCHANGED piering
      /\ UNCHANGED porting
      /\ UNCHANGED stray /\ UNCHANGED tries /\ UNCHANGED created /\ UNCHANGED overtaken
      /\ UNCHANGED entries /\ UNCHANGED typed
  BY DEF StaffLoads, Becomes
<1>b. /\ entry \in Entry /\ entry.branch \in Branches \cup {Empty} /\ loaded.ship \in BOOLEAN
      /\ seen \in [ship : Ships \cup {Empty}, branch : Branches \cup {Empty}]
      /\ loaded \in [ship : BOOLEAN, branch : BOOLEAN]
      /\ entry.mic \in Branches \cup {Empty, Hand}
      /\ entry.mobile \in Branches \cup {Empty, Hand}
  BY NewTypes DEF NewInv, NewTypeOK
<1>c. /\ seen' \in [ship : Ships \cup {Empty}, branch : Branches \cup {Empty}]
      /\ seen'.branch = entry.branch /\ seen'.ship = seen.ship
      /\ loaded' \in [ship : BOOLEAN, branch : BOOLEAN]
      /\ loaded'.branch /\ (loaded'.ship <=> loaded.ship)
  BY <1>a, <1>b
<1> DEFINE mic == IF entry.mic = Hand THEN Hand ELSE entry.branch
           mobile == IF entry.mobile = Empty \/ seen.branch # entry.branch
                     THEN entry.branch ELSE entry.mobile
           e == [entry EXCEPT !.mic = mic, !.mobile = mobile]
<1>d. /\ mobile \in {entry.branch, Hand} /\ mobile \in Branches \cup {Empty, Hand}
      /\ mic \in {entry.branch, Hand} /\ mic \in Branches \cup {Empty, Hand}
  BY <1>a, <1>b DEF NewInv, SeenFits
<1>e. Staff = e
  BY DEF Staff
<1> HIDE DEF mic, mobile
<1>f. /\ e \in Entry /\ e.loa = entry.loa /\ e.ship = entry.ship /\ e.branch = entry.branch
      /\ e.port = entry.port /\ e.pier = entry.pier /\ e.mic = mic
      /\ e.mobile = mobile
  <2>1. e \in Entry
    BY <1>b, <1>d DEF Entry
  <2>2. /\ e.loa = entry.loa /\ e.ship = entry.ship /\ e.branch = entry.branch
        /\ e.port = entry.port /\ e.pier = entry.pier /\ e.mic = mic
    BY <1>b DEF Entry
  <2>3. e.mobile = mobile
    BY <1>b DEF Entry
  <2>4. QED
    BY <2>1, <2>2, <2>3
<1> HIDE DEF e
<1>g. /\ entry' \in Entry /\ entry'.loa = entry.loa /\ entry'.ship = entry.ship
      /\ entry'.branch = entry.branch /\ entry'.port = entry.port /\ entry'.pier = entry.pier
      /\ entry'.mic = mic /\ entry'.mobile = mobile
      /\ loaded.ship /\ entry'.port # Empty /\ entry'.subject \notin {Empty, Hand}
           => entry'.subject = [ship |-> entry'.ship, port |-> entry'.port,
                                branch |-> entry'.branch]
  <2>1. /\ Subjected(e, loaded.ship, TRUE) \in Entry
        /\ Subjected(e, loaded.ship, TRUE).ship = e.ship
        /\ Subjected(e, loaded.ship, TRUE).branch = e.branch
        /\ Subjected(e, loaded.ship, TRUE).port = e.port
        /\ Subjected(e, loaded.ship, TRUE).pier = e.pier
        /\ Subjected(e, loaded.ship, TRUE).loa = e.loa
        /\ Subjected(e, loaded.ship, TRUE).mic = e.mic
        /\ Subjected(e, loaded.ship, TRUE).mobile = e.mobile
        /\ /\ loaded.ship /\ TRUE /\ e.port # Empty
           /\ Subjected(e, loaded.ship, TRUE).subject \notin {Empty, Hand}
           => Subjected(e, loaded.ship, TRUE).subject
                = [ship |-> e.ship, port |-> e.port, branch |-> e.branch]
    BY <1>b, <1>f, SubjectedIs
  <2>2. entry' = Subjected(e, loaded.ship, TRUE)
    BY <1>a, <1>e
  <2>3. QED
    BY <1>f, <2>1, <2>2
<1>1. WorkIsKept' /\ CreatedInv' /\ draft' \in BOOLEAN /\ twice' \in BOOLEAN
  BY <1>a, StoredKeeps
<1>2. NewTypeOK'
  BY <1>a, <1>c, <1>g, <1>1 DEF NewInv, NewTypeOK
<1>3. SeenFits' /\ FilledAlways'
  BY <1>c, <1>d, <1>g DEF NewInv, SeenFits, FilledAlways
<1>4. PlacesFit' /\ NotWaiting'
  BY <1>a, <1>g DEF NewInv, PlacesFit, NotWaiting
<1>5. QED
  BY <1>1, <1>2, <1>3, <1>4 DEF NewInv

\* What was waited for arrives.
LEMMA ArrivalKeeps ==
  ASSUME NewInv, Becomes(entry'), view \notin {"away", "asking"},
         UNCHANGED view, UNCHANGED restored, UNCHANGED seen, UNCHANGED loaded, UNCHANGED tries,
         UNCHANGED created, UNCHANGED overtaken, UNCHANGED entries, UNCHANGED typed,
         entry' \in Entry, entry'.ship = entry.ship, entry'.branch = entry.branch,
         entry'.mic = entry.mic, entry'.mobile = entry.mobile,
         entry'.loa = entry.loa \/ (loaded.ship /\ entry'.loa = entry.ship),
         /\ loaded.ship /\ loaded.branch
         /\ entry'.port # Empty /\ entry'.subject \notin {Empty, Hand}
         => entry'.subject = [ship |-> entry'.ship, port |-> entry'.port,
                              branch |-> entry'.branch],
         fetching' \in {fetching, Empty}, piering' \in {piering, Empty},
         porting' \in {porting, Empty}, stray' \subseteq {"port", "pier"},
         PlacesFit'
  PROVE  NewInv'
<1>a. Stores(entry' # entry)
  BY DEF Becomes
<1>b. /\ fetching \in Ships \cup {Empty} /\ piering \in Ports \cup {Empty}
      /\ porting \in Branches \cup {Empty}
  BY NewTypes DEF NewInv
<1>1. WorkIsKept' /\ CreatedInv' /\ draft' \in BOOLEAN /\ twice' \in BOOLEAN
  BY <1>a, StoredKeeps
<1>2. NewTypeOK'
  BY <1>b, <1>1 DEF NewInv, NewTypeOK
<1>3. SeenFits' /\ FilledAlways'
  BY DEF NewInv, SeenFits, FilledAlways
<1>4. NotWaiting'
  BY DEF NotWaiting
<1>5. QED
  BY <1>1, <1>2, <1>3, <1>4 DEF NewInv

LEMMA NewArrivals == ASSUME NewInv, VesselArrives \/ PierArrives PROVE NewInv'
<1>a. /\ Becomes(entry') /\ view \notin {"away", "asking"}
      /\ UNCHANGED view /\ UNCHANGED restored /\ UNCHANGED seen /\ UNCHANGED loaded
      /\ UNCHANGED tries /\ UNCHANGED created /\ UNCHANGED overtaken
      /\ UNCHANGED entries /\ UNCHANGED typed /\ UNCHANGED porting
  BY DEF VesselArrives, PierArrives, Becomes, NewInv, NotWaiting
<1>b. /\ entry \in Entry /\ fetching \in Ships \cup {Empty} /\ piering \in Ports \cup {Empty}
      /\ entry.pier \in Ports \cup {Empty} /\ entry.loa \in Ships \cup {Empty, Hand}
      /\ stray \subseteq {"port", "pier"}
  BY NewTypes DEF NewInv
<1>c. PlacesFit
      /\ (/\ loaded.ship /\ loaded.branch
          /\ entry.port # Empty /\ entry.subject \notin {Empty, Hand}
          => entry.subject = [ship |-> entry.ship, port |-> entry.port, branch |-> entry.branch])
  BY DEF NewInv, FilledAlways
<1>1. CASE VesselArrives
  <2>1. /\ entry' = (IF StillSelected(fetching) THEN [entry EXCEPT !.loa = fetching] ELSE entry)
        /\ UNCHANGED piering /\ UNCHANGED stray /\ fetching' = Empty
    BY <1>1 DEF VesselArrives, Becomes
  <2>2. /\ entry' \in Entry /\ entry'.ship = entry.ship /\ entry'.branch = entry.branch
        /\ entry'.port = entry.port /\ entry'.mic = entry.mic /\ entry'.pier = entry.pier
        /\ entry'.mobile = entry.mobile /\ entry'.subject = entry.subject
        /\ entry'.loa = entry.loa \/ (loaded.ship /\ entry'.loa = entry.ship)
    <3>1. CASE StillSelected(fetching)
      <4>1. entry' = [entry EXCEPT !.loa = fetching] /\ loaded.ship /\ entry.ship = fetching
        BY <2>1, <3>1 DEF StillSelected
      <4>2. QED
        BY <1>b, <4>1 DEF Entry
    <3>2. CASE ~StillSelected(fetching)
      BY <1>b, <2>1, <3>2
    <3>3. QED
      BY <3>1, <3>2
  <2>3. PlacesFit'
    BY <1>c, <2>1, <2>2 DEF PlacesFit
  <2>4. QED
    BY <1>a, <1>b, <1>c, <2>1, <2>2, <2>3, ArrivalKeeps
<1>2. CASE PierArrives
  <2>1. /\ entry' = [entry EXCEPT !.pier = piering] /\ UNCHANGED fetching /\ piering' = Empty
        /\ stray' = IF piering = entry.port THEN stray \ {"pier"} ELSE stray \cup {"pier"}
    BY <1>2 DEF PierArrives, Becomes
  <2>2. /\ entry' \in Entry /\ entry'.ship = entry.ship /\ entry'.branch = entry.branch
        /\ entry'.port = entry.port /\ entry'.mic = entry.mic
        /\ entry'.mobile = entry.mobile /\ entry'.subject = entry.subject
        /\ entry'.loa = entry.loa /\ entry'.pier = piering
    BY <1>b, <2>1 DEF Entry
  <2>3. stray' \subseteq {"port", "pier"} /\ PlacesFit'
    BY <1>b, <1>c, <2>1, <2>2 DEF PlacesFit
  <2>4. QED
    BY <1>a, <1>b, <1>c, <2>1, <2>2, <2>3, ArrivalKeeps
<1>3. QED
  BY <1>1, <1>2

\* A port is put into the form, and the subject follows.
LEMMA PortedIs ==
  ASSUME NewInv, NEW p \in Ports, NEW e,
         e = Subjected(Ported(p), loaded.ship, loaded.branch)
  PROVE  /\ e \in Entry /\ e.ship = entry.ship /\ e.port = p
         /\ e.branch = entry.branch /\ e.pier = Empty /\ e.loa = entry.loa
         /\ e.mic = entry.mic /\ e.mobile = entry.mobile
         /\ /\ loaded.ship /\ loaded.branch
            /\ e.port # Empty /\ e.subject \notin {Empty, Hand}
            => e.subject = [ship |-> e.ship, port |-> e.port, branch |-> e.branch]
<1>1. entry \in Entry /\ loaded.ship \in BOOLEAN /\ loaded.branch \in BOOLEAN
  BY NewTypes DEF NewInv
<1> DEFINE q == Ported(p)
<1>2. /\ q \in Entry /\ q.ship = entry.ship /\ q.port = p /\ q.branch = entry.branch
      /\ q.pier = Empty /\ q.loa = entry.loa /\ q.mic = entry.mic
      /\ q.mobile = entry.mobile
  BY <1>1 DEF Entry, Ported
<1> HIDE DEF q
<1>3. /\ Subjected(q, loaded.ship, loaded.branch) \in Entry
      /\ Subjected(q, loaded.ship, loaded.branch).ship = q.ship
      /\ Subjected(q, loaded.ship, loaded.branch).branch = q.branch
      /\ Subjected(q, loaded.ship, loaded.branch).port = q.port
      /\ Subjected(q, loaded.ship, loaded.branch).pier = q.pier
      /\ Subjected(q, loaded.ship, loaded.branch).loa = q.loa
      /\ Subjected(q, loaded.ship, loaded.branch).mic = q.mic
      /\ Subjected(q, loaded.ship, loaded.branch).mobile = q.mobile
      /\ /\ loaded.ship /\ loaded.branch /\ q.port # Empty
         /\ Subjected(q, loaded.ship, loaded.branch).subject \notin {Empty, Hand}
         => Subjected(q, loaded.ship, loaded.branch).subject
              = [ship |-> q.ship, port |-> q.port, branch |-> q.branch]
  BY <1>1, <1>2, SubjectedIs
<1>4. e = Subjected(q, loaded.ship, loaded.branch)
  BY DEF q
<1>5. QED
  BY <1>2, <1>3, <1>4

LEMMA NewPortArrives == ASSUME NewInv, PortArrives PROVE NewInv'
<1>a. /\ view \notin {"away", "asking"}
      /\ UNCHANGED view /\ UNCHANGED restored /\ UNCHANGED seen /\ UNCHANGED loaded
      /\ UNCHANGED tries /\ UNCHANGED created /\ UNCHANGED overtaken /\ UNCHANGED entries
      /\ UNCHANGED typed /\ UNCHANGED fetching /\ UNCHANGED piering /\ porting' = Empty
  BY DEF PortArrives, NewInv, NotWaiting
<1>1. CASE UNCHANGED <<entry, draft, twice, stray>>
  <2>1. UNCHANGED entry /\ UNCHANGED draft /\ UNCHANGED twice /\ UNCHANGED stray
    BY <1>1
  <2>2. NewTypeOK'
    BY <1>a, <2>1 DEF NewInv, NewTypeOK
  <2>3. SeenFits' /\ FilledAlways' /\ PlacesFit' /\ WorkIsKept' /\ NotWaiting'
    BY <1>a, <2>1 DEF NewInv, SeenFits, FilledAlways, PlacesFit, WorkIsKept, NotWaiting
  <2>4. CreatedInv'
    BY <1>a, <2>1 DEF NewInv, CreatedInv, OneTry, FormKnows, Untried
  <2>5. QED
    BY <2>2, <2>3, <2>4 DEF NewInv
<1>2. ASSUME NEW p \in Ports, BranchOf[p] = porting,
             Becomes(Subjected(Ported(p), loaded.ship, loaded.branch)),
             stray' = IF entry.branch \in {Empty, porting} THEN {} ELSE {"port"}
      PROVE  NewInv'
  <2>1. entry' = Subjected(Ported(p), loaded.ship, loaded.branch) /\ Becomes(entry')
    BY <1>2 DEF Becomes
  <2>2. /\ entry' \in Entry /\ entry'.ship = entry.ship /\ entry'.port = p
        /\ entry'.branch = entry.branch /\ entry'.pier = Empty /\ entry'.loa = entry.loa
        /\ entry'.mic = entry.mic /\ entry'.mobile = entry.mobile
        /\ /\ loaded.ship /\ loaded.branch
           /\ entry'.port # Empty /\ entry'.subject \notin {Empty, Hand}
           => entry'.subject = [ship |-> entry'.ship, port |-> entry'.port,
                                branch |-> entry'.branch]
    BY <2>1, PortedIs
  <2>3. stray' \subseteq {"port", "pier"} /\ PlacesFit'
    BY <1>2, <2>2 DEF PlacesFit
  <2>4. QED
    BY <1>a, <2>1, <2>2, <2>3, ArrivalKeeps
<1>3. QED
  BY <1>1, <1>2 DEF PortArrives

\* What the user enters.
LEMMA EnteringKeeps ==
  ASSUME NewInv, Entering, entry' \in Entry, Stores(TRUE),
         loaded' \in [ship : BOOLEAN, branch : BOOLEAN], stray' \subseteq {"port", "pier"},
         loaded'.ship => loaded.ship /\ entry'.ship = entry.ship,
         loaded'.branch => loaded.branch /\ entry'.branch = entry.branch,
         entry'.loa \in {entry.loa, Hand}, entry'.mobile \in {entry.mobile, Hand},
         entry'.mic \in {entry.mic, Hand},
         /\ loaded'.ship /\ loaded'.branch
         /\ entry'.port # Empty /\ entry'.subject \notin {Empty, Hand}
         => entry'.subject = [ship |-> entry'.ship, port |-> entry'.port,
                              branch |-> entry'.branch],
         PlacesFit'
  PROVE  NewInv'
<1>a. /\ view \in {"form", "leaving"} /\ entries < MaxEntries /\ entries' = entries + 1
      /\ typed' = TRUE /\ UNCHANGED view /\ UNCHANGED restored /\ UNCHANGED seen
      /\ UNCHANGED fetching /\ UNCHANGED piering /\ UNCHANGED porting /\ UNCHANGED tries
      /\ UNCHANGED created /\ UNCHANGED overtaken
  BY DEF Entering
<1>b. entries' \in 0..MaxEntries
  BY <1>a, BranchOfPort DEF NewInv, NewTypeOK
<1>1. WorkIsKept' /\ CreatedInv' /\ draft' \in BOOLEAN /\ twice' \in BOOLEAN
  BY <1>a, StoredKeeps
<1>2. NewTypeOK'
  BY <1>a, <1>b, <1>1 DEF NewInv, NewTypeOK
<1>3. SeenFits' /\ FilledAlways'
  BY <1>a DEF NewInv, SeenFits, FilledAlways
<1>4. NotWaiting'
  BY <1>a DEF NotWaiting
<1>5. QED
  BY <1>1, <1>2, <1>3, <1>4 DEF NewInv

LEMMA NewSelections ==
  ASSUME NewInv, SelectShip \/ SelectBranch \/ SelectPort \/ SelectPier PROVE NewInv'
<1>b. /\ entry \in Entry /\ loaded \in [ship : BOOLEAN, branch : BOOLEAN]
      /\ loaded.ship \in BOOLEAN /\ loaded.branch \in BOOLEAN
      /\ entry.branch \in Branches \cup {Empty} /\ entry.port \in Ports \cup {Empty}
      /\ stray \subseteq {"port", "pier"}
  BY NewTypes DEF NewInv, NewTypeOK
<1>c. PlacesFit /\ FilledAlways
  BY DEF NewInv
<1>1. CASE SelectShip
  <2>1. PICK s \in Ships \cup {Empty} : entry' = [entry EXCEPT !.ship = s] /\ Stores(TRUE)
    BY <1>1 DEF SelectShip, Entered
  <2>2. Entering /\ loaded' = [loaded EXCEPT !.ship = FALSE] /\ UNCHANGED stray
    BY <1>1 DEF SelectShip, Entering
  <2>3. /\ entry' \in Entry /\ entry'.branch = entry.branch /\ entry'.port = entry.port
        /\ entry'.pier = entry.pier /\ entry'.loa = entry.loa /\ entry'.mic = entry.mic
        /\ entry'.mobile = entry.mobile
    BY <1>b, <2>1 DEF Entry
  <2>4. /\ loaded' \in [ship : BOOLEAN, branch : BOOLEAN] /\ ~loaded'.ship
        /\ loaded'.branch <=> loaded.branch
    BY <1>b, <2>2
  <2>5. PlacesFit'
    BY <1>c, <2>2, <2>3 DEF PlacesFit
  <2>6. QED
    BY <1>b, <2>1, <2>2, <2>3, <2>4, <2>5, EnteringKeeps
<1>2. CASE SelectBranch
  <2>1. PICK b \in Branches \cup {Empty} :
          entry' = [entry EXCEPT !.branch = b, !.port = Empty, !.pier = Empty] /\ Stores(TRUE)
    BY <1>2 DEF SelectBranch, Entered
  <2>2. Entering /\ loaded' = [loaded EXCEPT !.branch = FALSE] /\ stray' = {}
    BY <1>2 DEF SelectBranch, Entering
  <2>3. /\ entry' \in Entry /\ entry'.ship = entry.ship /\ entry'.port = Empty
        /\ entry'.pier = Empty /\ entry'.loa = entry.loa /\ entry'.mic = entry.mic
        /\ entry'.mobile = entry.mobile
    BY <1>b, <2>1 DEF Entry
  <2>4. /\ loaded' \in [ship : BOOLEAN, branch : BOOLEAN] /\ ~loaded'.branch
        /\ loaded'.ship <=> loaded.ship
    BY <1>b, <2>2
  <2>5. PlacesFit'
    BY <2>3 DEF PlacesFit
  <2>6. QED
    BY <2>1, <2>2, <2>3, <2>4, <2>5, EnteringKeeps
<1>3. CASE SelectPort
  <2>1. PICK p \in Ports :
          /\ entry.branch \in {Empty, BranchOf[p]}
          /\ entry' = Subjected(Ported(p), loaded.ship, loaded.branch) /\ Stores(TRUE)
    BY <1>3 DEF SelectPort, Entered
  <2>2. Entering /\ UNCHANGED loaded /\ stray' = {}
    BY <1>3 DEF SelectPort, Entering
  <2>5. /\ entry' \in Entry /\ entry'.ship = entry.ship /\ entry'.port = p
        /\ entry'.branch = entry.branch /\ entry'.pier = Empty /\ entry'.loa = entry.loa
        /\ entry'.mic = entry.mic /\ entry'.mobile = entry.mobile
        /\ /\ loaded.ship /\ loaded.branch
           /\ entry'.port # Empty /\ entry'.subject \notin {Empty, Hand}
           => entry'.subject = [ship |-> entry'.ship, port |-> entry'.port,
                                branch |-> entry'.branch]
    BY <2>1, PortedIs
  <2>6. PlacesFit'
    BY <2>1, <2>5 DEF PlacesFit
  <2>7. QED
    BY <1>b, <2>1, <2>2, <2>5, <2>6, EnteringKeeps
<1>4. CASE SelectPier
  <2>1. /\ Entering /\ UNCHANGED loaded /\ stray' = stray \ {"pier"}
        /\ entry' = [entry EXCEPT !.pier = entry.port] /\ Stores(TRUE)
    BY <1>4 DEF SelectPier, Entering, Entered
  <2>2. /\ entry' \in Entry /\ entry'.ship = entry.ship /\ entry'.branch = entry.branch
        /\ entry'.port = entry.port /\ entry'.pier = entry.port /\ entry'.loa = entry.loa
        /\ entry'.mic = entry.mic /\ entry'.mobile = entry.mobile
        /\ entry'.subject = entry.subject
    BY <1>b, <2>1 DEF Entry
  <2>3. PlacesFit'
    BY <1>c, <2>1, <2>2 DEF PlacesFit
  <2>4. /\ loaded.ship /\ loaded.branch /\ entry.port # Empty /\ entry.subject \notin {Empty, Hand}
        => entry.subject = [ship |-> entry.ship, port |-> entry.port, branch |-> entry.branch]
    BY <1>c DEF FilledAlways
  <2>5. QED
    BY <1>b, <2>1, <2>2, <2>3, <2>4, EnteringKeeps
<1>5. QED
  BY <1>1, <1>2, <1>3, <1>4

LEMMA NewTyping == ASSUME NewInv, Type \/ Generate PROVE NewInv'
<1>b. /\ entry \in Entry /\ loaded \in [ship : BOOLEAN, branch : BOOLEAN]
      /\ entry.branch \in Branches \cup {Empty} /\ entry.port \in Ports \cup {Empty}
      /\ entry.ship \in Ships \cup {Empty} /\ stray \subseteq {"port", "pier"}
  BY NewTypes DEF NewInv, NewTypeOK
<1>c. PlacesFit
      /\ (/\ loaded.ship /\ loaded.branch
          /\ entry.port # Empty /\ entry.subject \notin {Empty, Hand}
          => entry.subject = [ship |-> entry.ship, port |-> entry.port, branch |-> entry.branch])
  BY DEF NewInv, FilledAlways
<1>a. Entering /\ UNCHANGED loaded /\ UNCHANGED stray /\ Stores(TRUE)
  BY DEF Type, Generate, Entering, Entered
<1>1. CASE Type
  <2>1. PICK f \in {"loa", "mic", "mobile", "subject"} : entry' = [entry EXCEPT ![f] = Hand]
    BY <1>1 DEF Type, Entered
  <2>2. /\ entry' \in Entry /\ entry'.ship = entry.ship /\ entry'.branch = entry.branch
        /\ entry'.port = entry.port /\ entry'.pier = entry.pier
        /\ entry'.loa \in {entry.loa, Hand} /\ entry'.mic \in {entry.mic, Hand}
        /\ entry'.mobile \in {entry.mobile, Hand} /\ entry'.subject \in {entry.subject, Hand}
    <3>1. CASE f = "loa"
      BY <1>b, <2>1, <3>1 DEF Entry
    <3>2. CASE f = "mic"
      BY <1>b, <2>1, <3>2 DEF Entry
    <3>3. CASE f = "mobile"
      BY <1>b, <2>1, <3>3 DEF Entry
    <3>4. CASE f = "subject"
      BY <1>b, <2>1, <3>4 DEF Entry
    <3>5. QED
      BY <3>1, <3>2, <3>3, <3>4
  <2>3. PlacesFit'
    BY <1>a, <1>c, <2>2 DEF PlacesFit
  <2>4. QED
    BY <1>a, <1>b, <1>c, <2>2, <2>3, EnteringKeeps
<1>2. CASE Generate
  <2> DEFINE s == [ship |-> IF loaded.ship THEN entry.ship ELSE Empty, port |-> entry.port,
                   branch |-> IF loaded.branch THEN entry.branch ELSE Empty]
  <2>1. entry' = [entry EXCEPT !.subject = s]
    BY <1>2 DEF Generate, Entered
  <2>2. s \in Subject
    BY <1>b DEF Subject
  <2>3. loaded.ship /\ loaded.branch
          => s = [ship |-> entry.ship, port |-> entry.port, branch |-> entry.branch]
    OBVIOUS
  <2> HIDE DEF s
  <2>4. /\ entry' \in Entry /\ entry'.ship = entry.ship /\ entry'.branch = entry.branch
        /\ entry'.port = entry.port /\ entry'.pier = entry.pier
        /\ entry'.loa = entry.loa /\ entry'.mic = entry.mic
        /\ entry'.mobile = entry.mobile /\ entry'.subject = s
    BY <1>b, <2>1, <2>2 DEF Entry
  <2>5. PlacesFit'
    BY <1>a, <1>c, <2>4 DEF PlacesFit
  <2>6. QED
    BY <1>a, <1>b, <2>3, <2>4, <2>5, EnteringKeeps
<1>3. QED
  BY <1>1, <1>2

LEMMA NewClear == ASSUME NewInv, Clear PROVE NewInv'
<1> USE BlankIs
<1>a. /\ view = "form" /\ entry' = Blank /\ draft' = TRUE /\ created' = 0 /\ typed' = FALSE
      /\ seen' = [seen EXCEPT !.branch = Empty]
      /\ loaded' = [ship |-> FALSE, branch |-> FALSE]
      /\ tries' = [c \in Tries |-> [tries[c] EXCEPT !.current = FALSE]]
      /\ twice' = FALSE /\ overtaken' = FALSE /\ stray' = {}
      /\ UNCHANGED view /\ UNCHANGED restored /\ UNCHANGED fetching /\ UNCHANGED piering
      /\ UNCHANGED porting
      /\ UNCHANGED entries
  BY DEF Clear
<1>b. tries' \in [Tries -> Try] /\ \A c \in Tries : ~tries'[c].current
  BY <1>a DEF NewInv, NewTypeOK, Try
<1>c. seen' \in [ship : Ships \cup {Empty}, branch : Branches \cup {Empty}]
      /\ seen'.branch = Empty
  BY <1>a DEF NewInv, NewTypeOK
<1>d. 0 \in 0..2 /\ {FALSE, TRUE} \subseteq BOOLEAN
  OBVIOUS
<1>1. NewTypeOK'
  BY <1>a, <1>b, <1>c, <1>d DEF NewInv, NewTypeOK
<1>2. SeenFits' /\ FilledAlways' /\ PlacesFit'
  BY <1>a, <1>c DEF SeenFits, FilledAlways, PlacesFit
<1>3. WorkIsKept' /\ NotWaiting'
  BY <1>a DEF WorkIsKept, NotWaiting
<1>4. CreatedInv'
  BY <1>a, <1>b DEF CreatedInv, OneTry, FormKnows
<1>5. QED
  BY <1>1, <1>2, <1>3, <1>4 DEF NewInv

\* The user asks for particulars, a pier or a port.
LEMMA NewRequests ==
  ASSUME NewInv, FetchFromVessel \/ CreatePier \/ CreatePort PROVE NewInv'
<1>a. /\ view = "form" /\ UNCHANGED view /\ UNCHANGED entry /\ UNCHANGED restored
      /\ UNCHANGED seen /\ UNCHANGED loaded /\ UNCHANGED stray /\ UNCHANGED draft
      /\ UNCHANGED tries /\ UNCHANGED created /\ UNCHANGED twice /\ UNCHANGED overtaken
      /\ UNCHANGED entries /\ UNCHANGED typed
      /\ fetching' \in {fetching, entry.ship} /\ piering' \in {piering, entry.port}
      /\ porting' \in {porting, entry.branch}
  BY DEF FetchFromVessel, CreatePier, CreatePort, creation
<1>b. /\ entry.ship \in Ships \cup {Empty} /\ entry.port \in Ports \cup {Empty}
      /\ fetching \in Ships \cup {Empty} /\ piering \in Ports \cup {Empty}
      /\ entry.branch \in Branches \cup {Empty} /\ porting \in Branches \cup {Empty}
  BY NewTypes DEF NewInv
<1>1. NewTypeOK'
  BY <1>a, <1>b DEF NewInv, NewTypeOK
<1>2. SeenFits' /\ FilledAlways' /\ PlacesFit' /\ WorkIsKept'
  BY <1>a DEF NewInv, SeenFits, FilledAlways, PlacesFit, WorkIsKept
<1>3. NotWaiting'
  BY <1>a DEF NotWaiting
<1>4. CreatedInv'
  BY <1>a DEF NewInv, CreatedInv, OneTry, FormKnows
<1>5. QED
  BY <1>1, <1>2, <1>3, <1>4 DEF NewInv

\* A creation is made, applied and answered.
LEMMA CreationKeeps ==
  ASSUME NewInv, UNCHANGED entry, UNCHANGED restored, UNCHANGED filling, UNCHANGED entries,
         view' \in {"away", "asking", "form", "leaving"},
         view' \in {"away", "asking"} => view' = view,
         view' = "asking" => draft',
         tries' \in [Tries -> Try], created' \in 0..2,
         {draft', twice', typed', overtaken'} \subseteq BOOLEAN,
         WorkIsKept', CreatedInv'
  PROVE  NewInv'
<1>a. /\ UNCHANGED seen /\ UNCHANGED loaded /\ UNCHANGED fetching /\ UNCHANGED piering
      /\ UNCHANGED porting
      /\ UNCHANGED stray
  BY DEF filling
<1>1. NewTypeOK'
  BY <1>a DEF NewInv, NewTypeOK
<1>2. SeenFits' /\ FilledAlways' /\ PlacesFit'
  BY <1>a DEF NewInv, SeenFits, FilledAlways, PlacesFit
<1>3. NotWaiting'
  BY <1>a DEF NewInv, NotWaiting
<1>4. QED
  BY <1>1, <1>2, <1>3 DEF NewInv

LEMMA NewCreateStep == ASSUME NewInv, NEW c \in Tries, Create(c) PROVE NewInv'
<1> DEFINE x == [sent |-> TRUE, applied |-> FALSE, mine |-> TRUE, current |-> TRUE]
<1>a. /\ view = "form" /\ ~Busy
      /\ tries' = [tries EXCEPT ![c] = x]
      /\ UNCHANGED view /\ UNCHANGED entry /\ UNCHANGED restored /\ UNCHANGED filling
      /\ UNCHANGED draft /\ UNCHANGED created /\ UNCHANGED twice /\ UNCHANGED overtaken
      /\ UNCHANGED entries /\ UNCHANGED typed
  BY DEF Create
<1>b. /\ tries \in [Tries -> Try] /\ created \in 0..2
      /\ {restored, draft, twice, typed, overtaken} \subseteq BOOLEAN
      /\ \A d \in Tries : ~tries[d].mine
  BY <1>a, NewTypes DEF NewInv, Busy
<1>c. x \in Try /\ x.current /\ x.mine /\ ~x.applied
  BY DEF Try
<1> HIDE DEF x
<1>d. tries' \in [Tries -> Try] /\ tries'[c] = x /\ \A d \in Tries \ {c} : tries'[d] = tries[d]
  BY <1>a, <1>b, <1>c
<1>1. CreatedInv'
  <2> SUFFICES ASSUME ~twice PROVE OneTry' /\ FormKnows'
    BY <1>a DEF CreatedInv
  <2>1. OneTry /\ FormKnows
    BY <1>a DEF NewInv, CreatedInv
  <2>2. created = 0 /\ \A d \in Tries : ~tries[d].current
    BY <1>b, <2>1 DEF FormKnows
  <2>3. OneTry'
    BY <1>a, <1>c, <1>d, <2>2 DEF OneTry
  <2>4. FormKnows'
    BY <1>a, <1>c, <1>d, <2>2 DEF FormKnows
  <2>5. QED
    BY <2>3, <2>4
<1>2. WorkIsKept'
  BY <1>a DEF NewInv, WorkIsKept
<1>3. QED
  BY <1>a, <1>b, <1>d, <1>1, <1>2, CreationKeeps

LEMMA NewAppliedStep == ASSUME NewInv, NEW c \in Tries, Applied(c) PROVE NewInv'
<1> DEFINE x == [tries[c] EXCEPT !.applied = TRUE]
<1>a. /\ ~tries[c].applied /\ (tries[c].current => created < 2)
      /\ tries' = [tries EXCEPT ![c].applied = TRUE]
      /\ created' = IF tries[c].current THEN created + 1 ELSE created
      /\ UNCHANGED view /\ UNCHANGED entry /\ UNCHANGED restored /\ UNCHANGED filling
      /\ UNCHANGED draft /\ UNCHANGED twice /\ UNCHANGED overtaken
      /\ UNCHANGED entries /\ UNCHANGED typed
  BY DEF Applied
<1>b. /\ tries \in [Tries -> Try] /\ created \in 0..2 /\ tries[c] \in Try
      /\ {restored, draft, twice, typed, overtaken} \subseteq BOOLEAN
      /\ view \in {"away", "asking", "form", "leaving"}
  BY NewTypes DEF NewInv
<1>c. /\ x \in Try /\ (x.current <=> tries[c].current) /\ (x.mine <=> tries[c].mine)
      /\ x.applied
  BY <1>b DEF Try
<1>e. tries' = [tries EXCEPT ![c] = x]
  BY <1>a, <1>b
<1> HIDE DEF x
<1>d. tries' \in [Tries -> Try] /\ tries'[c] = x /\ \A d \in Tries \ {c} : tries'[d] = tries[d]
  BY <1>b, <1>c, <1>e
<1>f. created' \in 0..2
  BY <1>a, <1>b
<1>1. CreatedInv'
  <2> SUFFICES ASSUME ~twice
               PROVE  /\ OneTry'
                      /\ view = "form" => FormKnows'
                      /\ view \in {"away", "asking"} /\ draft => Untried'
                      /\ view = "leaving" => ~draft
    BY <1>a DEF CreatedInv
  <2>1. /\ OneTry
        /\ view = "form" => FormKnows
        /\ view \in {"away", "asking"} /\ draft => Untried
        /\ view = "leaving" => ~draft
    BY DEF NewInv, CreatedInv
  <2>2. CASE tries[c].current
    <3>1. created = 0 /\ created' = 1
      BY <1>a, <2>1, <2>2 DEF OneTry
    <3>2. OneTry'
      BY <1>c, <1>d, <2>1, <2>2, <3>1 DEF OneTry
    <3>3. view = "form" => FormKnows'
      <4>1. ASSUME view = "form" PROVE FormKnows'
        <5>1. \A d \in Tries : tries'[d].current => tries'[d].mine
          BY <1>c, <1>d, <2>1, <4>1 DEF FormKnows
        <5>2. tries'[c].current /\ tries'[c].mine /\ tries'[c].applied
          BY <1>c, <1>d, <2>2, <5>1
        <5>3. QED
          BY <5>1, <5>2 DEF FormKnows
      <4>2. QED
        BY <4>1
    <3>4. ~(view \in {"away", "asking"} /\ draft)
      BY <2>1, <2>2 DEF Untried
    <3>5. QED
      BY <2>1, <3>2, <3>3, <3>4
  <2>3. CASE ~tries[c].current
    <3>1. created' = created
      BY <1>a, <2>3
    <3>2. \A d \in Tries : /\ tries'[d].current <=> tries[d].current
                           /\ tries'[d].mine <=> tries[d].mine
                           /\ tries[d].current => tries'[d] = tries[d]
      BY <1>c, <1>d, <2>3
    <3>3. OneTry'
      BY <2>1, <3>1, <3>2 DEF OneTry
    <3>4. view = "form" => FormKnows'
      <4>1. ASSUME view = "form" PROVE FormKnows'
        <5>1. \A d \in Tries : tries'[d].current => tries'[d].mine
          BY <2>1, <3>2, <4>1 DEF FormKnows
        <5>2. created # 0 =>
                \E d \in Tries : tries'[d].current /\ tries'[d].mine /\ tries'[d].applied
          BY <2>1, <3>2, <4>1 DEF FormKnows
        <5>3. QED
          BY <3>1, <5>1, <5>2 DEF FormKnows
      <4>2. QED
        BY <4>1
    <3>5. view \in {"away", "asking"} /\ draft => Untried'
      BY <2>1, <3>1, <3>2 DEF Untried
    <3>6. QED
      BY <2>1, <3>3, <3>4, <3>5
  <2>4. QED
    BY <2>2, <2>3
<1>2. WorkIsKept'
  BY <1>a DEF NewInv, WorkIsKept
<1>3. view = "asking" => draft'
  BY <1>a DEF NewInv, NotWaiting
<1>4. QED
  BY <1>a, <1>b, <1>d, <1>f, <1>1, <1>2, <1>3, CreationKeeps

LEMMA NewSucceedsStep == ASSUME NewInv, NEW c \in Tries, Succeeds(c) PROVE NewInv'
<1> DEFINE x == [tries[c] EXCEPT !.sent = FALSE, !.applied = FALSE, !.current = FALSE]
<1>a. /\ tries' = [tries EXCEPT ![c].sent = FALSE, ![c].applied = FALSE,
                                ![c].current = FALSE]
      /\ draft' = FALSE
      /\ view' = (IF view \in {"form", "asking"} THEN "leaving" ELSE view)
      /\ typed' = (typed /\ ~tries[c].current)
      /\ overtaken' = (overtaken \/ ~tries[c].current)
      /\ UNCHANGED entry /\ UNCHANGED restored /\ UNCHANGED filling
      /\ UNCHANGED created /\ UNCHANGED twice /\ UNCHANGED entries
  BY DEF Succeeds, Cleared
<1>b. /\ tries \in [Tries -> Try] /\ created \in 0..2 /\ tries[c] \in Try
      /\ {restored, draft, twice, typed, overtaken} \subseteq BOOLEAN
      /\ tries[c].current \in BOOLEAN
      /\ view \in {"away", "asking", "form", "leaving"}
  BY NewTypes DEF NewInv, Try
<1>c. x \in Try /\ ~x.current
  BY <1>b DEF Try
<1>e. tries' = [tries EXCEPT ![c] = x]
  BY <1>a, <1>b
<1> HIDE DEF x
<1>d. tries' \in [Tries -> Try] /\ tries'[c] = x /\ \A d \in Tries \ {c} : tries'[d] = tries[d]
  BY <1>b, <1>c, <1>e
<1>1. CreatedInv'
  <2> SUFFICES ASSUME ~twice PROVE OneTry'
    BY <1>a DEF CreatedInv
  <2>1. OneTry
    BY DEF NewInv, CreatedInv
  <2>2. QED
    BY <1>a, <1>c, <1>d, <2>1 DEF OneTry
<1>2. WorkIsKept'
  BY <1>a, <1>b DEF WorkIsKept
<1>3. /\ view' \in {"away", "asking", "form", "leaving"}
      /\ view' \in {"away", "asking"} => view' = view
      /\ view' # "asking"
      /\ {draft', twice', typed', overtaken'} \subseteq BOOLEAN
  BY <1>a, <1>b
<1>4. QED
  BY <1>a, <1>b, <1>d, <1>1, <1>2, <1>3, CreationKeeps

LEMMA NewFailsStep == ASSUME NewInv, NEW c \in Tries, Fails(c) PROVE NewInv'
<1>b. /\ tries \in [Tries -> Try] /\ created \in 0..2 /\ tries[c] \in Try
      /\ {restored, draft, twice, typed, overtaken} \subseteq BOOLEAN
      /\ tries[c].applied \in BOOLEAN
      /\ view \in {"away", "asking", "form", "leaving"}
  BY NewTypes DEF NewInv, Try
<1>a. /\ tries' = [tries EXCEPT ![c] = Idle] /\ draft' = draft
      /\ twice' = (twice \/ tries[c].applied)
      /\ UNCHANGED view /\ UNCHANGED entry /\ UNCHANGED restored /\ UNCHANGED filling
      /\ UNCHANGED created /\ UNCHANGED overtaken /\ UNCHANGED entries /\ UNCHANGED typed
  BY <1>b DEF Fails, Cleared
<1>c. Idle \in Try /\ ~Idle.current /\ ~Idle.applied
  BY DEF Try, Idle
<1>d. /\ tries' \in [Tries -> Try] /\ tries'[c] = Idle
      /\ \A d \in Tries \ {c} : tries'[d] = tries[d]
  BY <1>a, <1>b, <1>c
<1>1. CreatedInv'
  <2> SUFFICES ASSUME ~twice, ~tries[c].applied
               PROVE  /\ OneTry'
                      /\ view = "form" => FormKnows'
                      /\ view \in {"away", "asking"} /\ draft => Untried'
                      /\ view = "leaving" => ~draft
    BY <1>a, <1>b DEF CreatedInv
  <2>1. /\ OneTry
        /\ view = "form" => FormKnows
        /\ view \in {"away", "asking"} /\ draft => Untried
        /\ view = "leaving" => ~draft
    BY DEF NewInv, CreatedInv
  <2>2. OneTry'
    BY <1>a, <1>c, <1>d, <2>1 DEF OneTry
  <2>3. view = "form" => FormKnows'
    <3>1. ASSUME view = "form" PROVE FormKnows'
      <4>1. \A d \in Tries : tries'[d].current => tries'[d].mine
        BY <1>c, <1>d, <2>1, <3>1 DEF FormKnows
      <4>2. created # 0 =>
              \E d \in Tries : tries'[d].current /\ tries'[d].mine /\ tries'[d].applied
        BY <1>d, <2>1, <3>1 DEF FormKnows
      <4>3. QED
        BY <1>a, <4>1, <4>2 DEF FormKnows
    <3>2. QED
      BY <3>1
  <2>4. view \in {"away", "asking"} /\ draft => Untried'
    BY <1>a, <1>c, <1>d, <2>1 DEF Untried
  <2>5. QED
    BY <2>1, <2>2, <2>3, <2>4
<1>2. WorkIsKept'
  BY <1>a DEF NewInv, WorkIsKept
<1>3. /\ view = "asking" => draft'
      /\ {draft', twice', typed', overtaken'} \subseteq BOOLEAN
  BY <1>a, <1>b DEF NewInv, NotWaiting
<1>4. QED
  BY <1>a, <1>b, <1>d, <1>1, <1>2, <1>3, CreationKeeps

LEMMA NewInductive == NewInv /\ [NewNext]_newVars => NewInv'
<1>1. CASE UNCHANGED newVars
  <2>1. /\ UNCHANGED view /\ UNCHANGED entry /\ UNCHANGED restored /\ UNCHANGED seen
        /\ UNCHANGED loaded /\ UNCHANGED fetching /\ UNCHANGED piering /\ UNCHANGED stray
        /\ UNCHANGED porting
        /\ UNCHANGED draft /\ UNCHANGED tries /\ UNCHANGED created /\ UNCHANGED twice
        /\ UNCHANGED overtaken /\ UNCHANGED entries /\ UNCHANGED typed
    BY <1>1 DEF newVars, filling, creation
  <2>2. NewInv => NewTypeOK'
    BY <2>1 DEF NewInv, NewTypeOK
  <2>3. NewInv => SeenFits' /\ FilledAlways' /\ PlacesFit' /\ WorkIsKept'
    BY <2>1 DEF NewInv, SeenFits, FilledAlways, PlacesFit, WorkIsKept
  <2>4. NewInv => NotWaiting' /\ CreatedInv'
    BY <2>1 DEF NewInv, NotWaiting, CreatedInv, OneTry, FormKnows, Untried
  <2>5. QED
    BY <2>2, <2>3, <2>4 DEF NewInv
<1>2. QED
  BY <1>1, NewOpenSteps, NewContinueStep, NewLeaveStep, NewShipLoads, NewStaffLoads,
     NewSelections, NewTyping, NewClear, NewRequests, NewArrivals, NewPortArrives, NewCreateStep,
     NewAppliedStep, NewSucceedsStep, NewFailsStep DEF NewNext
-----------------------------------------------------------------------------
\* The dialog of a new ship.

\* A lookup that still counts is for the number in the dialog.
LookupsKnown ==
  \A l \in Lookups : lookups[l].at \in {"directory", "registry"} =>
    /\ lookups[l].imo \in Imos
    /\ lookups[l].current => lookups[l].imo = dialog.imo

\* A dialog that is closed has no number.
ClosedIsBlank == ~dialog.open => dialog.imo = "none"

\* The parts that were looked up are those of the number, but for those it was
\* changed under.
FitsBut(filled, imo, moved) ==
  \A f \in Parts : filled[f] \in Imos => filled[f] = imo \/ f \in moved

\* What is to be recorded is what the dialog had.
CreationKnown == FitsBut(creating.filled, creating.imo, creating.moved)

ShipInv == ShipTypeOK /\ ParticularsFit /\ LookupsKnown /\ ClosedIsBlank /\ CreationKnown

LEMMA ShipNames ==
  /\ "none" \notin Imos /\ "hand" \notin Imos /\ MaxChanges \in Nat
  /\ Nothing \in Filling /\ \A f \in Parts : Nothing[f] = "none"
  /\ Closed \in Dialog /\ ~Closed.open /\ Closed.imo = "none" /\ Closed.filled = Nothing
  /\ Closed.flag = "none" /\ ~Closed.chosen
  /\ Unsent \in Creation /\ Unsent.filled = Nothing /\ Unsent.imo = "none"
  /\ ~Unsent.applied
<1>1. Nothing \in Filling /\ \A f \in Parts : Nothing[f] = "none"
  BY DEF Nothing, Filling
<1>2. Closed \in Dialog /\ Unsent \in Creation
  BY <1>1 DEF Closed, Dialog, Imo, Unsent, Creation
<1>3. QED
  BY <1>1, <1>2, ImosAssumption DEF Closed, Unsent

LEMMA ShipStarts == ShipInit => ShipInv
<1> SUFFICES ASSUME ShipInit PROVE ShipInv
  OBVIOUS
<1> USE ShipNames
<1>1. /\ ships = [i \in Imos |-> Nothing] /\ dialog = Closed /\ creating = Unsent
      /\ lookups = [l \in Lookups |-> [at |-> "idle", imo |-> "none", current |-> FALSE]]
      /\ picked = "none" /\ changes = 0
      /\ crossed = [i \in Imos |-> {}]
  BY DEF ShipInit
<1>2. ShipTypeOK
  BY <1>1 DEF ShipTypeOK, Lookup, Imo
<1>3. LookupsKnown /\ ClosedIsBlank /\ CreationKnown /\ ParticularsFit
  BY <1>1 DEF LookupsKnown, ClosedIsBlank, CreationKnown, FitsBut, ParticularsFit
<1>4. QED
  BY <1>2, <1>3 DEF ShipInv

\* Lookups that do not count any more.
LEMMA SupersededIs ==
  ASSUME ShipInv
  PROVE  /\ Superseded \in [Lookups -> Lookup]
         /\ \A l \in Lookups :
              /\ Superseded[l].at = lookups[l].at /\ Superseded[l].imo = lookups[l].imo
              /\ ~Superseded[l].current
<1>1. lookups \in [Lookups -> Lookup]
  BY DEF ShipInv, ShipTypeOK
<1>2. QED
  BY <1>1 DEF Superseded, Lookup

\* The user changes the dialog.
LEMMA DialogSteps ==
  ASSUME ShipInv, dialog' \in Dialog, UNCHANGED ships, UNCHANGED crossed, UNCHANGED creating,
         changes' \in 0..MaxChanges, picked' \in Imo,
         FitsBut(dialog'.filled, dialog'.imo, dialog'.moved),
         (lookups' = lookups /\ dialog'.imo = dialog.imo) \/ lookups' = Superseded,
         ~dialog'.open => dialog'.imo = "none"
  PROVE  ShipInv'
<1> USE SupersededIs
<1>1. ShipTypeOK'
  BY DEF ShipInv, ShipTypeOK
<1>2. ParticularsFit' /\ CreationKnown'
  BY DEF ShipInv, ParticularsFit, CreationKnown, FitsBut
<1>0. ClosedIsBlank'
  BY DEF ClosedIsBlank
<1>3. LookupsKnown'
  <2>1. CASE lookups' = lookups /\ dialog'.imo = dialog.imo
    BY <2>1 DEF ShipInv, LookupsKnown
  <2>2. CASE lookups' = Superseded
    BY <2>2 DEF ShipInv, LookupsKnown
  <2>3. QED
    BY <2>1, <2>2
<1>4. QED
  BY <1>0, <1>1, <1>2, <1>3 DEF ShipInv

LEMMA DialogTyped ==
  ASSUME ShipInv, OpenDialog \/ CloseDialog \/ TypeImo \/ TypePart \/ ChooseFlag
  PROVE  ShipInv'
<1> USE ShipNames
<1>a. /\ dialog \in Dialog /\ changes \in 0..MaxChanges /\ picked \in Imo
      /\ FitsBut(dialog.filled, dialog.imo, dialog.moved)
      /\ ~dialog.open => dialog.imo = "none"
  BY DEF ShipInv, ShipTypeOK, ParticularsFit, FitsBut, ClosedIsBlank
<1>b. /\ UNCHANGED ships /\ UNCHANGED crossed /\ UNCHANGED creating /\ UNCHANGED picked
      /\ changes' = changes \/ (changes < MaxChanges /\ changes' = changes + 1)
  BY DEF OpenDialog, CloseDialog, TypeImo, TypePart, ChooseFlag, Changing
<1>c. changes' \in 0..MaxChanges /\ picked' \in Imo
  BY <1>a, <1>b
<1>e. dialog.filled \in Filling /\ dialog.moved \in SUBSET Parts
  BY <1>a DEF Dialog
<1>d. /\ dialog' \in Dialog
      /\ FitsBut(dialog'.filled, dialog'.imo, dialog'.moved)
      /\ (lookups' = lookups /\ dialog'.imo = dialog.imo) \/ lookups' = Superseded
      /\ ~dialog'.open => dialog'.imo = "none"
  <2>1. CASE OpenDialog
    <3>1. dialog' = [Closed EXCEPT !.open = TRUE] /\ UNCHANGED lookups /\ ~dialog.open
      BY <2>1 DEF OpenDialog
    <3>2. dialog' \in Dialog /\ dialog'.filled = Nothing /\ dialog'.imo = "none"
      BY <3>1 DEF Dialog
    <3>3. QED
      BY <1>a, <3>1, <3>2 DEF FitsBut
  <2>2. CASE CloseDialog
    BY <2>2 DEF CloseDialog, FitsBut
  <2>3. CASE TypeImo
    <3> DEFINE looked == {f \in Parts : dialog.filled[f] \in Imos}
    <3>1. PICK i \in Imo : dialog' = [dialog EXCEPT !.imo = i, !.status = "idle",
                                                    !.moved = looked]
      BY <2>3 DEF TypeImo
    <3>2. lookups' = Superseded /\ dialog.open
      BY <2>3 DEF TypeImo, Changing
    <3>5. looked \in SUBSET Parts /\ \A f \in Parts : dialog.filled[f] \in Imos => f \in looked
      OBVIOUS
    <3> HIDE DEF looked
    <3>3. /\ dialog' \in Dialog /\ dialog'.filled = dialog.filled /\ dialog'.moved = looked
          /\ dialog'.open <=> dialog.open
      BY <1>a, <3>1, <3>5 DEF Dialog
    <3>4. QED
      BY <3>2, <3>3, <3>5 DEF FitsBut
  <2>4. CASE TypePart
    <3>1. PICK f \in Parts :
            dialog' = [dialog EXCEPT !.filled[f] = "hand", !.moved = @ \ {f}]
      BY <2>4 DEF TypePart
    <3> DEFINE filled == [dialog.filled EXCEPT ![f] = "hand"]
    <3>2. /\ filled \in Filling
          /\ \A g \in Parts : filled[g] = IF g = f THEN "hand" ELSE dialog.filled[g]
      BY <1>e DEF Filling
    <3>3. dialog' = [dialog EXCEPT !.filled = filled, !.moved = dialog.moved \ {f}]
      BY <1>a, <3>1 DEF Dialog
    <3> HIDE DEF filled
    <3>4. /\ dialog' \in Dialog /\ dialog'.filled = filled /\ dialog'.imo = dialog.imo
          /\ dialog'.moved = dialog.moved \ {f} /\ (dialog'.open <=> dialog.open)
      BY <1>a, <1>e, <3>2, <3>3 DEF Dialog
    <3>5. FitsBut(filled, dialog.imo, dialog.moved \ {f})
      BY <1>a, <3>2 DEF FitsBut
    <3>6. QED
      BY <1>a, <2>4, <3>4, <3>5 DEF TypePart
  <2>5. CASE ChooseFlag
    <3>1. PICK f \in FlagNames : dialog' = [dialog EXCEPT !.flag = f, !.chosen = TRUE]
      BY <2>5 DEF ChooseFlag
    <3>2. /\ dialog' \in Dialog /\ dialog'.filled = dialog.filled /\ dialog'.imo = dialog.imo
          /\ dialog'.moved = dialog.moved /\ (dialog'.open <=> dialog.open)
      BY <1>a, <3>1 DEF Dialog
    <3>3. QED
      BY <1>a, <2>5, <3>2 DEF ChooseFlag
  <2>6. QED
    BY <2>1, <2>2, <2>3, <2>4, <2>5
<1>f. QED
  BY <1>b, <1>c, <1>d, DialogSteps

\* A lookup goes on.
LEMMA LookupMoves ==
  ASSUME ShipInv, NEW l \in Lookups, dialog' \in Dialog, dialog'.imo = dialog.imo,
         dialog'.open <=> dialog.open,
         FitsBut(dialog'.filled, dialog'.imo, dialog'.moved),
         lookups' \in [Lookups -> Lookup],
         \A k \in Lookups :
           lookups'[k].at \in {"directory", "registry"} =>
             \/ /\ lookups[k].at \in {"directory", "registry"}
                /\ lookups'[k].imo = lookups[k].imo
                /\ lookups'[k].current => lookups[k].current
             \/ lookups'[k].imo = dialog.imo /\ dialog.imo \in Imos,
         UNCHANGED ships, UNCHANGED creating, UNCHANGED picked, UNCHANGED changes,
         UNCHANGED crossed
  PROVE  ShipInv'
<1>1. ShipTypeOK'
  BY DEF ShipInv, ShipTypeOK
<1>2. ParticularsFit' /\ CreationKnown' /\ ClosedIsBlank'
  BY DEF ShipInv, ParticularsFit, CreationKnown, ClosedIsBlank, FitsBut
<1>3. LookupsKnown'
  BY DEF ShipInv, LookupsKnown
<1>4. QED
  BY <1>1, <1>2, <1>3 DEF ShipInv

LEMMA LookupSteps ==
  ASSUME ShipInv, NEW l \in Lookups, LookUp(l) \/ Directory(l) \/ LookupFails(l) \/ Lands(l)
  PROVE  /\ ShipInv'
         /\ dialog.chosen => dialog'.flag = dialog.flag
<1> USE ShipNames
<1>a. /\ dialog \in Dialog /\ lookups \in [Lookups -> Lookup] /\ lookups[l] \in Lookup
      /\ FitsBut(dialog.filled, dialog.imo, dialog.moved)
  BY DEF ShipInv, ShipTypeOK, ParticularsFit, FitsBut
<1>b. /\ UNCHANGED ships /\ UNCHANGED creating /\ UNCHANGED picked /\ UNCHANGED changes
      /\ UNCHANGED crossed
  BY DEF LookUp, Directory, LookupFails, Lands
<1> DEFINE Stays(d) ==
             /\ d \in Dialog /\ d.imo = dialog.imo /\ (d.open <=> dialog.open)
             /\ FitsBut(d.filled, d.imo, d.moved)
             /\ dialog.chosen => d.flag = dialog.flag
           Goes(f) ==
             /\ f \in [Lookups -> Lookup]
             /\ \A k \in Lookups : f[k].at \in {"directory", "registry"} =>
                  \/ /\ lookups[k].at \in {"directory", "registry"}
                     /\ f[k].imo = lookups[k].imo
                     /\ f[k].current => lookups[k].current
                  \/ f[k].imo = dialog.imo /\ dialog.imo \in Imos
<1>1. \A status \in {"loading", "exists", "not_found", "error"} :
        Stays([dialog EXCEPT !.status = status]) /\ Stays(dialog)
  BY <1>a DEF Dialog
<1>2. \A at \in {"registry", "done"} :
        at = "done" \/ lookups[l].at = "directory" => Goes([lookups EXCEPT ![l].at = at])
  <2> SUFFICES ASSUME NEW at \in {"registry", "done"}, at = "done" \/ lookups[l].at = "directory"
               PROVE  Goes([lookups EXCEPT ![l].at = at])
    OBVIOUS
  <2> DEFINE x == [lookups[l] EXCEPT !.at = at]
             f == [lookups EXCEPT ![l] = x]
  <2>1. /\ x \in Lookup /\ x.at = at /\ x.imo = lookups[l].imo
        /\ x.current <=> lookups[l].current
    BY <1>a DEF Lookup
  <2> HIDE DEF x
  <2>2. f \in [Lookups -> Lookup] /\ f[l] = x /\ \A k \in Lookups \ {l} : f[k] = lookups[k]
    BY <1>a, <2>1
  <2> HIDE DEF f
  <2>3. Goes(f)
    BY <2>1, <2>2
  <2>4. [lookups EXCEPT ![l].at = at] = f
    BY <1>a DEF f, x
  <2>5. QED
    BY <2>3, <2>4
<1>3. \A status : Tell(l, status) /\ status \in {"exists", "not_found", "error"} =>
        Goes(lookups') /\ Stays(dialog')
  BY <1>1, <1>2 DEF Tell
<1>4. Goes(lookups') /\ Stays(dialog')
  <2>1. CASE LookUp(l)
    <3>1. Stays(dialog')
      BY <1>1, <2>1 DEF LookUp
    <3>2. dialog.imo \in Imos
          /\ lookups' = [Superseded EXCEPT ![l] = [at |-> "directory", imo |-> dialog.imo,
                                                   current |-> TRUE]]
      BY <2>1 DEF LookUp
    <3>3. [at |-> "directory", imo |-> dialog.imo, current |-> TRUE] \in Lookup
      BY <3>2 DEF Lookup, Imo
    <3> DEFINE y == [at |-> "directory", imo |-> dialog.imo, current |-> TRUE]
    <3>4. y \in Lookup /\ y.imo = dialog.imo
      BY <3>3
    <3> HIDE DEF y
    <3>5. /\ lookups' \in [Lookups -> Lookup] /\ lookups'[l] = y
          /\ \A k \in Lookups \ {l} : lookups'[k] = Superseded[k]
      BY <3>2, <3>4, SupersededIs DEF y
    <3>6. Goes(lookups')
      BY <3>2, <3>4, <3>5, SupersededIs
    <3>7. QED
      BY <3>1, <3>6
  <2>2. CASE Directory(l)
    BY <1>1, <1>2, <1>3, <2>2 DEF Directory
  <2>3. CASE LookupFails(l)
    BY <1>3, <2>3 DEF LookupFails
  <2>4. CASE Lands(l)
    <3>1. Goes(lookups')
      BY <1>2, <2>4 DEF Lands
    <3>2. PICK parts \in SUBSET Parts, flag \in FlagNames \cup {"none"} :
            dialog' = IF lookups[l].current
                      THEN [dialog EXCEPT !.filled = Given(parts, lookups[l].imo),
                                          !.moved = @ \ parts,
                                          !.flag = FlagFor(flag), !.status = "prefilled"]
                      ELSE dialog
      BY <2>4 DEF Lands
    <3>3. /\ FlagFor(flag) \in FlagNames \cup {"none"}
          /\ dialog.chosen => FlagFor(flag) = dialog.flag
      BY <1>a DEF FlagFor, Dialog
    <3>4. lookups[l].imo \in Imos /\ (lookups[l].current => lookups[l].imo = dialog.imo)
      BY <2>4 DEF Lands, ShipInv, LookupsKnown
    <3>5. CASE lookups[l].current
      <4> DEFINE given == Given(parts, lookups[l].imo)
                 left == dialog.moved \ parts
      <4>0. dialog.filled \in Filling /\ dialog.moved \in SUBSET Parts
        BY <1>a DEF Dialog
      <4>1. dialog' = [dialog EXCEPT !.filled = given, !.moved = left,
                                     !.flag = FlagFor(flag), !.status = "prefilled"]
        BY <1>a, <3>2, <3>5 DEF Dialog
      <4>2. /\ given \in Filling /\ left \in SUBSET Parts
            /\ \A f \in Parts : given[f] = IF f \in parts THEN dialog.imo ELSE dialog.filled[f]
        BY <3>4, <3>5, <4>0 DEF Given, Filling
      <4>3. FitsBut(given, dialog.imo, left)
        BY <1>a, <3>2, <4>2 DEF FitsBut
      <4> HIDE DEF given, left
      <4>4. /\ dialog' \in Dialog /\ dialog'.imo = dialog.imo /\ (dialog'.open <=> dialog.open)
            /\ dialog'.filled = given /\ dialog'.moved = left /\ dialog'.flag = FlagFor(flag)
        BY <1>a, <3>3, <4>1, <4>2 DEF Dialog
      <4>5. QED
        BY <3>1, <3>3, <4>3, <4>4
    <3>6. CASE ~lookups[l].current
      BY <1>1, <3>1, <3>2, <3>6
    <3>7. QED
      BY <3>5, <3>6
  <2>5. QED
    BY <2>1, <2>2, <2>3, <2>4
<1>5. QED
  BY <1>b, <1>4, LookupMoves

\* The records and the creation of one.
LEMMA CreationSteps ==
  ASSUME ShipInv, SelectExisting \/ SubmitShip \/ ShipCreated \/ CreationFails
  PROVE  ShipInv'
<1> USE ShipNames
<1>a. /\ dialog \in Dialog /\ creating \in Creation
      /\ FitsBut(dialog.filled, dialog.imo, dialog.moved)
  BY DEF ShipInv, ShipTypeOK, ParticularsFit, FitsBut
<1>c. /\ dialog.imo \in Imo /\ dialog.filled \in Filling /\ dialog.moved \in SUBSET Parts
      /\ creating.imo \in Imo
  BY <1>a DEF Dialog, Creation
<1>b. UNCHANGED ships /\ UNCHANGED crossed /\ UNCHANGED changes
  BY DEF SelectExisting, SubmitShip, ShipCreated, CreationFails
<1>1. /\ creating' \in Creation
      /\ FitsBut(creating'.filled, creating'.imo, creating'.moved)
  <2>1. CASE SubmitShip
    <3>1. creating' = [imo |-> dialog.imo, filled |-> dialog.filled, moved |-> dialog.moved,
                       applied |-> FALSE]
      BY <2>1 DEF SubmitShip
    <3>2. QED
      BY <1>a, <1>c, <3>1 DEF Creation
  <2>2. CASE creating' \in {creating, Unsent}
    BY <1>a, <2>2 DEF ShipInv, CreationKnown, FitsBut
  <2>3. QED
    BY <2>1, <2>2 DEF SelectExisting, ShipCreated, CreationFails
<1>2. \/ UNCHANGED dialog /\ UNCHANGED lookups /\ UNCHANGED picked
      \/ dialog' = Closed /\ lookups' = Superseded /\ picked' \in {dialog.imo, creating.imo}
  BY DEF SelectExisting, SubmitShip, ShipCreated, CreationFails, Gives
<1>3. ShipTypeOK'
  <2>1. dialog' \in Dialog /\ lookups' \in [Lookups -> Lookup] /\ picked' \in Imo
    BY <1>c, <1>2, SupersededIs DEF ShipInv, ShipTypeOK
  <2>2. QED
    BY <1>b, <1>1, <2>1 DEF ShipInv, ShipTypeOK
<1>4. ParticularsFit' /\ ClosedIsBlank'
  BY <1>b, <1>2 DEF ShipInv, ParticularsFit, ClosedIsBlank
<1>5. LookupsKnown'
  <2>1. CASE UNCHANGED dialog /\ UNCHANGED lookups
    BY <2>1 DEF ShipInv, LookupsKnown
  <2>2. CASE lookups' = Superseded
    BY <2>2, SupersededIs DEF ShipInv, LookupsKnown
  <2>3. QED
    BY <1>2, <2>1, <2>2
<1>6. CreationKnown'
  BY <1>1 DEF CreationKnown
<1>7. QED
  BY <1>3, <1>4, <1>5, <1>6 DEF ShipInv

LEMMA RecordSteps ==
  ASSUME ShipInv, InsertShip \/ ColleagueShips PROVE ShipInv'
<1> USE ShipNames
<1>a. /\ ships \in [Imos -> Filling] /\ creating \in Creation
      /\ crossed \in [Imos -> SUBSET Parts]
      /\ \A i \in Imos : FitsBut(ships[i], i, crossed[i])
      /\ FitsBut(creating.filled, creating.imo, creating.moved)
  BY DEF ShipInv, ShipTypeOK, ParticularsFit, CreationKnown, FitsBut
<1>c. creating.filled \in Filling /\ creating.moved \in SUBSET Parts
  BY <1>a DEF Creation
<1>b. UNCHANGED dialog /\ UNCHANGED lookups /\ UNCHANGED picked /\ UNCHANGED changes
  BY DEF InsertShip, ColleagueShips
<1>1. /\ ships' \in [Imos -> Filling] /\ crossed' \in [Imos -> SUBSET Parts]
      /\ \A i \in Imos : FitsBut(ships'[i], i, crossed'[i])
  <2>1. CASE InsertShip /\ creating.imo \in Imos
    <3>1. /\ ships' = [ships EXCEPT ![creating.imo] = creating.filled]
          /\ crossed' = [crossed EXCEPT ![creating.imo] = creating.moved]
      BY <2>1 DEF InsertShip
    <3>2. QED
      BY <1>a, <1>c, <2>1, <3>1
  <2>2. CASE InsertShip /\ creating.imo \notin Imos
    BY <1>a, <2>2 DEF InsertShip
  <2>3. CASE ColleagueShips
    <3>1. PICK i \in Imos :
            /\ ships' \in {[ships EXCEPT ![i] = [f \in Parts |-> i]],
                           [ships EXCEPT ![i] = Nothing]}
            /\ crossed' = [crossed EXCEPT ![i] = {}]
      BY <2>3 DEF ColleagueShips
    <3>2. [f \in Parts |-> i] \in Filling /\ FitsBut([f \in Parts |-> i], i, {})
      BY DEF Filling, FitsBut
    <3>3. FitsBut(Nothing, i, {})
      BY DEF FitsBut
    <3>4. PICK filled \in Filling :
            FitsBut(filled, i, {}) /\ ships' = [ships EXCEPT ![i] = filled]
      BY <3>1, <3>2, <3>3
    <3>5. QED
      BY <1>a, <3>1, <3>4
  <2>4. QED
    BY <2>1, <2>2, <2>3
<1>2. /\ creating' \in Creation
      /\ FitsBut(creating'.filled, creating'.imo, creating'.moved)
  <2>1. CASE creating' = [creating EXCEPT !.applied = TRUE]
    BY <1>a, <2>1 DEF Creation
  <2>2. QED
    BY <1>a, <2>1 DEF InsertShip, ColleagueShips
<1>3. ShipTypeOK'
  BY <1>b, <1>1, <1>2 DEF ShipInv, ShipTypeOK
<1>4. ParticularsFit' /\ LookupsKnown' /\ ClosedIsBlank' /\ CreationKnown'
  BY <1>b, <1>1, <1>2
  DEF ShipInv, ParticularsFit, LookupsKnown, ClosedIsBlank, CreationKnown, FitsBut
<1>5. QED
  BY <1>3, <1>4 DEF ShipInv

LEMMA ShipInductive == ShipInv /\ [ShipNext]_shipVars => ShipInv'
<1>1. CASE UNCHANGED shipVars
  BY <1>1 DEF shipVars, ShipInv, ShipTypeOK, ParticularsFit, LookupsKnown, ClosedIsBlank,
     CreationKnown, FitsBut
<1>2. QED
  BY <1>1, DialogTyped, LookupSteps, CreationSteps, RecordSteps DEF ShipNext

\* What lookups answer leaves a flag that was chosen.
LEMMA FlagStays ==
  ASSUME ShipInv, [ShipNext]_shipVars, NEW l \in Lookups, lookups'[l].at # lookups[l].at,
         dialog.chosen
  PROVE  dialog'.flag = dialog.flag
<1>1. \/ UNCHANGED lookups
      \/ lookups' = Superseded
      \/ \E k \in Lookups : LookUp(k) \/ Directory(k) \/ LookupFails(k) \/ Lands(k)
  BY DEF ShipNext, shipVars, OpenDialog, CloseDialog, TypeImo, TypePart, ChooseFlag,
     SelectExisting, Gives, SubmitShip, InsertShip, ShipCreated, CreationFails, ColleagueShips
<1>2. QED
  BY <1>1, LookupSteps, SupersededIs

-----------------------------------------------------------------------------
\* The desk.

DeskInv == route \in {"page", "new", "ship"} /\ PageInv /\ NewInv /\ ShipInv

\* Each route takes its own steps, and the others stand still meanwhile.
LEMMA DeskSteps ==
  ASSUME [DeskNext]_deskVars
  PROVE  /\ [PageNext]_pageVars /\ [NewNext]_newVars /\ [ShipNext]_shipVars
         /\ UNCHANGED route
<1>1. CASE UNCHANGED deskVars
  BY <1>1 DEF deskVars
<1>2. QED
  BY <1>1 DEF DeskNext

LEMMA DeskStarts == DeskInit => DeskInv
BY PageStarts, NewStarts, ShipStarts DEF DeskInit, DeskInv

LEMMA DeskInductive == DeskInv /\ [DeskNext]_deskVars => DeskInv'
BY DeskSteps, PageInductive, NewInductive, ShipInductive DEF DeskInv

\* In every behaviour of a desk the page, the form and the dialog keep their shape
\* and the invariants below rest on.
THEOREM DeskInvariance == DeskSpec => []DeskInv
<1>1. DeskInit => DeskInv
  BY DeskStarts
<1>2. DeskInv /\ [DeskNext]_deskVars => DeskInv'
  BY DeskInductive
<1>3. QED
  BY <1>1, <1>2, PTL DEF DeskSpec

\* What the user of the page of a nomination was told is saved stands, however its
\* editors' saves overlap, but for what an answer lost on the way leaves unknown,
\* parcels that an editor mounted before them has saved over, and saves that were
\* applied in one order and answered in the other.
THEOREM OwnSavesKept == DeskSpec => []OwnSaveStands
<1>1. DeskInv => OwnSaveStands
  BY DEF DeskInv, PageInv, KeptStands, Unanswered, OwnSaveStands
<1>2. QED
  BY <1>1, DeskInvariance, PTL

\* No letter is drafted from a nomination older than the user's last save of it, and
\* one without a spinner in between waits for its uploads and shows its files.
THEOREM LettersSound == DeskSpec => []LetterIsSound
<1>1. DeskInv => LetterIsSound
  BY DEF DeskInv, PageInv, LetterIsSound
<1>2. QED
  BY <1>1, DeskInvariance, PTL

\* What a form or a dialog fills in by itself belongs to what is selected in it, but
\* for a place that was created for another selection and arrived after the change,
\* and a part of a ship's particulars that no answer for the new number replaced.
THEOREM FormsFit == DeskSpec => []FormFits
<1>1. DeskInv => FormFits
  <2>1. NewInv => FilledFits
    BY DEF NewInv, FilledAlways, FilledFits
  <2>2. QED
    BY <2>1 DEF DeskInv, PageInv, NewInv, ShipInv, FormFits, DeskTypeOK
<1>2. QED
  BY <1>1, DeskInvariance, PTL

\* What the user entered and has not created is in the stored draft, unless a late
\* answer for an earlier draft cleared it.
THEOREM WorkKept == DeskSpec => []WorkIsKept
<1>1. DeskInv => WorkIsKept
  BY DEF DeskInv, NewInv
<1>2. QED
  BY <1>1, DeskInvariance, PTL

\* One draft becomes a second nomination only for one of the three reasons that the
\* history names, however many creations are tried.
THEOREM CreatedOnly == DeskSpec => []CreatedOnce
<1>1. DeskInv => CreatedOnce
  BY DEF DeskInv, NewInv, CreatedInv, OneTry, CreatedOnce
<1>2. QED
  BY <1>1, DeskInvariance, PTL

\* No arrival replaces what was typed into a letter, but the members of a group that
\* was asked for and, of a CC that was typed alone, a draft that had failed and comes
\* yet; nor a flag that was chosen.
THEOREM InputKept == DeskSpec => InputStands
<1> DEFINE Typed == drawer # Null /\ drawer' # Null =>
                      /\ drawer.to /\ ~drawer'.to => resolving # Null
                      /\ drawer.cc /\ ~drawer'.cc =>
                           resolving # Null \/ (~drawer.filled /\ ~drawer.ccDirty)
                      /\ drawer.body = "typed" /\ drawer'.body # "typed" => ~drawer.filled
           Flag == \A l \in Lookups :
                     lookups'[l].at # lookups[l].at /\ dialog.chosen
                       => dialog'.flag = dialog.flag
<1>1. DeskInv /\ [DeskNext]_deskVars => [Typed]_pageVars
  BY DeskSteps, TypedStays DEF DeskInv
<1>2. DeskInv /\ [DeskNext]_deskVars => [Flag]_shipVars
  BY DeskSteps, FlagStays DEF DeskInv
<1>3. DeskSpec => [][DeskNext]_deskVars
  BY DEF DeskSpec
<1>4. DeskSpec => [][Typed]_pageVars /\ [][Flag]_shipVars
  <2> HIDE DEF Typed, Flag
  <2>1. QED
    BY <1>1, <1>2, <1>3, DeskInvariance, PTL
<1>5. QED
  BY <1>4 DEF InputStands, TypedStands, ChosenFlagStands
=============================================================================
