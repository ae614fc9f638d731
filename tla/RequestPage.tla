----------------------------- MODULE RequestPage -----------------------------
(***************************************************************************)
(* The page of one service request whose type needs an authorisation       *)
(* letter, routes/_protected/service-requests/$id.tsx, in one tab: the     *)
(* stepper of a draft, the reconciliation and the receipt of an issued     *)
(* order, and the drawer that sends it. A draft's form and the             *)
(* reconciliation are filled when they are mounted and do not follow the   *)
(* request; the receipt is mounted anew for each updatedAt; the letter of  *)
(* the drawer is written anew whenever data arrives. Some answers also     *)
(* make the query stale, others are only put in its place.                 *)
(*                                                                         *)
(* The backend's calls are atomic here: their interleavings are            *)
(* ServiceRequest's. A row is named by its place in the log. MaxVersions   *)
(* bounds the rows, MaxAsks the user's calls under way at once, of which   *)
(* no two are alike; a colleague saves, cancels and sends. The cache       *)
(* outlives an absence from the page. A deleted request is not followed.   *)
(***************************************************************************)
EXTENDS Naturals, Sequences, FiniteSets

CONSTANTS MaxAsks, MaxVersions, Nothing

ASSUME PageAssumption ==
  MaxAsks \in Nat /\ MaxVersions \in Nat \ {0} /\ Nothing \notin Nat

VARIABLES
  log,      \* the rows the request has had
  shows,    \* the row in the query
  load,    \* its fetch: Asked, or the row that was read
  failed,   \* the query has failed: "Service request not found"
  place,
  sheet,    \* the form that is mounted: what it would save
  slip,     \* something is typed in ServiceOrderReceipt
  drawn,    \* SendOrderDrawer: the row its letter is written from
  asked,    \* the user's calls under way
  latest,   \* history: the row of the last answer the page should show
  late      \* history: an older answer has landed after that

query == <<shows, load, failed>>
forms == <<place, sheet, slip, drawn>>
answers == <<latest, late>>
requestVars == <<log, query, forms, asked, answers>>

Statuses == {"DRAFT", "SENT", "COMPLETED", "CANCELLED"}
Wordings == {"first", "mine", "theirs"}
Versions == 1..MaxVersions
Asked == 0

Request == [status : Statuses, terms : Wordings, cost : Wordings,
            approved : BOOLEAN, letter : BOOLEAN, receipt : BOOLEAN,
            stamp : Nat]
Kinds == {"update", "reconcile", "approve", "complete", "cancel", "file",
          "unfile", "receipt", "send"}

\* mine: the component that asked is still mounted. seen: the row the page showed
\* when an order was sent.
Ask == [kind : Kinds, text : Wordings \cup {Nothing}, mine : BOOLEAN,
        seen : Versions \cup {Nothing}, answer : Versions \cup {Nothing}]

\* The rows, the query, the forms and the calls have the source's shape.
RequestTypeOK ==
  /\ log \in Seq(Request) /\ Len(log) \in Versions
  /\ shows \in 1..Len(log) /\ load \in {Nothing, Asked} \cup 1..Len(log)
  /\ place \in {"page", "away"}
  /\ {failed, slip, late} \subseteq BOOLEAN
  /\ sheet \in Wordings \cup {Nothing}
  /\ drawn \in Versions \cup {Nothing}
  /\ asked \subseteq Ask /\ Cardinality(asked) <= MaxAsks
  /\ latest \in 1..Len(log)

SheetOf(r) == IF r.status = "DRAFT" THEN r.terms ELSE r.cost

RequestInit ==
  /\ \E status \in {"DRAFT", "SENT"} :
       log = <<[status |-> status, terms |-> "first", cost |-> "first",
                approved |-> FALSE, letter |-> TRUE, receipt |-> FALSE,
                stamp |-> 0]>>
  /\ shows = 1 /\ load = Nothing /\ failed = FALSE
  /\ place = "page" /\ sheet = "first" /\ slip = FALSE /\ drawn = Nothing
  /\ asked = {}
  /\ latest = 1 /\ late = FALSE

-----------------------------------------------------------------------------
\* The backend.

Present == log[Len(log)]

Allowed(kind, r) ==
  CASE kind \in {"update", "approve"} ->
         r.status = "DRAFT" /\ (kind = "approve" => r.letter)
    [] kind = "reconcile" -> TRUE
    [] kind = "complete" -> r.status = "SENT"
    [] kind \in {"cancel", "file"} -> r.status # "CANCELLED"
    [] kind = "unfile" -> r.letter
    [] kind = "receipt" -> r.status \in {"SENT", "COMPLETED"} /\ ~r.receipt
    [] kind = "send" -> r.status # "CANCELLED" /\ r.letter

Rewritten(kind, r, text) ==
  [r EXCEPT
     !.terms = IF kind = "update" THEN text ELSE @,
     !.cost = IF kind = "reconcile" THEN text ELSE @,
     !.approved = CASE kind = "approve" -> TRUE
                    [] kind \in {"update", "reconcile"} -> FALSE
                    [] kind \in {"file", "unfile"} -> @ /\ r.status # "DRAFT"
                    [] OTHER -> @,
     !.letter = kind = "file" \/ (@ /\ kind # "unfile"),
     !.receipt = @ \/ kind = "receipt",
     !.status = CASE kind = "complete" -> "COMPLETED"
                  [] kind = "cancel" -> "CANCELLED"
                  [] kind = "send" -> "SENT"
                  [] OTHER -> @,
     !.stamp = IF kind \in {"file", "unfile"} /\ r.status # "DRAFT"
               THEN @ ELSE @ + 1]

Writing(kind, text) ==
  /\ Len(log) < MaxVersions
  /\ Allowed(kind, Present)
  /\ log' = Append(log, Rewritten(kind, Present, text))

Colleague ==
  /\ \E kind \in {"update", "cancel", "send"} : Writing(kind, "theirs")
  /\ UNCHANGED <<query, forms, asked, answers>>

-----------------------------------------------------------------------------
\* Data arrives at the page.

OnRequest == place = "page" /\ ~failed

\* Slips for the mutants: the form is keyed by the row, the letter is not
\* written anew, the query is not made stale.
FollowsRow(old, new) == old = new
KeepsLetter(v) == drawn
LeavesLoad(kind) == load

\* The stepper and the reconciliation have no key: they stay while they are the
\* ones to show.
FormStays(old, new) == (old.status = "DRAFT") <=> (new.status = "DRAFT")

\* The effect of the drawer, on [opened, request].
LetterFrom(v) == IF drawn = Nothing THEN Nothing ELSE v

Landed(v) ==
  /\ shows' = v /\ failed' = FALSE
  /\ sheet' = CASE place = "away" -> Nothing
                [] OnRequest /\ FormStays(log[shows], log[v]) -> sheet
                [] OTHER -> SheetOf(log[v])
  /\ slip' = (slip /\ log[v].stamp = log[shows].stamp)
  /\ UNCHANGED place

\* update, transition and send invalidate: what is being fetched is dropped, and
\* fetched anew if the page is there. The others only set the data.
Invalidates == {"update", "reconcile", "complete", "cancel", "send"}

LoadAfter(kind) ==
  IF kind \in Invalidates /\ place = "page" THEN Asked ELSE load

\* An answer the page should show from now on: no older row is under way to it,
\* or what is under way is dropped.
Counts(kind, v) ==
  \/ kind \in Invalidates /\ place = "page"
  \/ load \in {Nothing, Asked}
  \/ load \in v..Len(log)

Answered(a) ==
  /\ a.answer # Nothing
  /\ Landed(a.answer)
  /\ load' = LoadAfter(a.kind)
  /\ drawn' = IF a.kind = "send" /\ a.mine THEN Nothing ELSE LetterFrom(a.answer)
  /\ latest' = IF Counts(a.kind, a.answer) /\ a.answer > latest
               THEN a.answer ELSE latest
  /\ late' = (a.answer < latest)
  /\ asked' = asked \ {a}
  /\ UNCHANGED log

\* The query is fetched on mounting, on reconnecting, and when it is stale.
LoadAgain ==
  /\ place = "page" /\ load = Nothing
  /\ load' = Asked
  /\ UNCHANGED <<log, shows, failed, forms, asked, answers>>

LoadReads ==
  /\ load = Asked
  /\ load' = Len(log)
  /\ UNCHANGED <<log, shows, failed, forms, asked, answers>>

LoadLands ==
  /\ load \notin {Nothing, Asked}
  /\ Landed(load)
  /\ drawn' = LetterFrom(load)
  /\ load' = Nothing /\ late' = FALSE
  /\ UNCHANGED <<log, asked, latest>>

Orphaned(kinds) ==
  {[a EXCEPT !.mine = @ /\ a.kind \notin kinds] : a \in asked}

\* After the retries: the page gives way to an alert, with all it has mounted,
\* until data arrives. That the drawer was open is the page's own state.
LoadFails ==
  /\ load # Nothing
  /\ load' = Nothing /\ failed' = TRUE
  /\ sheet' = Nothing /\ slip' = FALSE
  /\ asked' = IF place = "page" THEN Orphaned({"send", "receipt", "file", "unfile"})
              ELSE asked
  /\ UNCHANGED <<log, shows, place, drawn, answers>>

-----------------------------------------------------------------------------
\* The user.

\* By any link. The calls run on.
LeaveRequest ==
  /\ place = "page"
  /\ place' = "away"
  /\ sheet' = Nothing /\ slip' = FALSE /\ drawn' = Nothing
  /\ asked' = Orphaned(Kinds)
  /\ UNCHANGED <<log, query, answers>>

\* The forms are mounted from what the query has, and a fetch begins.
ReturnToRequest ==
  /\ place = "away"
  /\ place' = "page"
  /\ sheet' = IF failed THEN Nothing ELSE SheetOf(log[shows])
  /\ load' = IF load = Nothing THEN Asked ELSE load
  /\ UNCHANGED <<log, shows, failed, slip, drawn, asked, answers>>

Uncovered == OnRequest /\ drawn = Nothing

EditSheet ==
  /\ Uncovered
  /\ sheet' = "mine"
  /\ UNCHANGED <<log, query, place, slip, drawn, asked, answers>>

TypeReceipt ==
  /\ Uncovered
  /\ log[shows].status \in {"SENT", "COMPLETED"} /\ ~log[shows].receipt
  /\ slip' = TRUE
  /\ UNCHANGED <<log, query, place, sheet, drawn, asked, answers>>

OpenDrawer ==
  /\ Uncovered
  /\ log[shows].status # "CANCELLED" /\ log[shows].letter
  /\ drawn' = shows
  /\ UNCHANGED <<log, query, place, sheet, slip, asked, answers>>

\* What the page offers for the row it shows.
Offered(kind, r) ==
  CASE kind = "update" -> r.status = "DRAFT"
    [] kind = "reconcile" -> r.status \in {"SENT", "COMPLETED"}
    [] kind = "approve" -> r.status = "DRAFT" /\ ~r.approved /\ r.letter
    [] kind = "complete" -> r.status = "SENT"
    [] kind = "cancel" -> r.status # "CANCELLED"
    [] kind = "file" -> r.status = "DRAFT"
    [] kind = "unfile" -> r.status = "DRAFT" /\ r.letter
    [] kind = "receipt" -> slip
    [] kind = "send" -> r.letter

\* One mutation for both of each pair; a button waits for its own.
Hook(kind) ==
  CASE kind \in {"update", "reconcile"} -> "update"
    [] kind \in {"complete", "cancel"} -> "transition"
    [] OTHER -> kind
Pending(kind) == \E a \in asked : a.mine /\ Hook(a.kind) = Hook(kind)

\* The stepper is saved by Enter on its Documents step as well, which does not
\* wait (NewRequest).
Waits(kind) == kind # "update" /\ Pending(kind)

AskFor(kind, text, seen) ==
  /\ Cardinality(asked) < MaxAsks
  /\ ~Waits(kind) /\ Offered(kind, log[shows])
  /\ asked' = asked \cup
       {[kind |-> kind, text |-> text, mine |-> TRUE, seen |-> seen,
         answer |-> Nothing]}
  /\ UNCHANGED <<log, query, forms, answers>>

Click ==
  /\ Uncovered
  /\ \E kind \in Kinds \ {"send"} :
       AskFor(kind, IF kind \in {"update", "reconcile"} THEN sheet ELSE Nothing,
              Nothing)

\* handleSend: the letter tells the service of the row it was written from.
SendOrder ==
  /\ OnRequest /\ drawn # Nothing
  /\ AskFor("send", log[drawn].terms, shows)

CloseSend ==
  /\ OnRequest /\ drawn # Nothing /\ ~Pending("send")
  /\ drawn' = Nothing
  /\ UNCHANGED <<log, query, place, sheet, slip, asked, answers>>

Applies(a) ==
  /\ a.answer = Nothing
  /\ Writing(a.kind, a.text)
  /\ asked' = (asked \ {a}) \cup {[a EXCEPT !.answer = Len(log')]}
  /\ UNCHANGED <<query, forms, answers>>

\* Refused, or failed before or after it was applied.
CallFails(a) ==
  /\ asked' = asked \ {a}
  /\ UNCHANGED <<log, query, forms, answers>>

-----------------------------------------------------------------------------
RequestNext ==
  \/ Colleague \/ LoadAgain \/ LoadReads \/ LoadLands \/ LoadFails
  \/ LeaveRequest \/ ReturnToRequest \/ EditSheet \/ TypeReceipt
  \/ OpenDrawer \/ CloseSend \/ Click \/ SendOrder
  \/ \E a \in asked : Applies(a) \/ Answered(a) \/ CallFails(a)

-----------------------------------------------------------------------------
\* The page never falls behind what an answer has told, unless an older answer
\* of the user's own arrives after it.
PageKeepsUp == shows < latest => late

\* The letter tells of the service the purchase order beside it orders, unless
\* the terms were changed after the row the page showed when it was sent.
LetterFitsOrder ==
  \A a \in asked : a.kind = "send" /\ a.answer # Nothing =>
    \/ a.text = log[a.answer].terms
    \/ \E v \in (a.seen + 1)..a.answer : log[v].terms # log[v - 1].terms

\* While the page shows the request in the same form, what was typed in it stays;
\* in the receipt, while it is the same version.
SheetStands ==
  [][OnRequest /\ OnRequest' =>
       /\ (/\ sheet = "mine"
           /\ (log[shows].status = "DRAFT") <=> (log'[shows'].status = "DRAFT"))
          => sheet' = "mine"
       /\ (slip /\ log[shows].stamp = log'[shows'].stamp) => slip'
    ]_requestVars
=============================================================================
