----------------------------- MODULE SendClient -----------------------------
(***************************************************************************)
(* The browser side of a send (frontend/src/lib/api/sendRequest.ts and     *)
(* client.ts), composed with EmailDelivery: one tab, whose sessionStorage  *)
(* keeps an Idempotency-Key per path and body until a send of them has     *)
(* succeeded.                                                              *)
(*                                                                         *)
(* A call of apiSend becomes a request to the backend once its token is    *)
(* accepted: the guard answers 401 before the interceptor runs, and the    *)
(* client refreshes the token and posts once more with the same key. Any   *)
(* fetch may fail while the backend goes on; the page may be reloaded at   *)
(* any time, which ends the calls and keeps the storage; and another user  *)
(* may log in, which keeps both, so a token may be of any user. Calls and  *)
(* Keys bound the behaviours.                                              *)
(***************************************************************************)
EXTENDS Naturals, FiniteSets

CONSTANTS Calls,   \* calls of apiSend
          Keys,    \* the UUIDs crypto.randomUUID returns
          Bodies,  \* path and body of a send: what the storage is indexed by
          Users,   \* whose tokens a call may be made with
          None, MaxCalls  \* as in EmailDelivery

ASSUME ClientAssumption ==
  /\ MaxCalls \in Nat \ {0} /\ IsFiniteSet(Calls)
  /\ None \notin Calls \cup Keys \cup Bodies /\ None \notin Bodies \X Users

VARIABLES
  attempt, pc, key, content, started, accepted, reply, replayed, calls, smtp,
  storage,  \* sessionStorage: the unresolved key of each body, or None
  call,     \* a call of apiSend: where it is, its body, key and token's user
  overtaken \* the calls since whose start a send of their body has succeeded
            \* (history)

\* The backend's requestHash is of the user as well as of path and body.
Delivery == INSTANCE EmailDelivery WITH Requests <- Calls,
                                        Contents <- Bodies \X Users

delivery == <<attempt, pc, key, content, started, accepted, reply, replayed,
              calls, smtp>>
tab == <<storage, call, overtaken>>
vars == <<delivery, tab>>

\* "posted": the first fetch; "reposted": the one after a refresh;
\* "sent": the request is with the delivery service.
Waiting == {"posted", "refresh", "reposted", "sent"}
Ended == {"ok", "failed"}

\* Calls, storage and counts have the shape of the client's.
TypeOK ==
  /\ Delivery!TypeOK
  /\ storage \in [Bodies -> Keys \cup {None}]
  /\ call \in [Calls -> [at : {"idle"} \cup Waiting \cup Ended,
                         body : Bodies \cup {None},
                         key : Keys \cup {None},
                         user : Users \cup {None}]]
  /\ overtaken \subseteq Calls

Init ==
  /\ Delivery!Init
  /\ storage = [b \in Bodies |-> None]
  /\ call = [c \in Calls |-> [at |-> "idle", body |-> None, key |-> None,
                              user |-> None]]
  /\ overtaken = {}

-----------------------------------------------------------------------------
\* apiSend, up to the fetch.

Goto(c, place) == call' = [call EXCEPT ![c].at = place]
At(c, places) == call[c].at \in places

\* A UUID that was never drawn before.
Fresh(k) == \A c \in Calls : call[c].key # k

\* Slips for the mutants of PROJECT.json: every call draws a key, or all
\* bodies share one entry of the storage.
AlwaysFresh(b, k) == Fresh(k)
ForgetsBody(b, k) ==
  IF \E d \in Bodies : storage[d] # None
  THEN \E d \in Bodies : k = storage[d] /\ k # None
  ELSE Fresh(k)

\* sessionStorage.getItem(storageKey) ?? crypto.randomUUID()
KeyFor(b, k) == IF storage[b] # None THEN k = storage[b] ELSE Fresh(k)

\* The key is taken, stored and posted with the present token in one turn of
\* the event loop. A remount may leave an earlier call of the same body open.
Begin(c, b) ==
  /\ At(c, {"idle"})
  /\ \E k \in Keys, u \in Users :
       /\ KeyFor(b, k)
       /\ storage' = [storage EXCEPT ![b] = k]
       /\ call' = [call EXCEPT ![c] = [at |-> "posted", body |-> b, key |-> k,
                                       user |-> u]]
  /\ UNCHANGED <<delivery, overtaken>>

\* The storage throws: nothing is posted.
StorageDenied(c) ==
  /\ At(c, {"idle"})
  /\ Goto(c, "failed")
  /\ UNCHANGED <<delivery, storage, overtaken>>

\* The request passes the guard and enters EmailDeliveryService.run.
Admitted(c) ==
  /\ At(c, {"posted", "reposted"})
  /\ Delivery!Arrive(c)
  /\ key'[c] = call[c].key
  /\ content'[c] = <<call[c].body, call[c].user>>
  /\ Goto(c, "sent")
  /\ UNCHANGED <<storage, overtaken>>

\* The guard answers 401: the first time the token is refreshed, the second
\* time the call fails.
Unauthorized(c) ==
  /\ At(c, {"posted", "reposted"})
  /\ Goto(c, IF At(c, {"posted"}) THEN "refresh" ELSE "failed")
  /\ UNCHANGED <<delivery, storage, overtaken>>

\* The refresh answers with a token of whoever the cookie belongs to by now.
Refreshed(c) ==
  /\ At(c, {"refresh"})
  /\ \E u \in Users :
       call' = [call EXCEPT ![c].at = "reposted", ![c].user = u]
  /\ UNCHANGED <<delivery, storage, overtaken>>

\* A fetch rejects: the request or its answer is lost, or the backend died.
FetchFails(c) ==
  /\ At(c, Waiting)
  /\ Goto(c, "failed")
  /\ UNCHANGED <<delivery, storage, overtaken>>

-----------------------------------------------------------------------------
\* apiSend, once the backend has answered.

\* An answer that is not ok: apiRequest throws, and the key is kept.
ToldFailure(c) ==
  /\ At(c, {"sent"})
  /\ reply[c] \notin {"nothing", "ok"}
  /\ Goto(c, "failed")
  /\ UNCHANGED <<delivery, storage, overtaken>>

\* Slips for the mutants: the response is stored in place of the key, or the
\* key is retired before the receipt is read.
StoresResponse(c) ==
  /\ storage' = [storage EXCEPT ![call[c].body] = reply[c]]
  /\ Goto(c, "failed")
  /\ UNCHANGED overtaken
RetiresEarly(c) ==
  /\ storage' = [storage EXCEPT ![call[c].body] = None]
  /\ Goto(c, "failed")
  /\ UNCHANGED overtaken

\* validate throws after the delivery: the key is kept, so that a retry gets
\* the same response.
ReceiptInvalid(c) ==
  /\ Goto(c, "failed")
  /\ UNCHANGED <<storage, overtaken>>

\* sessionStorage.removeItem may throw, which is ignored.
Resolved(c) ==
  /\ storage' \in {storage, [storage EXCEPT ![call[c].body] = None]}
  /\ overtaken' = overtaken \cup {d \in Calls : call[d].body = call[c].body}
  /\ Goto(c, "ok")

ToldSuccess(c) ==
  /\ At(c, {"sent"})
  /\ reply[c] = "ok"
  /\ ReceiptInvalid(c) \/ Resolved(c)
  /\ UNCHANGED delivery

-----------------------------------------------------------------------------
\* The tab, and the backend.

\* A reload ends the calls; sessionStorage and the backend keep what they have.
Reload ==
  /\ \E c \in Calls : At(c, Waiting)
  /\ call' = [c \in Calls |-> IF At(c, Waiting)
                              THEN [call[c] EXCEPT !.at = "failed"] ELSE call[c]]
  /\ UNCHANGED <<delivery, storage, overtaken>>

Backend ==
  /\ \/ \E c \in Calls : Delivery!Step(c) \/ Delivery!SmtpDecides(c)
     \/ Delivery!Crash
  /\ UNCHANGED tab

\* What the browser does by itself for a call that is under way.
ClientStep(c) ==
  \/ Admitted(c) \/ Unauthorized(c) \/ Refreshed(c)
  \/ ToldFailure(c) \/ ToldSuccess(c)
  \/ FetchFails(c)

Next ==
  \/ \E c \in Calls : \/ \E b \in Bodies : Begin(c, b)
                      \/ StorageDenied(c)
                      \/ ClientStep(c)
  \/ Reload
  \/ Backend

Spec == Init /\ [][Next]_vars

-----------------------------------------------------------------------------
\* Properties.

Mailed(b) == {c \in Calls : call[c].body = b /\ calls[c] > 0}
Told(b) == {c \in Calls : call[c].body = b /\ At(c, {"ok"})}

\* However often a send is retried, reloaded or answered too late, its mails
\* outnumber the successes the user was told of by at most the one still
\* open: "Never silently create a new delivery attempt after a timeout or
\* ambiguous server response".
MailsAreTold == \A b \in Bodies : Cardinality(Mailed(b)) <= Cardinality(Told(b)) + 1

\* The key of a call that ended without success stays in the storage for the
\* retry, unless a send of the same body has succeeded since it took the key:
\* "Retain an unresolved request across remount/reload".
UnresolvedIsKept ==
  \A c \in Calls :
    At(c, {"failed"}) /\ call[c].key # None =>
      storage[call[c].body] = call[c].key \/ c \in overtaken

\* The backend sees one key with two contents only when the user of the tab
\* has changed between two sends of the same body.
ConflictNeedsOtherUser ==
  \A c \in Calls : reply[c] = "conflict" =>
    \E d \in Calls : /\ call[d].key = call[c].key
                     /\ call[d].body = call[c].body
                     /\ key[d] = key[c] /\ content[d] # content[c]

\* The user is told of every mail but the last of a letter.
SendsAreTold == TypeOK /\ MailsAreTold
=============================================================================
