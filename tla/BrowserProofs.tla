--------------------------- MODULE BrowserProofs ----------------------------
(***************************************************************************)
(* What a browser makes of its session and of the screens of the master    *)
(* data, for any tabs, tokens, records, calls and texts.                   *)
(*                                                                         *)
(* The session: without one of the causes at most one refresh is open, for *)
(* a tab that refreshes silently has no calls, and the calls of a tab      *)
(* share theirs; the only refresh has the token of the cookie, and this    *)
(* token is live until the refresh itself revokes it.                      *)
(*                                                                         *)
(* The screens: an update that has cleared members has cleared those of    *)
(* every call that had ended before it began, or, under the lock, all of   *)
(* them; only the selected record loads, unless the selection has changed  *)
(* during a load; and a draft that has become a record is selected, so     *)
(* that it is updated when it is accepted again.                           *)
(***************************************************************************)
EXTENDS Session, Screens, FiniteSetTheorems, TLAPS

-----------------------------------------------------------------------------
\* The session.

SessionCall == [at : {"idle", "ok", "failed"} \cup Under, tab : Tabs \cup {Nothing},
                awaits : ApiCalls \cup {Nothing}]
SessionRequest == [at : {"idle"} \cup Open, token : Tokens \cup {Nothing},
                   new : Tokens \cup {Nothing}]

\* A call knows its tab, and one that has begun a refresh awaits it.
CallsInTabs ==
  /\ \A c \in ApiCalls : call[c].at \in Under => call[c].tab \in Tabs
  /\ \A c \in ApiCalls : IsOpen(c) => call[c].at = "waiting" /\ call[c].awaits = c

\* The tokens that are known have been issued.
IssuedOnly ==
  /\ jar # Nothing => db[jar] # "unissued"
  /\ \A r \in Refreshes : /\ req[r].at \in InService => req[r].token # Nothing
                          /\ req[r].at = "answered" =>
                               req[r].new # Nothing /\ db[req[r].new] # "unissued"

\* Without a cause: a tab with calls under way holds a token, and one that
\* refreshes silently does not; one refresh at most is open, and it has the
\* token of the cookie, which is live until it is revoked by this refresh.
Calm ==
  /\ ~reuse
  /\ \A c \in ApiCalls : call[c].at \in Under => call[c].tab \in signedIn
  /\ \A t \in Tabs : IsOpen(t) => t \notin signedIn
  /\ \A q, r \in Refreshes : IsOpen(q) /\ IsOpen(r) => q = r
  /\ \A r \in Refreshes :
       /\ req[r].at # "reused"
       /\ req[r].at \in InService \cup {"answered"} => req[r].token = jar
       /\ req[r].at \in {"reading", "revoking"} => db[jar] = "live"
       /\ req[r].at = "answered" => db[req[r].new] = "live"
  /\ jar # Nothing /\ db[jar] = "revoked" =>
       \E r \in Refreshes : req[r].at \in {"creating", "answered"}

SessionInv == SessionTypeOK /\ CallsInTabs /\ IssuedOnly /\ (~cause => Calm)

\* A step of a refresh, of a call or of a tab.
RefreshStep(r) == Backend(r) \/ Settles(r)
CallStep(c) == (\E t \in Tabs : Post(c, t)) \/ Denied(c) \/ Answered(c)
TabOfBrowserStep(t) == Silent(t) \/ Login(t) \/ Logout(t) \/ Reload(t)

\* TypeOK in the words of this module.
LEMMA SessionTypes ==
  SessionTypeOK <=> /\ db \in [Tokens -> {"unissued", "live", "revoked"}]
                    /\ jar \in Tokens \cup {Nothing} /\ signedIn \subseteq Tabs
                    /\ call \in [ApiCalls -> SessionCall]
                    /\ req \in [Refreshes -> SessionRequest]
                    /\ cause \in BOOLEAN /\ reuse \in BOOLEAN
BY DEF SessionTypeOK, SessionCall, SessionRequest

LEMMA SessionNames ==
  /\ Nothing \notin Tokens /\ (\A t \in Tabs : t \notin ApiCalls)
  /\ NoRequest \in SessionRequest /\ NoRequest.at = "idle"
  /\ Refreshes = ApiCalls \cup Tabs
BY SessionAssumption DEF NoRequest, SessionRequest, Refreshes

LEMMA SessionStarts == SessionInit => SessionInv
<1> SUFFICES ASSUME SessionInit PROVE SessionInv
  OBVIOUS
<1> USE SessionNames
<1>1. [at |-> "idle", tab |-> Nothing, awaits |-> Nothing] \in SessionCall
  BY DEF SessionCall
<1>2. SessionTypeOK
  BY <1>1, SessionTypes DEF SessionInit
<1>3. /\ \A r \in Refreshes : req[r].at = "idle"
      /\ \A c \in ApiCalls : call[c].at = "idle"
  BY DEF SessionInit
<1>4. CallsInTabs /\ IssuedOnly /\ Calm
  BY <1>3 DEF SessionInit, CallsInTabs, IssuedOnly, Calm, IsOpen, Open, InService, Under
<1>5. QED
  BY <1>2, <1>4 DEF SessionInv

OthersStay(r) == \A q \in Refreshes \ {r} : req'[q] = req[q]

\* A refresh goes on, with the token it has.
LEMMA RefreshBecomes ==
  ASSUME SessionTypeOK, NEW r \in Refreshes, NEW place \in Open, Become(r, place)
  PROVE  /\ req' \in [Refreshes -> SessionRequest] /\ OthersStay(r) /\ req'[r].at = place
         /\ req'[r].token = req[r].token /\ req'[r].new = req[r].new
<1>1. req \in [Refreshes -> SessionRequest]
  BY SessionTypes
<1>2. req' = [req EXCEPT ![r] = [req[r] EXCEPT !.at = place]]
  BY DEF Become
<1>3. [req[r] EXCEPT !.at = place] \in SessionRequest
  BY <1>1 DEF SessionRequest
<1>4. QED
  BY <1>1, <1>2, <1>3 DEF OthersStay, SessionRequest

\* An open refresh that a step of the backend leaves open disturbs no call.
LEMMA CallsAwait ==
  ASSUME SessionInv, NEW r \in Refreshes, IsOpen(r), OthersStay(r), call' = call
  PROVE  CallsInTabs'
BY DEF SessionInv, CallsInTabs, IsOpen, OthersStay, Open, InService, Refreshes

\* The refresh reads its token, which Calm says is live.
LEMMA ReadTokenStep ==
  ASSUME SessionInv, NEW r \in Refreshes, ReadToken(r)
  PROVE  SessionInv'
<1> USE SessionNames
<1>a. /\ SessionTypeOK /\ req \in [Refreshes -> SessionRequest] /\ IsOpen(r)
      /\ req[r].at = "reading"
  BY SessionTypes DEF SessionInv, ReadToken, IsOpen, Open, InService
<1>1. PICK place \in {"reused", "revoking", "refused"} :
        /\ Become(r, place)
        /\ place = "reused" => db[req[r].token] = "revoked"
        /\ place = "revoking" => db[req[r].token] = "live"
  BY DEF ReadToken
<1>2. /\ req' \in [Refreshes -> SessionRequest] /\ OthersStay(r) /\ req'[r].at = place
      /\ req'[r].token = req[r].token /\ req'[r].new = req[r].new
  BY <1>a, <1>1, RefreshBecomes DEF Open, InService
<1>3. UNCHANGED <<db, jar, signedIn, call, cause, reuse>>
  BY DEF ReadToken
<1>4. SessionTypeOK'
  BY <1>a, <1>2, <1>3 DEF SessionTypeOK, SessionRequest
<1>5. CallsInTabs'
  BY <1>a, <1>2, <1>3, CallsAwait
<1>6. IssuedOnly'
  BY <1>a, <1>2, <1>3 DEF SessionInv, IssuedOnly, OthersStay, InService
<1>7. ASSUME ~cause' PROVE Calm'
  <2>1. Calm
    BY <1>3, <1>7 DEF SessionInv
  <2>2. db[req[r].token] = "live" /\ place # "reused" /\ req[r].token = jar
    BY <1>1, <1>a, <2>1 DEF Calm, InService
  <2>3. QED
    BY <1>a, <1>2, <1>3, <2>1, <2>2 DEF Calm, IsOpen, OthersStay, Open, InService
<1>8. QED
  BY <1>4, <1>5, <1>6, <1>7 DEF SessionInv

\* A reuse has a cause; nothing that is issued becomes unissued.
LEMMA RevokeAllStep ==
  ASSUME SessionInv, NEW r \in Refreshes, RevokeAll(r)
  PROVE  SessionInv'
<1> USE SessionNames
<1>a. /\ SessionTypeOK /\ req \in [Refreshes -> SessionRequest] /\ IsOpen(r)
      /\ req[r].at = "reused"
      /\ db \in [Tokens -> {"unissued", "live", "revoked"}]
  BY SessionTypes DEF SessionInv, RevokeAll, IsOpen, Open, InService
<1>1. /\ req' \in [Refreshes -> SessionRequest] /\ OthersStay(r) /\ req'[r].at = "refused"
      /\ req'[r].token = req[r].token /\ req'[r].new = req[r].new
  BY <1>a, RefreshBecomes DEF RevokeAll, Open
<1>2. /\ UNCHANGED <<jar, signedIn, call, cause>> /\ reuse' \in BOOLEAN
      /\ db' = [k \in Tokens |-> IF db[k] = "live" THEN "revoked" ELSE db[k]]
  BY DEF RevokeAll
<1>3. SessionTypeOK'
  BY <1>a, <1>1, <1>2 DEF SessionTypeOK, SessionRequest
<1>4. CallsInTabs'
  BY <1>a, <1>1, <1>2, CallsAwait
<1>5. IssuedOnly'
  BY <1>a, <1>1, <1>2 DEF SessionInv, IssuedOnly, OthersStay, InService, SessionTypeOK
<1>6. cause'
  BY <1>a, <1>2 DEF SessionInv, Calm
<1>7. QED
  BY <1>3, <1>4, <1>5, <1>6 DEF SessionInv

\* The old token is revoked: it is the one of the cookie.
LEMMA RevokeOldStep ==
  ASSUME SessionInv, NEW r \in Refreshes, RevokeOld(r)
  PROVE  SessionInv'
<1> USE SessionNames
<1>a. /\ SessionTypeOK /\ req \in [Refreshes -> SessionRequest] /\ IsOpen(r)
      /\ req[r].at = "revoking"
      /\ db \in [Tokens -> {"unissued", "live", "revoked"}]
      /\ jar \in Tokens \cup {Nothing}
  BY SessionTypes DEF SessionInv, RevokeOld, IsOpen, Open, InService
<1>1. /\ req' \in [Refreshes -> SessionRequest] /\ OthersStay(r)
      /\ req'[r].at = "creating"
      /\ req'[r].token = req[r].token /\ req'[r].new = req[r].new
  BY <1>a, RefreshBecomes DEF RevokeOld, Open, InService
<1>2. /\ UNCHANGED <<jar, signedIn, call, cause, reuse>>
      /\ db' = [db EXCEPT ![req[r].token] = "revoked"]
  BY DEF RevokeOld
<1>3. SessionTypeOK'
  BY <1>a, <1>1, <1>2 DEF SessionTypeOK, SessionRequest
<1>4. CallsInTabs'
  BY <1>a, <1>1, <1>2, CallsAwait
<1>5. IssuedOnly'
  BY <1>a, <1>1, <1>2 DEF SessionInv, IssuedOnly, OthersStay, InService
<1>6. ASSUME ~cause' PROVE Calm'
  <2>1. Calm
    BY <1>2, <1>6 DEF SessionInv
  <2>2. \A q \in Refreshes \ {r} : req'[q].at \notin Open
    BY <1>a, <1>1, <2>1 DEF Calm, IsOpen, OthersStay
  <2>3. QED
    BY <1>a, <1>1, <1>2, <2>1, <2>2 DEF Calm, IsOpen, Open, InService
<1>7. QED
  BY <1>3, <1>4, <1>5, <1>6 DEF SessionInv

\* The new token is live.
LEMMA CreateNewStep ==
  ASSUME SessionInv, NEW r \in Refreshes, CreateNew(r)
  PROVE  SessionInv'
<1> USE SessionNames
<1>a. /\ SessionTypeOK /\ req \in [Refreshes -> SessionRequest] /\ IsOpen(r)
      /\ req[r].at = "creating"
      /\ db \in [Tokens -> {"unissued", "live", "revoked"}]
      /\ jar \in Tokens \cup {Nothing}
  BY SessionTypes DEF SessionInv, CreateNew, IsOpen, Open, InService
<1>b. MaxTokens \in Nat
  BY SessionAssumption
<1>1. PICK k \in Tokens :
        /\ Issue(k)
        /\ req' = [req EXCEPT ![r].at = "answered", ![r].new = k]
  BY DEF CreateNew
<1>2. req' = [req EXCEPT ![r] = [req[r] EXCEPT !.at = "answered", !.new = k]]
  BY <1>a, <1>1 DEF SessionRequest
<1>3. [req[r] EXCEPT !.at = "answered", !.new = k] \in SessionRequest
  BY <1>a DEF SessionRequest, Open
<1>4. /\ req' \in [Refreshes -> SessionRequest] /\ OthersStay(r)
      /\ req'[r].at = "answered"
      /\ req'[r].token = req[r].token /\ req'[r].new = k
  BY <1>a, <1>2, <1>3 DEF OthersStay, SessionRequest
<1>5. /\ UNCHANGED <<jar, signedIn, call, cause, reuse>> /\ db[k] = "unissued"
      /\ db' = [db EXCEPT ![k] = "live"]
  <2>1. k >= k
    BY <1>b DEF Tokens
  <2>2. QED
    BY <1>1, <2>1 DEF CreateNew, Issue
<1>6. SessionTypeOK'
  BY <1>a, <1>4, <1>5 DEF SessionTypeOK, SessionRequest
<1>7. CallsInTabs'
  BY <1>a, <1>4, <1>5, CallsAwait
<1>8. IssuedOnly'
  BY <1>a, <1>4, <1>5 DEF SessionInv, IssuedOnly, OthersStay, InService
<1>9. ASSUME ~cause' PROVE Calm'
  <2>1. Calm
    BY <1>5, <1>9 DEF SessionInv
  <2>2. \A q \in Refreshes \ {r} : req'[q].at \notin Open
    BY <1>a, <1>4, <2>1 DEF Calm, IsOpen, OthersStay
  <2>3. jar # Nothing => db'[jar] = db[jar]
    BY <1>a, <1>5 DEF SessionInv, IssuedOnly
  <2>4. QED
    BY <1>a, <1>4, <1>5, <2>1, <2>2, <2>3 DEF Calm, IsOpen, Open, InService
<1>10. QED
  BY <1>6, <1>7, <1>8, <1>9 DEF SessionInv

\* A failure is a cause.
LEMMA ServiceFailsStep ==
  ASSUME SessionInv, NEW r \in Refreshes, ServiceFails(r)
  PROVE  SessionInv'
<1> USE SessionNames
<1>a. SessionTypeOK /\ req \in [Refreshes -> SessionRequest] /\ IsOpen(r)
  BY SessionTypes DEF SessionInv, ServiceFails, IsOpen, Open
<1>1. /\ req' \in [Refreshes -> SessionRequest] /\ OthersStay(r) /\ req'[r].at = "refused"
      /\ req'[r].token = req[r].token /\ req'[r].new = req[r].new
  BY <1>a, RefreshBecomes DEF ServiceFails, Open
<1>2. UNCHANGED <<db, jar, signedIn, call, reuse>> /\ cause' = TRUE
  BY DEF ServiceFails
<1>3. SessionTypeOK'
  BY <1>a, <1>1, <1>2 DEF SessionTypeOK, SessionRequest
<1>4. CallsInTabs'
  BY <1>a, <1>1, <1>2, CallsAwait
<1>5. IssuedOnly'
  BY <1>a, <1>1, <1>2 DEF SessionInv, IssuedOnly, OthersStay, InService
<1>6. QED
  BY <1>2, <1>3, <1>4, <1>5 DEF SessionInv

-----------------------------------------------------------------------------
\* A refresh settles.

LEMMA SettleSteps ==
  ASSUME SessionInv, NEW r \in Refreshes, NEW ok \in BOOLEAN, IsOpen(r), Settle(r, ok)
  PROVE  /\ req' \in [Refreshes -> SessionRequest] /\ OthersStay(r) /\ req'[r] = NoRequest
         /\ call' \in [ApiCalls -> SessionCall] /\ signedIn' \subseteq Tabs
         /\ CallsInTabs'
         /\ ok => signedIn' = signedIn \cup {TabOf(r)}
         /\ \A c \in ApiCalls : /\ call'[c].tab = call[c].tab
                                /\ call'[c].at \in Under => call[c].at \in Under
<1> USE SessionNames
<1>a. /\ req \in [Refreshes -> SessionRequest] /\ call \in [ApiCalls -> SessionCall]
      /\ signedIn \subseteq Tabs
      /\ CallsInTabs
  BY SessionTypes DEF SessionInv
<1>1. req' = [req EXCEPT ![r] = NoRequest] /\ call' = Woken(r, ok)
  BY DEF Settle
<1>2. \A c \in ApiCalls :
        \/ call'[c] = call[c]
        \/ /\ call[c].at = "waiting" /\ call[c].awaits = r
           /\ call'[c] = [call[c] EXCEPT !.at = IF ok THEN "resent" ELSE "failed",
                                         !.awaits = Nothing]
  BY <1>1 DEF Woken, Awaiting
<1>3. call' \in [ApiCalls -> SessionCall]
  <2>1. \A c \in ApiCalls : call'[c] \in SessionCall
    <3> SUFFICES ASSUME NEW c \in ApiCalls PROVE call'[c] \in SessionCall
      OBVIOUS
    <3>1. [call[c] EXCEPT !.at = IF ok THEN "resent" ELSE "failed", !.awaits = Nothing]
          \in SessionCall
      BY <1>a DEF SessionCall, Under
    <3>2. QED
      BY <1>2, <1>a, <3>1
  <2>2. QED
    BY <1>1, <2>1 DEF Woken
<1>4. \A c \in ApiCalls : /\ call'[c].tab = call[c].tab
                          /\ call'[c].at \in Under => call[c].at \in Under
  BY <1>a, <1>2 DEF SessionCall, Under
<1>5. TabOf(r) \in Tabs
  BY <1>a DEF TabOf, CallsInTabs, Under, Refreshes
<1>6. signedIn' \subseteq Tabs /\ (ok => signedIn' = signedIn \cup {TabOf(r)})
  BY <1>a, <1>5 DEF Settle
<1>7. req' \in [Refreshes -> SessionRequest] /\ OthersStay(r) /\ req'[r] = NoRequest
  BY <1>a, <1>1 DEF OthersStay
<1>8. \A c \in ApiCalls : req'[c].at \in Open => call'[c].at = "waiting" /\ call'[c].awaits = c
  <2> SUFFICES ASSUME NEW c \in ApiCalls, req'[c].at \in Open
               PROVE  call'[c].at = "waiting" /\ call'[c].awaits = c
    OBVIOUS
  <2>1. c # r /\ IsOpen(c)
    BY <1>7 DEF OthersStay, IsOpen, Open, InService
  <2>2. QED
    BY <1>a, <1>2, <2>1 DEF CallsInTabs
<1>9. CallsInTabs'
  BY <1>a, <1>4, <1>8 DEF CallsInTabs, IsOpen
<1>10. QED
  BY <1>3, <1>4, <1>6, <1>7, <1>9

\* The answer brings the cookie of the new token, and nobody else is under way.
LEMMA RefreshAnsweredStep ==
  ASSUME SessionInv, NEW r \in Refreshes, RefreshAnswered(r)
  PROVE  SessionInv'
<1> USE SessionNames
<1>a. /\ SessionTypeOK /\ req \in [Refreshes -> SessionRequest] /\ IsOpen(r)
      /\ req[r].at = "answered"
      /\ CallsInTabs
  BY SessionTypes DEF SessionInv, RefreshAnswered, IsOpen, Open
<1>1. jar' = req[r].new /\ Settle(r, TRUE) /\ UNCHANGED <<db, cause, reuse>>
  BY DEF RefreshAnswered, Cookie
<1>2. /\ req' \in [Refreshes -> SessionRequest] /\ OthersStay(r) /\ req'[r] = NoRequest
      /\ call' \in [ApiCalls -> SessionCall] /\ signedIn' \subseteq Tabs /\ CallsInTabs'
      /\ signedIn' = signedIn \cup {TabOf(r)}
      /\ \A c \in ApiCalls : /\ call'[c].tab = call[c].tab
                             /\ call'[c].at \in Under => call[c].at \in Under
  BY <1>a, <1>1, SettleSteps
<1>3. SessionTypeOK'
  BY <1>a, <1>1, <1>2 DEF SessionTypeOK, SessionRequest, SessionCall
<1>4. IssuedOnly'
  BY <1>a, <1>1, <1>2 DEF SessionInv, IssuedOnly, OthersStay, InService
<1>5. ASSUME ~cause' PROVE Calm'
  <2>1. Calm
    BY <1>1, <1>5 DEF SessionInv
  <2>2. \A q \in Refreshes : req'[q].at \notin Open
    BY <1>a, <1>2, <2>1 DEF Calm, IsOpen, OthersStay, Open, InService
  <2>3. db[req[r].new] = "live"
    BY <1>a, <2>1 DEF Calm
  <2>4. QED
    BY <1>1, <1>2, <2>1, <2>2, <2>3 DEF Calm, IsOpen, Open, InService
<1>6. QED
  BY <1>2, <1>3, <1>4, <1>5 DEF SessionInv

\* A refusal, or an answer that is lost, is a cause.
LEMMA RefreshRefusedStep ==
  ASSUME SessionInv, NEW r \in Refreshes, RefreshRefused(r) \/ RefreshLost(r)
  PROVE  SessionInv'
<1> USE SessionNames
<1>a. SessionTypeOK /\ req \in [Refreshes -> SessionRequest] /\ IsOpen(r)
  BY SessionTypes DEF SessionInv, RefreshRefused, RefreshLost, IsOpen, Open
<1>1. Settle(r, FALSE) /\ UNCHANGED <<db, jar, reuse>> /\ cause' = TRUE
  BY DEF RefreshRefused, RefreshLost
<1>2. /\ req' \in [Refreshes -> SessionRequest] /\ OthersStay(r) /\ req'[r] = NoRequest
      /\ call' \in [ApiCalls -> SessionCall] /\ signedIn' \subseteq Tabs /\ CallsInTabs'
  BY <1>a, <1>1, SettleSteps
<1>3. SessionTypeOK'
  BY <1>a, <1>1, <1>2 DEF SessionTypeOK, SessionRequest, SessionCall
<1>4. IssuedOnly'
  BY <1>a, <1>1, <1>2 DEF SessionInv, IssuedOnly, OthersStay, InService
<1>5. QED
  BY <1>1, <1>2, <1>3, <1>4 DEF SessionInv

-----------------------------------------------------------------------------
\* Calls and tabs.

\* A refresh is sent with the cookie of the jar; two tabs at once are a cause.
LEMMA SentSteps ==
  ASSUME SessionInv, NEW r \in Refreshes, Sent(r)
  PROVE  /\ req' \in [Refreshes -> SessionRequest] /\ OthersStay(r) /\ req'[r].token = jar
         /\ req'[r].at \in {"reading", "refused"} /\ (req'[r].at = "reading" => jar # Nothing)
         /\ cause' \in BOOLEAN
         /\ ~cause' => ~cause /\ \A q \in Refreshes : IsOpen(q) => TabOf(q) = TabOf(r)
<1>a. /\ req \in [Refreshes -> SessionRequest] /\ jar \in Tokens \cup {Nothing}
      /\ cause \in BOOLEAN
  BY SessionTypes DEF SessionInv
<1>1. PICK place \in {"reading", "refused"} :
        /\ req' = [req EXCEPT ![r] = [at |-> place, token |-> jar, new |-> Nothing]]
        /\ place = "reading" => jar # Nothing
  BY DEF Sent
<1>2. [at |-> place, token |-> jar, new |-> Nothing] \in SessionRequest
  BY <1>a DEF SessionRequest, Open, InService
<1>3. /\ req' \in [Refreshes -> SessionRequest] /\ OthersStay(r) /\ req'[r].token = jar
      /\ req'[r].at = place
  BY <1>a, <1>1, <1>2 DEF OthersStay
<1>4. /\ cause' \in BOOLEAN
      /\ ~cause' => ~cause /\ \A q \in Refreshes : IsOpen(q) => TabOf(q) = TabOf(r)
  BY <1>a DEF Sent
<1>5. QED
  BY <1>1, <1>3, <1>4

\* When nobody else is under way the token of the cookie is live.
LEMMA SentCalm ==
  ASSUME SessionInv, NEW r \in Refreshes, Sent(r), UNCHANGED <<db, jar, signedIn, reuse>>,
         r \in Tabs => r \notin signedIn, \A q \in Refreshes : ~IsOpen(q),
         \A c \in ApiCalls : call'[c].at \in Under =>
                            call[c].at \in Under /\ call'[c].tab = call[c].tab,
         ~cause'
  PROVE  Calm'
<1>1. Calm
  BY SentSteps DEF SessionInv
<1>2. \A q \in Refreshes \ {r} : req'[q].at \notin Open
  BY SentSteps DEF OthersStay, IsOpen
<1>3. /\ req'[r].token = jar /\ req'[r].at \in {"reading", "refused"}
      /\ req'[r].at = "reading" => jar # Nothing
  BY SentSteps
<1>4. jar # Nothing => db[jar] = "live"
  <2>1. \A q \in Refreshes : req[q].at \notin {"creating", "answered"}
    BY DEF IsOpen, Open, InService
  <2>2. /\ jar \in Tokens \cup {Nothing}
        /\ db \in [Tokens -> {"unissued", "live", "revoked"}]
    BY SessionTypes DEF SessionInv
  <2>3. QED
    BY <1>1, <2>1, <2>2 DEF SessionInv, IssuedOnly, Calm
<1>5. /\ \A c \in ApiCalls : call'[c].at \in Under => call'[c].tab \in signedIn'
      /\ \A t \in Tabs : req'[t].at \in Open => t \notin signedIn'
  BY <1>1, <1>2, SessionNames DEF Calm
<1>6. QED
  BY <1>1, <1>2, <1>3, <1>4, <1>5 DEF Calm, IsOpen, Open, InService

\* The tokens stay while a refresh is sent.
LEMMA SentIssued ==
  ASSUME SessionInv, NEW r \in Refreshes, Sent(r), UNCHANGED <<db, jar>>
  PROVE  IssuedOnly'
BY SentSteps DEF SessionInv, IssuedOnly, OthersStay, InService

\* A tab refreshes silently only when it has no call under way.
LEMMA SilentStep ==
  ASSUME SessionInv, NEW t \in Tabs, Silent(t)
  PROVE  SessionInv'
<1> USE SessionNames
<1>a. SessionTypeOK /\ CallsInTabs /\ t \in Refreshes
  BY DEF SessionInv
<1>1. /\ Sent(t) /\ t \notin signedIn /\ ~IsOpen(t)
      /\ UNCHANGED <<db, jar, signedIn, call, reuse>>
  BY DEF Silent
<1>2. /\ req' \in [Refreshes -> SessionRequest] /\ OthersStay(t) /\ cause' \in BOOLEAN
      /\ ~cause' => ~cause /\ \A q \in Refreshes : IsOpen(q) => TabOf(q) = t
  BY <1>a, <1>1, SentSteps DEF TabOf
<1>3. SessionTypeOK'
  BY <1>a, <1>1, <1>2 DEF SessionTypeOK, SessionRequest
<1>4. CallsInTabs'
  BY <1>a, <1>1, <1>2 DEF CallsInTabs, IsOpen, OthersStay
<1>5. ASSUME ~cause' PROVE Calm'
  <2>1. \A c \in ApiCalls : ~IsOpen(c)
    BY <1>1, <1>2, <1>5 DEF SessionInv, CallsInTabs, Calm, TabOf, Under
  <2>2. \A q \in Refreshes : ~IsOpen(q)
    BY <1>1, <1>2, <1>5, <2>1 DEF TabOf
  <2>3. QED
    BY <1>a, <1>1, <1>5, <2>2, SentCalm
<1>6. QED
  BY <1>a, <1>1, <1>3, <1>4, <1>5, SentIssued DEF SessionInv

\* A call that is answered 401 joins the refresh of its tab, and begins one only
\* when there is none.
LEMMA DeniedStep ==
  ASSUME SessionInv, NEW c \in ApiCalls, Denied(c)
  PROVE  SessionInv'
<1> USE SessionNames
<1>a. /\ SessionTypeOK /\ CallsInTabs /\ call \in [ApiCalls -> SessionCall]
      /\ call[c].at = "sent"
      /\ c \in Refreshes /\ UNCHANGED <<db, jar, signedIn, reuse>>
  BY SessionTypes DEF SessionInv, Denied
<1>1. PICK d \in ApiCalls :
        /\ InFlight(c) = {} => d = c
        /\ call' = [call EXCEPT ![c].at = "waiting", ![c].awaits = d]
  BY DEF Denied
<1>2. call' = [call EXCEPT ![c] = [call[c] EXCEPT !.at = "waiting", !.awaits = d]]
  BY <1>a, <1>1 DEF SessionCall
<1>3. [call[c] EXCEPT !.at = "waiting", !.awaits = d] \in SessionCall
  BY <1>a DEF SessionCall, Under
<1>4. /\ call' \in [ApiCalls -> SessionCall] /\ (\A e \in ApiCalls \ {c} : call'[e] = call[e])
      /\ call'[c].at = "waiting" /\ call'[c].awaits = d /\ call'[c].tab = call[c].tab
  BY <1>a, <1>2, <1>3 DEF SessionCall
<1>5. ~IsOpen(c)
  BY <1>a DEF CallsInTabs
<1>6. CASE InFlight(c) = {}
  <2>1. Sent(c) /\ d = c
    BY <1>1, <1>6 DEF Denied
  <2>2. /\ req' \in [Refreshes -> SessionRequest] /\ OthersStay(c) /\ cause' \in BOOLEAN
        /\ ~cause' => ~cause /\ \A q \in Refreshes : IsOpen(q) => TabOf(q) = call[c].tab
    BY <1>a, <2>1, SentSteps DEF TabOf
  <2>3. SessionTypeOK'
    BY <1>a, <1>4, <2>2 DEF SessionTypeOK, SessionRequest, SessionCall
  <2>4. CallsInTabs'
    BY <1>a, <1>4, <2>1, <2>2 DEF CallsInTabs, IsOpen, OthersStay, Under
  <2>5. ASSUME ~cause' PROVE Calm'
    <3>1. call[c].tab \in signedIn
      BY <1>a, <2>2, <2>5 DEF SessionInv, Calm, Under
    <3>2. \A q \in Refreshes : ~IsOpen(q)
      BY <1>6, <2>2, <2>5, <3>1 DEF SessionInv, Calm, TabOf, InFlight
    <3>3. \A e \in ApiCalls : call'[e].at \in Under =>
                             call[e].at \in Under /\ call'[e].tab = call[e].tab
      BY <1>a, <1>4 DEF Under
    <3>4. QED
      BY <1>a, <2>1, <2>5, <3>2, <3>3, SentCalm
  <2>6. QED
    BY <1>a, <2>1, <2>3, <2>4, <2>5, SentIssued DEF SessionInv
<1>7. CASE InFlight(c) # {}
  <2>1. UNCHANGED <<req, cause>>
    BY <1>7 DEF Denied
  <2>2. SessionTypeOK'
    BY <1>a, <1>4, <2>1 DEF SessionTypeOK, SessionCall
  <2>3. CallsInTabs' /\ IssuedOnly'
    BY <1>a, <1>4, <1>5, <2>1 DEF SessionInv, CallsInTabs, IssuedOnly, IsOpen, Under
  <2>4. ASSUME ~cause' PROVE Calm'
    <3>1. Calm /\ \A e \in ApiCalls : call'[e].at \in Under => call'[e].tab \in signedIn
      BY <1>a, <1>4, <2>1, <2>4 DEF SessionInv, Calm, Under
    <3>2. QED
      BY <1>a, <2>1, <3>1 DEF Calm, IsOpen
  <2>5. QED
    BY <2>2, <2>3, <2>4 DEF SessionInv
<1>8. QED
  BY <1>6, <1>7

\* A call is posted with the token of its tab.
LEMMA PostStep ==
  ASSUME SessionInv, NEW c \in ApiCalls, NEW t \in Tabs, Post(c, t)
  PROVE  SessionInv'
<1> USE SessionNames
<1>a. /\ SessionTypeOK /\ CallsInTabs /\ call \in [ApiCalls -> SessionCall]
      /\ call[c].at = "idle"
      /\ t \in signedIn /\ UNCHANGED <<db, jar, signedIn, req, cause, reuse>>
  BY SessionTypes DEF SessionInv, Post
<1>1. [at |-> "sent", tab |-> t, awaits |-> Nothing] \in SessionCall
  BY DEF SessionCall, Under
<1>2. call' = [call EXCEPT ![c] = [at |-> "sent", tab |-> t, awaits |-> Nothing]]
  BY DEF Post
<1>3. /\ call' \in [ApiCalls -> SessionCall] /\ (\A e \in ApiCalls \ {c} : call'[e] = call[e])
      /\ call'[c].tab = t /\ ~IsOpen(c)
  BY <1>a, <1>1, <1>2 DEF CallsInTabs
<1>4. SessionTypeOK' /\ CallsInTabs' /\ IssuedOnly'
  BY <1>a, <1>3 DEF SessionInv, SessionTypeOK, SessionCall, CallsInTabs, IssuedOnly, IsOpen
<1>5. ASSUME ~cause' PROVE Calm'
  <2>1. Calm /\ \A e \in ApiCalls : call'[e].at \in Under => call'[e].tab \in signedIn
    BY <1>a, <1>3, <1>5 DEF SessionInv, Calm
  <2>2. QED
    BY <1>a, <2>1 DEF Calm, IsOpen
<1>6. QED
  BY <1>4, <1>5 DEF SessionInv

\* Calls that end, by their answer or with their page, leave their refresh alone.
LEMMA EndsStep ==
  ASSUME SessionInv, call' \in [ApiCalls -> SessionCall],
         UNCHANGED <<db, jar, req, cause, reuse>>, signedIn' \subseteq Tabs,
         \A c \in ApiCalls : call'[c] = call[c] \/ (~IsOpen(c) /\ call'[c].at \notin Under),
         \A t \in signedIn : t \in signedIn' \/ (\A c \in ApiCalls : call[c].tab = t =>
                                                   call'[c].at \notin Under),
         \A t \in signedIn' : t \in signedIn \/ ~IsOpen(t)
  PROVE  SessionInv'
<1>1. SessionTypeOK'
  BY DEF SessionInv, SessionTypeOK, SessionCall
<1>2. CallsInTabs' /\ IssuedOnly'
  BY DEF SessionInv, CallsInTabs, IssuedOnly, IsOpen
<1>3. ASSUME ~cause' PROVE Calm'
  <2>1. Calm
    BY <1>3 DEF SessionInv
  <2>2. \A c \in ApiCalls : call'[c].at \in Under => call'[c].tab \in signedIn'
    BY <2>1 DEF Calm
  <2>3. \A t \in Tabs : IsOpen(t) => t \notin signedIn'
    BY <2>1 DEF Calm
  <2>4. QED
    BY <2>1, <2>2, <2>3 DEF Calm, IsOpen
<1>4. QED
  BY <1>1, <1>2, <1>3 DEF SessionInv

LEMMA AnsweredCallStep ==
  ASSUME SessionInv, NEW c \in ApiCalls, Answered(c)
  PROVE  SessionInv'
<1>a. /\ call \in [ApiCalls -> SessionCall] /\ signedIn \subseteq Tabs /\ CallsInTabs
      /\ call[c].at \in {"sent", "resent"}
      /\ UNCHANGED <<db, jar, signedIn, req, cause, reuse>>
  BY SessionTypes DEF SessionInv, Answered
<1>1. PICK place \in {"ok", "failed"} : call' = [call EXCEPT ![c].at = place]
  BY DEF Answered
<1>2. call' = [call EXCEPT ![c] = [call[c] EXCEPT !.at = place]]
  BY <1>1
<1>3. [call[c] EXCEPT !.at = place] \in SessionCall
  BY <1>a DEF SessionCall
<1>4. /\ call' \in [ApiCalls -> SessionCall] /\ (\A e \in ApiCalls \ {c} : call'[e] = call[e])
      /\ call'[c].at = place
  BY <1>a, <1>2, <1>3 DEF SessionCall
<1>5. ~IsOpen(c) /\ call'[c].at \notin Under
  BY <1>a, <1>4 DEF CallsInTabs, Under
<1>6. QED
  BY <1>a, <1>4, <1>5, EndsStep

LEMMA ReloadStep ==
  ASSUME SessionInv, NEW t \in Tabs, Reload(t)
  PROVE  SessionInv'
<1>a. /\ call \in [ApiCalls -> SessionCall] /\ signedIn \subseteq Tabs
      /\ signedIn' \in {signedIn \cup {t}, signedIn \ {t}}
      /\ \A r \in Refreshes : IsOpen(r) => TabOf(r) # t
      /\ UNCHANGED <<db, jar, req, cause, reuse>>
  BY SessionTypes DEF SessionInv, Reload
<1>1. call' = [c \in ApiCalls |-> IF call[c].tab = t /\ call[c].at \in Under
                               THEN [call[c] EXCEPT !.at = "failed"] ELSE call[c]]
  BY DEF Reload
<1>2. \A c \in ApiCalls : [call[c] EXCEPT !.at = "failed"] \in SessionCall
  BY <1>a DEF SessionCall
<1>3. call' \in [ApiCalls -> SessionCall]
  BY <1>a, <1>1, <1>2
<1>4. \A c \in ApiCalls : call[c].tab = t => call'[c].at \notin Under
  BY <1>a, <1>1 DEF Under, SessionCall
<1>5. \A c \in ApiCalls : call[c].tab = t => ~IsOpen(c)
  BY <1>a, SessionNames DEF TabOf
<1>6. ~IsOpen(t)
  BY <1>a, SessionNames DEF TabOf
<1>7. \A c \in ApiCalls : call'[c] = call[c] \/ (~IsOpen(c) /\ call'[c].at \notin Under)
  BY <1>1, <1>4, <1>5
<1>8. QED
  BY <1>a, <1>3, <1>4, <1>6, <1>7, EndsStep

\* A login brings a new token, and logs in while a refresh is open for a cause only.
LEMMA LoginStep ==
  ASSUME SessionInv, NEW t \in Tabs, Login(t)
  PROVE  SessionInv'
<1> USE SessionNames
<1>a. /\ SessionTypeOK /\ db \in [Tokens -> {"unissued", "live", "revoked"}] /\ ~IsOpen(t)
      /\ signedIn' = signedIn \cup {t} /\ UNCHANGED <<call, req, reuse>>
      /\ cause \in BOOLEAN /\ cause' = (cause \/ \E r \in Refreshes : IsOpen(r))
  BY SessionTypes DEF SessionInv, Login
<1>1. PICK k \in Tokens : Issue(k) /\ jar' = k
  BY DEF Login
<1>2. db' = [db EXCEPT ![k] = "live"]
  BY <1>1 DEF Issue
<1>3. SessionTypeOK'
  BY <1>a, <1>1, <1>2 DEF SessionTypeOK
<1>4. CallsInTabs' /\ IssuedOnly'
  BY <1>a, <1>1, <1>2 DEF SessionInv, CallsInTabs, IssuedOnly, IsOpen
<1>5. ASSUME ~cause' PROVE Calm'
  <2>1. Calm /\ \A q \in Refreshes : req[q].at \notin Open
    BY <1>a, <1>5 DEF SessionInv, IsOpen
  <2>2. QED
    BY <1>a, <1>1, <1>2, <2>1 DEF Calm, IsOpen, Open, InService
<1>6. QED
  BY <1>3, <1>4, <1>5 DEF SessionInv

\* A logout is a cause.
LEMMA LogoutStep ==
  ASSUME SessionInv, NEW t \in Tabs, Logout(t)
  PROVE  SessionInv'
<1> USE SessionNames
<1>a. /\ SessionTypeOK /\ db \in [Tokens -> {"unissued", "live", "revoked"}]
      /\ jar \in Tokens \cup {Nothing} /\ UNCHANGED <<call, req, reuse>> /\ cause' = TRUE
      /\ db' = IF jar = Nothing THEN db ELSE [db EXCEPT ![jar] = "revoked"]
      /\ jar' \in {jar, Nothing} /\ signedIn' \subseteq signedIn
  BY SessionTypes DEF SessionInv, Logout
<1>1. SessionTypeOK'
  BY <1>a DEF SessionTypeOK
<1>2. CallsInTabs'
  BY <1>a DEF SessionInv, CallsInTabs, IsOpen
<1>3. IssuedOnly'
  BY <1>a DEF SessionInv, IssuedOnly
<1>4. QED
  BY <1>a, <1>1, <1>2, <1>3 DEF SessionInv

-----------------------------------------------------------------------------

\* SessionInv is inductive.
LEMMA SessionGoesOn == SessionInv /\ [SessionNext]_session => SessionInv'
<1> SUFFICES ASSUME SessionInv, [SessionNext]_session PROVE SessionInv'
  OBVIOUS
<1>1. CASE UNCHANGED session
  BY <1>1 DEF session, SessionInv, SessionTypeOK, CallsInTabs, IssuedOnly, Calm, IsOpen
<1>2. ASSUME NEW r \in Refreshes, RefreshStep(r) PROVE SessionInv'
  BY <1>2, ReadTokenStep, RevokeAllStep, RevokeOldStep, CreateNewStep, ServiceFailsStep,
     RefreshAnsweredStep, RefreshRefusedStep DEF RefreshStep, Backend, Settles
<1>3. ASSUME NEW c \in ApiCalls, CallStep(c) PROVE SessionInv'
  BY <1>3, PostStep, DeniedStep, AnsweredCallStep DEF CallStep
<1>4. ASSUME NEW t \in Tabs, TabOfBrowserStep(t) PROVE SessionInv'
  BY <1>4, SilentStep, LoginStep, LogoutStep, ReloadStep DEF TabOfBrowserStep
<1>5. QED
  BY <1>1, <1>2, <1>3, <1>4 DEF SessionNext, RefreshStep, CallStep, TabOfBrowserStep

\* Every reachable state of the session satisfies the inductive invariant.
THEOREM SessionInvariance == SessionSpec => []SessionInv
BY SessionStarts, SessionGoesOn, PTL DEF SessionSpec

\* However many calls of a tab are answered 401 at once, their refresh is taken
\* for the reuse of a token only after a refresh of another tab has overlapped,
\* or a failure, a loss, or a logout.
THEOREM SessionsKept == SessionSpec => []SessionsLast
<1>1. SessionInv => SessionsLast
  BY DEF SessionInv, Calm, SessionsLast, ReuseHasCause, SessionTypeOK
<1>2. QED
  BY SessionInvariance, <1>1, PTL

\* The cookie names a revoked token only while the refresh that has revoked it is
\* under way, unless there was one of these causes.
THEOREM CookieIsLive == SessionSpec => []JarIsLive
<1>1. SessionInv => JarIsLive
  BY DEF SessionInv, Calm, JarIsLive, InService
<1>2. QED
  BY SessionInvariance, <1>1, PTL

-----------------------------------------------------------------------------
\* The screens.

Op == [at : {"idle", "asked", "found", "cleared", "done", "refused"},
       kind : {"create", "update", "remove", None},
       id : Ids \cup {None}, text : Texts \cup {None}, cleared : SUBSET Calls]
Row == [text : Texts \cup {None}, members : SUBSET Calls]

\* A call that has a record knows its id.
CallsKnown ==
  \A c \in Calls :
    op[c].at = "done" \/ (op[c].at # "idle" /\ op[c].kind # "create") => op[c].id \in Ids

\* Who had ended when a call began has ended, as has who wrote members.
Past ==
  /\ \A c \in Calls : before[c] \subseteq Ended
  /\ \A i \in Ids : rows[i].members \subseteq Ended

\* What a call that began later has cleared is at least what it could know of.
ClearedKnown ==
  \A c \in Calls : op[c].at = "cleared" =>
    /\ op[c].kind = "update"
    /\ rows[op[c].id].members \cap before[c] \subseteq op[c].cleared

ServiceInv ==
  /\ service.members \in {"none", "locked", "unlocked"}
  /\ ServiceTypeOK /\ CallsKnown /\ Past /\ ClearedKnown /\ MembersOfOneSave

\* The fields of the tab have the types of TypeOK.
TabTypeOK ==
  /\ selected \in Ids \cup {None}
  /\ form \in Form /\ defaults \in Form
  /\ loads \in [Ids -> 0..MaxLoads]
  /\ {saving, removing} \subseteq Calls \cup {None}
  /\ {isLoadingDetail, loadError, hasty, lost} \subseteq BOOLEAN
  /\ drafted \subseteq Calls

\* Who waits for loads has only the selected record loading.
LoadsSelected ==
  ~hasty => \A i \in Ids : loads[i] > 0 => i = selected

\* Where the screen selects what it creates, a draft that has become a record is
\* no longer a draft, and while one is being saved it has not become one.
DraftOnce ==
  screen.selects # "never" /\ ~lost =>
    /\ drafted = {} \/ (selected # None /\ \E c \in Calls : drafted = {c})
    /\ saving # None /\ op[saving].kind = "create" => drafted = {}

TabInv ==
  /\ screen.selects \in {"never", "saved", "created"}
  /\ TabTypeOK
  /\ saving # None => op[saving].at # "idle"
  /\ RightRecord /\ LoadsSelected /\ DraftOnce

\* A fetch that reads what is old, and ends, has missed a change. A query that the
\* hooks invalidate is due for a fetch while it lacks one, unless one is under way.
ViewInv ==
  /\ ListsTypeOK
  /\ fetch = "older" => missed
  /\ Invalidated /\ cache = "older" /\ fetch = "none" => stale \/ missed
  /\ ViewShowsTold

LeftInv == left \subseteq Calls

IInv == ServiceInv /\ TabInv /\ ViewInv /\ LeftInv

-----------------------------------------------------------------------------
\* The services.

LEMMA ServiceTypes ==
  ServiceTypeOK <=> /\ rows \in [Ids -> Row] /\ op \in [Calls -> Op]
                    /\ before \in [Calls -> SUBSET Calls]
BY DEF ServiceTypeOK, Op, Row

\* Any kind of record has one of three services, and one of three screens.
LEMMA KindsKnown ==
  ASSUME NEW k \in Kinds
  PROVE  /\ k[3].members \in {"none", "locked", "unlocked"}
         /\ k[2] \in {"none", "left", "invalidated"}
         /\ k[1].selects \in {"never", "saved", "created"}
BY DEF Kinds, Service, Screen, ActivitiesScreen, AgentsScreen, BranchesScreen,
       CargoesScreen, ClientsScreen, ContactsScreen, CrewScreen, EmailGroupsScreen,
       FlagsScreen, OwnersScreen, PortsScreen, SalesContactsScreen, ServicesScreen,
       ActivitiesHooks, AgentsHooks, BranchesHooks, CargoesHooks, ClientsHooks,
       ContactsHooks, CrewHooks, EmailGroupsHooks, FlagsHooks, OwnersHooks, PortsHooks,
       SalesContactsHooks, ServicesHooks, ShipParticularsHooks, SuppliersHooks,
       ShipParticularsScreen, SuppliersScreen, ActivitiesService, AgentsService,
       BranchesService, CargoesService, ClientsService, ContactsService, CrewService,
       EmailGroupsService, FlagsService, OwnersService, PortsService,
       SalesContactsService, ServicesService, ShipParticularsService,
       SuppliersService

LEMMA ServiceStarts ==
  ASSUME NEW s, s.members \in {"none", "locked", "unlocked"}, ServiceInit(s)
  PROVE  ServiceInv
<1>1. Idle \in Op /\ Idle.at = "idle"
  BY DEF Idle, Op
<1>2. op \in [Calls -> Op] /\ before \in [Calls -> SUBSET Calls]
  BY <1>1 DEF ServiceInit
<1>3. rows \in [Ids -> Row] /\ \A i \in Ids : rows[i].members = {}
  BY DEF ServiceInit, Row
<1>4. \A c \in Calls : op[c].at = "idle" /\ before[c] = {}
  BY <1>1 DEF ServiceInit
<1>5. QED
  BY <1>2, <1>3, <1>4, ServiceTypes
  DEF ServiceInit, ServiceInv, CallsKnown, Past, ClearedKnown, MembersOfOneSave

\* What has ended stays so, and a call keeps its kind.
GoesOn(c) ==
  /\ \A d \in Calls \ {c} : op'[d] = op[d]
  /\ op[c].at \notin {"done", "refused"}
  /\ op[c].at # "idle" => op'[c].at # "idle" /\ op'[c].kind = op[c].kind
CallsGoOn ==
  \A c \in Calls : op[c].at # "idle" => op'[c].at # "idle" /\ op'[c].kind = op[c].kind

LEMMA EndedStay ==
  ASSUME NEW c \in Calls, GoesOn(c)
  PROVE  Ended \subseteq Ended' /\ c \notin Ended /\ CallsGoOn
BY DEF GoesOn, Ended, CallsGoOn

\* A call arrives: all that had ended is before it.
LEMMA AskStep ==
  ASSUME ServiceInv, NEW c \in Calls, NEW kind \in {"create", "update", "remove"},
         NEW i \in Ids \cup {None}, kind # "create" => i \in Ids,
         NEW t \in Texts \cup {None}, Ask(c, kind, i, t)
  PROVE  ServiceInv' /\ CallsGoOn /\ op'[c].at = "asked" /\ op'[c].kind = kind
<1>a. /\ rows \in [Ids -> Row] /\ op \in [Calls -> Op]
      /\ before \in [Calls -> SUBSET Calls]
  BY ServiceTypes DEF ServiceInv
<1> DEFINE new == [at |-> "asked", kind |-> kind, id |-> i, text |-> t, cleared |-> {}]
<1>1. /\ op' = [op EXCEPT ![c] = new] /\ op[c].at = "idle"
      /\ before' = [before EXCEPT ![c] = Ended] /\ service' = service /\ rows' = rows
  BY DEF Ask
<1>2. new \in Op /\ new.at = "asked" /\ new.kind = kind /\ new.id = i
  BY DEF Op
<1> HIDE DEF new
<1>3. op' \in [Calls -> Op] /\ op'[c] = new /\ GoesOn(c)
  BY <1>a, <1>1, <1>2 DEF GoesOn
<1>4. /\ before' \in [Calls -> SUBSET Calls] /\ before'[c] = Ended
      /\ \A d \in Calls \ {c} : before'[d] = before[d]
  BY <1>a, <1>1 DEF Ended
<1>5. Ended \subseteq Ended' /\ c \notin Ended /\ CallsGoOn
  BY <1>3, EndedStay
<1>6. ServiceTypeOK'
  BY <1>a, <1>1, <1>3, <1>4 DEF ServiceTypeOK, Op, Row
<1>7. CallsKnown'
  BY <1>2, <1>3 DEF ServiceInv, CallsKnown, GoesOn
<1>8. Past'
  BY <1>1, <1>3, <1>4, <1>5 DEF ServiceInv, Past
<1>9. ClearedKnown'
  BY <1>1, <1>2, <1>3, <1>4 DEF ServiceInv, ClearedKnown, GoesOn
<1>10. MembersOfOneSave'
  \* c has written nothing yet.
  <2>1. \A j \in Ids : c \notin rows[j].members /\ rows[j].members \subseteq Calls
    BY <1>a, <1>5 DEF ServiceInv, Past, Row
  <2>2. QED
    BY <1>1, <1>4, <2>1 DEF ServiceInv, MembersOfOneSave
<1>11. QED
  BY <1>1, <1>2, <1>3, <1>5, <1>6, <1>7, <1>8, <1>9, <1>10 DEF ServiceInv

\* A call goes on without a write.
LEMMA GotoStep ==
  ASSUME ServiceInv, NEW c \in Calls, NEW next \in {"found", "refused"},
         op[c].at \in {"asked", "found", "cleared"},
         next = "found" => op[c].kind # "create",
         Goto(c, next), UNCHANGED service, UNCHANGED rows, UNCHANGED before
  PROVE  ServiceInv' /\ CallsGoOn
<1>a. /\ rows \in [Ids -> Row] /\ op \in [Calls -> Op]
      /\ before \in [Calls -> SUBSET Calls]
  BY ServiceTypes DEF ServiceInv
<1>1. op' = [op EXCEPT ![c] = [op[c] EXCEPT !.at = next]]
  BY DEF Goto
<1>2. [op[c] EXCEPT !.at = next] \in Op
  BY <1>a DEF Op
<1>3. /\ op' \in [Calls -> Op] /\ op'[c].at = next /\ op'[c].kind = op[c].kind
      /\ op'[c].id = op[c].id /\ GoesOn(c)
  BY <1>a, <1>1, <1>2 DEF GoesOn, Op
<1>4. Ended \subseteq Ended' /\ c \notin Ended /\ CallsGoOn
  BY <1>3, EndedStay
<1>5. ServiceTypeOK'
  BY <1>a, <1>3 DEF ServiceTypeOK, Op, Row
<1>6. CallsKnown'
  BY <1>3 DEF ServiceInv, CallsKnown, GoesOn
<1>7. Past' /\ MembersOfOneSave'
  BY <1>4 DEF ServiceInv, Past, MembersOfOneSave
<1>8. ClearedKnown'
  BY <1>3 DEF ServiceInv, ClearedKnown, GoesOn
<1>9. QED
  BY <1>4, <1>5, <1>6, <1>7, <1>8 DEF ServiceInv

\* Members are cleared: every one there is.
LEMMA ClearMembersStep ==
  ASSUME ServiceInv, NEW c \in Calls, ClearMembers(c)
  PROVE  ServiceInv' /\ CallsGoOn
<1>a. /\ rows \in [Ids -> Row] /\ op \in [Calls -> Op]
      /\ before \in [Calls -> SUBSET Calls]
  BY ServiceTypes DEF ServiceInv
<1>b. op[c].at = "found" /\ op[c].kind = "update" /\ op[c].id \in Ids
  BY DEF ServiceInv, ClearMembers, CallsKnown
<1> DEFINE new == [op[c] EXCEPT !.at = "cleared", !.cleared = rows[op[c].id].members]
<1>1. /\ op' = [op EXCEPT ![c] = new] /\ service' = service /\ rows' = rows
      /\ before' = before
  BY DEF ClearMembers
<1>2. /\ new \in Op /\ new.at = "cleared" /\ new.kind = op[c].kind /\ new.id = op[c].id
      /\ new.cleared = rows[op[c].id].members
  BY <1>a, <1>b DEF Op, Row
<1> HIDE DEF new
<1>3. op' \in [Calls -> Op] /\ op'[c] = new /\ GoesOn(c)
  BY <1>a, <1>b, <1>1, <1>2 DEF GoesOn
<1>4. Ended \subseteq Ended' /\ c \notin Ended /\ CallsGoOn
  BY <1>3, EndedStay
<1>5. ServiceTypeOK'
  BY <1>a, <1>1, <1>3 DEF ServiceTypeOK, Op, Row
<1>6. CallsKnown'
  BY <1>b, <1>2, <1>3 DEF ServiceInv, CallsKnown, GoesOn
<1>7. Past' /\ MembersOfOneSave'
  BY <1>1, <1>4 DEF ServiceInv, Past, MembersOfOneSave
<1>8. ClearedKnown'
  BY <1>b, <1>1, <1>2, <1>3 DEF ServiceInv, ClearedKnown, GoesOn
<1>9. QED
  BY <1>1, <1>4, <1>5, <1>6, <1>7, <1>8 DEF ServiceInv

\* A call writes a row: of what those who have cleared it know of, it adds only
\* itself, and those who have a part in the row then have it by right.
LEMMA WriteStep ==
  ASSUME ServiceInv, NEW c \in Calls, NEW i \in Ids,
         rows' \in [Ids -> Row], \A j \in Ids \ {i} : rows'[j] = rows[j],
         op' \in [Calls -> Op], GoesOn(c),
         op'[c].at = "done", op'[c].id = i, UNCHANGED service, UNCHANGED before,
         \A d \in Calls : op[d].at = "cleared" /\ op[d].id = i =>
           rows'[i].members \subseteq rows[i].members \cup {c},
         rows'[i].members \subseteq Ended \cup {c},
         \A d, e \in rows'[i].members :
           d # e => /\ service.members = "unlocked"
                    /\ d \notin before[e] /\ e \notin before[d]
  PROVE  ServiceInv' /\ CallsGoOn
<1>a. /\ rows \in [Ids -> Row] /\ op \in [Calls -> Op]
      /\ before \in [Calls -> SUBSET Calls]
  BY ServiceTypes DEF ServiceInv
<1>1. Ended \subseteq Ended' /\ c \notin Ended /\ CallsGoOn /\ c \in Ended'
  BY EndedStay DEF Ended
<1>2. ServiceTypeOK'
  BY <1>a DEF ServiceTypeOK, Op, Row
<1>3. CallsKnown'
  BY DEF ServiceInv, CallsKnown, GoesOn
<1>4. Past'
  BY <1>1 DEF ServiceInv, Past
<1>5. ClearedKnown'
  <2> SUFFICES ASSUME NEW d \in Calls, op'[d].at = "cleared"
               PROVE  /\ op'[d].kind = "update"
                      /\ rows'[op'[d].id].members \cap before'[d] \subseteq op'[d].cleared
    BY DEF ClearedKnown
  <2>1. d # c /\ op'[d] = op[d] /\ op[d].id \in Ids
    BY DEF GoesOn, ServiceInv, CallsKnown, ClearedKnown
  <2>2. /\ op[d].kind = "update"
        /\ rows[op[d].id].members \cap before[d] \subseteq op[d].cleared
    BY <2>1 DEF ServiceInv, ClearedKnown
  <2>3. c \notin before[d]
    BY <1>1 DEF ServiceInv, Past
  <2>4. rows'[op[d].id].members \subseteq rows[op[d].id].members \cup {c}
    BY <2>1
  <2>5. QED
    BY <2>1, <2>2, <2>3, <2>4
<1>6. MembersOfOneSave'
  BY DEF ServiceInv, MembersOfOneSave
<1>7. QED
  BY <1>1, <1>2, <1>3, <1>4, <1>5, <1>6 DEF ServiceInv

\* A row is written.
LEMMA RowWritten ==
  ASSUME ServiceInv, NEW i \in Ids, NEW row \in Row, rows' = [rows EXCEPT ![i] = row]
  PROVE  /\ rows' \in [Ids -> Row] /\ rows'[i] = row
         /\ \A j \in Ids \ {i} : rows'[j] = rows[j]
BY ServiceTypes DEF ServiceInv

\* Members that were not cleared are of calls that overlapped this one.
LEMMA UpdateStep ==
  ASSUME ServiceInv, NEW c \in Calls, Update(c)
  PROVE  ServiceInv' /\ CallsGoOn
<1>a. /\ rows \in [Ids -> Row] /\ op \in [Calls -> Op]
      /\ before \in [Calls -> SUBSET Calls]
      /\ service.members \in {"none", "locked", "unlocked"}
  BY ServiceTypes DEF ServiceInv
<1>b. /\ op[c].kind = "update" /\ op[c].id \in Ids
      /\ op[c].at = IF service.members = "unlocked" THEN "cleared" ELSE "found"
      /\ UNCHANGED service /\ UNCHANGED before
  BY DEF ServiceInv, Update, CallsKnown
<1> DEFINE i == op[c].id
           row == [text |-> op[c].text, members |-> Replaced(c)]
<1>1. CASE Goto(c, "refused") /\ UNCHANGED rows
  BY <1>b, <1>1, GotoStep
<1>2. CASE rows' = [rows EXCEPT ![i] = row] /\ Goto(c, "done")
  <2>1. op' = [op EXCEPT ![c] = [op[c] EXCEPT !.at = "done"]]
    BY <1>2 DEF Goto
  <2>2. [op[c] EXCEPT !.at = "done"] \in Op
    BY <1>a DEF Op
  <2>3. /\ op' \in [Calls -> Op] /\ op'[c].at = "done" /\ op'[c].id = i /\ GoesOn(c)
        /\ op[c].at # "idle"
    BY <1>a, <1>b, <2>1, <2>2 DEF GoesOn, Op
  <2>4. c \notin Ended
    BY <1>b DEF Ended
  <2>5. /\ Replaced(c) \subseteq rows[i].members \cup {c}
        /\ \A d, e \in Replaced(c) :
             d # e => /\ service.members = "unlocked"
                      /\ d \notin before[e] /\ e \notin before[d]
    <3>1. CASE service.members = "none"
      BY <3>1 DEF Replaced
    <3>2. CASE service.members = "locked"
      BY <3>2 DEF Replaced
    <3>3. CASE service.members = "unlocked"
      <4>1. Replaced(c) = (rows[i].members \ op[c].cleared) \cup {c}
        BY <3>3 DEF Replaced
      <4>2. \A d \in rows[i].members \ op[c].cleared :
              /\ d \notin before[c] /\ c \notin before[d] /\ d \in Calls
        BY <1>a, <1>b, <2>4, <3>3 DEF ServiceInv, ClearedKnown, Past, Row
      <4>3. QED
        BY <1>b, <3>3, <4>1, <4>2 DEF ServiceInv, MembersOfOneSave
    <3>4. QED
      BY <1>a, <3>1, <3>2, <3>3
  <2>6. row \in Row /\ row.members = Replaced(c)
    BY <1>a, <1>b, <2>5 DEF Row, Op
  <2>7. row.members \subseteq Ended \cup {c}
    BY <1>b, <2>5, <2>6 DEF ServiceInv, Past
  <2>8. /\ rows' \in [Ids -> Row] /\ rows'[i] = row
        /\ \A j \in Ids \ {i} : rows'[j] = rows[j]
    BY <1>b, <1>2, <2>6, RowWritten
  <2> HIDE DEF row
  <2>9. QED
    BY <1>b, <2>3, <2>5, <2>6, <2>7, <2>8, WriteStep
<1>3. QED
  BY <1>1, <1>2 DEF Update

\* The members of a new row are those of its creation.
LEMMA CreateStep ==
  ASSUME ServiceInv, NEW c \in Calls, Create(c)
  PROVE  ServiceInv' /\ CallsGoOn
<1>a. /\ rows \in [Ids -> Row] /\ op \in [Calls -> Op]
      /\ before \in [Calls -> SUBSET Calls]
  BY ServiceTypes DEF ServiceInv
<1>b. op[c].at = "asked" /\ UNCHANGED service /\ UNCHANGED before
  BY DEF Create
<1> DEFINE row == [text |-> op[c].text,
                   members |-> IF service.members = "none" THEN {} ELSE {c}]
<1>1. PICK i \in Ids : /\ \A d \in Calls : op[d].id # i
                       /\ rows' = [rows EXCEPT ![i] = row]
                       /\ op' = [op EXCEPT ![c].at = "done", ![c].id = i]
  BY DEF Create
<1>2. op' = [op EXCEPT ![c] = [op[c] EXCEPT !.at = "done", !.id = i]]
  BY <1>1
<1>3. [op[c] EXCEPT !.at = "done", !.id = i] \in Op
  BY <1>a, <1>1 DEF Op
<1>4. op' \in [Calls -> Op] /\ op'[c].at = "done" /\ op'[c].id = i /\ GoesOn(c)
  BY <1>a, <1>b, <1>2, <1>3 DEF GoesOn, Op
<1>5. row \in Row /\ row.members \subseteq {c}
  BY <1>a DEF Row, Op
<1>6. \A d, e \in row.members : d = e
  BY <1>5
<1>7. /\ rows' \in [Ids -> Row] /\ rows'[i] = row
      /\ \A j \in Ids \ {i} : rows'[j] = rows[j]
  BY <1>1, <1>5, RowWritten
<1> HIDE DEF row
<1>8. QED
  BY <1>b, <1>1, <1>4, <1>5, <1>6, <1>7, WriteStep

LEMMA RemoveStep ==
  ASSUME ServiceInv, NEW c \in Calls, Remove(c)
  PROVE  ServiceInv' /\ CallsGoOn
<1>a. op \in [Calls -> Op] /\ op[c].at = "found" /\ op[c].kind = "remove"
      /\ op[c].id \in Ids /\ UNCHANGED service /\ UNCHANGED before
  BY ServiceTypes DEF ServiceInv, Remove, CallsKnown
<1>1. rows' = [rows EXCEPT ![op[c].id] = Absent] /\ Goto(c, "done")
  BY DEF Remove
<1>2. op' = [op EXCEPT ![c] = [op[c] EXCEPT !.at = "done"]]
  BY <1>1 DEF Goto
<1>3. [op[c] EXCEPT !.at = "done"] \in Op
  BY <1>a DEF Op
<1>4. op' \in [Calls -> Op] /\ op'[c].at = "done" /\ op'[c].id = op[c].id /\ GoesOn(c)
  BY <1>a, <1>2, <1>3 DEF GoesOn, Op
<1>5. Absent \in Row /\ Absent.members = {}
  BY DEF Absent, Row
<1>6. /\ rows' \in [Ids -> Row] /\ rows'[op[c].id] = Absent
      /\ \A j \in Ids \ {op[c].id} : rows'[j] = rows[j]
  BY <1>a, <1>1, <1>5, RowWritten
<1>7. QED
  BY <1>a, <1>4, <1>5, <1>6, WriteStep

LEMMA ServiceStepKeeps ==
  ASSUME ServiceInv, NEW c \in Calls, ServiceStep(c)
  PROVE  ServiceInv' /\ CallsGoOn
<1>1. CASE AssertExists(c)
  <2>1. PICK next \in {"found", "refused"} : Goto(c, next)
    BY <1>1 DEF AssertExists
  <2>2. QED
    BY <1>1, <2>1, GotoStep DEF AssertExists
<1>2. CASE Refused(c)
  BY <1>2, GotoStep DEF Refused
<1>3. QED
  BY <1>1, <1>2, ClearMembersStep, UpdateStep, CreateStep, RemoveStep DEF ServiceStep

-----------------------------------------------------------------------------
\* The tab.

\* What the services do changes nothing in the tab.
LEMMA TabStays ==
  ASSUME TabInv, CallsGoOn, UNCHANGED screen, UNCHANGED tab, UNCHANGED lost
  PROVE  TabInv'
<1>1. /\ UNCHANGED screen /\ UNCHANGED selected /\ UNCHANGED form /\ UNCHANGED defaults
      /\ UNCHANGED drafted /\ UNCHANGED loads /\ UNCHANGED isLoadingDetail
      /\ UNCHANGED loadError /\ UNCHANGED hasty /\ UNCHANGED saving /\ UNCHANGED removing
  BY DEF tab, filled, loader
<1>2. TabTypeOK' /\ RightRecord' /\ LoadsSelected'
  BY <1>1 DEF TabInv, TabTypeOK, RightRecord, LoadsSelected, Loading
<1>3. saving # None => saving \in Calls /\ op[saving].at # "idle"
  BY DEF TabInv, TabTypeOK
<1>4. (saving # None => op[saving].at # "idle")' /\ DraftOnce'
  BY <1>1, <1>3 DEF TabInv, DraftOnce, CallsGoOn
<1>5. QED
  BY <1>1, <1>2, <1>4 DEF TabInv

LEMMA CallsStay ==
  ASSUME UNCHANGED backend
  PROVE  (ServiceInv => ServiceInv') /\ CallsGoOn
BY DEF backend, ServiceInv, ServiceTypeOK, CallsKnown, Past, ClearedKnown, Ended,
       MembersOfOneSave, CallsGoOn

\* Records are loaded.
LEMMA Loads ==
  ASSUME TabInv, NEW i \in Ids, NEW error \in BOOLEAN, Load(i, error)
  PROVE  /\ loads' \in [Ids -> 0..MaxLoads] /\ Loading'
         /\ \A j \in Ids : loads'[j] > 0 => j = i \/ loads[j] > 0
         /\ isLoadingDetail' \in BOOLEAN /\ loadError' \in BOOLEAN
<1>1. loads \in [Ids -> 0..MaxLoads] /\ loads[i] < MaxLoads
  BY DEF TabInv, TabTypeOK, Load
<1>2. loads' = [loads EXCEPT ![i] = loads[i] + 1]
  BY DEF Load
<1>3. loads[i] + 1 \in 0..MaxLoads /\ loads[i] + 1 > 0
  BY <1>1, LoadsAssumption
<1>4. QED
  BY <1>1, <1>2, <1>3 DEF Load, Loading

\* The new values have the owner the form of a new record may have.
LEMMA NewForms ==
  ASSUME TabInv
  PROVE  /\ NewValues \in Form /\ (screen.clears => NewValues.of = None)
BY DEF TabInv, TabTypeOK, NewValues, Form, Blank

LEMMA SelectsNone ==
  ASSUME TabInv, SelectNone, UNCHANGED screen, UNCHANGED saving, UNCHANGED lost,
         UNCHANGED op, removing' \in Calls \cup {None}
  PROVE  TabInv'
<1>1. /\ selected' = None /\ loadError' = FALSE /\ form' = NewValues
      /\ defaults' = NewValues /\ drafted' = {} /\ hasty' = Loading
      /\ UNCHANGED loads /\ UNCHANGED isLoadingDetail
  BY DEF SelectNone, Reset
<1>2. TabTypeOK'
  BY <1>1, NewForms DEF TabInv, TabTypeOK, Loading
<1>3. RightRecord'
  BY <1>1, NewForms DEF RightRecord
<1>4. LoadsSelected'
  BY <1>1 DEF LoadsSelected, Loading
<1>5. DraftOnce'
  BY <1>1 DEF DraftOnce
<1>6. QED
  BY <1>2, <1>3, <1>4, <1>5 DEF TabInv

\* A record is selected: what the form shows, and whose loads are awaited.
LEMMA SelectsRecord ==
  ASSUME TabInv, NEW i \in Ids, SelectRecord(i), UNCHANGED screen
  PROVE  /\ selected' = i
         /\ form' = form /\ defaults' = defaults
         /\ loads' \in [Ids -> 0..MaxLoads]
         /\ {isLoadingDetail', loadError', hasty'} \subseteq BOOLEAN
         /\ RightRecord' /\ LoadsSelected'
<1>1. CASE i = selected
  <2>1. /\ UNCHANGED selected /\ UNCHANGED form /\ UNCHANGED defaults /\ UNCHANGED loads
        /\ UNCHANGED isLoadingDetail /\ UNCHANGED loadError /\ UNCHANGED hasty
    BY <1>1 DEF SelectRecord, loader
  <2>2. QED
    BY <1>1, <2>1 DEF TabInv, TabTypeOK, RightRecord, LoadsSelected, Loading
<1>2. CASE i # selected
  <2>1. /\ selected' = i /\ Load(i, FALSE) /\ hasty' = Loading
        /\ form' = form /\ defaults' = defaults
    BY <1>2 DEF SelectRecord
  <2>2. /\ loads' \in [Ids -> 0..MaxLoads] /\ Loading'
        /\ \A j \in Ids : loads'[j] > 0 => j = i \/ loads[j] > 0
        /\ isLoadingDetail' \in BOOLEAN /\ loadError' \in BOOLEAN
    BY <2>1, Loads
  <2>3. RightRecord'
    BY <2>2 DEF RightRecord
  <2>4. LoadsSelected' /\ hasty' \in BOOLEAN
    BY <2>1, <2>2 DEF LoadsSelected, Loading
  <2>5. QED
    BY <2>1, <2>2, <2>3, <2>4
<1>3. QED
  BY <1>1, <1>2

LEMMA SelectStep ==
  ASSUME TabInv, NEW i \in Ids, Select(i)
  PROVE  TabInv'
<1>1. /\ SelectRecord(i) /\ UNCHANGED screen /\ UNCHANGED op /\ UNCHANGED drafted
      /\ UNCHANGED saving /\ UNCHANGED removing /\ UNCHANGED lost
  BY DEF Select, backend
<1>2. /\ selected' = i /\ form' = form /\ defaults' = defaults
      /\ loads' \in [Ids -> 0..MaxLoads]
      /\ {isLoadingDetail', loadError', hasty'} \subseteq BOOLEAN
      /\ RightRecord' /\ LoadsSelected'
  BY <1>1, SelectsRecord
<1>3. TabTypeOK'
  BY <1>1, <1>2 DEF TabInv, TabTypeOK
<1>4. DraftOnce'
  BY <1>1, <1>2, ServiceAssumption DEF TabInv, DraftOnce
<1>5. QED
  BY <1>1, <1>2, <1>3, <1>4 DEF TabInv

LEMMA EditStep ==
  ASSUME TabInv, Edit
  PROVE  TabInv'
<1>1. PICK t \in Texts \cup {None} : form' = [form EXCEPT !.text = t]
  BY DEF Edit
<1>2. /\ UNCHANGED screen /\ UNCHANGED op /\ UNCHANGED selected /\ UNCHANGED defaults
      /\ UNCHANGED loads /\ UNCHANGED isLoadingDetail /\ UNCHANGED loadError
      /\ UNCHANGED hasty /\ UNCHANGED saving /\ UNCHANGED removing /\ UNCHANGED lost
      /\ drafted' = {}
  BY DEF Edit, backend, loader
<1>3. form' \in Form /\ form'.of = form.of
  BY <1>1 DEF TabInv, TabTypeOK, Form
<1>4. TabTypeOK'
  BY <1>2, <1>3 DEF TabInv, TabTypeOK
<1>5. RightRecord' /\ LoadsSelected'
  BY <1>2, <1>3 DEF TabInv, RightRecord, LoadsSelected, Loading
<1>6. QED
  BY <1>2, <1>4, <1>5 DEF TabInv, DraftOnce

LEMMA CancelStep ==
  ASSUME TabInv, Cancel
  PROVE  TabInv'
<1>1. /\ UNCHANGED screen /\ UNCHANGED op /\ UNCHANGED selected /\ UNCHANGED saving
      /\ UNCHANGED removing /\ UNCHANGED lost
  BY DEF Cancel, backend
<1>2. CASE selected # None
  <2>1. /\ Load(selected, loadError) /\ hasty' = (hasty \/ Loading)
        /\ form' = form /\ defaults' = defaults /\ drafted' = drafted
    BY <1>2 DEF Cancel, filled
  <2>2. /\ loads' \in [Ids -> 0..MaxLoads] /\ Loading'
        /\ \A j \in Ids : loads'[j] > 0 => j = selected \/ loads[j] > 0
        /\ isLoadingDetail' \in BOOLEAN /\ loadError' \in BOOLEAN
    BY <1>2, <2>1, Loads DEF TabInv, TabTypeOK
  <2>3. TabTypeOK'
    BY <1>1, <2>1, <2>2 DEF TabInv, TabTypeOK, Loading
  <2>4. RightRecord' /\ LoadsSelected'
    BY <1>1, <2>1, <2>2 DEF TabInv, RightRecord, LoadsSelected, Loading
  <2>5. QED
    BY <1>1, <2>1, <2>3, <2>4 DEF TabInv, DraftOnce
<1>3. CASE selected = None
  <2>1. /\ form' = NewValues /\ defaults' = NewValues /\ drafted' = {}
        /\ UNCHANGED loads /\ UNCHANGED isLoadingDetail /\ UNCHANGED loadError
        /\ UNCHANGED hasty
    BY <1>3 DEF Cancel, Reset, loader
  <2>2. TabTypeOK'
    BY <1>1, <2>1, NewForms DEF TabInv, TabTypeOK
  <2>3. RightRecord' /\ LoadsSelected'
    BY <1>1, <1>3, <2>1, NewForms DEF TabInv, RightRecord, LoadsSelected, Loading
  <2>4. QED
    BY <1>1, <2>1, <2>2, <2>3 DEF TabInv, DraftOnce
<1>4. QED
  BY <1>2, <1>3

\* A load ends: it was of the selected record, for who has waited.
LEMMA LoadsEnd ==
  ASSUME TabInv, NEW i \in Ids, LoadEnds(i)
  PROVE  /\ loads' \in [Ids -> 0..MaxLoads]
         /\ \A j \in Ids : loads'[j] > 0 => loads[j] > 0
         /\ Loading /\ (~hasty => i = selected) /\ isLoadingDetail' = FALSE
<1>1. loads \in [Ids -> 0..MaxLoads] /\ loads[i] > 0
  BY DEF TabInv, TabTypeOK, LoadEnds
<1>2. loads' = [loads EXCEPT ![i] = loads[i] - 1]
  BY DEF LoadEnds
<1>3. loads[i] - 1 \in 0..MaxLoads
  BY <1>1, LoadsAssumption
<1>4. QED
  BY <1>1, <1>2, <1>3 DEF LoadEnds, Loading, TabInv, LoadsSelected

LEMMA LoadedStep ==
  ASSUME TabInv, NEW i \in Ids, Loaded(i)
  PROVE  TabInv'
<1>1. PICK t \in Texts : Reset([of |-> i, text |-> t])
  BY DEF Loaded
<1>2. /\ UNCHANGED screen /\ UNCHANGED op /\ UNCHANGED selected /\ UNCHANGED loadError
      /\ UNCHANGED saving /\ UNCHANGED removing /\ UNCHANGED hasty /\ UNCHANGED lost
      /\ LoadEnds(i)
  BY DEF Loaded, backend
<1>3. /\ form' \in Form /\ form'.of = i /\ defaults' \in Form /\ drafted' = {}
  BY <1>1 DEF Reset, Form
<1>4. /\ loads' \in [Ids -> 0..MaxLoads]
      /\ \A j \in Ids : loads'[j] > 0 => loads[j] > 0
      /\ (~hasty => i = selected) /\ isLoadingDetail' = FALSE
  BY <1>2, LoadsEnd
<1>5. TabTypeOK'
  BY <1>2, <1>3, <1>4 DEF TabInv, TabTypeOK
<1>6. RightRecord' /\ LoadsSelected'
  BY <1>2, <1>3, <1>4 DEF TabInv, RightRecord, LoadsSelected
<1>7. QED
  BY <1>2, <1>3, <1>5, <1>6 DEF TabInv, DraftOnce

\* The form keeps what it shows, and says so.
LEMMA LoadFailsStep ==
  ASSUME TabInv, NEW i \in Ids, LoadFails(i)
  PROVE  TabInv'
<1>1. /\ UNCHANGED screen /\ UNCHANGED op /\ UNCHANGED selected /\ UNCHANGED form
      /\ UNCHANGED defaults /\ UNCHANGED drafted /\ UNCHANGED saving
      /\ UNCHANGED removing /\ UNCHANGED hasty /\ UNCHANGED lost
      /\ LoadEnds(i) /\ loadError' = TRUE
  BY DEF LoadFails, ShowsFailure, backend, filled
<1>2. /\ loads' \in [Ids -> 0..MaxLoads]
      /\ \A j \in Ids : loads'[j] > 0 => loads[j] > 0
      /\ isLoadingDetail' = FALSE
  BY <1>1, LoadsEnd
<1>3. TabTypeOK'
  BY <1>1, <1>2 DEF TabInv, TabTypeOK
<1>4. RightRecord' /\ LoadsSelected'
  BY <1>1, <1>2 DEF TabInv, RightRecord, LoadsSelected
<1>5. QED
  BY <1>1, <1>3, <1>4 DEF TabInv, DraftOnce

\* What is saved is a draft only if nothing is selected, and so it is no record.
LEMMA AcceptStep ==
  ASSUME ServiceInv, TabInv, NEW c \in Calls, Accept(c)
  PROVE  ServiceInv' /\ TabInv'
<1> DEFINE kind == IF selected = None THEN "create" ELSE "update"
<1>1. /\ Ask(c, kind, selected, form.text) /\ saving' = c /\ saving = None
      /\ UNCHANGED screen /\ UNCHANGED selected /\ UNCHANGED form /\ UNCHANGED defaults
      /\ UNCHANGED drafted /\ UNCHANGED loads /\ UNCHANGED isLoadingDetail
      /\ UNCHANGED loadError /\ UNCHANGED hasty /\ UNCHANGED removing /\ UNCHANGED lost
  BY DEF Accept, filled, loader
<1>2. /\ selected \in Ids \cup {None} /\ (kind # "create" => selected \in Ids)
      /\ form.text \in Texts \cup {None}
      /\ kind \in {"create", "update", "remove"} /\ (kind = "create" => selected = None)
  BY DEF TabInv, TabTypeOK, Form
<1> HIDE DEF kind
<1>3. ServiceInv' /\ op'[c].at = "asked" /\ op'[c].kind = kind
  BY <1>1, <1>2, AskStep
<1>4. TabTypeOK' /\ RightRecord' /\ LoadsSelected'
  BY <1>1 DEF TabInv, TabTypeOK, RightRecord, LoadsSelected, Loading
<1>5. DraftOnce'
  BY <1>1, <1>2, <1>3 DEF TabInv, DraftOnce
<1>6. QED
  BY <1>1, <1>3, <1>4, <1>5 DEF TabInv

LEMMA DeleteStep ==
  ASSUME ServiceInv, TabInv, NEW c \in Calls, Delete(c)
  PROVE  ServiceInv' /\ TabInv'
<1>1. /\ Ask(c, "remove", selected, None) /\ removing' = c /\ selected # None
      /\ UNCHANGED screen /\ UNCHANGED selected /\ UNCHANGED form /\ UNCHANGED defaults
      /\ UNCHANGED drafted /\ UNCHANGED loads /\ UNCHANGED isLoadingDetail
      /\ UNCHANGED loadError /\ UNCHANGED hasty /\ UNCHANGED saving /\ UNCHANGED lost
  BY DEF Delete, filled, loader
<1>2. ServiceInv' /\ CallsGoOn
  BY <1>1, AskStep DEF TabInv, TabTypeOK
<1>3. TabTypeOK' /\ RightRecord' /\ LoadsSelected'
  BY <1>1 DEF TabInv, TabTypeOK, RightRecord, LoadsSelected, Loading
<1>4. saving # None => saving \in Calls /\ op[saving].at # "idle"
  BY DEF TabInv, TabTypeOK
<1>5. (saving # None => op[saving].at # "idle")' /\ DraftOnce'
  BY <1>1, <1>2, <1>4 DEF TabInv, DraftOnce, CallsGoOn
<1>6. QED
  BY <1>1, <1>2, <1>3, <1>5 DEF TabInv

LEMMA ColleagueStep ==
  ASSUME ServiceInv, NEW c \in Calls, Colleague(c)
  PROVE  ServiceInv' /\ CallsGoOn
BY AskStep DEF Colleague

\* What the draft has become a record by.
LEMMA DraftsOne ==
  ASSUME TabInv, saving # None, Drafts(saving)
  PROVE  /\ saving \in Calls /\ drafted' \subseteq Calls
         /\ op[saving].kind # "create" => drafted' = drafted
         /\ op[saving].at # "done" => drafted' = drafted
         /\ drafted = {} => drafted' = {} \/ drafted' = {saving}
BY DEF TabInv, TabTypeOK, Drafts

\* A draft that was created is selected, where the screen selects.
LEMMA SavedStep ==
  ASSUME ServiceInv, TabInv, Saved
  PROVE  TabInv'
<1>1. /\ saving # None /\ op[saving].at = "done" /\ saving' = None /\ Drafts(saving)
      /\ UNCHANGED screen /\ UNCHANGED removing /\ UNCHANGED lost
  BY DEF Saved
<1>2. saving \in Calls /\ op[saving].id \in Ids
  BY <1>1, DraftsOne DEF ServiceInv, CallsKnown
<1>3. /\ form' = form /\ defaults' = defaults
      /\ loads' \in [Ids -> 0..MaxLoads] /\ selected' \in Ids \cup {None}
      /\ {isLoadingDetail', loadError', hasty'} \subseteq BOOLEAN
      /\ RightRecord' /\ LoadsSelected'
      /\ (Selects(saving) => selected' = op[saving].id)
      /\ (~Selects(saving) => selected' = selected)
  <2>1. CASE Selects(saving)
    BY <1>1, <1>2, <2>1, SelectsRecord DEF Saved
  <2>2. CASE ~Selects(saving)
    <3>1. /\ UNCHANGED selected /\ UNCHANGED form /\ UNCHANGED defaults
          /\ UNCHANGED loads /\ UNCHANGED isLoadingDetail /\ UNCHANGED loadError
          /\ UNCHANGED hasty
      BY <2>2 DEF Saved, loader
    <3>2. QED
      BY <1>1, <2>2, <3>1 DEF TabInv, TabTypeOK, RightRecord, LoadsSelected, Loading
  <2>3. QED
    BY <2>1, <2>2
<1>4. TabTypeOK'
  BY <1>1, <1>3, DraftsOne DEF TabInv, TabTypeOK
<1>5. DraftOnce'
  <2> SUFFICES ASSUME screen.selects # "never", ~lost
               PROVE  drafted' = {} \/ (selected' # None /\ \E c \in Calls : drafted' = {c})
    BY <1>1 DEF DraftOnce
  <2>1. None \notin Ids
    BY ServiceAssumption
  <2>2. CASE op[saving].kind = "create"
    <3>1. drafted = {} /\ Selects(saving)
      BY <1>1, <2>2 DEF TabInv, DraftOnce, Selects
    <3>2. QED
      BY <1>1, <1>2, <1>3, <2>1, <3>1, DraftsOne
  <2>3. CASE op[saving].kind # "create"
    BY <1>1, <1>2, <1>3, <2>1, <2>3, DraftsOne DEF TabInv, DraftOnce
  <2>4. QED
    BY <2>2, <2>3
<1>6. QED
  BY <1>1, <1>3, <1>4, <1>5 DEF TabInv

LEMMA SaveFailsStep ==
  ASSUME TabInv, SaveFails
  PROVE  TabInv'
<1>1. /\ saving # None /\ saving' = None /\ lost' = (lost \/ op[saving].at = "done")
      /\ Drafts(saving)
      /\ UNCHANGED screen /\ UNCHANGED op /\ UNCHANGED selected /\ UNCHANGED form
      /\ UNCHANGED defaults /\ UNCHANGED loads /\ UNCHANGED isLoadingDetail
      /\ UNCHANGED loadError /\ UNCHANGED hasty /\ UNCHANGED removing
  BY DEF SaveFails, backend, loader
<1>2. TabTypeOK' /\ RightRecord' /\ LoadsSelected'
  BY <1>1, DraftsOne DEF TabInv, TabTypeOK, RightRecord, LoadsSelected, Loading
<1>3. DraftOnce'
  BY <1>1, DraftsOne DEF TabInv, DraftOnce
<1>4. QED
  BY <1>1, <1>2, <1>3 DEF TabInv

LEMMA RemovedStep ==
  ASSUME TabInv, Removed
  PROVE  TabInv'
BY SelectsNone DEF Removed, backend

LEMMA RemoveFailsStep ==
  ASSUME TabInv, RemoveFails
  PROVE  TabInv'
<1>1. /\ removing' = None
      /\ UNCHANGED screen /\ UNCHANGED op /\ UNCHANGED selected /\ UNCHANGED form
      /\ UNCHANGED defaults /\ UNCHANGED drafted /\ UNCHANGED loads
      /\ UNCHANGED isLoadingDetail /\ UNCHANGED loadError /\ UNCHANGED hasty
      /\ UNCHANGED saving /\ UNCHANGED lost
  BY DEF RemoveFails, backend, filled, loader
<1>2. TabTypeOK' /\ RightRecord' /\ LoadsSelected' /\ DraftOnce'
  BY <1>1 DEF TabInv, TabTypeOK, RightRecord, LoadsSelected, Loading, DraftOnce
<1>3. QED
  BY <1>1, <1>2 DEF TabInv

LEMMA NewStep ==
  ASSUME TabInv, New
  PROVE  TabInv'
BY SelectsNone DEF New, backend, TabInv, TabTypeOK

-----------------------------------------------------------------------------
\* The view, and the whole.

\* Of the queries that are shown, the hooks invalidate all but the pickers they
\* leave alone.
LEMMA AllButLeft ==
  ASSUME NEW a
  PROVE  WatchedWhen(a) => (LeftAlone <=> ~Invalidated)
BY DEF WatchedWhen, LeftAlone, Invalidated

\* A query that is invalidated where it is shown is fetched anew, unless its first
\* fetch is under way: that one has missed the change if it has read.
LEMMA ViewTold ==
  ASSUME ViewInv, Told
  PROVE  ViewInv'
<1>1. /\ UNCHANGED view /\ UNCHANGED pickers /\ UNCHANGED away
      /\ cache' = IF cache = "current" THEN "older" ELSE cache
      /\ stale' = (stale \/ Invalidated)
      /\ missed' = (missed \/ (Watched /\ LeftAlone)
                     \/ (fetch \in {"read", "older"} /\ (cache = "empty" \/ ~Watched)))
  BY Zenon DEF Told, shownAt
<1>2. /\ Restarts => fetch' = "begun"
      /\ ~Restarts /\ fetch = "read" => fetch' = "older"
      /\ ~Restarts /\ fetch # "read" => fetch' = fetch
  BY DEF Told
<1>3. /\ (Watched' <=> Watched) /\ (Invalidated' <=> Invalidated)
      /\ Invalidated \in BOOLEAN /\ Watched \in BOOLEAN
  BY <1>1 DEF Watched, WatchedWhen, Invalidated
<1>4. /\ LeftAlone \in BOOLEAN
      /\ Watched => (LeftAlone <=> ~Invalidated)
  BY AllButLeft DEF Watched, LeftAlone
<1>5. ListsTypeOK'
  BY <1>1, <1>2, <1>3, <1>4 DEF ViewInv, ListsTypeOK
<1>6. fetch' = "older" => missed'
  BY <1>1, <1>2, <1>3, <1>4 DEF ViewInv, ListsTypeOK, Restarts, UnderWay
<1>7. Invalidated' /\ cache' = "older" /\ fetch' = "none" => stale' \/ missed'
  BY <1>1, <1>3
<1>8. ViewShowsTold'
  BY <1>1, <1>2, <1>3, <1>4
  DEF ViewInv, ListsTypeOK, ViewShowsTold, Restarts, UnderWay
<1>9. QED
  BY <1>5, <1>6, <1>7, <1>8 DEF ViewInv

\* A query that is shown again is fetched if it is due.
LEMMA ViewMoves ==
  ASSUME ViewInv, NEW to \in BOOLEAN, Move(to)
  PROVE  ViewInv'
<1>1. /\ UNCHANGED view /\ UNCHANGED pickers /\ UNCHANGED cache /\ UNCHANGED stale
      /\ away' = to
      /\ fetch' = IF WatchedWhen(to) /\ ~UnderWay /\ (cache = "empty" \/ stale)
                  THEN "begun" ELSE fetch
      /\ missed' = (missed \/ (WatchedWhen(to) /\ LeftAlone /\ cache = "older"
                                /\ ~stale))
  BY DEF Move
<1>2. /\ (Watched' <=> WatchedWhen(to)) /\ (Invalidated' <=> Invalidated)
      /\ Invalidated \in BOOLEAN /\ WatchedWhen(to) \in BOOLEAN /\ LeftAlone \in BOOLEAN
      /\ WatchedWhen(to) => (LeftAlone <=> ~Invalidated)
  BY <1>1, AllButLeft DEF Watched, WatchedWhen, Invalidated, LeftAlone
<1>3. ListsTypeOK'
  BY <1>1, <1>2 DEF ViewInv, ListsTypeOK
<1>4. QED
  BY <1>1, <1>2, <1>3 DEF ViewInv, ListsTypeOK, ViewShowsTold, UnderWay

\* A fetch ends, begins, or reads.
LEMMA ViewSteps ==
  ASSUME ViewInv, ListsStep \/ UNCHANGED query
  PROVE  ViewInv'
<1>1. /\ UNCHANGED view /\ UNCHANGED pickers /\ UNCHANGED away
      /\ (Watched' <=> Watched) /\ (Invalidated' <=> Invalidated)
  BY DEF ListsStep, Ages, Reconnect, FetchReads, Fetched, FetchFails, query, shownAt,
         Watched, WatchedWhen, Invalidated
<1>2. CASE Ages
  BY <1>1, <1>2 DEF Ages, ViewInv, ListsTypeOK, ViewShowsTold
<1>3. CASE Reconnect
  BY <1>1, <1>3 DEF Reconnect, ViewInv, ListsTypeOK, ViewShowsTold
<1>4. CASE FetchReads
  BY <1>1, <1>4 DEF FetchReads, ViewInv, ListsTypeOK, ViewShowsTold
<1>5. CASE Fetched
  BY <1>1, <1>5 DEF Fetched, ViewInv, ListsTypeOK, ViewShowsTold
<1>6. CASE FetchFails
  <2>1. /\ UNCHANGED cache /\ UNCHANGED stale /\ UNCHANGED missed
        /\ fetch' \in {"failed", "begun"}
    BY <1>6 DEF FetchFails
  <2>2. QED
    BY <1>1, <2>1 DEF ViewInv, ListsTypeOK, ViewShowsTold
<1>7. CASE UNCHANGED query
  BY <1>1, <1>7 DEF query, cached, ViewInv, ListsTypeOK, ViewShowsTold
<1>8. QED
  BY <1>2, <1>3, <1>4, <1>5, <1>6, <1>7 DEF ListsStep

\* A query that begins in a screen is fetched there.
LEMMA ViewBegins ==
  ASSUME NEW hooks \in {"none", "left", "invalidated"}, ListsInit(hooks)
  PROVE  ViewInv
BY DEF ListsInit, ViewInv, ListsTypeOK, ViewShowsTold, Watched, WatchedWhen

LEMMA Initial == Init => IInv
<1> SUFFICES ASSUME Init PROVE IInv
  OBVIOUS
<1>1. PICK k \in Kinds : screen = k[1] /\ ListsInit(k[2]) /\ ServiceInit(k[3])
  BY DEF Init
<1>2. ServiceInv /\ ViewInv /\ screen.selects \in {"never", "saved", "created"}
  BY <1>1, KindsKnown, ServiceStarts, ViewBegins
<1>3. /\ selected = None /\ form = Blank /\ defaults = Blank
      /\ loads = [i \in Ids |-> 0] /\ isLoadingDetail = FALSE /\ loadError = FALSE
      /\ saving = None /\ removing = None /\ left = {}
      /\ hasty = FALSE /\ drafted = {} /\ lost = FALSE
  BY DEF Init
<1>4. TabTypeOK
  <2>1. loads \in [Ids -> 0..MaxLoads]
    BY <1>3, LoadsAssumption
  <2>2. Blank \in Form
    BY DEF Blank, Form
  <2>3. QED
    BY <1>3, <2>1, <2>2 DEF TabTypeOK
<1>5. RightRecord /\ LoadsSelected /\ DraftOnce
  BY <1>3 DEF RightRecord, LoadsSelected, DraftOnce, Blank
<1>6. QED
  BY <1>2, <1>3, <1>4, <1>5 DEF IInv, TabInv, LeftInv

\* The screen is left: its form is empty.
LEMMA LeaveStep ==
  ASSUME TabInv, Leave
  PROVE  TabInv'
<1>1. /\ selected' = None /\ form' = Blank /\ defaults' = Blank /\ drafted' = {}
      /\ loads' = [i \in Ids |-> 0]
      /\ isLoadingDetail' = FALSE /\ loadError' = FALSE /\ hasty' = FALSE
      /\ saving' = None /\ removing' = None /\ UNCHANGED screen /\ UNCHANGED lost
  BY DEF Leave
<1>2. loads' \in [Ids -> 0..MaxLoads] /\ \A i \in Ids : ~(loads'[i] > 0)
  BY <1>1, LoadsAssumption
<1>3. Blank \in Form /\ Blank.of = None
  BY DEF Blank, Form
<1>4. TabTypeOK'
  BY <1>1, <1>2, <1>3 DEF TabInv, TabTypeOK
<1>5. RightRecord' /\ LoadsSelected' /\ DraftOnce'
  BY <1>1, <1>2, <1>3 DEF RightRecord, LoadsSelected, DraftOnce
<1>6. QED
  BY <1>1, <1>4, <1>5 DEF TabInv

\* The tab is left, and comes back; calls that it has left are answered.
LEMMA ReturnStep ==
  ASSUME TabInv, UNCHANGED backend, UNCHANGED screen, UNCHANGED selected,
         UNCHANGED filled, UNCHANGED loader, UNCHANGED saving, UNCHANGED removing,
         UNCHANGED lost
  PROVE  TabInv'
<1>1. /\ UNCHANGED form /\ UNCHANGED defaults
      /\ UNCHANGED drafted /\ UNCHANGED loads /\ UNCHANGED isLoadingDetail
      /\ UNCHANGED loadError /\ UNCHANGED hasty /\ UNCHANGED op
  BY DEF filled, loader, backend
<1>2. TabTypeOK' /\ RightRecord' /\ LoadsSelected' /\ DraftOnce'
  BY <1>1 DEF TabInv, TabTypeOK, RightRecord, LoadsSelected, Loading, DraftOnce
<1>3. QED
  BY <1>1, <1>2 DEF TabInv

\* The calls that a screen has left are calls.
LEMMA LeftStep ==
  ASSUME TabInv, LeftInv, [Next]_vars
  PROVE  LeftInv'
<1>1. saving \in Calls \cup {None} /\ removing \in Calls \cup {None}
  BY DEF TabInv, TabTypeOK
<1>2. CASE Leave
  BY <1>1, <1>2 DEF Leave, LeftInv
<1>3. ASSUME NEW c \in Calls, AnsweredLate(c)
      PROVE  LeftInv'
  BY <1>3 DEF AnsweredLate, LeftInv
<1>4. CASE UNCHANGED left
  BY <1>4 DEF LeftInv
<1>5. ASSUME NEW c \in Calls, Accept(c) \/ Delete(c) \/ Colleague(c) \/ Services(c)
      PROVE  UNCHANGED left
  BY <1>5 DEF Accept, Delete, Colleague, Services, tab
<1>6. ASSUME NEW i \in Ids, Select(i) \/ Loaded(i) \/ LoadFails(i)
      PROVE  UNCHANGED left
  BY <1>6 DEF Select, Loaded, LoadFails
<1>7. ASSUME New \/ Edit \/ Cancel \/ Saved \/ SaveFails \/ Removed \/ RemoveFails
             \/ Return \/ Cached \/ UNCHANGED vars
      PROVE  UNCHANGED left
  BY <1>7 DEF New, Edit, Cancel, Saved, SaveFails, Removed, RemoveFails, Return, Cached,
              vars, tab
<1>8. QED
  BY <1>2, <1>3, <1>4, <1>5, <1>6, <1>7 DEF Next

\* The steps of the tab alone.
TabStep ==
  \/ \E i \in Ids : Select(i) \/ Loaded(i) \/ LoadFails(i)
  \/ New \/ Edit \/ Cancel \/ SaveFails \/ RemoveFails

LEMMA TabSteps ==
  ASSUME ServiceInv, TabInv, ViewInv, TabStep
  PROVE  ServiceInv' /\ TabInv' /\ ViewInv'
<1>1. UNCHANGED backend /\ UNCHANGED query
  BY DEF TabStep, Select, Loaded, LoadFails, New, Edit, Cancel, SaveFails, RemoveFails
<1>2. ServiceInv' /\ ViewInv'
  BY <1>1, CallsStay, ViewSteps
<1>3. TabInv'
  BY SelectStep, LoadedStep, LoadFailsStep, NewStep, EditStep, CancelStep,
     SaveFailsStep, RemoveFailsStep DEF TabStep
<1>4. QED
  BY <1>2, <1>3

\* The steps in which the tab is told of a change, or changes its place.
LEMMA ToldSteps ==
  ASSUME ServiceInv, TabInv, ViewInv,
         Saved \/ Removed \/ Leave \/ Return \/ \E c \in Calls : AnsweredLate(c)
  PROVE  ServiceInv' /\ TabInv' /\ ViewInv'
<1>1. UNCHANGED backend
  BY DEF Saved, Removed, Leave, Return, AnsweredLate
<1>2. ServiceInv'
  BY <1>1, CallsStay
<1>3. CASE Saved \/ Removed
  BY <1>2, <1>3, ViewTold, SavedStep, RemovedStep DEF Saved, Removed
<1>4. CASE Leave
  BY <1>2, <1>4, ViewMoves, LeaveStep DEF Leave
<1>5. CASE Return
  BY <1>1, <1>2, <1>5, ViewMoves, ReturnStep DEF Return, tab
<1>6. ASSUME NEW c \in Calls, AnsweredLate(c)
      PROVE  TabInv' /\ ViewInv'
  BY <1>1, <1>6, ViewTold, ViewSteps, ReturnStep DEF AnsweredLate
<1>7. QED
  BY <1>2, <1>3, <1>4, <1>5, <1>6

LEMMA Inductive == IInv /\ [Next]_vars => IInv'
<1> SUFFICES ASSUME IInv, [Next]_vars PROVE IInv'
  OBVIOUS
<1>a. ServiceInv /\ TabInv /\ ViewInv /\ LeftInv'
  BY LeftStep DEF IInv
<1>1. CASE TabStep
  BY <1>a, <1>1, TabSteps DEF IInv
<1>2. CASE Saved \/ Removed \/ Leave \/ Return \/ \E c \in Calls : AnsweredLate(c)
  BY <1>a, <1>2, ToldSteps DEF IInv
<1>3. CASE Cached
  <2>1. /\ UNCHANGED backend /\ UNCHANGED screen /\ UNCHANGED tab /\ UNCHANGED lost
        /\ ListsStep
    BY <1>3 DEF Cached
  <2>2. ServiceInv' /\ ViewInv' /\ TabInv'
    BY <1>a, <2>1, CallsStay, ViewSteps, TabStays
  <2>3. QED
    BY <1>a, <2>2 DEF IInv
<1>4. ASSUME NEW c \in Calls, Accept(c) \/ Delete(c)
      PROVE  IInv'
  <2>1. UNCHANGED query
    BY <1>4 DEF Accept, Delete
  <2>2. ServiceInv' /\ ViewInv' /\ TabInv'
    BY <1>a, <1>4, <2>1, AcceptStep, DeleteStep, ViewSteps
  <2>3. QED
    BY <1>a, <2>2 DEF IInv
<1>5. ASSUME NEW c \in Calls, Colleague(c) \/ Services(c)
      PROVE  IInv'
  <2>1. UNCHANGED screen /\ UNCHANGED tab /\ UNCHANGED query /\ UNCHANGED lost
    BY <1>5 DEF Colleague, Services
  <2>2. ServiceInv' /\ CallsGoOn
    BY <1>a, <1>5, ColleagueStep, ServiceStepKeeps DEF Services
  <2>3. ViewInv' /\ TabInv'
    BY <1>a, <2>1, <2>2, TabStays, ViewSteps
  <2>4. QED
    BY <1>a, <2>2, <2>3 DEF IInv
<1>6. CASE UNCHANGED vars
  <2>1. /\ UNCHANGED backend /\ UNCHANGED screen /\ UNCHANGED tab /\ UNCHANGED query
        /\ UNCHANGED lost
    BY <1>6 DEF vars
  <2>2. ServiceInv' /\ ViewInv' /\ TabInv'
    BY <1>a, <2>1, CallsStay, ViewSteps, TabStays
  <2>3. QED
    BY <1>a, <2>2 DEF IInv
<1>7. QED
  BY <1>1, <1>2, <1>3, <1>4, <1>5, <1>6 DEF Next, TabStep

LEMMA Invariance == Spec => []IInv
<1>1. QED
  BY Initial, Inductive, PTL DEF Spec

\* One record of a draft, as a cardinality.
LEMMA DraftCounted == TabInv => OneRecordPerDraft
<1> SUFFICES ASSUME TabInv, screen.selects # "never", ~lost
             PROVE  ~(Cardinality(drafted) > 1)
  BY DEF OneRecordPerDraft
<1>1. drafted = {} \/ \E c \in Calls : drafted = {c}
  BY DEF TabInv, DraftOnce
<1>2. Cardinality(drafted) = 0 \/ Cardinality(drafted) = 1
  BY <1>1, FS_EmptySet, FS_Singleton
<1>3. QED
  BY <1>2

\* MasterDetailShell: who waits for loads and heeds their errors saves to the record
\* whose values the form shows, and where the screen selects what it has created, a
\* draft becomes one record unless an answer was lost.
THEOREM SavesMeant == Spec => []SavesAreMeant
<1>1. IInv => SavesAreMeant
  <2> SUFFICES ASSUME IInv PROVE SavesAreMeant
    OBVIOUS
  <2>1. TypeOK
    BY DEF IInv, ServiceInv, TabInv, TabTypeOK, ViewInv, LeftInv, TypeOK
  <2>2. RightRecord /\ OneRecordPerDraft
    BY DraftCounted DEF IInv, TabInv
  <2>3. QED
    BY <2>1, <2>2 DEF SavesAreMeant
<1>2. QED
  BY <1>1, Invariance, PTL

\* The services of the master data: members of a record are of one save, but where
\* they are cleared before the row is locked, by saves that overlapped.
THEOREM MembersTogether == Spec => []MembersOfOneSave
<1>1. IInv => MembersOfOneSave
  BY DEF IInv, ServiceInv
<1>2. QED
  BY <1>1, Invariance, PTL

\* The hooks of lib/api/master-data, and the pickers of EntityPicker.tsx and
\* NominationForm.tsx: what a mounted list or picker shows, when no fetch is under way
\* and none has failed, has every change the tab was told of, but where a fetch that
\* had read before it ended after it with nothing cached, or where nobody watched, and
\* for pickers the hooks leave alone.
THEOREM ViewCatchesUp == Spec => []ViewShowsTold
<1>1. IInv => ViewShowsTold
  BY DEF IInv, ViewInv
<1>2. QED
  BY <1>1, Invariance, PTL
=============================================================================
