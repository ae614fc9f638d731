------------------------------ MODULE Session ------------------------------
(***************************************************************************)
(* The session of one browser: refresh-token rotation in auth.service.ts   *)
(* and auth.controller.ts, and what several tabs make of it in client.ts,  *)
(* queries.ts, accessTokenStore.ts, main.tsx and _protected.tsx.           *)
(*                                                                         *)
(* The tabs share the cookie jar. Each holds an access token of its own,   *)
(* which the backend may cease to accept at any time; a call that is       *)
(* answered 401 waits for the one refresh of its tab and is then posted    *)
(* once more. Besides, a tab without a token refreshes silently. Every     *)
(* statement of a refresh is a step of its own, and any answer may be      *)
(* lost. ApiCalls and MaxTokens bound the behaviours.                      *)
(***************************************************************************)
EXTENDS Naturals, FiniteSets

CONSTANTS Tabs, ApiCalls, \* open tabs, and calls of the API other than /auth
          MaxTokens,      \* refresh tokens that may be issued
          Nothing

VARIABLES
  db,       \* the refresh tokens: unissued, live or revoked
  jar,      \* the refresh_token cookie
  signedIn, \* the tabs that hold an access token
  call,     \* a call of apiRequest: where it is, its tab, whose refresh it awaits
  req,      \* a refresh, by the call that began it or the tab it is silent for
  cause,    \* history: refreshes of two tabs have overlapped, or a refresh and
            \* a logout or a reload, or an answer or a statement was lost
  reuse     \* history: a refresh was taken for the reuse of an old token

session == <<db, jar, signedIn, call, req, cause, reuse>>

Tokens == 1..MaxTokens

ASSUME SessionAssumption ==
  MaxTokens \in Nat /\ Nothing \notin Tokens /\ ApiCalls \cap Tabs = {}

Refreshes == ApiCalls \cup Tabs
InService == {"reading", "reused", "revoking", "creating"}
Open == InService \cup {"answered", "refused"}
Under == {"sent", "waiting", "resent"}

\* Tokens, calls, refreshes and histories have the shape of the source's.
SessionTypeOK ==
  /\ db \in [Tokens -> {"unissued", "live", "revoked"}]
  /\ jar \in Tokens \cup {Nothing}
  /\ signedIn \subseteq Tabs
  /\ call \in [ApiCalls -> [at : {"idle", "ok", "failed"} \cup Under,
                            tab : Tabs \cup {Nothing}, awaits : ApiCalls \cup {Nothing}]]
  /\ req \in [Refreshes -> [at : {"idle"} \cup Open, token : Tokens \cup {Nothing},
                            new : Tokens \cup {Nothing}]]
  /\ cause \in BOOLEAN /\ reuse \in BOOLEAN

NoRequest == [at |-> "idle", token |-> Nothing, new |-> Nothing]

SessionInit ==
  /\ db = [k \in Tokens |-> "unissued"]
  /\ jar = Nothing /\ signedIn = {}
  /\ call = [c \in ApiCalls |-> [at |-> "idle", tab |-> Nothing, awaits |-> Nothing]]
  /\ req = [r \in Refreshes |-> NoRequest]
  /\ cause = FALSE /\ reuse = FALSE

TabOf(r) == IF r \in Tabs THEN r ELSE call[r].tab
IsOpen(r) == req[r].at \in Open

-----------------------------------------------------------------------------
\* The refresh, in the backend.

\* A fetch of /auth/refresh with the cookie of the jar; without one, 401.
Sent(r) ==
  /\ req' = [req EXCEPT ![r] =
       [at |-> IF jar = Nothing THEN "refused" ELSE "reading", token |-> jar,
        new |-> Nothing]]
  /\ cause' = (cause \/ \E q \in Refreshes : /\ IsOpen(q)
                                             /\ TabOf(q) # TabOf(r))

Become(r, place) == req' = [req EXCEPT ![r].at = place]

\* findUnique: a revoked token is taken for reuse. A live token may have
\* expired, or its user be inactive.
ReadToken(r) ==
  /\ req[r].at = "reading"
  /\ \/ db[req[r].token] = "revoked" /\ Become(r, "reused")
     \/ db[req[r].token] = "live" /\ \E p \in {"revoking", "refused"} : Become(r, p)
  /\ UNCHANGED <<db, jar, signedIn, call, cause, reuse>>

\* Every token of the user is revoked.
RevokeAll(r) ==
  /\ req[r].at = "reused"
  /\ db' = [k \in Tokens |-> IF db[k] = "live" THEN "revoked" ELSE db[k]]
  /\ reuse' = TRUE
  /\ Become(r, "refused")
  /\ UNCHANGED <<jar, signedIn, call, cause>>

\* By id: the token may have been revoked since it was read.
RevokeOld(r) ==
  /\ req[r].at = "revoking"
  /\ db' = [db EXCEPT ![req[r].token] = "revoked"]
  /\ Become(r, "creating")
  /\ UNCHANGED <<jar, signedIn, call, cause, reuse>>

\* Random tokens are alike: they are issued in order.
Issue(k) ==
  /\ \A j \in Tokens : db[j] = "unissued" <=> j >= k
  /\ db' = [db EXCEPT ![k] = "live"]

CreateNew(r) ==
  /\ req[r].at = "creating"
  /\ \E k \in Tokens :
       /\ Issue(k)
       /\ req' = [req EXCEPT ![r].at = "answered", ![r].new = k]
  /\ UNCHANGED <<jar, signedIn, call, cause, reuse>>

\* A statement fails, before or after it is applied, or the process dies.
ServiceFails(r) ==
  /\ req[r].at \in InService
  /\ Become(r, "refused")
  /\ cause' = TRUE
  /\ UNCHANGED <<db, jar, signedIn, call, reuse>>

-----------------------------------------------------------------------------
\* The refresh, in the tab.

Awaiting(r) == {c \in ApiCalls : call[c].at = "waiting" /\ call[c].awaits = r}

\* Slip for a mutant of PROJECT.json: a failure wakes nobody.
WokenBySuccess(r, ok) ==
  [c \in ApiCalls |-> IF ok /\ c \in Awaiting(r)
                      THEN [call[c] EXCEPT !.at = "resent", !.awaits = Nothing]
                      ELSE call[c]]

\* The calls that await the refresh are posted again, or fail.
Woken(r, ok) ==
  [c \in ApiCalls |-> IF c \in Awaiting(r)
                      THEN [call[c] EXCEPT !.at = IF ok THEN "resent" ELSE "failed",
                                           !.awaits = Nothing]
                      ELSE call[c]]

\* The refresh ends: the token of the tab is set or cleared. A silent refresh
\* that fails changes nothing.
Settle(r, ok) ==
  LET t == TabOf(r) IN
  /\ req' = [req EXCEPT ![r] = NoRequest]
  /\ call' = Woken(r, ok)
  /\ IF ~ok /\ r \in Tabs
     THEN UNCHANGED signedIn
     ELSE signedIn' = IF ok THEN signedIn \cup {t} ELSE signedIn \ {t}

\* Slips for mutants: the cookie is not replaced, or names who asked.
LeavesCookie(r) == jar' = jar
StoresOwner(r) == jar' = r

\* reply.setCookie, applied by the browser even when the page is gone.
Cookie(r) == jar' = req[r].new

RefreshAnswered(r) ==
  /\ req[r].at = "answered"
  /\ Cookie(r)
  /\ Settle(r, TRUE)
  /\ UNCHANGED <<db, cause, reuse>>

RefreshRefused(r) ==
  /\ req[r].at = "refused"
  /\ cause' = TRUE
  /\ Settle(r, FALSE)
  /\ UNCHANGED <<db, jar, reuse>>

\* The answer of a refresh is lost, with its cookie.
RefreshLost(r) ==
  /\ req[r].at = "answered"
  /\ cause' = TRUE
  /\ Settle(r, FALSE)
  /\ UNCHANGED <<db, jar, reuse>>

-----------------------------------------------------------------------------
\* Calls.

Post(c, t) ==
  /\ call[c].at = "idle"
  /\ t \in signedIn
  /\ call' = [call EXCEPT ![c] = [at |-> "sent", tab |-> t, awaits |-> Nothing]]
  /\ UNCHANGED <<db, jar, signedIn, req, cause, reuse>>

\* Slip for a mutant: every call refreshes for itself.
NoFlight(c) == {}

\* refreshInFlight: the refresh some call of the same tab has begun.
InFlight(c) == {d \in ApiCalls : /\ call[d].tab = call[c].tab
                                 /\ IsOpen(d)}

\* 401: join the refresh of the tab, or begin one.
Denied(c) ==
  /\ call[c].at = "sent"
  /\ \E d \in ApiCalls :
       /\ IF InFlight(c) = {} THEN d = c ELSE d \in InFlight(c)
       /\ call' = [call EXCEPT ![c].at = "waiting", ![c].awaits = d]
  /\ IF InFlight(c) = {} THEN Sent(c) ELSE UNCHANGED <<req, cause>>
  /\ UNCHANGED <<db, jar, signedIn, reuse>>

\* The second 401 is a failure like any other.
Answered(c) ==
  /\ call[c].at \in {"sent", "resent"}
  /\ call' = [call EXCEPT ![c].at = "ok"] \/ call' = [call EXCEPT ![c].at = "failed"]
  /\ UNCHANGED <<db, jar, signedIn, req, cause, reuse>>

-----------------------------------------------------------------------------
\* Tabs.

\* attemptSilentRefresh, at boot and before a protected route: it knows
\* nothing of refreshInFlight.
Silent(t) ==
  /\ t \notin signedIn /\ ~IsOpen(t)
  /\ Sent(t)
  /\ UNCHANGED <<db, jar, signedIn, call, reuse>>

\* The login page is shown once the silent refresh has ended. The answer sets
\* cookie and token.
Login(t) ==
  /\ t \notin signedIn /\ ~IsOpen(t)
  /\ \E k \in Tokens : Issue(k) /\ jar' = k
  /\ signedIn' = signedIn \cup {t}
  /\ cause' = (cause \/ \E r \in Refreshes : IsOpen(r))
  /\ UNCHANGED <<call, req, reuse>>

\* The token of the jar is revoked, and the answer clears cookie and token; if
\* it is lost nothing changes. Calls of the tab go on.
Logout(t) ==
  /\ t \in signedIn
  /\ db' = IF jar = Nothing THEN db ELSE [db EXCEPT ![jar] = "revoked"]
  /\ cause' = TRUE
  /\ \/ jar' = Nothing /\ signedIn' = signedIn \ {t}
     \/ UNCHANGED <<jar, signedIn>>
  /\ UNCHANGED <<call, req, reuse>>

\* A page load: the calls end, and the token is what localStorage has, which
\* another tab may have set or cleared, unless it is older than five minutes.
\* A page that goes while its refresh is under way is a tab left alone, and the
\* page that comes is another.
Reload(t) ==
  /\ \A r \in Refreshes : IsOpen(r) => TabOf(r) # t
  /\ signedIn' \in {signedIn \cup {t}, signedIn \ {t}}
  /\ call' = [c \in ApiCalls |-> IF call[c].tab = t /\ call[c].at \in Under
                                 THEN [call[c] EXCEPT !.at = "failed"] ELSE call[c]]
  /\ UNCHANGED <<db, jar, req, cause, reuse>>

Backend(r) ==
  ReadToken(r) \/ RevokeAll(r) \/ RevokeOld(r) \/ CreateNew(r) \/ ServiceFails(r)
Settles(r) == RefreshAnswered(r) \/ RefreshRefused(r) \/ RefreshLost(r)

SessionNext ==
  \/ \E r \in Refreshes : Backend(r) \/ Settles(r)
  \/ \E c \in ApiCalls : \/ \E t \in Tabs : Post(c, t)
                         \/ Denied(c) \/ Answered(c)
  \/ \E t \in Tabs : Silent(t) \/ Login(t) \/ Logout(t) \/ Reload(t)

\* A fetch ends: the backend runs, and the browser settles what it awaits.
Fairness ==
  /\ \A r \in Refreshes : WF_session(Backend(r)) /\ WF_session(Settles(r))
  /\ \A c \in ApiCalls : WF_session(Denied(c) \/ Answered(c))

SessionSpec == SessionInit /\ [][SessionNext]_session /\ Fairness

-----------------------------------------------------------------------------
\* Properties.

\* The calls of one tab never look like the reuse of a token, however many of
\* them are answered 401 at once: that takes a refresh of a second tab,
\* or an earlier one that failed, or a logout.
ReuseHasCause == reuse => cause

\* The cookie names a revoked token only while the refresh that has revoked it
\* is under way, or for one of those causes.
JarIsLive ==
  jar # Nothing /\ db[jar] = "revoked" =>
    cause \/ \E r \in Refreshes : /\ req[r].token = jar
                                  /\ req[r].at \in {"creating", "answered"}

\* No call waits for ever or is refreshed and posted again without end.
EveryCallEnds ==
  \A c \in ApiCalls : call[c].at \in Under ~> call[c].at \in {"ok", "failed"}

\* A family of tokens is revoked for a cause only.
SessionsLast == SessionTypeOK /\ ReuseHasCause
=============================================================================
