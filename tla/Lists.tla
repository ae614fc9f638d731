------------------------------- MODULE Lists -------------------------------
(***************************************************************************)
(* One query of the tab that reads the records of one kind, as the cache   *)
(* of React Query keeps it: the list of the kind's own screen, or a picker *)
(* of another screen (EntityPicker.tsx, agentsQuery of NominationForm.tsx, *)
(* the timesheets that name activities). A query that is not shown stays   *)
(* cached and is fetched when it is shown again, if its 30 s are up or it  *)
(* was invalidated. The library is modelled from how the hooks use it.     *)
(***************************************************************************)

VARIABLES
  view,    \* the query that is followed: "list", "picker" or "none"
  pickers, \* what the kind's hooks do to its pickers: see Screens
  away,    \* the tab has left the kind's screen for one with its picker
  cache,   \* "empty", "older": without a change the tab was told of, "current"
  fetch,   \* the fetch under way: "begun", or it has "read", or too early for
           \* such a change ("older"); else "none", or the last has "failed"
  stale,   \* a fetch is due when the query is shown next
  missed   \* history: the query has been left without a change: see below

cached == <<cache, fetch, stale, missed>>
shownAt == <<view, pickers, away>>

ListsTypeOK ==
  /\ view \in {"none", "list", "picker"}
  /\ pickers \in {"none", "left", "invalidated"}
  /\ cache \in {"empty", "older", "current"}
  /\ fetch \in {"none", "begun", "read", "older", "failed"}
  /\ {away, stale, missed} \subseteq BOOLEAN

\* A component that uses the query is mounted.
WatchedWhen(a) == (view = "list" /\ ~a) \/ (view = "picker" /\ a)
Watched == WatchedWhen(away)

\* The tab begins anywhere, with nothing cached.
ListsInit(hooks) ==
  /\ pickers = hooks
  /\ view \in {"none", "list"} \cup IF hooks = "none" THEN {} ELSE {"picker"}
  /\ away \in {FALSE, view = "picker"}
  /\ cache = "empty" /\ stale = TRUE /\ missed = FALSE
  /\ fetch = IF Watched THEN "begun" ELSE "none"

UnderWay == fetch \in {"begun", "read", "older"}

-----------------------------------------------------------------------------
\* Slip for a mutant of PROJECT.json: the hooks do not name the key of their list.
InvalidatesPickers == view = "picker" /\ pickers = "invalidated"

\* invalidateQueries reaches the query: by the key of its list, or of pickers.
Invalidated == view = "list" \/ pickers = "invalidated"

\* History: the one query that is known to miss it, a picker of most kinds.
LeftAlone == view = "picker" /\ pickers # "invalidated"

\* The query is fetched at once where it is shown; a fetch under way is given up
\* if something is cached, and else it is left to end.
Restarts == Invalidated /\ Watched /\ (cache # "empty" \/ ~UnderWay)

\* The tab is told of a change. History: the query is left without it when it
\* is left alone, or by a fetch that has read before and is left to end.
Told ==
  /\ cache' = IF cache = "current" THEN "older" ELSE cache
  /\ stale' = (stale \/ Invalidated)
  /\ fetch' = CASE Restarts -> "begun"
                [] ~Restarts /\ fetch = "read" -> "older"
                [] OTHER -> fetch
  /\ missed' = \/ missed
               \/ Watched /\ LeftAlone
               \/ fetch \in {"read", "older"} /\ (cache = "empty" \/ ~Watched)
  /\ UNCHANGED shownAt

\* A component that uses the query is mounted: it is fetched if that is due.
\* History: one that lacks a change is shown as it is, for its 30 s are not up.
Move(to) ==
  /\ away' = to
  /\ fetch' = IF WatchedWhen(to) /\ ~UnderWay /\ (cache = "empty" \/ stale)
              THEN "begun" ELSE fetch
  /\ missed' = \/ missed
               \/ WatchedWhen(to) /\ LeftAlone /\ cache = "older" /\ ~stale
  /\ UNCHANGED <<view, pickers, cache, stale>>

\* staleTime has passed.
Ages ==
  /\ ~stale
  /\ stale' = TRUE
  /\ UNCHANGED <<shownAt, cache, fetch, missed>>

\* The connection is back: what is shown and due is fetched.
Reconnect ==
  /\ Watched /\ ~UnderWay
  /\ cache = "empty" \/ stale
  /\ fetch' = "begun"
  /\ UNCHANGED <<shownAt, cache, stale, missed>>

\* The service reads.
FetchReads ==
  /\ fetch = "begun"
  /\ fetch' = "read" /\ missed' = FALSE
  /\ UNCHANGED <<shownAt, cache, stale>>

\* Any answer counts as the newest, and clears the invalidation.
Fetched ==
  /\ fetch \in {"read", "older"}
  /\ cache' = IF fetch = "read" THEN "current" ELSE "older"
  /\ fetch' = "none" /\ stale' = FALSE
  /\ UNCHANGED <<shownAt, missed>>

\* One that fails is tried again while the query is shown, or given up.
FetchFails ==
  /\ UnderWay
  /\ fetch' \in {"failed"} \cup IF Watched THEN {"begun"} ELSE {}
  /\ UNCHANGED <<shownAt, cache, stale, missed>>

ListsStep == Ages \/ Reconnect \/ FetchReads \/ Fetched \/ FetchFails

-----------------------------------------------------------------------------
\* What a mounted component shows, while no fetch is under way and none has
\* failed, has every change the tab was told of. The code has three exceptions:
\* a fetch that had read before the change and ended after it, where nothing was
\* cached or nobody watched; and, of pickers the hooks leave alone, one that was
\* shown at the time, or within the 30 s of its last fetch.
ViewShowsTold == Watched /\ fetch = "none" /\ cache = "older" => missed
=============================================================================
