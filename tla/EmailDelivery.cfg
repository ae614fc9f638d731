\* Three requests with one key: retries that carry the same content or other.
CONSTANTS
  Requests = {r1, r2, r3}
  Keys = {k1}
  Contents = {c1, c2}
  None = None
  MaxCalls = 2
SPECIFICATION FairSpec
INVARIANTS
  SendingIsSafe
PROPERTIES
  AbandonedStaysBlocked
  Promise
  EveryRequestEnds
CHECK_DEADLOCK FALSE
