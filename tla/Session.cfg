\* Two tabs and two calls, with tokens for a login and one refresh.
CONSTANTS
  Tabs = {t1, t2}
  ApiCalls = {c1, c2}
  MaxTokens = 2
  Nothing = Nothing
SPECIFICATION SessionSpec
INVARIANTS
  SessionsLast
  JarIsLive
PROPERTIES
  EveryCallEnds
CHECK_DEADLOCK FALSE
