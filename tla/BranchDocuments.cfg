\* Two documents, one of them perhaps there with its PDF, and three calls, so
\* that two calls overlap on what a third has left.
CONSTANTS
  Docs = {d1, d2}
  Calls = {c1, c2, c3}
  None = None
SPECIFICATION Spec
SYMMETRY Symmetry
INVARIANTS
  NamedIsStored
  StrayHasCause
PROPERTIES
  FinalStands
CHECK_DEADLOCK FALSE
