\* Three calls of any operation, on a draft, a previewed draft or a request
\* that has been sent. A call acts once, so the system stops.
SPECIFICATION Spec
CONSTANTS
  Calls = {a1, a2, a3}
  Earlier = a0
  None = None
SYMMETRY Interchangeable
INVARIANTS
  TermsAreAgreed
PROPERTIES
  DecisionsStand
  DispatchedPdfKept
CHECK_DEADLOCK FALSE
