\* A DRAFT with a PDF, two calls of update/finalize/generatePdf/delete and
\* two sends with different or equal keys, two milliseconds on the clock. A
\* call acts once, so the system stops.
SPECIFICATION Spec
CONSTANTS
  Editors = {e1, e2}
  Rendered = e0
  Sends = {s1, s2}
  Keys = {k1, k2}
  Contents = {c1}
  None = None
  MaxCalls = 1
  MaxTime = 1
SYMMETRY Interchangeable
INVARIANTS
  MailingIsClaimed
  DispatchLogHonest
  MailedIsNamed
CHECK_DEADLOCK FALSE
