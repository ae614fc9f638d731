\* Two uploads, two service requests, two calls of any operation or cleanup,
\* and two sends, the second of which may repeat the first. A call acts once,
\* so the system stops.
SPECIFICATION Spec
CONSTANTS
  Files = {f1, f2}
  Requests = {q1, q2}
  Calls = {a1, a2}
  Sends = {s1, s2}
  None = None
SYMMETRY Interchangeable
INVARIANTS
  FilesAreKept
PROPERTIES
  CleanupSparesFiled
CHECK_DEADLOCK FALSE
