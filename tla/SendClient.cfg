\* Three calls in one tab: two bodies, two users, and two keys.
CONSTANTS
  Calls = {c1, c2, c3}
  Keys = {k1, k2}
  Bodies = {b1, b2}
  Users = {u1, u2}
  None = None
  MaxCalls = 1
SPECIFICATION Spec
SYMMETRY Symmetry
INVARIANTS
  SendsAreTold
  UnresolvedIsKept
  ConflictNeedsOtherUser
CHECK_DEADLOCK FALSE
