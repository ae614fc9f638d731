\* Any of the fifteen kinds of records; two of them, and two calls, so that
\* two saves of one record overlap, or one draft is saved twice.
CONSTANTS
  Ids = {i1, i2}
  Calls = {c1, c2}
  Texts = {t1}
  None = None
  MaxLoads = 1
SPECIFICATION MCSpec
SYMMETRY Symmetry
INVARIANTS
  SavesAreMeant
  MembersOfOneSave
  ViewShowsTold
CHECK_DEADLOCK FALSE
