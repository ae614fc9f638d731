\* Any block of the seed, run twice; two inserts of the application are
\* under way at once, and three records.
CONSTANTS
  Runs = {r1, r2}
  Apps = {a1, a2}
  MaxRows = 3
  MaxKey = 3
SPECIFICATION SeedSpec
SYMMETRY Symmetry
INVARIANTS
  RecordIsSeeded
  NothingIsRefused
PROPERTIES
  EditsSurvive
CHECK_DEADLOCK FALSE
