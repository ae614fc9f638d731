\* The timesheet: one tab and colleagues, one dialog that follows the data
\* and one that does not; two writes, so that a save may follow another.
\* The request: two calls at once and two writes after the first row.
CONSTANTS
  Rows = {r1}
  Dialogs = {"figures", "letters"}
  MaxEdits = 2
  MaxWrites = 2
  Null = Null
  MaxAsks = 2
  MaxVersions = 3
  Nothing = Nothing
  v1 = v1
  v2 = v2
  n1 = n1
  n2 = n2
  n3 = n3
  Vessels = {v1, v2}
  Nominations = {n1, n2, n3}
  VesselOf <- MCVesselOf
SPECIFICATION PapersSpec
INVARIANTS
  SavesStand
  MailsFit
PROPERTIES
  TypingStands
CHECK_DEADLOCK FALSE
