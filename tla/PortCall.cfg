\* Three calls of any endpoint, each of which acts once, so the system stops.
SPECIFICATION MCSpec
CONSTANTS
  Calls = {c1, c2, c3}
  Types = {"PREARRIVAL", "ETA_ETB", "SOF", "CARGO_UPDATE"}
  None = None
  MaxTime = 1
  EtaHours = 0
SYMMETRY Interchangeable
INVARIANTS
  RecordIsTrue
  FiltersAreHonest
  StagesInOrder
  QuietIsInformed
CHECK_DEADLOCK FALSE
