CONSTANTS
  MaxEdits = 1
  MaxWrites = 2
  s1 = s1
  s2 = s2
  b1 = b1
  b2 = b2
  p1 = p1
  p2 = p2
  Ships = {s1, s2}
  Branches = {b1, b2}
  Ports = {p1, p2}
  BranchOf <- MCBranchOf
  Tries = {c1, c2}
  MaxEntries = 3
  Imos = {i1, i2}
  FlagNames = {f1, f2}
  Lookups = {l1, l2}
  MaxChanges = 3
  Null = Null
  Empty = Empty
  Failed = Failed
  Hand = Hand
SYMMETRY MCSymmetry
SPECIFICATION DeskSpec
INVARIANTS
  OwnSaveStands
  LetterIsSound
  FormFits
  WorkIsKept
  CreatedOnce
PROPERTY InputStands
CHECK_DEADLOCK FALSE
CONSTRAINT OneByOne
