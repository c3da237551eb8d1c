CONSTANTS
  Chunks = {c1, c2}
  Profiles = {p1}
  Workers = {w1, w2}
  MaxAttempts = 2
  Gate = Gate
  NoOne = NoOne
SPECIFICATION Spec
SYMMETRY Symmetry
INVARIANTS
  TypeOK
  WithinBudget
  LeasedIffRunning
CHECK_DEADLOCK FALSE
