CONSTANTS
  Jobs = {j1, j2}
  Workers = {w1, w2}
  MaxAttempts = 2
  TotalUnits = 1
  NoOne = NoOne
SPECIFICATION Spec
SYMMETRY Symmetry
INVARIANTS
  TypeOK
  WithinBudget
  LeasedIffRunning
PROPERTIES
  NoStolenLease
