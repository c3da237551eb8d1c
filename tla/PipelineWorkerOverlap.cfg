CONSTANTS
  Jobs = {j1}
  Workers = {w1, w2}
  MaxAttempts = 2
  TotalUnits = 5
  NoOne = NoOne
  NoJob = NoJob
SPECIFICATION Spec
INVARIANTS
  OneWorkerPerJob
CHECK_DEADLOCK FALSE
