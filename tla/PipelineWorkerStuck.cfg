CONSTANTS
  Jobs = {j1}
  Workers = {w1, w2}
  MaxAttempts = 2
  TotalUnits = 5
  NoOne = NoOne
  NoJob = NoJob
SPECIFICATION FairSpec
PROPERTIES
  ExpiredIsReclaimed
CHECK_DEADLOCK FALSE
