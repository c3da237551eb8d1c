CONSTANTS
  Chunks = {c1}
  Profiles = {p1}
  Workers = {w1}
  MaxAttempts = 2
  MaxRoutes = 1
  DeferBlocked = TRUE
  Gate = Gate
  NoOne = NoOne
  NoJob = NoJob
SPECIFICATION FairSpec
PROPERTIES
  DeferredIsTriedAgain
CHECK_DEADLOCK FALSE
