CONSTANTS
  Chunks = {c1, c2}
  Profiles = {p1}
  Workers = {w1, w2}
  MaxAttempts = 2
  MaxRoutes = 2
  DeferBlocked = TRUE
  Gate = Gate
  NoOne = NoOne
  NoJob = NoJob
SPECIFICATION FairSpec
INVARIANTS
  TypeOK
  SucceededHasVector
  HoldersSpentAttempts
  HolderIsOwner
PROPERTIES
  SucceededIsFinal
  ImplementsRepository
  ImplementsQueue
  EveryJobResolves
CHECK_DEADLOCK FALSE
