CONSTANTS
  Jobs = {j1, j2}
  Workers = {w1, w2}
  MaxAttempts = 2
  TotalUnits = 5
  NoOne = NoOne
  NoJob = NoJob
SPECIFICATION FairSpec
INVARIANTS
  TypeOK
  HoldersSpentAttempts
  CorpusIsReported
  HolderIsOwner
  OutcomesAgree
PROPERTIES
  ImplementsRepository
  ImplementsQueue
  EveryJobResolves
CHECK_DEADLOCK FALSE
