SPECIFICATION Spec
CONSTANTS
  MaxUnits = 4
  MaxTokens = 4
  Documents <- MCDocuments
  Target = 3
  Overlap = 2
  Searched <- MCSearched
  Requests <- MCRequests
  RrfK = 2
  CandidateTopK = 3
  TopK = 2
  Header = 1
  Separator = 1
  Mark = 1
  MinTruncated = 3
  Budget = 16
  ItemLimits = {2, 3}
  Neighbors = TRUE
CHECK_DEADLOCK FALSE
INVARIANTS
  TypeOK
  ChunksCoverInOrder
  ChunksWellFormed
  AgreementIsAnswerable
  BudgetCutsATail
