SPECIFICATION FairSpec
CONSTANTS
  a = a
  b = b
  e = e
  Docs <- MCDocs
  Terms <- MCTerms
  TermsOf <- MCTermsOf
  MaxTx = 3
  NoDoc = NoDoc
CHECK_DEADLOCK FALSE
INVARIANTS
  TypeOK
  CompleteIsExact
PROPERTIES
  UndisturbedIsExact
  EveryTransactionEnds
