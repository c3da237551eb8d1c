CONSTANTS
  Requests = {r1, r2}
  Sessions = {c1, c2}
  Documents = {d1, d2}
  MaxVersions = 2
  Batch = 2
  Null = Null
SPECIFICATION Spec
SYMMETRY Symmetry
INVARIANTS
  TypeOK
  ThreadsInOrder
  CitationsAnchored
  AnswerIsCited
CHECK_DEADLOCK FALSE
