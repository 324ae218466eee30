SPECIFICATION Spec
CONSTANTS
  t1 = t1
  t2 = t2
  w1 = w1
  w2 = w2
  w3 = w3
  n1 = n1
  n2 = n2
  NULL = NULL
  Workers = {t1, t2}
  Works = {w1, w2, w3}
  Names = {n1, n2}
  Name <- TwoNames
  MaxPolls = 2
INVARIANTS
  TypeOK
  DeletionIsSafe
  LiveWorkIsFound
PROPERTY
  AssignedIsStarted
  ImplementsPromise
CHECK_DEADLOCK FALSE
