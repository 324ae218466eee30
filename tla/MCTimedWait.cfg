SPECIFICATION Spec
CONSTANTS
  m1 = m1
  m2 = m2
  Msgs = {m1, m2}
  MaxWaits = 6
INVARIANTS
  TimeOutIsOwn
  NothingLost
PROPERTY
  LimitedWaitReturns
CHECK_DEADLOCK FALSE
