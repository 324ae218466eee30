SPECIFICATION Spec
CONSTANTS
  s1 = s1
  s2 = s2
  m1 = m1
  m2 = m2
  m3 = m3
  Senders = {s1, s2}
  Msgs = {m1, m2, m3}
  Stale = {m3}
  MaxRuns = 2
INVARIANTS
  TypeOK
  NoWorkerAfterStop
PROPERTIES
  ImplementsFifo
  StopReturns
  AcceptedIsHandled
CHECK_DEADLOCK FALSE
