SPECIFICATION Spec
CONSTANTS
  c1 = c1
  c2 = c2
  th1 = th1
  th2 = th2
  NULL = NULL
  Clients = {c1, c2}
  Threads = {th1, th2}
  Owner <- OneThreadEach
  Types = {"RELATIVE", "LOOP"}
  Durations = {1}
  OnceAlloc = 1
  FlowModulus = 3
  MaxPool = 2
  MaxFlow = 2
  MaxTime = 2
  MsPerSec = 2
  Word = 16
SYMMETRY Swap
INVARIANTS
  TypeOK
  TableIsSound
  CrashOnlyAfterEarlyFree
  OnlyLastSetDelivers
  StoppedStaysIdle
  BlocksAccountedFor
PROPERTIES
  ImplementsAlarm
