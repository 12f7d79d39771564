SPECIFICATION Spec
CONSTANTS
  c0 = c0
  c1 = c1
  i0 = i0
  i1 = i1
  dm = dm
  a = a
  b = b
  d = d
  e = e
  None = None
  Cpus = {c0, c1}
  Threads = {i0, i1, dm, a, b, d, e}
  Prios = {1, 2, 4, 5, 9}
  Idle <- IdleThreads
  Daem = dm
  InitCpu <- StartCpu
  InitPrio <- StartPrio
  Preempt <- GlobalA
  Apps <- All
INVARIANTS
  QueuesAgree
  RunsMostUrgent
  OneCpuEach
  ReleasedIsGone
PROPERTIES
  MigrationArrives
  KilledIsReleased
  DaemonRests
