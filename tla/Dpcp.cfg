SPECIFICATION Spec
CONSTANTS
  hi = hi
  mid = mid
  lo = lo
  r1 = r1
  r2 = r2
  NoThread = NoThread
  Threads = {hi, mid, lo}
  Resources = {r1, r2}
  Cpus = {0, 1}
  MaxPrio = 3
  DpcpApps <- Sound
CHECK_DEADLOCK FALSE
INVARIANTS
  CeilingProtects
  SystemExact
PROPERTIES
  PendsEnd
