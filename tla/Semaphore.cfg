SPECIFICATION Spec
CONSTANTS
  t1 = t1
  t2 = t2
  t3 = t3
  NoThread = NoThread
  Threads = {t1, t2, t3}
  Cpus = {0, 1}
  Apps <- Uses
  MaxCalls = 3
INVARIANTS
  Conservation
  PostFindsWaiter
PROPERTIES
  WaiterServed
  BroadcastServes
