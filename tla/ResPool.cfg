SPECIFICATION Spec
CONSTANTS
  t1 = t1
  t2 = t2
  t3 = t3
  thrd = thrd
  ipc = ipc
  NoThread = NoThread
  NoCtrl = NoCtrl
  Threads = {t1, t2, t3}
  Ctrls = {thrd, ipc}
  Cpus = {0, 1}
  Apps <- Uses
  MaxPools = 6
  MaxCalls = 3
  Levels = 4
  Rubbish = {70000, 20000000}
CHECK_DEADLOCK FALSE
INVARIANTS
  FreeListsExact
  IdFindsResource
  FreePoolIsFree
PROPERTIES
  CallsEnd
