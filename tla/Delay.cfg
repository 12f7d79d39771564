SPECIFICATION Spec
CONSTANTS
  t1 = t1
  t2 = t2
  t3 = t3
  NoThread = NoThread
  Threads = {t1, t2, t3}
  TickCpu = 0
  TickWrap = 4
  DelayApps <- ExactAndDeadly
INVARIANTS
  DeltasSorted
  ClockSleepersQueued
PROPERTIES
  ImplementsDelays
  SleepersWake
