SPECIFICATION Spec
CONSTANTS
  main = main
  a = a
  b = b
  Idle = Idle
  Threads = {main, a, b}
  PeriodApps <- Punctual
INVARIANTS
  QueuesExact
PROPERTIES
  ImplementsPeriods
  JobsRestart
