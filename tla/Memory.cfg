CONSTANTS
  t1 = t1
  t2 = t2
  t3 = t3
  Threads = {t1, t2, t3}
  NoThread = NoThread
  NumWrap = 64
  Apps <- Sound
SPECIFICATION Spec
INVARIANTS VolExact
PROPERTIES BuddyImplementsHeap VolImplementsHeap VolRefusesOnlyFull CallsEnd
CHECK_DEADLOCK FALSE
