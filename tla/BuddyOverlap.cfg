CONSTANTS
  t1 = t1
  t2 = t2
  t3 = t3
  Threads = {t1, t2, t3}
  NoThread = NoThread
  NumWrap = 64
  Apps <- Mixed
SPECIFICATION Spec

PROPERTIES BuddyImplementsHeap
CHECK_DEADLOCK FALSE
