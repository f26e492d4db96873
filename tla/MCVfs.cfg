SPECIFICATION Spec
CONSTANTS
  a = a
  b = b
  long = long
  t1 = t1
  t2 = t2
  Nobody = Nobody
  Threads = {t1, t2}
  NInodes = 3
  NSlots = 2
  Names = {a, b, long}
  Cut <- CutLong
  Calls <- WalkCalls
CHECK_DEADLOCK FALSE
INVARIANTS RefsExact DirsSound CleanupSound CycleHasLink
