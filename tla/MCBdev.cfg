SPECIFICATION FairSpec
CONSTANTS
  NULL = NULL
  Threads = {t1, t2}
  NBlks = 2
  N_BLKS_PER_PAGE = 2
  Vals = {0, 1}
INVARIANTS HeadersKept CleanOnDisk RequestQueue
PROPERTIES RequestsComplete
CHECK_DEADLOCK FALSE
