SPECIFICATION Spec
CONSTANTS
  NULL = NULL
  Procs = {p1, p2}
  Fds = {0, 1, 2}
  Bytes = {0}
  PIPE_SZ = 1
  SIZE_T = 2
  UINT64 = 8
  Counts = {1}
  DupAllowed = TRUE
  MaxBroken = 1
SYMMETRY Symmetry
CHECK_DEADLOCK FALSE
INVARIANTS CountsSound
