SPECIFICATION Spec
CONSTANTS
  NULL = NULL
  Procs = {p1, p2, p3}
  Fds = {0, 1}
  Bytes = {0, 1}
  PIPE_SZ = 2
  SIZE_T = 4
  UINT64 = 8
  Counts = {1, 2}
  DupAllowed = FALSE
  MaxBroken = 0
SYMMETRY Symmetry
CHECK_DEADLOCK FALSE
INVARIANTS NotBothAsleep
PROPERTIES Implements
