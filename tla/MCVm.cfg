SPECIFICATION Spec
CONSTANTS
  NULL = NULL
  Procs = {p1, p2}
  Frames = {0, 1, 4, 10}
  N_PTE = 3
  N_PDE = 2
  CodePages = 1
  StackPages = 1
  Stores = {s1}
  StorePages = 1
  SbrkSizes <- Sbrks
  LowEnd = 2
  Touched = {1, 4}
  Vals = {0, 1}
CHECK_DEADLOCK FALSE
INVARIANTS RefcntExact CowSound RegionsApart
PROPERTIES Implements
SYMMETRY Symmetry
