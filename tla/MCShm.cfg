SPECIFICATION FairSpec
CONSTANTS
  NULL = NULL
  Procs = {p1, p2}
  Names = {a, b}
  Ctxs = {c1, c2}
  Regs = {r1, r2}
CHECK_DEADLOCK FALSE
INVARIANTS TypeOK RefcntExact NoDangling RmapExact CallsSound
PROPERTIES LockKept RegionKept Implements CallsReturn
