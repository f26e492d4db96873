SPECIFICATION LockSpec
CONSTANTS
  NULL = NULL
  p1 = p1
  p2 = p2
  p3 = p3
  a = a
  b = b
  c1 = c1
  c2 = c2
  r1 = r1
  r2 = r2
  r3 = r3
  r4 = r4
  Procs = {p1, p2, p3}
  Names = {a, b}
  Ctxs = {c1, c2}
  Regs = {r1, r2, r3, r4}
CHECK_DEADLOCK FALSE
PROPERTIES FreeLockGranted
