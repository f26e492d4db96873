SPECIFICATION Spec
CONSTANTS
  Files = {1, 2}
  B = 2
  NDIRECT = 1
  NINDIRECT = 2
  s_data_start = 11
  BMAP = 4
  s_size = 7
  Input = {1}
  Vals = {2}
  Counts = {3}
  MaxCalls = 2
CHECK_DEADLOCK FALSE
INVARIANTS BlocksExact InodesSound
PROPERTIES Implements
