SPECIFICATION Spec
CONSTANTS
  WIDTH = 2
  Nodes = {1, 2, 3, 4, 5}
  Leaves = {101, 102, 103}
  Indexes = {0, 1, 2, 5, 6}
CHECK_DEADLOCK FALSE
INVARIANTS TreeKept PagesFound
PROPERTIES Implements
