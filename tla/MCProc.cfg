SPECIFICATION FairSpec
CONSTANTS
  NULL = NULL
  MaxPid = 4
  Statuses = {0, ALIVE}
  STATUS_ALIVE = ALIVE
CHECK_DEADLOCK FALSE
INVARIANTS FamilySound
PROPERTIES WaitReturns
