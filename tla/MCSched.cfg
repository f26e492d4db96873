SPECIFICATION FairSpec
CONSTANTS
  NULL = NULL
  CPUs = {k1, k2}
  Threads = {t1, t2}
INVARIANTS ListsSound LocksSound
PROPERTIES ReadyRuns FreeTaken
