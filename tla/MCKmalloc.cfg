SPECIFICATION KmSpec
CONSTANTS
  MAX_ORDER = 2
  NPages = 12
  PmemStart = 1
  BitmapPages = 1
  PagemapPages = 1
  BootPages = 2
  MaxRef = 2
  MaxHeld = 3
  pg_size = 4
  SLAB_SIZE = 1
  INT_SIZE = 1
  CACHE_SIZE = 1
  MIN_OBJS_PER_SLAB = 2
  KmallocSizes <- Sizes
  CacheSizes = {3}
  MaxObjs = 3
CHECK_DEADLOCK FALSE
INVARIANTS PagesSound FailsOnlyWhenFull ObjectsApart SlabsSound
