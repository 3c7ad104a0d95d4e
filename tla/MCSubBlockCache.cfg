CONSTANTS
  small = small
  large = large
  Nobody = Nobody
  Threads = {t1, t2}
  Indices = {i1, i2, i3}
  Bitmaps = {small, large}
  MaxAccesses = 4
  BitmapSize <- MCBitmapSize
  PruneOptions <- MCPruneOptions
SPECIFICATION FairSpec
INVARIANTS
  TypeOK
  Snapshot
PROPERTIES
  EvictsLeastRecentlyUsed
  PrunesToTheLimits
  MutexIsReleased
