CHECK_DEADLOCK FALSE
CONSTANTS
  Threads = {t1, t2}
  Allocating = {t1}
  MaxHeld = 3
  Areas = {a1, a2, a3}
  KPage = 3
  HeaderSize = 1
  MinAlloc = 1
  Sizes = {0, 1, 3, 8}
  ReallocSizes = {3}
  Shrinking = FALSE
  OnDemandAlloc = TRUE
  ExtraAlloc = TRUE
  FreeAreas = TRUE
  KeepMinimum = 1
  KeepFactor = 1
  MaxLog2 = 8
  IntBits = 8
  NULL = NULL
SPECIFICATION Spec
SYMMETRY Symmetry
INVARIANTS AreasTiled FreeListsSound StatsExact PendingIsAwaited
PROPERTY ImplementsAllocator
