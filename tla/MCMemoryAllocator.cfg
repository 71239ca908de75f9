SPECIFICATION Spec
CONSTANTS
  PoolSize = 3
  NumOfFreeList = 3
  PageShift = 1
  RamStart = 4
  RamSize = 14
  Regions <- MCRegions
  Requests <- MCRequests
  MaxFreeSize = 20
  None = None
INVARIANT ChainSortedAndMerged
INVARIANT FreeListsExact
INVARIANT NoAssertFails
INVARIANT NoDoubleOwner
INVARIANT RefusalJustified
PROPERTY ImplementsPagePool
