SPECIFICATION Spec
CONSTANTS
  NUMBER_OF_DESCRIPTORS = 5
  IdxLimit = 5
  Builds = {"dev", "release"}
  Blocks <- MCBlocks
  Cells <- MCCells
  Values <- MCValues
  BlkRequests <- MCBlkRequests
  None = None
  BaseLba = 1
  BytesPerSector = 2
  SectorsPerCluster = 4
  ReservedSectors = 1
  FatSectors = 1
  NumberOfFats = 1
  Fat <- MCFat
  Directory <- MCDirectory
  Calls <- MCCalls
  MaxCalls = 1
  BounceAt <- MCBounceAt
INVARIANT QueueExact
INVARIANT PagesReturned
PROPERTY ImplementsFileStore
PROPERTY RefusedAtSecondSector
PROPERTY CallsReturn
CHECK_DEADLOCK FALSE
