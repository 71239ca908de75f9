SPECIFICATION Spec
CONSTANTS
  NUMBER_OF_DESCRIPTORS = 5
  IdxLimit = 5
  Builds = {"dev", "release"}
  Blocks <- MCBlocks
  Cells <- MCCells
  Values <- MCValues
  BlkRequests <- MCBlkRequests
  None = None
  BaseLba = 1
  BytesPerSector = 2
  SectorsPerCluster = 4
  ReservedSectors = 1
  FatSectors = 1
  NumberOfFats = 1
  Fat <- MCFat
  Directory <- MCDirectory
  Calls <- MCAnyWrites
  MaxCalls = 1
  BounceAt <- MCBounceAt
CHECK_DEADLOCK FALSE
INVARIANT TransfersOwnBlocks
