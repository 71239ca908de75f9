SPECIFICATION Spec
CONSTANTS
  WordBase = 20000
  IntIds <- MCIntIds
  NumCpus = 3
  Trees <- MCTrees
  Aff3 <- MCAff3
  AffLow <- MCAffLow
  FrameOrder <- MCFrameOrder
  BlkBases = {10000, 10002}
  NumStacks = 2
INVARIANT DevicesFound
INVARIANT SearchesComplete
INVARIANT InterruptsReady
CHECK_DEADLOCK FALSE
