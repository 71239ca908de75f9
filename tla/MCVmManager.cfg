SPECIFICATION Spec
CONSTANTS
  NumCpus = 3
  DiskImages = {0, 1}
  Memory = 8
  StackSize = 1
  RamSize = 2
  MaxIo = 1
  MaxLines = 3
  None = None
INVARIANT VmListDense
INVARIANT OwnVm
INVARIANT MemoryAccounted
INVARIANT CommandOfThisSession
PROPERTY BootSwitchesOrPanic
PROPERTY DiskServed
CHECK_DEADLOCK FALSE
