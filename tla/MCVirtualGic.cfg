SPECIFICATION Spec
CONSTANTS
  CPUs = {c0, c1}
  BootCpu = c0
  Guests = {c1}
  Spis = {33, 40}
  Ppis = {27}
  ConsoleInt = 33
  DiskInt = 40
  Timer = 27
  NumLr = 1
  MaxQueue = 2
  CtlrWrites = {{"ENABLE_GRP1NS", "ARE_S"}}
  RouterWrites <- ConsoleRouter
  WakerWrites = {"awake"}
  ModifierWrites = {{33}}
  EnableWrites = {27, 33}
  DisableWrites = {33}
  PendWrites = {33}
  EarlyTimer = FALSE
  None = None
INVARIANT QueuedImpliesSgi
INVARIANT InjectedIntoOwner
PROPERTY QueueDrains
PROPERTY LiveEntryKept
