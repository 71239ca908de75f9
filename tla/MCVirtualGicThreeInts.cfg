SPECIFICATION Spec
CONSTANTS
  CPUs = {c0, c1}
  BootCpu = c0
  Guests = {c1}
  Spis = {33, 40}
  Ppis = {27}
  ConsoleInt = 33
  DiskInt = 40
  Timer = 27
  NumLr = 3
  MaxQueue = 2
  CtlrWrites = {{"ENABLE_GRP1NS", "ARE_S"}}
  RouterWrites <- OwnRouters
  WakerWrites = {"awake"}
  ModifierWrites = {}
  EnableWrites = {27, 33, 40}
  DisableWrites = {}
  PendWrites = {}
  EarlyTimer = FALSE
  None = None
INVARIANT TimerDeactivatedByVgic
