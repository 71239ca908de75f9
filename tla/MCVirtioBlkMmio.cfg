SPECIFICATION Spec
CONSTANTS
  QueueSize = 2
  IdWidth = 2
  Builds = {"dev", "release"}
  Kinds = {"good", "badbuffer", "badstatus", "malformed"}
  Pages = {1, 16}
  None = None
INVARIANT RingsAgree
INVARIANT CompletionAnnounced
INVARIANT StatusFresh
PROPERTY RequestsEnd
CHECK_DEADLOCK FALSE
