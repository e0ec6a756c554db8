CONSTANTS
  s1 = s1
  a1 = a1
  a2 = a2
  None = None
  Sync <- NoReq
  Async <- TwoAsync
  Forever <- NoReq
  Republish <- SecondAsync
  Multi = TRUE
  MaxSends = 2
  MaxReplies = 2
  MaxEvents = 1
SPECIFICATION Spec
CHECK_DEADLOCK FALSE
INVARIANTS PendingConsistent
PROPERTIES QuietAfterShutdown ResolvedIsQuiet
