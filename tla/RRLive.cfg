CONSTANTS
  s1 = s1
  a1 = a1
  a2 = a2
  None = None
  Sync <- OneSync
  Async <- OneAsync
  Forever <- NoReq
  Republish <- NoReq
  Multi = FALSE
  MaxSends = 1
  MaxReplies = 1
  MaxEvents = 1
SPECIFICATION FairSpec
CHECK_DEADLOCK FALSE
PROPERTIES AsyncResolved SyncReturns
INVARIANTS ReturnsOwnReply
