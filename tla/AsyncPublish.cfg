CONSTANTS
  th1 = th1
  th2 = th2
  None = None
  Thread <- MCThread
  Owner <- MCOwner
  Capacity = 1
  Quota <- MCQuota
  MaxServices = 2
  MaxLinks = 1
SPECIFICATION FairSpec
INVARIANTS OrderKept Flushed NothingOutlives
PROPERTIES PublishEnds DisconnectEnds
CHECK_DEADLOCK FALSE
