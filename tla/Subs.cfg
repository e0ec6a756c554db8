CONSTANTS
  th1 = th1
  th2 = th2
  t1 = t1
  t2 = t2
  cb1 = cb1
  None = None
  Thread <- TwoThreads
  Topic <- TwoTopics
  Callback <- OneCallback
  Refuses <- AnyMayFail
  MaxInfos = 3
  MaxLinks = 2
SPECIFICATION SpecL
SYMMETRY Symmetry
INVARIANTS RegistersAgree BatchIsAlive NoOrphans ServedAlone OneReceiverAlone ReportsOnlyUsed
PROPERTIES ImplementsActive
CHECK_DEADLOCK FALSE
