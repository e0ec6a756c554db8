CONSTANTS
  th1 = th1
  th2 = th2
  t1 = t1
  t2 = t2
  cb1 = cb1
  None = None
  Thread <- TwoThreads
  Topic <- OneTopic
  Callback <- OneCallback
  Refuses <- NoneFails
  MaxInfos = 3
  MaxLinks = 1
SPECIFICATION SpecL
SYMMETRY Symmetry
INVARIANTS Served
CHECK_DEADLOCK FALSE
