SPECIFICATION Spec
CONSTANTS
  MaxLinks = 2
  MaxFaults = 1
  None = None
  Pattern <- MCPattern
  Subject <- MCSubject
  MaxOps = 3
  MaxMsgs = 1
  ProcessorQueue = 1
INVARIANTS Settled PublishedArrives Exposed Distributes
PROPERTIES Restored
CHECK_DEADLOCK FALSE
