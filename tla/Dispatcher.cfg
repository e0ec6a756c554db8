CONSTANTS
  th1 = th1
  th2 = th2
  None = None
  Thread <- TwoThreads
  Waits <- Either
  MaxRuns = 2
  MeetAgain = FALSE
SPECIFICATION FairSpec
INVARIANTS  StoppedIsQuiet RefusalsJustified TrueMeansStopped StopSucceeds NothingOutlives
PROPERTIES StopReturns
CHECK_DEADLOCK FALSE
