CONSTANTS
  th1 = th1
  th2 = th2
  s1 = s1
  s2 = s2
  s3 = s3
  b1 = b1
  None = None
  Toolkit = Toolkit
  Thread <- MCThread
  Owner <- MCOwner
  Subject <- MCSubject
  Excluded <- MCExcluded
  Bin <- MCBin
  BinFor <- MCBinFor
  BinSize = 2
  Quota <- MCQuota
  MaxFailures = 1
  MaxLinks = 2
SPECIFICATION FairSpec
INVARIANTS InOrder Flushed
PROPERTIES Flushes
CHECK_DEADLOCK FALSE
