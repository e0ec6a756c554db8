CONSTANTS
  t1 = t1
  t2 = t2
  t3 = t3
  t4 = t4
  Thread <- MCThread
  Top <- MCTop
SPECIFICATION FairSpec
INVARIANTS MutualExclusion NoLostWakeup TicketsInLine
PROPERTIES EveryTicketServed ImplementsFifoLock
