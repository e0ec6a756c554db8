CONSTANTS
  p1 = p1
  p2 = p2
  c1 = c1
  x1 = x1
  x2 = x2
  None = None
  Thread <- MCThread
  Producer <- MCProducer
  Item <- MCItem
  Putting <- TimedOffer
  Getting <- OnlyPoll
  Capacity = 2
SPECIFICATION Spec
INVARIANTS WithinCapacity
