CONSTANTS
  o1 = o1
  o2 = o2
  k1 = k1
  p1 = p1
  p2 = p2
  w1 = w1
  w2 = w2
  None = None
  Skus = {k1}
  Orders = {o1}
  SkuOf <- MCSkuOf
  Qty <- MCQty
  Callers = {p1, p2}
  Workers = {w1}
  Starts <- MCStarts
  Strategy = "EXTERNAL_TO_INTERNAL"
  Attempts = 2
  StallLimit = 1
  Sales <- MCSales
  Numbers <- MCNumbers
  MaxDrifts = 7
  MaxJobs = 2
  Cost <- MCCost
  Mishaps = 2
SPECIFICATION FairSpec
CHECK_DEADLOCK FALSE
INVARIANTS QueuedDriftsHaveJob
PROPERTIES EngineUndisturbed ChannelConverges DriftsClose
