CONSTANTS
  f1 = f1
  f2 = f2
  s1 = s1
  a1 = a1
  w1 = w1
  w2 = w2
  m1 = m1
  None = None
  Fixers = {f1, f2}
  Scanners = {s1}
  Operators = {}
  Quantities = {0, 1, 2}
  Starts <- MCStarts
  ScanWindows = {w1, w2}
  RetryWindows = {}
  Threshold = 0
  Attempts = 2
  StallLimit = 1
  Posted = {"DETECTED", "FAILED_MANUAL"}
  ScanRuns = 1
  MaxEvents = 2
  CrashCost = 1
  Cost <- MoveCost
  Mishaps = 1
SPECIFICATION Spec
CHECK_DEADLOCK FALSE
INVARIANTS ResolvedMeansRepaired
