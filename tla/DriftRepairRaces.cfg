CONSTANTS
  f1 = f1
  f2 = f2
  s1 = s1
  a1 = a1
  w1 = w1
  w2 = w2
  m1 = m1
  None = None
  Fixers = {f1, f2}
  Scanners = {s1}
  Operators = {a1}
  Quantities = {0, 1}
  Starts <- MCStarts
  ScanWindows = {w1}
  RetryWindows = {m1}
  Threshold = 0
  Attempts = 2
  StallLimit = 1
  Posted = {"DETECTED", "FAILED_MANUAL"}
  ScanRuns = 1
  MaxEvents = 2
  CrashCost = 1
  Cost <- AnyCost
  Mishaps = 2
SPECIFICATION LiveSpec
CHECK_DEADLOCK FALSE
INVARIANTS EndedJobsAccounted ResolutionsMatch QueuedEventsHaveWork
PROPERTIES CorrectedOnce EventsSettle
