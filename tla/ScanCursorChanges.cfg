CONSTANTS
  r1 = r1
  r2 = r2
  s1 = s1
  s2 = s2
  None = None
  TextLeads = r1
  Rows = {r1, r2}
  Order <- MCOrder
  Text <- MCText
  Millis <- MCMillis
  Scanners = {s1, s2}
  Limit = 1
  Interval = 1
  Attempts = 2
  StallLimit = 1
  MaxTime = 2
  MaxChanges = 1
  MaxOpen = 1
  MaxJobs = 1
  Asked <- MCAsked
  Allowed = {"manual", "failure", "crash", "switch", "recheck"}
  Allowance = 1
SPECIFICATION ScanLiveSpec
CHECK_DEADLOCK FALSE
INVARIANTS NothingSkipped
PROPERTIES ChangesCompared
