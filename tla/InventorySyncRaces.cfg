CONSTANTS
  r1 = r1
  w1 = w1
  w2 = w2
  Rows = {r1}
  Workers = {w1, w2}
  Quantities = {0, 1}
  Attempts = 2
  StallLimit = 1
  MaxJobs = 2
  Mishaps = 3
SPECIFICATION LiveSpec
CHECK_DEADLOCK FALSE
INVARIANTS SucceededReached OpenJobsHaveWork ChannelCurrent
PROPERTIES JobsSettle
