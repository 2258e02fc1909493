CONSTANTS
  h1 = h1
  h2 = h2
  w1 = w1
  w2 = w2
  Handlers = {h1, h2}
  Workers = {w1, w2}
  Attempts = 2
  StallLimit = 1
  MaxChanges = 2
  Cost <- MCCost
  Mishaps = 2
SPECIFICATION LiveSpec
CHECK_DEADLOCK FALSE
INVARIANTS UnseenChangesCovered EventsTruthful
PROPERTIES EventsSettle ChangesNoticed
