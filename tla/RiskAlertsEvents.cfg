CONSTANTS
  c1 = c1
  c2 = c2
  Callers = {c1, c2}
  HighThreshold = 2
  MaxEvents = 2
  Cost <- MCCost
  Mishaps = 2
SPECIFICATION Spec
CHECK_DEADLOCK FALSE
SYMMETRY Symmetry
INVARIANTS RowsAnnounced DriftsAnnounced
