CONSTANTS
  c1 = c1
  c2 = c2
  Callers = {c1, c2}
  HighThreshold = 3
  MaxEvents = 3
  Cost <- NoCost
  Mishaps = 0
SPECIFICATION Spec
CHECK_DEADLOCK FALSE
INVARIANTS RiskCurrent
