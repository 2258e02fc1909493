CONSTANTS
  s1 = s1
  s2 = s2
  k1 = k1
  h1 = h1
  h2 = h2
  None = None
  Sales = {s1, s2}
  Skus = {k1}
  Lines <- MCLines
  InitialStock <- MCStock
  Handlers = {h1, h2}
  Deliveries = 2
  Allowed = {"timeout", "setting", "failure", "crash"}
  Mishaps = 2
SPECIFICATION LiveSpec
CHECK_DEADLOCK FALSE
INVARIANTS TypeOK AcceptedLinesAccounted RefusalsPlaceNothing OrdersInHand
PROPERTIES SalesSettle
