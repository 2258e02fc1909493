CONSTANTS
  o1 = o1
  o2 = o2
  s1 = s1
  p1 = p1
  p2 = p2
  p3 = p3
  None = None
  Orders = {o1, o2}
  Skus = {s1}
  Slots = {p1, p2}
  SkuOf <- MCSkuOf
  Qty <- MCQty
  InitialStock <- MCInitialStock
  Attempts = 2
  StallLimit = 1
  Deltas = {}
  Quantities = {}
  MaxRetries = 1
  Budgets <- OneTrouble
  Fragile = {"create", "job", "adjust", "webhook", "sale"}
  Units = 2
  Stock = 2
  Crashes = 1
  Faults = 1
  Requests = 1
  LockMayExpire = TRUE
  LockWaitMayFail = TRUE
SPECIFICATION FairSpec
CHECK_DEADLOCK FALSE
INVARIANTS NoStrandedReservation
PROPERTIES OrdersSettle ReleaseOwnOnly
