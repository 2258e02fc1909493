CONSTANTS
  o1 = o1
  o2 = o2
  s1 = s1
  p1 = p1
  p2 = p2
  p3 = p3
  None = None
  Orders = {o1, o2}
  Skus = {s1}
  Slots = {p1, p2, p3}
  SkuOf <- MCSkuOf
  Qty <- MCQty
  InitialStock <- MCInitialStock
  Attempts = 2
  StallLimit = 1
  Deltas <- MCDeltas
  Quantities <- MCQuantities
  MaxRetries = 0
  Budgets <- AllAtOnce
  Fragile = {"job", "adjust", "webhook"}
  Units = 2
  Stock = 2
  Crashes = 1
  Faults = 1
  Requests = 1
  LockMayExpire = FALSE
  LockWaitMayFail = TRUE
SPECIFICATION Spec
CHECK_DEADLOCK FALSE
SYMMETRY SlotSymmetry
INVARIANTS NoOverselling ReservationsBacked PushAfterSale
PROPERTIES ImplementsAtomic
