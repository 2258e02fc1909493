CONSTANTS
  o1 = o1
  o2 = o2
  r1 = r1
  r2 = r2
  p1 = p1
  p2 = p2
  None = None
  Orders = {o1, o2}
  Rows = {r1}
  Slots = {p1, p2}
  Lines <- MCLines
  InitialStock <- MCInitialStock
  SkuBuffer <- MCSkuBuffer
  Adjustments <- MCAdjustments
  ReturnQuantities = {1}
  Fragile = {"cancel"}
  Budget <- MCBudget
  Stock = 3
  Buffer = 1
  Shape = "repeated"
  Adjusts = 1
  Returned = 2
  Interrupts = 1
SPECIFICATION Spec
CHECK_DEADLOCK FALSE
SYMMETRY SlotSymmetry
INVARIANTS ReservationsCounted LedgerExplainsBalance
  ReservationFollowsOrder ReturnsBounded NewestJobCurrent
PROPERTIES BufferKept
