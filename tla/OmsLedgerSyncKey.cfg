CONSTANTS
  o1 = o1
  o2 = o2
  r1 = r1
  r2 = r2
  p1 = p1
  p2 = p2
  None = None
  Orders = {o1, o2}
  Rows = {r1}
  Slots = {p1}
  Lines <- MCLines
  InitialStock <- MCInitialStock
  SkuBuffer <- MCSkuBuffer
  Adjustments <- MCAdjustments
  ReturnQuantities = {1}
  Fragile = {}
  Budget <- MCBudget
  Stock = 3
  Buffer = 0
  Shape = "single"
  Adjusts = 0
  Returned = 0
  Interrupts = 0
SPECIFICATION Spec
CHECK_DEADLOCK FALSE
INVARIANTS SyncKeysNeverRefuse
