------------------------------ MODULE MCOmsLedger ------------------------------
(***************************************************************************)
(* TLC instances of OmsLedger.  Order o1 asks for one unit of every row in *)
(* Wanted[o1], o2 in the same way; adjustments add, remove and re-buffer.  *)
(***************************************************************************)
EXTENDS OmsLedger, TLC

CONSTANTS
  o1, o2, r1, r2, p1, p2,
  Stock,          \* physical stock at the start
  Buffer,         \* safety buffer of every sku
  Shape,          \* which lines the two orders have
  Adjusts, Returned, Interrupts

One(r) == [row |-> r, quantity |-> 1]
MCLines ==
  CASE Shape = "repeated" -> (o1 :> <<One(r1), One(r1)>> @@ o2 :> <<One(r1)>>)
    [] Shape = "crossed"  -> (o1 :> <<One(r1), One(r2)>> @@ o2 :> <<One(r2), One(r1)>>)
    [] Shape = "single"   -> (o1 :> <<One(r1)>> @@ o2 :> <<One(r1)>>)
MCInitialStock == [r \in Rows |-> Stock]
MCSkuBuffer == [r \in Rows |-> Buffer]
MCAdjustments == {[physical |-> -1, buffer |-> 0]}
MCBudget == [adjust |-> Adjusts, return |-> Returned, interrupt |-> Interrupts]

SlotSymmetry == Permutations(Slots)
=============================================================================
