---------------------------- MODULE MCHybridOrders ----------------------------
(***************************************************************************)
(* TLC instances of HybridOrders: two orders on one stock row, so that     *)
(* every handler competes for the same lock and the same stock.            *)
(***************************************************************************)
EXTENDS HybridOrders, TLC

CONSTANTS
  o1, o2, s1, p1, p2, p3,
  Units,          \* the quantity of order o2; order o1 asks for one unit
  Stock,          \* physical stock at the start
  Crashes, Faults, Requests

MCSkuOf == [o \in Orders |-> s1]
MCQty == [o \in Orders |-> IF o = o2 THEN Units ELSE 1]
MCInitialStock == [k \in Skus |-> Stock]
AllAtOnce == {[crash |-> Crashes, fault |-> Faults, request |-> Requests]}
\* A manual request in one behaviour, a crash and a failing statement in another,
\* a job that stalls too often in a third.
OneTrouble == {[crash |-> 0, fault |-> 0, request |-> Requests],
               [crash |-> Crashes, fault |-> Faults, request |-> 0],
               [crash |-> 2, fault |-> 0, request |-> 0]}
MCDeltas == {-1, 1}
MCQuantities == {1}

\* Slots are interchangeable; orders are where they ask for the same quantity.
SlotSymmetry == Permutations(Slots)
FullSymmetry == Permutations(Slots) \cup Permutations(Orders)
=============================================================================
