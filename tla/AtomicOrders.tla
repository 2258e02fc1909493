----------------------------- MODULE AtomicOrders -----------------------------
(***************************************************************************)
(* What the hybrid order engine promises its callers: each order moves     *)
(* through its life cycle in single steps, and each step moves the stock   *)
(* row with it.  No lock, no queue, no transaction is visible here.        *)
(***************************************************************************)
EXTENDS Integers

CONSTANTS Orders, Skus, SkuOf, Qty

VARIABLES physical, reserved, status

vars == <<physical, reserved, status>>

Init ==
  /\ physical \in [Skus -> Nat]
  /\ reserved = [k \in Skus |-> 0]
  /\ status = [o \in Orders |-> "NONE"]

Becomes(o, from, to) ==
  /\ status[o] \in from
  /\ status' = [status EXCEPT ![o] = to]

Place(o) ==
  /\ Becomes(o, {"NONE"}, "CREATED")
  /\ UNCHANGED <<physical, reserved>>

Reserve(o) ==
  /\ Becomes(o, {"CREATED"}, "RESERVED")
  /\ physical[SkuOf[o]] - reserved[SkuOf[o]] >= Qty[o]
  /\ reserved' = [reserved EXCEPT ![SkuOf[o]] = @ + Qty[o]]
  /\ UNCHANGED physical

Sell(o) ==
  /\ Becomes(o, {"RESERVED"}, "CONFIRMED")
  /\ physical' = [physical EXCEPT ![SkuOf[o]] = @ - Qty[o]]
  /\ reserved' = [reserved EXCEPT ![SkuOf[o]] = @ - Qty[o]]

Reject(o) ==
  /\ Becomes(o, {"CREATED"}, "FAILED")
  /\ UNCHANGED <<physical, reserved>>

GiveBack(o) ==
  /\ Becomes(o, {"RESERVED"}, "FAILED")
  /\ reserved' = [reserved EXCEPT ![SkuOf[o]] = @ - Qty[o]]
  /\ UNCHANGED physical

\* A retry of a failed order starts it again.
Renew(o) ==
  /\ Becomes(o, {"FAILED"}, "CREATED")
  /\ UNCHANGED <<physical, reserved>>

\* An adjustment or a webhook sets the stock, never below what is reserved.
Restock(k, n) ==
  /\ n >= reserved[k]
  /\ physical' = [physical EXCEPT ![k] = n]
  /\ UNCHANGED <<reserved, status>>

Next ==
  \/ \E o \in Orders : \/ Place(o) \/ Reserve(o) \/ Sell(o)
                       \/ Reject(o) \/ GiveBack(o) \/ Renew(o)
  \/ \E k \in Skus : Restock(k, physical'[k])

Spec == Init /\ [][Next]_vars
=============================================================================
