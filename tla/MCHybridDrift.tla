---------------------------- MODULE MCHybridDrift -----------------------------
(***************************************************************************)
(* TLC instances of HybridDrift: one stock row, so that detections, fixes  *)
(* and orders meet on it.                                                  *)
(***************************************************************************)
EXTENDS HybridDrift, TLC

CONSTANTS o1, o2, k1, p1, p2, w1, w2

MCSkuOf == [o \in Orders |-> k1]
MCQty == [o \in Orders |-> 1]
MCStarts == {<<1, 0>>}
MCSales == {1}
MCNumbers == {1}

\* An order, a channel sale, a failed attempt, a dead worker and a lost request
\* come in twos, everything else alone.
Often == {"order", "sale", "failure", "crash", "loss"}
Seldom == {"run", "ask", "overtake", "adjust", "renew", "sync", "webhook", "death"}
MCCost == [what \in Often \cup Seldom |-> IF what \in Often THEN 1 ELSE 2]
===============================================================================
