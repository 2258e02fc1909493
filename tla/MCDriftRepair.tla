----------------------------- MODULE MCDriftRepair -----------------------------
(***************************************************************************)
(* TLC instances of DriftRepair: one stock row, its scans, two fix workers *)
(* and an operator.                                                        *)
(***************************************************************************)
EXTENDS DriftRepair

CONSTANTS f1, f2, s1, a1, w1, w2, m1,
          CrashCost  \* of Mishaps; everything else costs all of it

Everything == {"move", "edit", "relink", "post", "ignore", "failure", "crash",
               "expiry", "eviction"}
AnyCost == [what \in Everything |-> IF what = "crash" THEN CrashCost ELSE Mishaps]
MoveCost == [what \in {"move"} |-> 1]

MCStarts == {<<1, 0>>}
===============================================================================
