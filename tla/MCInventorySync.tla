---------------------------- MODULE MCInventorySync ----------------------------
(***************************************************************************)
(* TLC instances of InventorySync: one stock row that changes a few times  *)
(* while two workers push.                                                 *)
(***************************************************************************)
EXTENDS InventorySync, TLC

CONSTANTS r1, w1, w2

\* Workers are interchangeable; only for runs without liveness.
WorkerSymmetry == Permutations(Workers)
=============================================================================
