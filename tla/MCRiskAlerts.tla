----------------------------- MODULE MCRiskAlerts -----------------------------
(***************************************************************************)
(* TLC instances of RiskAlerts: two calls that overlap at one row.         *)
(***************************************************************************)
EXTENDS RiskAlerts, TLC

CONSTANTS c1, c2

\* A retry and a silent post can meet; a failed statement, an event that ages, a
\* dying process and a fix that fails after its event was closed come alone.
MCCost == [retry |-> 1, silence |-> 1,
           failure |-> 2, age |-> 2, crash |-> 2, overtaken |-> 2]

AgeCost == [age |-> 1]
NoCost  == [nothing |-> 1]

\* Callers are interchangeable.
Symmetry == Permutations(Callers)
===============================================================================
