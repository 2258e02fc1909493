----------------------------- MODULE MCScanCursor -----------------------------
(***************************************************************************)
(* TLC instances of ScanCursor: two rows that may change at the same time, *)
(* and scans that read one row each.                                       *)
(***************************************************************************)
EXTENDS ScanCursor

CONSTANTS r1, r2, s1, s2,
  TextLeads   \* which row comes first where ids are compared as text

MCOrder  == [r \in Rows |-> IF r = r1 THEN 1 ELSE 2]
MCText   == [r \in Rows |-> IF r = TextLeads THEN 1 ELSE 2]
MCMillis == [t \in Times |-> t]
MCAsked  == {[rows |-> Rows, start |-> 1, end |-> 1], [rows |-> {r2}, start |-> 0, end |-> 2]}
===============================================================================
