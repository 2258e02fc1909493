-------------------------- MODULE MCWebhookRechecks --------------------------
(***************************************************************************)
(* TLC instances of WebhookRechecks: two changes of one row, requests that *)
(* overlap, workers that run side by side.                                 *)
(***************************************************************************)
EXTENDS WebhookRechecks, TLC

CONSTANTS h1, h2, w1, w2

\* Two failed calls can meet; everything else comes alone.
MCCost == [failure |-> 1, timeout |-> 2, giveUp |-> 2, setting |-> 2, request |-> 2,
           death |-> 2]
=============================================================================
