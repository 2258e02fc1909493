---------------------------- MODULE MCWebhookOrders ----------------------------
(***************************************************************************)
(* TLC instances of WebhookOrders: a sale of two lines that compete for    *)
(* stock, and one of a single line that only the default tenant can serve. *)
(***************************************************************************)
EXTENDS WebhookOrders, TLC

CONSTANTS s1, s2, k1, h1, h2

MCLines ==
  s1 :> <<[sku |-> k1, qty |-> 1], [sku |-> None, qty |-> 1], [sku |-> k1, qty |-> 1]>>
    @@ s2 :> <<[sku |-> k1, qty |-> 0], [sku |-> k1, qty |-> 2]>>

MCStock == <<"shop", k1>> :> 1 @@ <<"default", k1>> :> 2

\* Requests are interchangeable; only for runs without liveness.
Symmetry == Permutations(Handlers)
===============================================================================
