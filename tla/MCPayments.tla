----------------------------- MODULE MCPayments -----------------------------
(* Two pushes over a token's life and one Paystack charge told more than once. *)
EXTENDS Payments

CONSTANTS c1, c2, r1, h1
=============================================================================
