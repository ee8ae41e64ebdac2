----------------------------- MODULE MCTenancy ------------------------------
(* One organization, two users, two calls: enough for transfers that cross. *)
EXTENDS Tenancy

CONSTANTS o1, a, b, c1, c2
=============================================================================
