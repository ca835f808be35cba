----------------------------- MODULE MCPurchase -----------------------------
(***************************************************************************)
(* Purchase with three requests of one user: enough for a purchase, its    *)
(* duplicate and a retry, or for three different purchases.                *)
(***************************************************************************)
EXTENDS Purchase, TLC

RequestSymmetry == Permutations(Requests)
=============================================================================
