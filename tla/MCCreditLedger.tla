--------------------------- MODULE MCCreditLedger ---------------------------
(***************************************************************************)
(* CreditLedger on an account shared by three requests.  The amounts are   *)
(* below half a cent (4), half a cent (5) and two cents (20), so that with *)
(* openings of 2 and a column limit of 3 cents every kind of refusal,      *)
(* rounding and overflow happens.                                          *)
(***************************************************************************)
EXTENDS CreditLedger, TLC

RequestSymmetry == Permutations(Requests)
=============================================================================
