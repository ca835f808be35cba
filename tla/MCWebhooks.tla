----------------------------- MODULE MCWebhooks -----------------------------
(***************************************************************************)
(* Webhooks with two deliveries at a time and one fault.  The first event  *)
(* is of any type; the second tells of the end of the subscription of the  *)
(* same user, whom it names by the customer id.  What the driver makes of  *)
(* a text matters only when the first event carries one.                   *)
(***************************************************************************)
EXTENDS Webhooks

CONSTANTS e1, e2

PairInit ==
    /\ Init
    /\ content[e2].type = "updated"
    /\ content[e2].status = "canceled"
    /\ content[e2].names = "no id"
    /\ textIds \/ content[e1].names = "id"

PairSpec == PairInit /\ [][Next]_vars /\ Fairness
=============================================================================
