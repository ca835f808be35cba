----------------------------- MODULE MCBilling ------------------------------
(***************************************************************************)
(* Billing with a first purchase and one that replaces it, overlaps it, or *)
(* presents the same subscription.  Symmetry is not sound for liveness, so *)
(* the initial states are taken up to names: the first request presents    *)
(* the first subscription, and one that nobody presents stays unknown.     *)
(***************************************************************************)
EXTENDS Billing

FirstRequest      == CHOOSE r \in Requests : TRUE
FirstSubscription == CHOOSE s \in Subscriptions : TRUE

NamedInit ==
    /\ BillingInit
    /\ job[FirstRequest].ref = FirstSubscription
    /\ \A s \in Subscriptions : stripe[s] = "missing" \/ \E r \in Requests : job[r].ref = s

NamedSpec == NamedInit /\ [][BillingNext]_billingVars /\ Fairness
=============================================================================
