-------------------------- MODULE MCSubscriptions --------------------------
(***************************************************************************)
(* Subscriptions with three calls: enough for an operation, one that       *)
(* overtakes it and one that comes after.  They name the older of two      *)
(* rows; the newer one, alive or over from the start, is there for the     *)
(* operations that pick a row themselves.                                  *)
(***************************************************************************)
EXTENDS Subscriptions, TLC

\* Stripe moves the older subscription once by itself, the newer one never.
Versions == <<2, 1>>

\* Three renewals lead over the end of a year and the end of a February.
NewYearsEve == [year |-> 2023, month |-> 12, day |-> 31]

RequestSymmetry == Permutations(Requests)

\* The older row is alive, the flag of the newer one agrees with its status; whether it is alive
\* matters only to an operation that picks a row.
MCInit ==
    /\ Init
    /\ Current(1) = "active" /\ row[1].active
    /\ Current(2) \in {"active", "canceled"} /\ row[2].active = (Current(2) = "active")
    /\ Current(2) = "canceled" \/ \E r \in Requests : op[r] \in ByUser
    /\ target = [r \in Requests |-> 1]

MCSpec == MCInit /\ [][Next]_vars
=============================================================================
