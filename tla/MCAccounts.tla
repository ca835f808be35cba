----------------------------- MODULE MCAccounts -----------------------------
(***************************************************************************)
(* Accounts with one user who is there from the start, two addresses, two  *)
(* Google identities and three requests: enough for an operation, one that *)
(* overtakes it and one that comes after.                                  *)
(***************************************************************************)
EXTENDS Accounts, TLC

CONSTANTS e1, e2, g1, g2, u0

Addresses == g1 :> e1 @@ g2 :> e2

RequestSymmetry == Permutations(Requests)

Someone(ops) == \E r \in Requests : op[r] \in ops

\* The user has the first address.  Links that nobody follows or deletes make no difference.
MCInit ==
    /\ Init
    /\ users[u0].email = e1
    /\ tokens = << >> \/ Someone({"verify", "resend"})
    /\ changes = << >> \/ Someone({"confirmChange"})
    /\ resets = << >> \/ Someone({"reset"})

MCSpec == MCInit /\ [][Next]_vars
=============================================================================
