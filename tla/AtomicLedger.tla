---------------------------- MODULE AtomicLedger ----------------------------
(***************************************************************************)
(* What a credit account promises when nobody else touches it: every       *)
(* change of a stored balance is one whole deposit to, or one whole        *)
(* withdrawal from, the balance that is stored at that moment.             *)
(* Requests speak in mills (tenths of a cent), the column in cents.        *)
(***************************************************************************)
EXTENDS Integers

CONSTANTS Users,    \* owners of accounts
          Amounts,  \* amounts, in mills, a request may ask for
          MaxCents  \* the largest balance the column can hold

VARIABLE funds      \* user -> stored balance in cents

\* NUMERIC(10, 2) rounds half a cent up (away from zero; nothing is negative).
ToCents(mills) == (mills + 5) \div 10

Deposit(u, a) ==
    /\ funds[u] + ToCents(a) <= MaxCents
    /\ funds' = [funds EXCEPT ![u] = @ + ToCents(a)]

Withdraw(u, a) ==
    /\ a <= 10 * funds[u]
    /\ funds' = [funds EXCEPT ![u] = ToCents(10 * @ - a)]

Init == funds \in [Users -> 0..MaxCents]

Next == \E u \in Users, a \in Amounts : Deposit(u, a) \/ Withdraw(u, a)

Spec == Init /\ [][Next]_funds
=============================================================================
