---------------------------- MODULE CreditLedger ----------------------------
(***************************************************************************)
(* The credit account of a user (services/credit/base.py) as concurrent    *)
(* HTTP requests work on it.                                               *)
(*                                                                         *)
(* Each request runs in a database session of its own (READ COMMITTED, no  *)
(* row lock, no version column).  It SELECTs the user_credits row, changes *)
(* the Python object, and its commit writes the balance back as an         *)
(* ABSOLUTE value together with a credit_transactions row; between the     *)
(* SELECT and the commit every other request may run.  A first access      *)
(* inserts the row, in a commit of its own.  The timeout middleware        *)
(* answers 504 after 30 seconds but does not stop the handler.             *)
(*                                                                         *)
(* Amounts of a request are in mills (tenths of a cent): the schema asks   *)
(* for a positive Decimal of any scale.  Columns are NUMERIC(10, 2): they  *)
(* hold cents, round what is written and refuse what exceeds MaxCents.     *)
(***************************************************************************)
EXTENDS Integers

CONSTANTS Users,     \* rows of the users table
          Requests,  \* HTTP requests to /credits/...
          Amounts,   \* amounts in mills a request may carry
          Openings,  \* balances in cents of the accounts that exist at the start
          MaxCents   \* largest value of a NUMERIC(10, 2) column, in cents

\* Amounts are positive (Field(gt=0)); stored balances fit their column.
ASSUME LedgerAssumption ==
    /\ MaxCents \in Nat
    /\ Amounts \subseteq Nat \ {0}
    /\ Openings \subseteq 0..MaxCents

VARIABLES
    exists,     \* user -> does the user_credits row exist
    balance,    \* user -> user_credits.balance, in cents
    version,    \* user -> number of commits that wrote the row so far (history)
    added,      \* user -> sum of the CREDIT_ADDED rows of credit_transactions, in cents
    used,       \* user -> sum of the CREDIT_USED rows, in cents
    zeroRow,    \* user -> is there a credit_transactions row whose stored amount is 0.00
    op,         \* request -> what it asks for; never changes
    pc,         \* request -> where its handler stands
    snap,       \* request -> balance its session has loaded
    seen,       \* request -> version of the row it loaded (history)
    sawZero,    \* request -> did the history it loaded hold a 0.00 row
    answer,     \* request -> status code sent to the client, 0 before
    recorded,   \* requests whose credit_transactions row is committed (history)
    clobbered,  \* users one of whose balances was written over unread (history)
    halfCents   \* user -> uses recorded with half a cent rounded up (history)

rows     == <<exists, balance, version, added, used, zeroRow>>
sessions == <<pc, snap, seen, sawZero, answer>>
history  == <<recorded, clobbered, halfCents>>
vars     == <<rows, op, sessions, history>>

Kinds == {"add", "use", "balance", "history"}
Ops   == [kind : Kinds, user : Users, amount : Amounts]

PCs == {"log", "select", "insert", "refresh", "work", "committed", "done"}

\* Mutant of ToCents: the fraction of a cent is cut off.
ToCentsTruncated(mills) == mills \div 10

\* A NUMERIC(10, 2) column stores the nearest cent, half a cent rounded up.
ToCents(mills) == (mills + 5) \div 10

Stale(r) == version[op[r].user] # seen[r]

-----------------------------------------------------------------------------
Init ==
    /\ exists \in [Users -> BOOLEAN]
    /\ balance \in [Users -> Openings \cup {0}]
    /\ \A u \in Users : ~exists[u] => balance[u] = 0
    /\ version = [u \in Users |-> 0]
    /\ added = balance
    /\ used = [u \in Users |-> 0]
    /\ zeroRow = [u \in Users |-> FALSE]
    /\ op \in [Requests -> Ops]
    /\ pc = [r \in Requests |-> IF op[r].kind = "history" THEN "log" ELSE "select"]
    /\ snap = [r \in Requests |-> 0]
    /\ seen = [r \in Requests |-> 0]
    /\ sawZero = [r \in Requests |-> FALSE]
    /\ answer = [r \in Requests |-> 0]
    /\ recorded = {}
    /\ clobbered = {}
    /\ halfCents = [u \in Users |-> 0]

\* The handler ends and answers; a client that already got its 504 hears no more.
Finish(r, code) ==
    /\ pc' = [pc EXCEPT ![r] = "done"]
    /\ answer' = [answer EXCEPT ![r] = IF @ = 0 THEN code ELSE @]
    /\ UNCHANGED <<snap, seen, sawZero>>

\* The session loads the row as it is committed now.
Load(r) ==
    /\ snap' = [snap EXCEPT ![r] = balance[op[r].user]]
    /\ seen' = [seen EXCEPT ![r] = version[op[r].user]]
    /\ pc' = [pc EXCEPT ![r] = "work"]
    /\ UNCHANGED <<sawZero, answer>>

-----------------------------------------------------------------------------
\* get_transaction_history: the user's transactions are read first, in a statement of their own.
SelectLog(r) ==
    /\ pc[r] = "log"
    /\ sawZero' = [sawZero EXCEPT ![r] = zeroRow[op[r].user]]
    /\ pc' = [pc EXCEPT ![r] = "select"]
    /\ UNCHANGED <<rows, op, snap, seen, answer, history>>

\* get_user_credit: the SELECT finds the row...
FindCredit(r) ==
    /\ pc[r] = "select"
    /\ exists[op[r].user]
    /\ Load(r)
    /\ UNCHANGED <<rows, op, history>>

\* ... or finds none, and a new one is about to be inserted.
MissCredit(r) ==
    /\ pc[r] = "select"
    /\ ~exists[op[r].user]
    /\ pc' = [pc EXCEPT ![r] = "insert"]
    /\ UNCHANGED <<rows, op, snap, seen, sawZero, answer, history>>

\* Mutant of InsertCredit: no unique constraint, the slower creator starts the account anew.
InsertCreditAgain(r) ==
    /\ pc[r] = "insert"
    /\ exists' = [exists EXCEPT ![op[r].user] = TRUE]
    /\ balance' = [balance EXCEPT ![op[r].user] = 0]
    /\ pc' = [pc EXCEPT ![r] = "refresh"]
    /\ UNCHANGED <<version, added, used, zeroRow, op, snap, seen, sawZero, answer, history>>

\* The insert of the new row, committed at once.
InsertCredit(r) ==
    /\ pc[r] = "insert"
    /\ ~exists[op[r].user]
    /\ exists' = [exists EXCEPT ![op[r].user] = TRUE]
    /\ balance' = [balance EXCEPT ![op[r].user] = 0]
    /\ pc' = [pc EXCEPT ![r] = "refresh"]
    /\ UNCHANGED <<version, added, used, zeroRow, op, snap, seen, sawZero, answer, history>>

\* user_id is UNIQUE: the commit of the slower of two creators fails.
InsertConflict(r) ==
    /\ pc[r] = "insert"
    /\ exists[op[r].user]
    /\ Finish(r, 500)
    /\ UNCHANGED <<rows, op, history>>

\* db.refresh(credit) after the insert's commit.
RefreshCredit(r) ==
    /\ pc[r] = "refresh"
    /\ Load(r)
    /\ UNCHANGED <<rows, op, history>>

-----------------------------------------------------------------------------
\* The flush writes the session's own value over whatever the row holds now.
StoreCents(r, cents) ==
    LET u == op[r].user IN
    /\ cents <= MaxCents
    /\ balance' = [balance EXCEPT ![u] = cents]
    /\ version' = [version EXCEPT ![u] = @ + 1]
    /\ zeroRow' = [zeroRow EXCEPT ![u] = @ \/ ToCents(op[r].amount) = 0]
    /\ clobbered' = IF Stale(r) THEN clobbered \cup {u} ELSE clobbered
    /\ recorded' = recorded \cup {r}
    /\ pc' = [pc EXCEPT ![r] = "committed"]
    /\ UNCHANGED <<exists, op, snap, seen, sawZero, answer>>

\* Mutant of CommitAdd: the transaction row is not part of the commit.
CommitAddUnlogged(r) ==
    /\ pc[r] = "work"
    /\ op[r].kind = "add"
    /\ StoreCents(r, ToCents(10 * snap[r] + op[r].amount))
    /\ UNCHANGED <<added, used, halfCents>>

\* The commit of add_credits: balance and transaction row together.
CommitAdd(r) ==
    /\ pc[r] = "work"
    /\ op[r].kind = "add"
    /\ StoreCents(r, ToCents(10 * snap[r] + op[r].amount))
    /\ added' = [added EXCEPT ![op[r].user] = @ + ToCents(op[r].amount)]
    /\ UNCHANGED <<used, halfCents>>

\* A balance the column cannot hold fails the flush; the decorator answers 500.
OverflowAdd(r) ==
    /\ pc[r] = "work"
    /\ op[r].kind = "add"
    /\ ToCents(10 * snap[r] + op[r].amount) > MaxCents
    /\ Finish(r, 500)
    /\ UNCHANGED <<rows, op, history>>

\* Mutant of Covered: use_credits does not compare the balance with the amount.
CoveredAlways(r) == TRUE

\* The comparison of use_credits: the loaded balance is enough.
Covered(r) == op[r].amount <= 10 * snap[r]

\* use_credits raises InsufficientCreditsError, which db_error_handler turns into a 500.
RefuseUse(r) ==
    /\ pc[r] = "work"
    /\ op[r].kind = "use"
    /\ ~Covered(r)
    /\ Finish(r, 500)
    /\ UNCHANGED <<rows, op, history>>

\* The commit of use_credits.
CommitUse(r) ==
    /\ pc[r] = "work"
    /\ op[r].kind = "use"
    /\ Covered(r)
    /\ StoreCents(r, ToCents(10 * snap[r] - op[r].amount))
    /\ used' = [used EXCEPT ![op[r].user] = @ + ToCents(op[r].amount)]
    /\ halfCents' = [halfCents EXCEPT ![op[r].user] =
                        IF op[r].amount % 10 = 5 THEN @ + 1 ELSE @]
    /\ UNCHANGED added

-----------------------------------------------------------------------------
\* Mutant of AnswerWrite: the answer is built before the commit.
AnswerWriteEarly(r) ==
    /\ pc[r] \in {"work", "committed"}
    /\ op[r].kind \in {"add", "use"}
    /\ Finish(r, IF ToCents(op[r].amount) > 0 THEN 200 ELSE 500)
    /\ UNCHANGED <<rows, op, history>>

\* TransactionResponse validates the refreshed row, whose stored amount must be positive.
AnswerWrite(r) ==
    /\ pc[r] = "committed"
    /\ Finish(r, IF ToCents(op[r].amount) > 0 THEN 200 ELSE 500)
    /\ UNCHANGED <<rows, op, history>>

\* /balance answers; /transactions validates every row it read, as above.
AnswerRead(r) ==
    /\ pc[r] = "work"
    /\ op[r].kind \in {"balance", "history"}
    /\ Finish(r, IF sawZero[r] THEN 500 ELSE 200)
    /\ UNCHANGED <<rows, op, history>>

\* A database call fails, or the worker dies: the open transaction is rolled back.
Fail(r) ==
    /\ pc[r] # "done"
    /\ Finish(r, 500)
    /\ UNCHANGED <<rows, op, history>>

\* asyncio.wait_for gives up on call_next and 504 is sent.  The pinned Starlette does not
\* cancel the endpoint's task, so the handler goes on from where it stands.
Timeout(r) ==
    /\ pc[r] # "done"
    /\ answer[r] = 0
    /\ answer' = [answer EXCEPT ![r] = 504]
    /\ UNCHANGED <<rows, op, pc, snap, seen, sawZero, history>>

Next ==
    \E r \in Requests :
        \/ SelectLog(r) \/ FindCredit(r) \/ MissCredit(r)
        \/ InsertCredit(r) \/ InsertConflict(r) \/ RefreshCredit(r)
        \/ CommitAdd(r) \/ OverflowAdd(r) \/ RefuseUse(r) \/ CommitUse(r)
        \/ AnswerWrite(r) \/ AnswerRead(r) \/ Fail(r) \/ Timeout(r)

Spec == Init /\ [][Next]_vars

-----------------------------------------------------------------------------
TypeOK ==
    /\ exists \in [Users -> BOOLEAN]
    /\ balance \in [Users -> 0..MaxCents]
    /\ version \in [Users -> Nat]
    /\ added \in [Users -> Nat]
    /\ used \in [Users -> Nat]
    /\ zeroRow \in [Users -> BOOLEAN]
    /\ op \in [Requests -> Ops]
    /\ pc \in [Requests -> PCs]
    /\ snap \in [Requests -> 0..MaxCents]
    /\ seen \in [Requests -> Nat]
    /\ sawZero \in [Requests -> BOOLEAN]
    /\ answer \in [Requests -> {0, 200, 500, 504}]
    /\ recorded \subseteq Requests
    /\ clobbered \subseteq Users
    /\ halfCents \in [Users -> Nat]

Writes == {"add", "use"}

\* The balance column and the transaction log of base.py tell the same story: unless a
\* commit wrote over a balance its session had not seen, the balance is exactly what the
\* log adds less what it uses, plus one cent for each use whose half cent the log rounds up
\* and the balance rounds away.  Failures, timeouts and creation races lose or invent nothing.
Conserved ==
    \A u \in Users \ clobbered : balance[u] + used[u] = added[u] + halfCents[u]

\* Even when requests overwrite each other, base.py never stores a balance larger than all
\* the credits ever recorded for that user: a race can lose or revive credits, never mint them.
BalanceBacked == \A u \in Users : balance[u] <= added[u]

\* The client's view: 200 for /credits/add or /credits/use is only sent for an operation whose
\* row is committed with a positive amount, and a use is only recorded when the balance its
\* session had read covered it, so a refusal leaves no trace.
AnswerMatchesEffect ==
    \A r \in Requests :
        /\ answer[r] = 200 /\ op[r].kind \in Writes => r \in recorded /\ ToCents(op[r].amount) > 0
        /\ r \in recorded => /\ op[r].kind \in Writes
                             /\ pc[r] \in {"committed", "done"}
                             /\ op[r].kind = "use" => Covered(r)

Account == INSTANCE AtomicLedger WITH funds <- balance

\* Every step of base.py that changes balances is one whole deposit or withdrawal applied to
\* the stored balances of that moment, except the commit of a session whose row has been
\* written since it was read: the lost update is the only way the account is not atomic.
AtomicUnlessStale ==
    [][Account!Next \/ \E r \in Requests : Stale(r) /\ (CommitAdd(r) \/ CommitUse(r))]_balance
=============================================================================
