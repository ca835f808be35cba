------------------------- MODULE CreditLedgerProofs -------------------------
(***************************************************************************)
(* CreditLedger is sound for any number of users and requests and for any  *)
(* amounts: five theorems at the end, one inductive invariant (IInv), one  *)
(* lemma per action.                                                       *)
(***************************************************************************)
EXTENDS CreditLedger, TLAPS

\* Adding before rounding is rounding before adding: the stored balance is whole cents.
LEMMA AddRounding ==
    ASSUME NEW s \in Nat, NEW a \in Nat
    PROVE  /\ ToCents(a) \in Nat
           /\ ToCents(10 * s + a) = s + ToCents(a)
BY DEF ToCents

\* A covered use leaves a balance between zero and the old one, and the two roundings of
\* half a cent differ by one.
LEMMA UseRounding ==
    ASSUME NEW s \in Nat, NEW a \in Nat, a <= 10 * s
    PROVE  /\ ToCents(a) \in Nat
           /\ ToCents(10 * s - a) \in 0..s
           /\ ToCents(10 * s - a) + ToCents(a) = IF a % 10 = 5 THEN s + 1 ELSE s
<1>1. ToCents(a) \in Nat  BY DEF ToCents
<1>2. ToCents(10 * s - a) \in 0..s  BY DEF ToCents
<1>3. ToCents(10 * s - a) + ToCents(a) = IF a % 10 = 5 THEN s + 1 ELSE s
  BY DEF ToCents
<1> QED BY <1>1, <1>2, <1>3

-----------------------------------------------------------------------------
(***************************************************************************)
(* The strengthening.  What makes Conserved inductive is a fact about open *)
(* sessions: a session about to write holds the balance that was stored    *)
(* under the version it saw, so it is either stale or exact.               *)
(***************************************************************************)
RowInv == \A u \in Users : ~exists[u] => balance[u] = 0

SessionInv ==
    \A r \in Requests :
        LET u == op[r].user IN
        /\ pc[r] \in {"refresh", "work"} => exists[u]
        /\ pc[r] = "work" => /\ snap[r] <= added[u]
                             /\ ~Stale(r) => snap[r] = balance[u]
                             /\ seen[r] <= version[u]
        /\ pc[r] = "committed" => r \in recorded

IInv ==
    /\ TypeOK
    /\ RowInv
    /\ SessionInv
    /\ Conserved
    /\ BalanceBacked
    /\ AnswerMatchesEffect

-----------------------------------------------------------------------------
\* Every request has a user, a kind and a positive amount.
LEMMA OpType ==
    ASSUME TypeOK, NEW r \in Requests
    PROVE  /\ op[r].kind \in Kinds
           /\ op[r].user \in Users
           /\ op[r].amount \in Amounts
           /\ op[r].amount \in Nat
<1>1. op[r] \in Ops
  BY DEF TypeOK
<1> QED
  BY <1>1, LedgerAssumption DEF Ops

\* The strengthening holds of the accounts with which the requests start.
LEMMA InitIInv == Init => IInv
<1> SUFFICES ASSUME Init PROVE IInv
  OBVIOUS
<1> USE LedgerAssumption DEF Init
<1>0. \A u \in Users : balance[u] \in 0..MaxCents
  <2>1. Openings \cup {0} \subseteq 0..MaxCents
    BY LedgerAssumption
  <2> QED
    BY <2>1
<1>1. TypeOK
  <2>1. balance \in [Users -> 0..MaxCents] /\ added \in [Users -> Nat]
    BY <1>0
  <2> QED
    BY <2>1 DEF TypeOK, PCs
<1>2. RowInv /\ SessionInv /\ AnswerMatchesEffect
  BY DEF RowInv, SessionInv, AnswerMatchesEffect
<1>4. Conserved /\ BalanceBacked
  BY <1>0 DEF Conserved, BalanceBacked
<1> QED
  BY <1>1, <1>2, <1>4 DEF IInv

\* A step that leaves the tables alone only has to keep the sessions in order.
LEMMA TablesUntouched ==
    ASSUME IInv, TypeOK', UNCHANGED <<rows, op, history>>, SessionInv', AnswerMatchesEffect'
    PROVE  IInv'
BY DEF IInv, rows, history, RowInv, Conserved, BalanceBacked

\* A session that loads the row now holds exactly what is stored.
LEMMA LoadStep ==
    ASSUME IInv, NEW r \in Requests, pc[r] \in {"select", "refresh"}, exists[op[r].user],
           Load(r), UNCHANGED <<rows, op, history>>
    PROVE  IInv'
<1> USE DEF IInv
<1>1. TypeOK'
  BY DEF Load, TypeOK, rows, history, PCs, Ops
<1>2. SessionInv'
  BY DEF Load, TypeOK, rows, history, Ops, SessionInv, Stale, BalanceBacked
<1>3. AnswerMatchesEffect'
  BY DEF Load, TypeOK, rows, history, AnswerMatchesEffect, Covered
<1> QED
  BY <1>1, <1>2, <1>3, TablesUntouched

\* A request that ends disturbs no other session.
LEMMA FinishStep ==
    ASSUME IInv, NEW r \in Requests, NEW code \in {200, 500}, Finish(r, code),
           code = 200 /\ op[r].kind \in Writes =>
               pc[r] = "committed" /\ ToCents(op[r].amount) > 0,
           UNCHANGED <<rows, op, history>>
    PROVE  IInv'
<1> USE DEF IInv
<1>1. TypeOK'
  BY DEF Finish, TypeOK, rows, history, PCs
<1>2. SessionInv'
  BY DEF Finish, TypeOK, rows, history, SessionInv, Stale
<1>3. AnswerMatchesEffect'
  BY DEF Finish, TypeOK, rows, history, AnswerMatchesEffect, Covered, SessionInv
<1> QED
  BY <1>1, <1>2, <1>3, TablesUntouched

\* The handler moves on without an answer, a load or a write.
LEMMA AdvanceStep ==
    ASSUME IInv, NEW r \in Requests, NEW next \in {"select", "insert"},
           pc[r] \in {"log", "select"}, pc' = [pc EXCEPT ![r] = next],
           sawZero' \in [Requests -> BOOLEAN],
           UNCHANGED <<rows, op, snap, seen, answer, history>>
    PROVE  IInv'
<1> USE DEF IInv
<1>1. TypeOK'
  BY DEF TypeOK, rows, history, PCs
<1>2. SessionInv'
  BY DEF TypeOK, rows, history, SessionInv, Stale
<1>3. AnswerMatchesEffect'
  BY DEF TypeOK, rows, history, AnswerMatchesEffect, Covered
<1> QED
  BY <1>1, <1>2, <1>3, TablesUntouched

\* A new account is empty, and nobody had loaded it before.
LEMMA InsertStep ==
    ASSUME IInv, NEW r \in Requests, InsertCredit(r)
    PROVE  IInv'
<1> USE DEF IInv, InsertCredit, history
<1>0. op[r].user \in Users /\ balance[op[r].user] = 0
  BY DEF TypeOK, Ops, RowInv
<1>1. balance' = balance
  BY <1>0 DEF TypeOK
<1>2. TypeOK'
  <2>1. exists' \in [Users -> BOOLEAN] /\ pc' \in [Requests -> PCs]
    BY DEF TypeOK, PCs
  <2> QED
    BY <1>1, <2>1 DEF TypeOK
<1>3. RowInv' /\ Conserved' /\ BalanceBacked'
  BY <1>1 DEF TypeOK, RowInv, Conserved, BalanceBacked
<1>4. SessionInv'
  BY <1>0, <1>1 DEF TypeOK, SessionInv, Stale
<1>5. AnswerMatchesEffect'
  BY DEF TypeOK, AnswerMatchesEffect, Covered
<1> QED
  BY <1>2, <1>3, <1>4, <1>5

\* What both commits share: the sessions stay in order, whatever the amounts.
LEMMA StoreStep ==
    ASSUME IInv, NEW r \in Requests, pc[r] = "work", op[r].kind \in Writes,
           op[r].kind = "use" => Covered(r),
           NEW cents \in Nat, StoreCents(r, cents),
           added' \in [Users -> Nat], \A u \in Users : added[u] <= added'[u]
    PROVE  RowInv' /\ SessionInv' /\ AnswerMatchesEffect'
<1> USE DEF IInv, StoreCents
<1>1. op[r].user \in Users /\ exists[op[r].user]
  BY DEF TypeOK, Ops, SessionInv
<1>2. RowInv'
  BY <1>1 DEF TypeOK, RowInv
<1>3. SessionInv'
  <2> SUFFICES ASSUME NEW q \in Requests
               PROVE  LET u == op[q].user IN
                      /\ pc'[q] \in {"refresh", "work"} => exists[u]
                      /\ pc'[q] = "work" => /\ snap[q] <= added'[u]
                                            /\ ~Stale(q)' => snap[q] = balance'[u]
                                            /\ seen[q] <= version'[u]
                      /\ pc'[q] = "committed" => q \in recorded'
    BY DEF SessionInv, Stale
  <2>1. CASE q = r
    BY <2>1 DEF TypeOK
  <2>2. CASE q # r
    <3>1. pc'[q] = pc[q] /\ op[q].user \in Users
      BY <2>2 DEF TypeOK, Ops
    <3>2. pc[q] = "work" => snap[q] <= added'[op[q].user]
      <4>1. pc[q] = "work" => snap[q] <= added[op[q].user]
        BY DEF SessionInv
      <4>2. snap[q] \in Nat
        BY DEF TypeOK
      <4>3. added[op[q].user] \in Nat
        BY <3>1 DEF TypeOK
      <4>4. added'[op[q].user] \in Nat
        BY <3>1
      <4> QED
        BY <3>1, <4>1, <4>2, <4>3, <4>4
    <3>3. CASE op[q].user = op[r].user
      <4>1. version'[op[q].user] = version[op[q].user] + 1 /\ seen[q] \in Nat
        BY <1>1, <3>3 DEF TypeOK
      <4>2. pc[q] = "work" => seen'[q] # version'[op[q].user] /\ seen[q] <= version'[op[q].user]
        BY <4>1, <3>1 DEF TypeOK, SessionInv
      <4> QED
        BY <2>2, <3>1, <4>2, <3>2, <1>1, <3>3 DEF SessionInv, Stale
    <3>4. CASE op[q].user # op[r].user
      <4>1. balance'[op[q].user] = balance[op[q].user] /\ version'[op[q].user] = version[op[q].user]
        BY <3>1, <3>4, <1>1 DEF TypeOK
      <4> QED
        BY <2>2, <3>1, <3>2, <4>1 DEF SessionInv, Stale
    <3> QED
      BY <3>3, <3>4
  <2> QED
    BY <2>1, <2>2
<1>4. AnswerMatchesEffect'
  BY DEF TypeOK, AnswerMatchesEffect, Covered
<1> QED
  BY <1>2, <1>3, <1>4

\* An addition moves the balance and the log by the same rounded amount, unless it is stale.
LEMMA CommitAddStep ==
    ASSUME IInv, NEW r \in Requests, CommitAdd(r)
    PROVE  IInv'
<1> DEFINE u == op[r].user
           a == op[r].amount
           cents == ToCents(10 * snap[r] + a)
<1>1. u \in Users /\ a \in Nat /\ snap[r] \in Nat /\ pc[r] = "work"
  BY OpType DEF IInv, TypeOK, CommitAdd
<1>2. cents = snap[r] + ToCents(a) /\ ToCents(a) \in Nat
  BY <1>1, AddRounding
<1>3. /\ added' = [added EXCEPT ![u] = @ + ToCents(a)]
      /\ UNCHANGED <<used, halfCents, op>>
      /\ StoreCents(r, cents)
  BY DEF CommitAdd, StoreCents
<1> HIDE DEF u, a, cents
<1>4. /\ added' \in [Users -> Nat] /\ \A v \in Users : added[v] <= added'[v]
  BY <1>1, <1>2, <1>3 DEF IInv, TypeOK
<1>5. RowInv' /\ SessionInv' /\ AnswerMatchesEffect'
  BY <1>1, <1>2, <1>3, <1>4, StoreStep DEF CommitAdd, Writes
<1>6. balance' = [balance EXCEPT ![u] = cents] /\ cents <= MaxCents /\ recorded' = recorded \cup {r}
  BY <1>3 DEF StoreCents, u
<1>7. TypeOK'
  BY <1>1, <1>2, <1>3, <1>4, <1>6 DEF IInv, TypeOK, StoreCents, PCs, u
<1>8. BalanceBacked'
  BY <1>1, <1>2, <1>3, <1>6 DEF IInv, TypeOK, SessionInv, BalanceBacked, u
<1>9. Conserved'
  <2> SUFFICES ASSUME NEW v \in Users \ clobbered'
               PROVE  balance'[v] + used[v] = added'[v] + halfCents[v]
    BY <1>3 DEF Conserved
  <2>1. clobbered' = IF Stale(r) THEN clobbered \cup {u} ELSE clobbered
    BY <1>3 DEF StoreCents, u
  <2>2. v \in Users \ clobbered /\ balance[v] + used[v] = added[v] + halfCents[v]
    BY <2>1 DEF IInv, Conserved
  <2>3. CASE v = u
    <3>1. snap[r] = balance[u]
      BY <1>1, <2>1, <2>3 DEF IInv, SessionInv, u
    <3> QED
      BY <1>1, <1>2, <1>3, <1>6, <2>2, <2>3, <3>1 DEF IInv, TypeOK
  <2>4. CASE v # u
    BY <1>3, <1>6, <2>2, <2>4 DEF IInv, TypeOK
  <2> QED
    BY <2>3, <2>4
<1> QED
  BY <1>5, <1>7, <1>8, <1>9 DEF IInv

\* A use moves both too, up to the half cent that the log rounds up and the balance down.
LEMMA CommitUseStep ==
    ASSUME IInv, NEW r \in Requests, CommitUse(r)
    PROVE  IInv'
<1> DEFINE u == op[r].user
           a == op[r].amount
           cents == ToCents(10 * snap[r] - a)
           half == IF a % 10 = 5 THEN 1 ELSE 0
<1>1. u \in Users /\ a \in Nat /\ snap[r] \in Nat /\ pc[r] = "work" /\ a <= 10 * snap[r]
  BY OpType DEF IInv, TypeOK, CommitUse, Covered
<1>2. /\ ToCents(a) \in Nat
      /\ cents \in 0..snap[r]
      /\ half \in Nat
      /\ cents + ToCents(a) = snap[r] + half
  <2>1. /\ ToCents(a) \in Nat
        /\ cents \in 0..snap[r]
        /\ cents + ToCents(a) = IF a % 10 = 5 THEN snap[r] + 1 ELSE snap[r]
    BY <1>1, UseRounding
  <2> QED
    BY <1>1, <2>1
<1>3. /\ used' = [used EXCEPT ![u] = @ + ToCents(a)]
      /\ halfCents' = [halfCents EXCEPT ![u] = IF a % 10 = 5 THEN @ + 1 ELSE @]
      /\ UNCHANGED <<added, op>>
      /\ StoreCents(r, cents)
  BY DEF CommitUse, StoreCents
<1>4. halfCents' = [halfCents EXCEPT ![u] = @ + half]
  <2>1. halfCents[u] \in Nat
    BY <1>1 DEF IInv, TypeOK
  <2>2. (IF a % 10 = 5 THEN halfCents[u] + 1 ELSE halfCents[u]) = halfCents[u] + half
    BY <2>1
  <2> QED
    BY <1>3, <2>2
<1> HIDE DEF u, a, cents, half
<1>5. RowInv' /\ SessionInv' /\ AnswerMatchesEffect'
  <2>1. cents \in Nat /\ added' \in [Users -> Nat] /\ \A v \in Users : added[v] <= added'[v]
    BY <1>1, <1>2, <1>3 DEF IInv, TypeOK
  <2> QED
    BY <1>1, <1>3, <2>1, StoreStep DEF CommitUse, Writes
<1>6. balance' = [balance EXCEPT ![u] = cents] /\ recorded' = recorded \cup {r}
  BY <1>3 DEF StoreCents, u
<1>7. TypeOK'
  BY <1>1, <1>2, <1>3, <1>4, <1>6 DEF IInv, TypeOK, StoreCents, PCs, u
<1>8. BalanceBacked'
  BY <1>1, <1>2, <1>3, <1>6 DEF IInv, TypeOK, SessionInv, BalanceBacked, u
<1>9. Conserved'
  <2> SUFFICES ASSUME NEW v \in Users \ clobbered'
               PROVE  balance'[v] + used'[v] = added[v] + halfCents'[v]
    BY <1>3 DEF Conserved
  <2>1. clobbered' = IF Stale(r) THEN clobbered \cup {u} ELSE clobbered
    BY <1>3 DEF StoreCents, u
  <2>2. v \in Users \ clobbered /\ balance[v] + used[v] = added[v] + halfCents[v]
    BY <2>1 DEF IInv, Conserved
  <2>3. CASE v = u
    <3>1. snap[r] = balance[u]
      BY <1>1, <2>1, <2>3 DEF IInv, SessionInv, u
    <3> QED
      BY <1>1, <1>2, <1>3, <1>4, <1>6, <2>2, <2>3, <3>1 DEF IInv, TypeOK
  <2>4. CASE v # u
    BY <1>3, <1>4, <1>6, <2>2, <2>4 DEF IInv, TypeOK
  <2> QED
    BY <2>3, <2>4
<1> QED
  BY <1>5, <1>7, <1>8, <1>9 DEF IInv

\* The client is answered by the middleware: nothing else is touched.
LEMMA TimeoutStep ==
    ASSUME IInv, NEW r \in Requests, Timeout(r)
    PROVE  IInv'
<1> USE DEF IInv, Timeout
<1>1. TypeOK'
  BY DEF TypeOK, rows, history
<1>2. SessionInv'
  BY DEF TypeOK, rows, history, SessionInv, Stale
<1>3. AnswerMatchesEffect'
  BY DEF TypeOK, rows, history, AnswerMatchesEffect, Covered
<1> QED
  BY <1>1, <1>2, <1>3, TablesUntouched

-----------------------------------------------------------------------------
\* Every step keeps the strengthening.
LEMMA StepIInv == IInv /\ [Next]_vars => IInv'
<1> SUFFICES ASSUME IInv, [Next]_vars PROVE IInv'
  OBVIOUS
<1>1. CASE UNCHANGED vars
  BY <1>1 DEF vars, rows, sessions, history, IInv, TypeOK, RowInv, SessionInv, Stale, Conserved,
              BalanceBacked, AnswerMatchesEffect, Covered
<1>2. ASSUME NEW r \in Requests, SelectLog(r) PROVE IInv'
  <2>1. sawZero' \in [Requests -> BOOLEAN]
    BY <1>2, OpType DEF SelectLog, IInv, TypeOK
  <2> QED
    BY <1>2, <2>1, AdvanceStep DEF SelectLog
<1>3. ASSUME NEW r \in Requests, FindCredit(r) PROVE IInv'
  BY <1>3, LoadStep DEF FindCredit
<1>4. ASSUME NEW r \in Requests, MissCredit(r) PROVE IInv'
  BY <1>4, AdvanceStep DEF MissCredit, IInv, TypeOK
<1>5. ASSUME NEW r \in Requests, RefreshCredit(r) PROVE IInv'
  BY <1>5, LoadStep DEF RefreshCredit, IInv, SessionInv
<1>6. ASSUME NEW r \in Requests,
             InsertConflict(r) \/ OverflowAdd(r) \/ RefuseUse(r) \/ Fail(r)
      PROVE  IInv'
  BY <1>6, FinishStep DEF InsertConflict, OverflowAdd, RefuseUse, Fail
<1>7. ASSUME NEW r \in Requests, AnswerWrite(r) PROVE IInv'
  BY <1>7, FinishStep DEF AnswerWrite
<1>8. ASSUME NEW r \in Requests, AnswerRead(r) PROVE IInv'
  BY <1>8, FinishStep DEF AnswerRead, Writes
<1> QED
  BY <1>1, <1>2, <1>3, <1>4, <1>5, <1>6, <1>7, <1>8,
     InsertStep, CommitAddStep, CommitUseStep, TimeoutStep DEF Next

\* The strengthening always holds.
LEMMA Invariance == Spec => []IInv
BY InitIInv, StepIInv, PTL DEF Spec

\* Every reachable state is well typed: no balance is ever negative or too large for its column.
THEOREM TypeCorrect == Spec => []TypeOK
<1>1. IInv => TypeOK
  BY DEF IInv
<1> QED
  BY <1>1, Invariance, PTL

\* base.py conserves credits for every user no commit of whom overwrote an unseen balance.
THEOREM Conservation == Spec => []Conserved
<1>1. IInv => Conserved
  BY DEF IInv
<1> QED
  BY <1>1, Invariance, PTL

\* However requests overlap, no balance exceeds what was ever recorded as added.
THEOREM NothingMinted == Spec => []BalanceBacked
<1>1. IInv => BalanceBacked
  BY DEF IInv
<1> QED
  BY <1>1, Invariance, PTL

\* What a client is told about a write is true of the tables, with timeouts and failures.
THEOREM HonestAnswers == Spec => []AnswerMatchesEffect
<1>1. IInv => AnswerMatchesEffect
  BY DEF IInv
<1> QED
  BY <1>1, Invariance, PTL

\* base.py implements the atomic account except where a stale session commits.
THEOREM AtomicExceptLostUpdates == Spec => AtomicUnlessStale
<1>1. IInv /\ [Next]_vars =>
        [Account!Next \/ \E r \in Requests : Stale(r) /\ (CommitAdd(r) \/ CommitUse(r))]_balance
  <2> SUFFICES ASSUME IInv, [Next]_vars, balance' # balance,
                      \A r \in Requests : CommitAdd(r) \/ CommitUse(r) => ~Stale(r)
               PROVE  Account!Next
    OBVIOUS
  <2>1. PICK r \in Requests : CommitAdd(r) \/ CommitUse(r) \/ InsertCredit(r)
    BY DEF Next, vars, rows, SelectLog, FindCredit, MissCredit, InsertConflict, RefreshCredit,
           OverflowAdd, RefuseUse, AnswerWrite, AnswerRead, Fail, Timeout
  <2>2. op[r].user \in Users /\ op[r].amount \in Amounts /\ op[r].amount \in Nat
    BY OpType DEF IInv
  <2>3. ~InsertCredit(r)
    BY <2>2 DEF IInv, TypeOK, RowInv, InsertCredit
  <2>4. snap[r] = balance[op[r].user] /\ snap[r] \in Nat
    BY <2>1, <2>3 DEF CommitAdd, CommitUse, IInv, SessionInv, TypeOK
  <2>5. ASSUME CommitAdd(r) PROVE Account!Deposit(op[r].user, op[r].amount)
    <3>1. ToCents(10 * snap[r] + op[r].amount) = balance[op[r].user] + Account!ToCents(op[r].amount)
      BY <2>2, <2>4, AddRounding DEF ToCents, Account!ToCents
    <3> QED
      BY <2>5, <3>1 DEF CommitAdd, StoreCents, Account!Deposit
  <2>6. ASSUME CommitUse(r) PROVE Account!Withdraw(op[r].user, op[r].amount)
    BY <2>2, <2>4, <2>6
       DEF CommitUse, Covered, StoreCents, Account!Withdraw, Account!ToCents, ToCents, IInv, TypeOK
  <2> QED
    BY <2>1, <2>2, <2>3, <2>5, <2>6 DEF Account!Next
<1> QED
  BY <1>1, Invariance, PTL DEF Spec, AtomicUnlessStale

=============================================================================
