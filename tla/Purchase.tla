------------------------------ MODULE Purchase ------------------------------
(***************************************************************************)
(* Turning a Stripe reference into credits: /credits/add with a pi_ or     *)
(* sub_ reference (services/credit/transaction.py, stripe_integration.py). *)
(* /credits/stripe/add would lead to the same handlers, but builds its     *)
(* StripeService without the argument it needs and never gets there.       *)
(*                                                                         *)
(* A handler is a chain of database statements, commits and Stripe calls;  *)
(* between two links every other handler, and Stripe itself, may move.     *)
(* Whether a reference was used already is asked of credit_transactions by *)
(* a SELECT, long before the commit that records it; whether the user has  *)
(* an active subscription is asked twice, before two commits.  Neither     *)
(* question is backed by a constraint of the database.                     *)
(*                                                                         *)
(* The commit of add_credits is one step here: CreditLedger models it.     *)
(* A row of subscriptions is named by the request that inserted it, and so *)
(* is a row of credit_transactions.                                        *)
(***************************************************************************)
EXTENDS FiniteSets, Integers

CONSTANTS Users,          \* rows of the users table
          Payments,       \* Stripe payment intents, the pi_ references
          Subscriptions,  \* Stripe subscriptions, the sub_ references
          Requests,       \* HTTP requests that present a reference
          NoRow           \* no subscriptions row

Refs == Payments \cup Subscriptions

\* A reference is of one kind; the transaction log of finitely many requests can be counted.
ASSUME PurchaseAssumption ==
    /\ Payments \cap Subscriptions = {}
    /\ NoRow \notin Requests
    /\ IsFiniteSet(Requests)

VARIABLES
    stripe,   \* reference -> what Stripe says of it
    job,      \* request -> its user and its reference; never changes
    pc,       \* request -> where its handler stands
    row,      \* request -> the subscriptions row it inserted: none, active or ended
    found,    \* request -> the active subscriptions row its session holds
    granted,  \* requests whose credit_transactions row is committed
    answer,   \* request -> status code sent to the client, 0 before
    unpaid,   \* requests whose subscription was verified without being active (history)
    since,    \* request -> credits committed for its reference since it asked (history)
    rivals    \* request -> rows of its user inserted since it asked (history)

tables  == <<row, granted>>
history == <<unpaid, since, rivals>>
vars    == <<stripe, job, pc, row, found, granted, answer, history>>

Jobs == [user : Users, ref : Refs]

\* An active or trialing subscription and a succeeded or processing payment are "active".
StripeStates == {"missing", "incomplete", "active", "canceled"}

PCs == {"check", "verify", "look", "probe", "cancel", "plan",
        "replace", "create", "grant", "reply", "confirm", "revoke", "done"}

IsSub(r) == job[r].ref \in Subscriptions

Claims(ref) == {q \in granted : job[q].ref = ref}
RowsOf(u)   == {q \in Requests : job[q].user = u /\ row[q] # "none"}
Active(u)   == {q \in RowsOf(u) : row[q] = "active"}

\* Between the question whether the reference was used and the commit that records it.
Claiming(r) ==
    \/ pc[r] \in {"look", "probe", "cancel", "plan", "replace", "create", "grant"}
    \/ pc[r] = "verify" /\ IsSub(r)

\* Between the question for the active row and the commit of the new one.
Registering(r) == pc[r] \in {"replace", "create"}

-----------------------------------------------------------------------------
Init ==
    /\ stripe \in [Refs -> StripeStates]
    /\ \A p \in Payments : stripe[p] \in {"missing", "active"}
    /\ job \in [Requests -> Jobs]
    /\ pc = [r \in Requests |-> IF IsSub(r) THEN "check" ELSE "verify"]
    /\ row = [r \in Requests |-> "none"]
    /\ found = [r \in Requests |-> NoRow]
    /\ granted = {}
    /\ answer = [r \in Requests |-> 0]
    /\ unpaid = {}
    /\ since = [r \in Requests |-> {}]
    /\ rivals = [r \in Requests |-> {}]

Goto(r, label) == pc' = [pc EXCEPT ![r] = label]

\* The handler ends and answers; a client that already got its 504 hears no more.
Finish(r, code) ==
    /\ Goto(r, "done")
    /\ found' = [found EXCEPT ![r] = NoRow]
    /\ answer' = [answer EXCEPT ![r] = IF @ = 0 THEN code ELSE @]

\* The handler goes on without the row it had found.
Drop(r, label) ==
    /\ Goto(r, label)
    /\ found' = [found EXCEPT ![r] = NoRow]

-----------------------------------------------------------------------------
\* Mutant of PassCheck: the reference is not looked up.
PassCheckBlindly(r) ==
    /\ pc[r] = "check"
    /\ Goto(r, IF IsSub(r) THEN "verify" ELSE "grant")
    /\ UNCHANGED <<stripe, job, tables, found, answer, history>>

\* _check_transaction_exists finds no row with the reference.  A subscription is looked up
\* before Stripe is asked, a payment after.
PassCheck(r) ==
    /\ pc[r] = "check"
    /\ Claims(job[r].ref) = {}
    /\ Goto(r, IF IsSub(r) THEN "verify" ELSE "grant")
    /\ UNCHANGED <<stripe, job, tables, found, answer, history>>

\* Mutant of RefuseClaimed: an answer of its own.
RefuseClaimedConflict(r) ==
    /\ pc[r] = "check"
    /\ Claims(job[r].ref) # {}
    /\ Finish(r, 409)
    /\ UNCHANGED <<stripe, job, tables, history>>

\* One row: 400, already processed.  Two: scalar_one_or_none raises and the answer is 500.
RefuseClaimed(r) ==
    /\ pc[r] = "check"
    /\ Claims(job[r].ref) # {}
    /\ Finish(r, IF Cardinality(Claims(job[r].ref)) = 1 THEN 400 ELSE 500)
    /\ UNCHANGED <<stripe, job, tables, history>>

\* verify_transaction_id: a subscription that exists is verified whatever its status.
Verify(r) ==
    /\ pc[r] = "verify"
    /\ stripe[job[r].ref] # "missing"
    /\ unpaid' = IF stripe[job[r].ref] = "active" THEN unpaid ELSE unpaid \cup {r}
    /\ Goto(r, IF IsSub(r) THEN "look" ELSE "check")
    /\ UNCHANGED <<stripe, job, tables, found, answer, since, rivals>>

\* Stripe does not know the reference, or the call for it failed and is taken for that.  A
\* payment of which Stripe told no positive amount is refused here too: the code looks at the
\* amount a SELECT later, and has written nothing by then.
RefuseUnverified(r) ==
    /\ pc[r] = "verify"
    /\ Finish(r, 400)
    /\ UNCHANGED <<stripe, job, tables, history>>

-----------------------------------------------------------------------------
\* check_active_subscription: exactly one active row of the user is found...
LookFinds(r) ==
    /\ pc[r] = "look"
    /\ \E q \in Active(job[r].user) :
          /\ Active(job[r].user) = {q}
          /\ found' = [found EXCEPT ![r] = q]
    /\ Goto(r, "probe")
    /\ UNCHANGED <<stripe, job, tables, answer, history>>

\* ... or none; several rows, or a failing statement, raise and are taken for none.
LookMisses(r) ==
    /\ pc[r] = "look"
    /\ Drop(r, "plan")
    /\ UNCHANGED <<stripe, job, tables, answer, history>>

\* Mutant of ProbeActive: the row is written back as active, which it was when it was read.
ProbeActiveSaved(r) ==
    /\ pc[r] = "probe"
    /\ stripe[job[found[r]].ref] = "active"
    /\ row' = [row EXCEPT ![found[r]] = "active"]
    /\ Goto(r, "cancel")
    /\ UNCHANGED <<stripe, job, granted, found, answer, history>>

\* Stripe still counts the found subscription as active: it is to be cancelled.
ProbeActive(r) ==
    /\ pc[r] = "probe"
    /\ stripe[job[found[r]].ref] = "active"
    /\ Goto(r, "cancel")
    /\ UNCHANGED <<stripe, job, tables, found, answer, history>>

\* It does not: the row is ended, in a commit of its own.
ProbeInactive(r) ==
    /\ pc[r] = "probe"
    /\ stripe[job[found[r]].ref] \in {"incomplete", "canceled"}
    /\ row' = [row EXCEPT ![found[r]] = "ended"]
    /\ Drop(r, "plan")
    /\ UNCHANGED <<stripe, job, granted, answer, history>>

\* The call or the commit fails, or Stripe does not know it: taken for no subscription.
ProbeFails(r) ==
    /\ pc[r] = "probe"
    /\ Drop(r, "plan")
    /\ UNCHANGED <<stripe, job, tables, answer, history>>

\* Mutant of CancelOld: the new subscription is cancelled instead of the old one.
CancelNew(r) ==
    /\ pc[r] = "cancel"
    /\ stripe[job[r].ref] # "canceled"
    /\ stripe' = [stripe EXCEPT ![job[r].ref] = "canceled"]
    /\ Drop(r, "plan")
    /\ UNCHANGED <<job, tables, answer, history>>

\* cancel_subscription in Stripe, at once.  Stripe cancels only what is not cancelled yet.
CancelOld(r) ==
    /\ pc[r] = "cancel"
    /\ stripe[job[found[r]].ref] # "canceled"
    /\ stripe' = [stripe EXCEPT ![job[found[r]].ref] = "canceled"]
    /\ Drop(r, "plan")
    /\ UNCHANGED <<job, tables, answer, history>>

\* The cancellation fails: it is logged and the purchase goes on.
CancelFails(r) ==
    /\ pc[r] = "cancel"
    /\ Drop(r, "plan")
    /\ UNCHANGED <<stripe, job, tables, answer, history>>

-----------------------------------------------------------------------------
\* The gate before the purchase: no price or no card (400), no plan or no answer from Stripe
\* (500).  The cancellation is done by then.
RefusePlan(r) ==
    /\ pc[r] = "plan"
    /\ \E code \in {400, 500} : Finish(r, code)
    /\ UNCHANGED <<stripe, job, tables, history>>

\* Past the gate, purchase_plan asks for the active subscription once more (plans, which the
\* gate and purchase_plan also read, do not change): one, which will be replaced...
FindExisting(r) ==
    /\ pc[r] = "plan"
    /\ \E q \in Active(job[r].user) :
          /\ Active(job[r].user) = {q}
          /\ found' = [found EXCEPT ![r] = q]
    /\ Goto(r, "replace")
    /\ UNCHANGED <<stripe, job, tables, answer, history>>

\* Mutant of MissExisting: two active rows are taken for none.
MissExistingAlways(r) ==
    /\ pc[r] = "plan"
    /\ Cardinality(Active(job[r].user)) # 1
    /\ Goto(r, "create")
    /\ UNCHANGED <<stripe, job, tables, found, answer, history>>

\* ... none...
MissExisting(r) ==
    /\ pc[r] = "plan"
    /\ Active(job[r].user) = {}
    /\ Goto(r, "create")
    /\ UNCHANGED <<stripe, job, tables, found, answer, history>>

\* ... or several: scalar_one_or_none raises, the purchase is rolled back and answered 500.
AmbiguousExisting(r) ==
    /\ pc[r] = "plan"
    /\ Cardinality(Active(job[r].user)) > 1
    /\ Finish(r, 500)
    /\ UNCHANGED <<stripe, job, tables, history>>

\* Mutant of Replace: the existing row is not ended.
ReplaceNothing(r) ==
    /\ pc[r] = "replace"
    /\ Drop(r, "create")
    /\ UNCHANGED <<stripe, job, tables, answer, history>>

\* First commit: the existing row is ended.
Replace(r) ==
    /\ pc[r] = "replace"
    /\ row' = [row EXCEPT ![found[r]] = "ended"]
    /\ Drop(r, "create")
    /\ UNCHANGED <<stripe, job, granted, answer, history>>

\* Second commit: the new row.
Create(r) ==
    /\ pc[r] = "create"
    /\ row' = [row EXCEPT ![r] = "active"]
    /\ rivals' = [q \in Requests |->
          IF q # r /\ Registering(q) /\ job[q].user = job[r].user
          THEN rivals[q] \cup {r} ELSE rivals[q]]
    /\ Goto(r, "grant")
    /\ UNCHANGED <<stripe, job, found, granted, answer, unpaid, since>>

\* Third commit: the balance and the transaction row (add_credits).
Grant(r) ==
    /\ pc[r] = "grant"
    /\ granted' = granted \cup {r}
    /\ since' = [q \in Requests |->
          IF q # r /\ Claiming(q) /\ job[q].ref = job[r].ref
          THEN since[q] \cup {r} ELSE since[q]]
    /\ Goto(r, IF IsSub(r) THEN "confirm" ELSE "reply")
    /\ UNCHANGED <<stripe, job, row, found, answer, unpaid, rivals>>

-----------------------------------------------------------------------------
\* A one-time payment is answered.
Reply(r) ==
    /\ pc[r] = "reply"
    /\ Finish(r, 200)
    /\ UNCHANGED <<stripe, job, tables, history>>

\* verify_subscription_active: only now is the subscription's status looked at.
Confirm(r) ==
    /\ pc[r] = "confirm"
    /\ stripe[job[r].ref] = "active"
    /\ Finish(r, 200)
    /\ UNCHANGED <<stripe, job, tables, history>>

\* Not active, or the call failed.
Disown(r) ==
    /\ pc[r] = "confirm"
    /\ Goto(r, "revoke")
    /\ UNCHANGED <<stripe, job, tables, found, answer, history>>

\* Mutant of Revoke: the refusal is answered and the row left as it is.
RevokeUnsaved(r) ==
    /\ pc[r] = "revoke"
    /\ Finish(r, 400)
    /\ UNCHANGED <<stripe, job, tables, history>>

\* The new row is ended in a fourth commit and the request refused; the credits stay.
Revoke(r) ==
    /\ pc[r] = "revoke"
    /\ row' = [row EXCEPT ![r] = "ended"]
    /\ Finish(r, 400)
    /\ UNCHANGED <<stripe, job, granted, history>>

\* A statement or a Stripe call raises, or the worker dies.  Commits already made stay.
Fail(r) ==
    /\ pc[r] # "done"
    /\ Finish(r, 500)
    /\ UNCHANGED <<stripe, job, tables, history>>

\* TimeoutMiddleware answers for a handler that goes on.
Timeout(r) ==
    /\ pc[r] # "done"
    /\ answer[r] = 0
    /\ answer' = [answer EXCEPT ![r] = 504]
    /\ UNCHANGED <<stripe, job, pc, tables, found, history>>

\* Stripe on its own: a first payment arrives, or a subscription ends.
StripeMoves(s) ==
    /\ \/ stripe[s] = "incomplete" /\ stripe' = [stripe EXCEPT ![s] = "active"]
       \/ stripe[s] \in {"incomplete", "active"} /\ stripe' = [stripe EXCEPT ![s] = "canceled"]
    /\ UNCHANGED <<job, pc, tables, found, answer, history>>

Handler(r) ==
    \/ PassCheck(r) \/ RefuseClaimed(r) \/ Verify(r) \/ RefuseUnverified(r)
    \/ LookFinds(r) \/ LookMisses(r)
    \/ ProbeActive(r) \/ ProbeInactive(r) \/ ProbeFails(r)
    \/ CancelOld(r) \/ CancelFails(r)
    \/ RefusePlan(r) \/ FindExisting(r) \/ MissExisting(r) \/ AmbiguousExisting(r)
    \/ Replace(r) \/ Create(r) \/ Grant(r)
    \/ Reply(r) \/ Confirm(r) \/ Disown(r) \/ Revoke(r)

Next ==
    \/ \E r \in Requests : Handler(r) \/ Fail(r) \/ Timeout(r)
    \/ \E s \in Subscriptions : StripeMoves(s)

Spec == Init /\ [][Next]_vars

-----------------------------------------------------------------------------
TypeOK ==
    /\ stripe \in [Refs -> StripeStates]
    /\ job \in [Requests -> Jobs]
    /\ pc \in [Requests -> PCs]
    /\ row \in [Requests -> {"none", "active", "ended"}]
    /\ found \in [Requests -> Requests \cup {NoRow}]
    /\ granted \subseteq Requests
    /\ answer \in [Requests -> {0, 200, 400, 500, 504}]
    /\ unpaid \subseteq Requests
    /\ since \in [Requests -> SUBSET Requests]
    /\ rivals \in [Requests -> SUBSET Requests]

\* A Stripe reference gives credits a second time only when the two requests overlapped: one
\* was committed between _check_transaction_exists and the commit of the other.  A retry after
\* the first handler has ended never pays twice.  A 504 is no such end: the handler goes on
\* behind it, and a retry that overlaps what is left of it can be granted as well.
DoubleGrantsOverlap ==
    \A q, r \in granted :
        q # r /\ job[q].ref = job[r].ref => q \in since[r] \/ r \in since[q]

\* purchase_plan leaves a user with two active subscriptions rows only when two purchases
\* overlapped: one row was inserted after the other purchase had asked for the active one.
TwoActiveOverlap ==
    \A q, r \in Requests :
        /\ q # r /\ job[q].user = job[r].user
        /\ row[q] = "active" /\ row[r] = "active"
        => q \in rivals[r] \/ r \in rivals[q]

\* What the caller of /credits/add may conclude from an answer: 200 means the credits are
\* recorded, and for a subscription that its row was; 400 about a purchase that did grant
\* means its row is ended; an active row without credits is only left behind by a request
\* that is still running or that ended in an error.
AnswersMatchTables ==
    \A r \in Requests :
        /\ answer[r] = 200 => r \in granted
        /\ r \in granted => (row[r] # "none" <=> IsSub(r))
        /\ answer[r] = 400 => row[r] # "active"
        /\ row[r] = "active" /\ r \notin granted => pc[r] = "grant" \/ answer[r] \in {500, 504}

\* The service cancels in Stripe only a subscription that a purchase of the same user had
\* registered, and never before that purchase's own row was committed.
CancelsOnlyRegistered ==
    [][\A r \in Requests, s \in Subscriptions :
          CancelOld(r) /\ stripe'[s] # stripe[s]
          => \E q \in RowsOf(job[r].user) : job[q].ref = s]_vars

\* A row once ended is never active again, however stale the sessions that write it.
NoRevival ==
    [][\A r \in Requests : row[r] = "ended" => row'[r] = "ended"]_vars

\* Once a purchase has decided to cancel the user's old subscription in Stripe, the old row is
\* ended in the database too, unless the purchase is refused, fails or was given up on: no
\* purchase is answered 200 while the subscription it cancelled still counts as active.
CancelledIsEnded ==
    \A r, q \in Requests :
        pc[r] = "cancel" /\ found[r] = q
        ~> row[q] = "ended" \/ answer[r] \in {400, 500, 504}

\* docs/stripe_integration.md, "One-time Payment Handling": "Duplicate Prevention: Checks if
\* the transaction has already been processed to prevent duplicate credits."
NoDuplicateGrant ==
    \A q, r \in granted : job[q].ref = job[r].ref => q = r

\* docs/stripe_integration.md, "Subscription Handling": "Verifies that the subscription exists
\* in Stripe and is in an active state", the first step, before any credits are added.
OnlyActiveGranted == granted \cap unpaid = {}

=============================================================================
