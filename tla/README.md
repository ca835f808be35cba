# Formal models of the authentication and credit service

TLA+ models of `fastapi-auth-service`: of the parts in which credits and subscriptions
change hands, of the accounts they belong to, and of the database sessions everything runs
in. They say what happens when requests overlap, when Stripe answers late or twice, and
when a step in the middle fails. Each model is checked with TLC on a small instance, and
the safety properties of each are proved for all instances with TLAPS. Every definition is
a translation of code under `src/`; `PROJECT.json` names the lines it stands for, and lists
runs, mutants, findings, hazards and theorems.

    tlc -workers 2 -config CreditLedger.cfg MCCreditLedger.tla   # any run of PROJECT.json
    tlapm CreditLedgerProofs.tla                                 # the proofs
    tlapm PurchaseProofs.tla
    tlapm SessionsProofs.tla
    tlapm SubscriptionsProofs.tla
    tlapm WebhooksProofs.tla
    tlapm AccountsTypes.tla
    tlapm AccountsProofs.tla
    tlapm BillingProofs.tla

## 1. The system

A FastAPI application on PostgreSQL (asyncpg, SQLAlchemy ORM) that talks to Stripe. Every
request gets a session of its own (`core/database.py`: READ COMMITTED, `autoflush=False`,
`expire_on_commit=False`) and runs as a coroutine: between two `await`s it runs alone, at an
`await` any other request may run, and several worker processes may share the database. No
code takes a row lock or keeps a version column, so a session works on what it once read.

| Component | State | Operations | What is hard | What makes it correct |
|---|---|---|---|---|
| Credit ledger (`services/credit/base.py`) | `user_credits.balance`, `credit_transactions` | add, use, balance, history | read-modify-write with absolute values, creation race, rounding and overflow of NUMERIC(10,2), 504 while the handler goes on | balance and log agree; no credit from nowhere; the answer tells what happened |
| Purchases (`services/credit/transaction.py`, `stripe_integration.py`, `plan.py`) | `subscriptions`, `credit_transactions.reference_id`, Stripe | verify a payment or subscription, cancel the old one, replace, create, grant, confirm | six to ten steps with a commit or a Stripe call each, checks without constraints behind them | a reference pays once; one active subscription; nothing half done unless the client is told |
| Webhooks (`webhook_service.py`, `stripe_webhooks.py`) | `processed_stripe_events`, `users.account_status`, `users.stripe_customer_id`, `subscriptions.status` | six event types | duplicates, reordering, retries, crash between effect and marking, stale writes | no event marked before its effect is committed, with one known exception; the account follows the latest event; retries end |
| Subscription lifecycle (`subscription.py`, `stripe_service.py`) | `subscriptions` | renew, switch auto-renewal, set status, cancel now, cancel with the period | await on Stripe between read and write; renewal date committed before credits; months of different lengths | a renewal that moved the date is paid or reported; an ended row stays ended; who is told of an end is told the truth |
| Status sync (`user_service.get_user_status_details`) | `subscriptions.status`, `is_active` | a read that writes | overwrites newer webhook data | what is shown is stored, unless another operation wrote meanwhile or the commit failed |
| Accounts and e-mail links (`user_service.py`, `routers/auth/`) | `users`, `email_verification_tokens`, `email_change_requests` | register, verify, resend, change address, change password | delete-then-insert race, check-then-commit on a unique column | a link works once; a verified address was proved |
| Password reset (`password_management.py`) | `password_reset_tokens` | verify link, set password | link burned in one commit, password stored in the next | nobody is told of a reset that did not happen |
| Google sign-in (`oauth_service.py`) | `users.google_id`, `auth_type` | find, adopt or create, link, unlink | two first sign-ins at once, stale user object | no account without a way to sign in |
| Bearer tokens (`core/auth.py`, `core/security.py`) | none in the service; the tokens clients hold | issued at login, refresh, Google sign-in, verification, address change; presented | the token names its user by an address that can change | the token names the user it was issued to |
| Sessions, probes, shutdown (`core/database.py`, `healthcheck_router.py`, `main.py`) | error count, degraded mode, connection pool, shutdown flag | `get_db`, probes, lifespan | retry loop around a `yield`; flags imported by value; flag set when nobody can ask | degraded mode is earned and ends; a shutdown ends |
| Timeout middleware (`middleware/timeout.py`) | none | answer 504 after 30 s | the handler is not cancelled | answers 504 only where nothing was answered |

They interact through the database and Stripe, not by messages: purchases call
`add_credits` of the ledger; a purchase that cancels a subscription in Stripe makes Stripe
send an event to the webhooks; webhooks write `status` but not `is_active`, which purchases,
renewals and the status sync read; everything that knows a user by his address (bearer
tokens, Google sign-in, verification links) meets the address change in the users table. The
timeout middleware and `get_db` wrap every handler. E-mail, logging and the event
publisher (it writes log lines) keep no state that these properties depend on.

## 2. Modules

| Module | What it is |
|---|---|
| `AtomicLedger` | abstract: a balance that only whole deposits and withdrawals change |
| `CreditLedger` | the ledger under overlapping requests; refines `AtomicLedger` except for stale commits |
| `CreditLedgerProofs` | its theorems |
| `Purchase` | references to credits, with Stripe and the `subscriptions` table |
| `PurchaseProofs` | its theorems |
| `Webhooks` | deliveries, handlers and the table of processed events |
| `WebhooksProofs` | its theorems |
| `Billing` | purchases and the webhooks they cause; extends `Purchase`, and implements it |
| `BillingProofs` | its theorems; extends `PurchaseProofs` |
| `Calendar` | renewal dates, and the reference definition they are compared with |
| `Subscriptions` | renewal, switch, status, cancellations and the status read, over rows and Stripe |
| `SubscriptionsProofs` | its theorems |
| `Users` | the users table, its unique columns, and how a session loads and commits a row |
| `EmailLinks` | registration, and links by e-mail; extends `Users` |
| `GoogleSignIn` | sign-in, link and unlink; extends `Users` |
| `Bearer` | tokens and whom they name; extends `Users` |
| `Accounts` | the composition of the three on one table, and its properties |
| `AccountsTypes` | types, and what the place of a handler says of its request |
| `AccountsProofs` | the theorems about `Accounts` |
| `Sessions` | `get_db`, the pool, the probes, the shutdown of one process |
| `SessionsProofs` | its theorems |
| `MC*` | the modules TLC runs: the component, its constants, the symmetry of its requests or workers |

### CreditLedger

A request is an element of `Requests` with a constant `op` (kind, user, amount) and a program
counter. An action is the code between two awaits that other requests can tell apart: `FindCredit` /
`MissCredit` is the SELECT of `get_user_credit`, `InsertCredit` and `InsertConflict` the commit of
a new row and its failure on the unique `user_id`, `CommitAdd` and `CommitUse` the flush and
commit. SQLAlchemy writes `balance` as an absolute value computed from the loaded one
(`snap`), whatever the row holds by then; `version` and `seen` are history variables that say
whether the row was written in between (`Stale`). `Fail` is any failing statement, call or
process; the decorator rolls back and answers 500, and what was committed stays. `Timeout` is the
504 of the middleware: the pinned Starlette 0.41 runs the endpoint in a task of its own, which goes on.

Amounts are in mills, tenths of a cent: the schema accepts any scale, the columns hold cents
and round half a cent up. That is enough for every rounding case: below half a cent, half a cent,
whole cents. `added` and `used` stand for the sums of the transaction log. A plain `/credits/add`
is an `add`; purchases use the same code.

### Purchase

A request presents a payment or a subscription. Control follows `verify_and_process_one_time_payment`
and `verify_and_process_subscription` (which looks a reference up *before* it asks Stripe, the other
*after*), then `check_active_subscription` (`Look*`, `Probe*`), `cancel_subscription` (`Cancel*`),
the plan gate (`RefusePlan`), `purchase_plan` (`FindExisting` ... `Grant`: three commits) and the late
confirmation (`Confirm`, `Disown`, `Revoke`). A `subscriptions` or `credit_transactions` row is named by the request that
inserted it. `found` is the row object a session holds across awaits. Two rows where one is expected make
`scalar_one_or_none` raise; where the code catches that and goes on (`check_active_subscription`), so does `LookMisses`.
Stripe's answers are four states: unknown, incomplete, active (active or trialing, a payment that succeeded), cancelled;
`StripeMoves` is Stripe acting alone. Any Stripe call may fail. `since` and `rivals` record which commits fell
between a request's question and its own commit.

The commit of the credits is one step, `Grant`: `CreditLedger` models what is inside. `/credits/stripe/add`
cannot be reached past its first lines (`credit_router.py:355` calls `StripeService()` without its argument).

### Webhooks

A worker handles a delivery. Its steps are the lookup of the event, of the user, of the subscription, the
handler's commit and the marking of the event in a second commit, which also saves whatever the session still
holds. Stripe may send any event to any idle worker at any time. The ORM writes only columns whose
value differs from what was loaded (`Changed`), so a stale handler can also fail to write.
`get_or_create_subscription` raises for every caller (`db_utils.py:323`), so `LookupRaises` ends those
deliveries. A user id from event metadata is a text; whether the driver takes it for an INTEGER column is
`textIds`, chosen at the start: SQLite under the tests does, asyncpg does not. An invoice may come without
`customer_details`: `handle_invoice_payment_succeeded` takes that for no user id, `handle_invoice_payment_failed` raises on every delivery (`RejectBareInvoice`).
The commit of the customer id in `handle_checkout_session_completed` may fail and be swallowed (`LinkFails`); `lost` remembers such events, which are marked as processed
like any other, beside `applied` (the handler committed) and `ignored` (there was no user or nothing to commit).

### Billing

Every step of `Purchase`, with the events that Stripe sends because of it. `Emit` is the rule that whoever moves a subscription, the service or Stripe, causes the event of
its new state; `sent` holds the events there have been, which Stripe may deliver in any order and as often as it likes. `HandleEvent` sets the account of the user whose
customer the subscription is of (`owner`, which need not be the user who presents the reference), one step because `Webhooks` models how two handlers overlap: what `CanceledForAnEnd` asks of a
handler, the row it found and the end it was told of, is never undone meanwhile. Only states active and canceled are told; the events that freeze an account make it neither.
Webhooks write `status`, which purchases never ask for, so that nothing flows back from them: the steps meet in Stripe. `ender`, `gaveUp` and `newer` are history variables: which
request ended a row, who went on although Stripe had not ended what was to be ended, and which rows came after a request had looked.

### Subscriptions

A request is one of nine operations: `renew` (`renew_subscription`), `autoOn` and `autoOff`
(`update_subscription_auto_renew`), `setStatus`, `cancel` (`/credits/subscriptions/cancel`), `cancelMe`
(`/me/subscription/cancel`), `sync` (the status read), `event` (the write of a webhook) and `replace` (the row a purchase
retires). All but the last two are followed statement by statement; of `event` and
`replace`, which `Webhooks` and `Purchase` model in full, only the writes to `subscriptions`. A handler goes from `Load` over a pick, a question to Stripe
and a second call to its commit; `copy` is what its session has loaded: the routes authenticate the user and
with him load all his rows (`lazy="selectin"`), the others the one row they are called for. `Flush` writes the columns that differ
from the loaded ones, so two operations can mix theirs. `stale`, `raced`, `moved`, `cancelled` and `writer` are history variables.
`log` is what Stripe has said of a subscription, and a webhook may bring any of it, in any order. `active` stands for trialing too, `past_due` for unpaid.

`renew_subscription`, the switch and the status update have no caller in the repository and are modelled as the operations
`CreditService` offers. A failing call to Stripe looks like a negative answer in `AskAlive`, is ignored in `SwitchOff` and
`StopInStripe`, and falls back to the loaded status in `AskStatus`, as in the code. The status read stores what Stripe says (`StoreStatus`) and shows it through an enum (`Shown`): a status the enum
does not have, such as `paused`, is stored and shown as `active`. When its COMMIT fails the read swallows that and still shows Stripe's status (`StoreStatusLost`, answer `unsaved`); a
failing UPDATE rolls back, which expires the user it reads next, so that one ends as an error (`Fail`). The renewal date is a real date: `NextRenewal` is
`calculate_renewal_date` without its time of day.

### Users, EmailLinks, GoogleSignIn, Bearer, Accounts

A row of `users` has the columns that decide who may sign in; a row that a request inserts has the request's name. `Save` is the commit
of a session that has changed its copy, refused when the result breaks a unique constraint; SELECTs that directly
follow each other (a link and its user) are one step, since nothing is written between them. `link` is the link a request follows, `took` the requests whose link took effect, `since` which requests committed while another ran.
The DELETE of `create_verification_token` (`Wipe`) sees the links committed before it and holds their row locks until the commit
(`doomed`, `behind`), so a second DELETE of the same links waits. `verify_reset_token` commits the burned link before `reset_password`
loads the user: three steps. Find, adopt and create of `find_or_create_user` are three statements, hence three steps.

Two operations of the code cannot succeed where they stand and are modelled one level below. The route that asks for an address change calls its service with arguments
it does not take (`email_management.py:113`); `AskChange` is the service. `create_password_reset_token` writes columns the table does not have;
reset links are there from the start. A token has two claims, the id of a row and its address; `get_current_user` goes by the address, so
whoever presents it is the row that has the address by then. Five routes issue tokens: `Login`, `Refresh`, Google sign-in (`GoogleIssues`), and the two routes that follow a link,
`verify_email` and `verify_email_change` (`MailIssues`). Sign-in and address change read the row again after their commit, `verify_email` does not. A commit whose refresh fails is answered as a
failure although the row is written (`AnswerAfterRefresh`).

### Sessions

A request of the interface enters `get_db` (`Begin`), takes a connection for each transaction (`Acquire`, `GiveBack`) or queues, and ends. A SQLAlchemy error
that reaches the dependency is counted (`Count`); a lost connection or a full pool leads to the sleep of the
retry loop, any other error, also one raised without a connection, to `_handle_db_error` and 500. `WakeUp` is the second turn of the loop: a generator that yields again after an exception
was thrown in is a `RuntimeError` in `contextlib`, so the client gets 500. Refused connections are `OSError` in asyncpg and pass uncounted. Probes
(`BeginProbe`) read the shutdown flag and open a session without `get_db`. uvicorn is external: it closes its socket, waits for all handlers (`Drain`), and only then resumes
`lifespan`, which sets the flag; a probe therefore always reads it unset.

## 3. Runs, and why their bounds are enough

| Run | Instance | Shows |
|---|---|---|
| `CreditLedger` | 1 user, 3 requests, amounts 4, 5, 20 mills, limit 3 cents (1.6 M states) | `Conserved`, `BalanceBacked`, `AnswerMatchesEffect`, `AtomicUnlessStale` |
| `Purchase` | 1 user, 3 requests, 1 payment, 1 subscription (2.7 M) | `DoubleGrantsOverlap`, `TwoActiveOverlap`, `AnswersMatchTables`, `NoRevival` |
| `Billing` | 1 user, 2 requests, 2 subscriptions and their events, fairness (0.3 M) | `CancelsOnlyRegistered`, `CancelledIsEnded`, `CanceledForAnEnd`, `EndedYetPaid` |
| `Webhooks` | 1 user, 1 subscription, an event of any type and the end of the subscription, 2 workers, 1 fault, fairness (0.25 M) | `LastEventRules`, `MarkedOnlyAfterApplied`, `RetriesSucceed`, no deadlock |
| `Subscriptions` | 2 rows of a user, 3 requests of any of 9 operations, Stripe moves the older once (1.5 M) | `RenewalsCounted`, `DayOnlyDrops`, `CancelledOnce`, `DeadButActive`, `EndingIsTrue`, `RevivedByStatusUpdateOnly`, `EndedRowRenewedOnlyByRace`, `ShownIsStored` |
| `Accounts` | 1 user at the start, 2 addresses, 2 Google identities, 3 requests of any of 12 kinds (1.0 M) | `SomeWayIn`, `SignInMatches`, `OneUnusedToken`, `LinksUsedOnce`, `ResetHonest`, `TokenNamesUser`, `TokenAsStored`, `AddressProved` |
| `Sessions` | 2 requests, 1 connection, 6 errors, fairness (15 k) | `RetryNeverHelps`, `DegradedIsEarned`, `ShutdownEnds`, no deadlock |

Users never share a row of the billing tables, so one user shows every interference; the proofs cover any number. Three
requests are a first request, its concurrent rival and a retry after both. With opening 2, limit 3 and
amounts around half a cent, refusals, overflow, both kinds of rounding and rows of 0.00 all occur. Two
references let a purchase replace another; a third request of the same reference meets two rows where one was
expected. Two events and two workers give duplicates, overlap and both orders; the second event, the end of the subscription, changes the account and the row that every other
type writes or needs, and two arbitrary events are covered by the proofs. `MCWebhooks` leaves out the initial states in which `textIds` makes no difference.
In `Billing` symmetry would not be sound for `CancelledIsEnded`, so `MCBilling` takes the initial states up to names: the first request presents the first subscription, and one that nobody
presents stays unknown.
`MaxFaults` bounds failures in `Webhooks` so that retries can end; `MaxCents` is the width of the column, in small.

In `Subscriptions` the operations that name a row name the older; the newer is there for those that choose (and is over from the start when no request chooses). `MaxVersions` bounds what Stripe
does by itself; three renewals from 31 December 2023 pass the end of a year and of a leap February. In `Accounts` two addresses
suffice for a change and a rival for the new one, two identities for an adoption and a clash; the initial states are all rows and links that
earlier requests can have left, an open link to an address and an address that was changed under an identity included, but for links that no request of the behaviour follows or deletes. In `Sessions` one connection makes the second request queue, and six errors
(`MaxErrors`) let degraded mode begin, end and begin again: it takes three, the code's own `Threshold`.

Requests are finitely many and all end in `CreditLedger`, `Purchase`, `Billing`, `Subscriptions` and `Accounts`, so deadlock is not checked there;
webhooks and the process never stop, and it is. Symmetry is over requests or workers, which are interchangeable, and only in runs without liveness.

Every property of a passing run has a mutant in `PROJECT.json`: a plausible mistake in one definition (a dropped
check, truncation for rounding, a lost commit, marking too early) that makes TLC find it violated. The mutated forms stand
beside the definitions they replace, under "Mutant of".

### Fairness

`Billing!BillingFairSpec` is weak fairness of each handler: the event loop resumes a coroutine whose statement or
call has returned, and every call returns or raises. Nothing forces a failure, a timeout, a move or an event of Stripe. `Webhooks!FairSpec` adds strong
fairness of the delivery of each event not yet processed: Stripe retries with backoff until it is answered 200, and workers
become idle again and again. `Sessions!FairSpec` is strong fairness of `Acquire`, since the pool serves its queue in order while connections come and go, and of `Respond`, since
a handler executes finitely many statements before it answers; weak fairness of the end of a sleep, of a probe's answer and of the two shutdown steps
once they are possible. No error, timeout or SIGTERM is forced.

## 4. Where the code and its documents disagree

Each of these has a run that must end in a violation.

| Run | Statement | What the code does |
|---|---|---|
| `NoDuplicateGrant` | docs: duplicates are prevented | two overlapping requests are both granted |
| `OnlyActiveGranted` | docs: only active subscriptions are verified | any status is; credits granted before the late check stay |
| `DuplicatesSkipped` | schema docs: duplicate events are skipped | not while the first delivery is being handled |
| `DegradedReported` | docs: health endpoints report degraded status | the flag was imported by value and is always `False` there |
| `ErrorsDegrade` | docs: degraded mode is activated when errors exceed the threshold | lost connections are counted and never activate it, however many |

The passing properties say how far each promise does hold: a second grant needs overlapping requests
(`DoubleGrantsOverlap`; a handler that goes on behind its 504 still overlaps, so a client that retries a timed-out request can be granted twice), two active rows need overlapping purchases
(`TwoActiveOverlap`), a lost update needs a stale session (`AtomicUnlessStale`), a wrong account status needs a stale handler (`LastEventRules`). Of degraded mode
`docs/database_error_handling.md:53-56` says that connection errors are counted, activate it above a threshold, show in the health endpoints, and that it ends when the connection is re-established. Of that only the counting of
lost connections is true (refused ones pass uncounted): an error that is not of the connection activates the mode, and `ERROR_RESET_PERIOD` without errors ends it, or the process (`DegradedIsEarned`).

Others were met while translating, are part of the models and need no run to be seen:

- `docs/stripe_integration.md:208` promises 400 for insufficient credits; `db_error_handler` (`decorators.py:39`) makes it 500 before the router's handler sees it.
- An amount below half a cent is stored as 0.00 (`models/credit.py:45`), and the response schema (`credit_schemas.py:21`) then refuses it after the commit.
- Events that reach `get_or_create_subscription` (a trial, for one) are never handled: it awaits a value that is not awaitable (`db_utils.py:323`).
- `/me/subscription/cancel` answers 500 where `stripe_service.py:92` and `user_profile.py:249` say 400 for a subscription already over: its own `except` catches the 400 (`StoreOver`).
- `/credits/stripe/add` builds `StripeService` without its argument (`credit_router.py:355`); the route that asks for an address change always answers 500 (`email_management.py:113`); `create_password_reset_token` fails for every user, and the route says the link was sent.
- `docs/database_error_handling.md` says lost connections are retried and end in 503; no request gets a second session, and the answer is 500 (`RetryNeverHelps`).
- `_active_requests` (`main.py:37`) is never incremented, so the wait for running requests in `lifespan` (`main.py:137`) ends at once; uvicorn has waited already.
- `main.py:121` ("readiness probe will start failing") and `healthcheck_router.py:133-134` (503 "if the service is shutting down") are not what a client sees: uvicorn resumes `lifespan` only after it has closed its socket and all handlers have ended, so no probe is answered once the flag is set, and the sleep of `main.py:124-130` drains nothing. This follows from uvicorn's order, which the model takes as given (`Begin`, `Drain`), and is stated here and not as a property of the model.
- `stripe_webhooks.py:135` ("Mark event as processed after successful handling") is not true of a checkout session whose customer id failed to commit (`webhook_service.py:132-137`): the error is swallowed, the event marked, and no retry saves the id. `MarkedOnlyAfterApplied` names it as its one exception.
- `handle_invoice_payment_failed` reads `customer_details` unguarded (`webhook_service.py:658`) where its sibling says it might be `None` (`:567`): such an event is answered 500 for ever.
- The status read answers 200 with a status that it failed to store (`user_service.py:225-244`), and shows a status outside its enum as active (`:247-252`).
- After the rollback of a failed verification e-mail `register_user` touches an expired user: the client gets 500 though the row exists (`MailFails` in state `send`).

## 5. What is proved

For any sets of users, requests, references, events, workers, addresses, identities and amounts, any `MaxCents` and any openings that fit it; for any pool and any number of errors; for any rows, first date and statuses Stripe may give. The assumptions are
`LedgerAssumption` (amounts are positive, as `Field(gt=0)` demands; openings fit the column),
`PurchaseAssumption` (a reference is of one kind, finitely many requests) and `SessionsAssumption` (finitely many requests, a pool of at least one connection) and
`SubscriptionsAssumption` (rows numbered by naturals, a first renewal date that is a date, finitely many requests, at least one status per row),
`WebhooksAssumption` (faults counted by a natural number; `NoSub` and `NoEvent` are neither) and `UsersAssumption` (every Google identity has an address;
rows from the start are not named like requests; `None` is nothing else); TLC evaluates them in every run.

`CreditLedgerProofs`: `TypeCorrect`, `Conservation`, `NothingMinted`, `HonestAnswers`, `AtomicExceptLostUpdates`. Not
all of the invariants are inductive alone. `BalanceBacked` needs that what a session has *loaded* is backed by
`added` as well; `Conserved` needs that a session whose `seen` is the current `version` holds the current
balance, so that a commit on fresh data starts from the true value. `SessionInv` says both, and joins the type invariant in `IInv`. The arithmetic facts on
`ToCents` (an addition rounds as the log does, a subtraction differs by one cent exactly for half cents) are lemmas of
their own. The action property follows from the same invariant: a commit that is not stale
is a `Deposit` or `Withdraw` of `AtomicLedger` on the stored balance.

`PurchaseProofs`: `TypeCorrect`, `NoDoublePaymentAfterwards`, `OneActiveWithoutOverlap`, `HonestAnswers`, `EndedForGood`,
`OnlyRegisteredCancelled`. The inductive invariant `IInv` says of each request what its program counter
implies: which commits it has made (`Stage`), that between asking and committing every grant of its reference is in
`since` (`ClaimsKnown`), that every active row of its user is in `rivals` or is the one it is about to end (`RivalsKnown`), and what its
answer vouches for (`AnswerTrue`). With these a second grant or a second active row can only be made by a request that overlapped.

`BillingProofs`: `BillingTypeCorrect`, `AccountsCanceledForAnEnd`, `PaidOnlyKnowingly`, `BillingImplementsPurchase`. Every step of `Billing` is one of `Purchase` or leaves its
variables alone (`PurchaseSteps`), so `IInv` carries over. `EndedYetPaid` is not inductive: when a row is ended, its subscription must have been dealt with *before*. `LooksAfter`
says how far: at each place between looking and ending, every active row of the user is the one found, or is `Settled` (over in Stripe, given up on, or inserted since). What is settled stays
settled, because an end in Stripe is final (`EndIsFinal`) and the histories only grow; a new row can appear only by `Create`, which every request between looking and ending takes note of
(`OthersLookAfter`). `BillingTypeOK` is proved and needs no run. `CanceledForAnEnd` needs that Stripe sends true ends (`EndsTrue`), and that neither the end nor the row which excuses a canceled account goes away (`ExcuseStays`).

`SessionsProofs`: `TypeCorrect`, `NoSecondChance`, `DegradedOnlyWhenEarned`. The types include that the
pool is never overdrawn, which two lemmas on finite sets carry: a step that takes a connection adds one holder where there was room
(`HoldersGrow`), every other step leaves no more (`HoldersShrink`). `RetryNeverHelps` is not inductive: it needs to know that a request still running has been
told nothing or 504, and that only requests of the interface sleep. `Running` says so and joins `IInv`. `DegradedIsEarned` then follows step by step.

`SubscriptionsProofs`: every property of the `Subscriptions` run. `IInv` joins to the types what the program counter of a request
implies of what it has heard, answered and chosen (`Own`), and that a row it holds which nobody else has written is as it loaded it (`Fresh`).
`HandlerCommits` reduces the actions to one kind of step: a request writes rows from its copies, or writes nothing. `CommitFacts` and
`CopiesFrom` say what that leaves of the other rows and copies, so that each property is argued once and not once per action.
Two properties are not inductive. `DayOnlyDrops` speaks of the stored dates; `Dated` says the same of every copy a request holds, since a
copy becomes a stored row. `RenewalsCounted` becomes `Counted`: a copy is never further ahead than the renewals committed on its row
(and by `Fresh` the copy of a request that no other has overtaken is level with it).
Beneath them are lemmas on the calendar: `NextRenewalDate` (the next renewal is a date again, one month on), `RenewalDrops` (the day is the old one or the length
of the month) and `DroppedDay` (the days dropped one renewal at a time are the minimum `DayAt` names).

`WebhooksProofs`: `TypeCorrect`, `LastCommitDecides`, `OnlyLinksLost`. `IInv` says of each worker that a handler which nobody has overtaken holds the
account as it is (`Fresh`), that a handler about to mark its event has committed it, found nothing to commit or swallowed a failure (`Handled`), that only checkout sessions are swallowed (`Linking`, `LostCheckouts`), and that it looks for a row only if its
event is about one (`Routed`). `Fresh` is what `LastEventRules` needs: the ORM writes a column only when the new value differs from the *loaded* one, so
a commit leaves the account as its event asks only if the loaded value is the stored one. `OnlyLinksLost` includes crashes: `Fail` is one of the steps.

`AccountsProofs`, with `AccountsTypes` for its first part: every property of the `Accounts` run. There are thirty-eight actions of four kinds
of handlers, so the argument goes by what a step does and not by which action it is. To the users table and its own session a step does nothing (`Keeps`), loads a row (`Loads`), inserts
one of its own (`Inserts`), or commits a changed copy and ends (`Saves`, with `Turns` for what may change); `MailRows` and `GoogleRows` show that there is no fifth. To the
links it stores one, takes one, begins to follow one, deletes some, or none of these (`LinksStep`). Three invariants follow:

- `Core`: types; that links, changes and bearer tokens name rows that are there; and `Working`, what the place of a handler says of its request.
- `RowsInv`: `SomeWayIn` and `SignInMatches` are not inductive, since a commit writes what a session computed from a row that others may have changed
  meanwhile. `Held` says what survives: a password, a verification and (but for a confirmed change) the address that the copy has, the row still has. The reason is `RowsStay`: no step takes
  these from a row. So the session that unlinks Google because its copy has a password leaves a row that has one, however stale the copy.
- `LinksInv`: a verification link goes to the address of its user unless that one is verified (`TokensInv`); a link that took effect is used for good (`TakenBy`); a request knows
  of every other that has taken the link it follows that they overlapped (`Following`); and an unused link that a DELETE did not see was stored after it (`Wiped`).

`OneUnusedToken`, `LinksUsedOnce`, `ResetHonest` and `TokenNamesUser` are then inductive beside `IInv`, and `TokenAsStored` (`TokensAsStored`) and `AddressProved` follow step by step.

Only model-checked: liveness (`CancelledIsEnded`, `RetriesSucceed`, `ShutdownEnds`), which rests on fairness and is beyond the prover, and the statements of the runs
of section 4, which are false. Every invariant and action property of a passing run is a theorem.

## 6. Not modelled

The expiry of tokens and links (a link that expired is one that `Refuse` refuses); the API key of internal services, a comparison with a constant; e-mail, logging,
configuration, schemas beyond the constraints named above, migrations, scripts. The rate limiter is a third-party counter, with one shared bucket for
internal callers. `get_trial_eligibility` only reads, and looks for names of tests in its own call stack. The trial grant of `handle_customer_subscription_created` is
unreachable and has no actions. Nothing calls `calculate_credits_from_payment`, `with_exponential_backoff`, `execute_db_operation`, `update_user_email` or
`delete_user`; `upgrade_plan` does not exist. Plans do not change in `Purchase`, so the two reads of the plan are one. `PROJECT.json`
gives the reason for each component.

## 7. Plan

The modules of the plan are written. What could follow: `Billing` with the frozen states and with the renewals of `Subscriptions`, against an abstract entitlement
of a user as Stripe sees it.
