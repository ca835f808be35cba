------------------------------ MODULE Billing -------------------------------
(***************************************************************************)
(* Purchases and webhooks together.  A purchase that replaces a            *)
(* subscription cancels the old one in Stripe; Stripe sends the event of   *)
(* that end, and of every other turn a subscription takes, to the          *)
(* webhooks, which set the status of the whole account                     *)
(* (services/webhook_service.py).                                          *)
(*                                                                         *)
(* A purchase is every step of Purchase.  A webhook handler is one step    *)
(* here: Webhooks models how two of them overlap.  It writes account and   *)
(* subscriptions.status, but not is_active, the only column the purchases  *)
(* ask for.  What Stripe thinks of a subscription and what the database    *)
(* says of its row meet only in these steps.                               *)
(***************************************************************************)
EXTENDS Purchase

VARIABLES
    owner,    \* subscription -> the user its customer belongs to; never changes
    account,  \* user -> users.account_status
    sent,     \* events that Stripe may send: for the first time, late or again
    ender,    \* row -> the request that ended it (history)
    gaveUp,   \* requests that left a subscription behind in Stripe (history)
    newer     \* request -> rows of its user inserted since it looked (history)

events == <<owner, account, sent>>
notes  == <<ender, gaveUp, newer>>

\* That a subscription is active Stripe tells by an update and by a paid invoice.  Both handlers
\* make the account active, and the one of the invoice needs no row: one event stands for both.
Events == [sub : Subscriptions, status : {"active", "canceled"}]

\* A purchase has inserted a row for the subscription.
Registered(s) == \E q \in Requests : job[q].ref = s /\ row[q] # "none"

BillingInit ==
    /\ Init
    /\ owner \in [Subscriptions -> Users]
    /\ account = [u \in Users |-> "active"]
    /\ sent = {e \in Events : stripe[e.sub] = e.status}
    /\ ender = [r \in Requests |-> NoRow]
    /\ gaveUp = {}
    /\ newer = [r \in Requests |-> {}]
-----------------------------------------------------------------------------
\* Whoever moves a subscription, by the service or in Stripe, causes its events.
Emit == sent' = sent \cup {e \in Events : stripe[e.sub] # e.status /\ stripe'[e.sub] = e.status}

\* Between the first question for the active row and the commit that ends it.
Replacing(r) == pc[r] \in {"probe", "cancel", "plan", "replace"}

\* A request goes on although Stripe has not ended what was to be ended: it took several active
\* rows for none, Stripe was not asked or did not obey, a first payment is still to come, or the
\* subscription just bought is disowned.
LeavesBehind(r) ==
    \/ LookMisses(r) /\ Active(job[r].user) # {}
    \/ /\ ProbeInactive(r) \/ ProbeFails(r) \/ CancelFails(r)
       /\ stripe[job[found[r]].ref] # "canceled"
    \/ Disown(r) /\ stripe[job[r].ref] # "canceled"

Note(r) ==
    /\ ender' = [q \in Requests |->
          IF row[q] = "active" /\ row'[q] = "ended" THEN r ELSE ender[q]]
    /\ gaveUp' = IF LeavesBehind(r) THEN gaveUp \cup {r} ELSE gaveUp
    /\ newer' = [p \in Requests |->
          newer[p] \cup {q \in Requests : /\ Replacing(p) /\ job[q].user = job[p].user
                                          /\ row[q] = "none" /\ row'[q] # "none"}]

Purchasing(r) ==
    /\ Handler(r) \/ Fail(r) \/ Timeout(r)
    /\ Emit /\ Note(r)
    /\ UNCHANGED <<owner, account>>

StripeTurns(s) ==
    /\ StripeMoves(s)
    /\ Emit
    /\ UNCHANGED <<owner, account, notes>>

\* Mutant of HandleEvent: a handler that finds no row goes on to the account.
HandleUnregistered(e) ==
    /\ e \in sent
    /\ account' = [account EXCEPT ![owner[e.sub]] = e.status]
    /\ UNCHANGED <<vars, owner, sent, notes>>

\* The account gets the status of the event.  The update to "canceled" needs the row of its
\* subscription: without one the handler raises and Stripe sends the event again.  So it does
\* when the event could not be marked as processed, and two deliveries may overlap.
HandleEvent(e) ==
    /\ e \in sent
    /\ e.status = "canceled" => Registered(e.sub)
    /\ account' = [account EXCEPT ![owner[e.sub]] = e.status]
    /\ UNCHANGED <<vars, owner, sent, notes>>

BillingNext ==
    \/ \E r \in Requests : Purchasing(r)
    \/ \E s \in Subscriptions : StripeTurns(s)
    \/ \E e \in sent : HandleEvent(e)

billingVars == <<vars, events, notes>>

BillingSpec == BillingInit /\ [][BillingNext]_billingVars

\* The event loop resumes every handler whose statement or Stripe call has returned.  Stripe owes
\* nobody an event here.
Fairness == \A r \in Requests : WF_vars(Handler(r))

BillingFairSpec == BillingSpec /\ Fairness
-----------------------------------------------------------------------------
BillingTypeOK ==
    /\ TypeOK
    /\ owner \in [Subscriptions -> Users]
    /\ account \in [Users -> {"active", "canceled"}]
    /\ sent \subseteq Events
    /\ ender \in [Requests -> Requests \cup {NoRow}]
    /\ gaveUp \subseteq Requests
    /\ newer \in [Requests -> SUBSET Requests]

\* handle_customer_subscription_updated cancels the whole account for the end of any one
\* subscription, the one that a purchase has just replaced included.  It does so only for an
\* end that has come, of a subscription of this user that a purchase registered: an account
\* is never canceled by events that arrive early, late or twice while all of them go on.
CanceledForAnEnd ==
    \A u \in Users :
        account[u] = "canceled" =>
            \E s \in Subscriptions : owner[s] = u /\ Registered(s) /\ stripe[s] = "canceled"

\* Nobody goes on paying in Stripe for a subscription that the database counts as ended, unless
\* the request that ended its row knew better (it had given up on a cancellation, or disowned
\* what it had bought) or the row was inserted after it had looked for what to replace.
EndedYetPaid ==
    \A q \in Requests :
        row[q] = "ended" /\ stripe[job[q].ref] = "active"
        => ender[q] \in gaveUp \/ q \in newer[ender[q]]
=============================================================================
