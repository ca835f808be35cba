------------------------------ MODULE Webhooks ------------------------------
(***************************************************************************)
(* Stripe's webhook deliveries and what their handlers make of them        *)
(* (routers/webhooks/stripe_webhooks.py, services/webhook_service.py).     *)
(*                                                                         *)
(* Stripe sends an event until it is answered 200, may send it twice, and  *)
(* promises no order.  The endpoint asks whether the event was processed,  *)
(* runs the handler, which commits, and then marks the event in a commit   *)
(* of its own; two deliveries of one event, or of two events of one user,  *)
(* may be anywhere between these steps.  The ORM writes only the columns   *)
(* whose value differs from what the session has loaded.                   *)
(*                                                                         *)
(* get_or_create_subscription awaits the result of scalars().first(),      *)
(* which is not awaitable: it raises TypeError whatever the table holds.   *)
(* Nothing behind that call is reachable, the trial grant included.        *)
(*                                                                         *)
(* An id that comes from an event's metadata is a text, users.id is an     *)
(* INTEGER: SQLite, which the tests run on, converts it, asyncpg, which    *)
(* .env.example configures, raises.                                        *)
(***************************************************************************)
EXTENDS Integers

CONSTANTS Users,     \* rows of the users table
          Subs,      \* Stripe subscriptions
          Events,    \* Stripe event ids
          Workers,   \* concurrent deliveries
          MaxFaults, \* bound: database failures and crashes in a behaviour
          NoSub,     \* an invoice that is not of a subscription's cycle
          NoEvent    \* no event

ASSUME WebhooksAssumption ==
    /\ MaxFaults \in Nat
    /\ NoSub \notin Subs
    /\ NoEvent \notin Events

VARIABLES
    content,    \* event -> its type, user, subscription, status; never changes
    textIds,    \* does the database driver take a text for an INTEGER key; never changes
    processed,  \* events in processed_stripe_events
    account,    \* user -> users.account_status
    linked,     \* user -> is users.stripe_customer_id set
    row,        \* subscription -> subscriptions.status, absent without a row
    pc,         \* worker -> where its handler stands
    ev,         \* worker -> the event it was sent
    seenAcc,    \* worker -> account_status its session has loaded
    seenRow,    \* worker -> subscriptions.status its session has loaded
    link,       \* worker -> does its session hold an unsaved stripe_customer_id
    faults,     \* failures so far
    stale,      \* worker -> was something it loaded written since (history)
    last,       \* user -> the event whose commit wrote last, and was it stale (history)
    applied,    \* events whose handler has committed (history)
    ignored,    \* events whose handler found no user or nothing to do (history)
    lost        \* events whose handler went on after its commit had failed (history)

given    == <<content, textIds>>
tables   == <<account, linked, row>>
sessions == <<seenAcc, seenRow, link>>
history  == <<stale, last, applied, ignored, lost>>
vars     == <<given, processed, tables, pc, ev, sessions, faults, history>>

Statuses == {"active", "trialing", "past_due", "canceled", "paused"}
Accounts == {"active", "trialing", "frozen", "canceled"}

\* names: does the event's metadata carry the user's id, as a text, so that no customer id is
\* needed; of a failed invoice also: does it have the customer_details these metadata are in.
\* A paid invoice without them is read as one whose metadata carry no id.  A deleted
\* subscription is handled as an update with status canceled.
Contents ==
    [type : {"updated"}, user : Users, sub : Subs, status : Statuses, names : {"id", "no id"}]
    \cup [type : {"created"}, user : Users, sub : Subs, status : {"trialing"},
          names : {"id", "no id"}]
    \cup [type : {"paid"}, user : Users, sub : Subs \cup {NoSub}, status : {"none"},
          names : {"id", "no id"}]
    \cup [type : {"failed"}, user : Users, sub : Subs \cup {NoSub}, status : {"none"},
          names : {"id", "no id", "no details"}]
    \cup [type : {"checkout"}, user : Users, sub : {NoSub}, status : {"none"}, names : {"id"}]

PCs == {"idle", "check", "user", "link", "sub", "write", "mark"}

U(w) == content[ev[w]].user
S(w) == content[ev[w]].sub

\* Mutant of AccountFor: Stripe's status is taken over as it is.
AccountForRaw(e) ==
    CASE content[e].type = "paid"   -> "active"
      [] content[e].type = "failed" -> "frozen"
      [] OTHER -> content[e].status

\* The account status an event asks for; a paused subscription asks for none.
AccountFor(e) ==
    CASE content[e].type = "paid"    -> "active"
      [] content[e].type = "failed"  -> "frozen"
      [] content[e].status = "past_due" -> "frozen"
      [] OTHER -> content[e].status

Decides(e) == \/ content[e].type = "updated" /\ content[e].status # "paused"
              \/ content[e].type = "paid"
              \/ content[e].type = "failed" /\ content[e].sub # NoSub

\* The subscription status an event asks for, given the one that is there.
RowFor(e, there) ==
    CASE content[e].type = "updated" -> content[e].status
      [] content[e].type = "paid" /\ there # "absent" -> "active"
      [] OTHER -> there

-----------------------------------------------------------------------------
Init ==
    /\ content \in [Events -> Contents]
    /\ textIds \in BOOLEAN
    /\ processed = {}
    /\ account = [u \in Users |-> "active"]
    /\ linked \in [Users -> BOOLEAN]
    /\ row \in [Subs -> {"absent", "active"}]
    /\ pc = [w \in Workers |-> "idle"]
    /\ ev = [w \in Workers |-> NoEvent]
    /\ seenAcc = [w \in Workers |-> "active"]
    /\ seenRow = [w \in Workers |-> "absent"]
    /\ link = [w \in Workers |-> FALSE]
    /\ faults = 0
    /\ stale = [w \in Workers |-> FALSE]
    /\ last = [u \in Users |-> [event |-> NoEvent, stale |-> FALSE]]
    /\ applied = {}
    /\ ignored = {}
    /\ lost = {}

Goto(w, label) == pc' = [pc EXCEPT ![w] = label]

\* The delivery is answered and its session closed.
Close(w) ==
    /\ Goto(w, "idle")
    /\ ev' = [ev EXCEPT ![w] = NoEvent]
    /\ seenAcc' = [seenAcc EXCEPT ![w] = "active"]
    /\ seenRow' = [seenRow EXCEPT ![w] = "absent"]
    /\ link' = [link EXCEPT ![w] = FALSE]

Fault == faults < MaxFaults /\ faults' = faults + 1

-----------------------------------------------------------------------------
\* Stripe sends an event: for the first time, again after a 500, or twice.
Deliver(w, e) ==
    /\ pc[w] = "idle"
    /\ Goto(w, "check")
    /\ ev' = [ev EXCEPT ![w] = e]
    /\ stale' = [stale EXCEPT ![w] = FALSE]
    /\ UNCHANGED <<given, processed, tables, sessions, faults, last, applied, ignored, lost>>

\* is_event_processed: yes, 200 at once.
SkipProcessed(w) ==
    /\ pc[w] = "check"
    /\ ev[w] \in processed
    /\ Close(w)
    /\ UNCHANGED <<given, processed, tables, faults, history>>

\* No: the handler starts.
StartHandling(w) ==
    /\ pc[w] = "check"
    /\ ev[w] \notin processed
    /\ Goto(w, "user")
    /\ UNCHANGED <<given, processed, tables, ev, sessions, faults, history>>

\* The query fails: the event is assumed not to be processed.
CheckFails(w) ==
    /\ pc[w] = "check"
    /\ Fault
    /\ Goto(w, "user")
    /\ UNCHANGED <<given, processed, tables, ev, sessions, history>>

\* No user is known for the event: the handler returns and the event counts as processed.
IgnoreStranger(w) ==
    /\ pc[w] = "user"
    /\ content[ev[w]].names = "no id" /\ ~linked[U(w)]
    /\ ignored' = ignored \cup {ev[w]}
    /\ Goto(w, "mark")
    /\ UNCHANGED <<given, processed, tables, ev, sessions, faults, stale, last, applied, lost>>

\* The event leads to a user row: by the id in its metadata or by the customer id.
Found(e) ==
    \/ content[e].names = "id" /\ textIds
    \/ content[e].names = "no id" /\ linked[content[e].user]

\* The driver refuses the text of the id; the endpoint rolls back and answers 500.
RejectTextId(w) ==
    /\ pc[w] = "user"
    /\ content[ev[w]].names = "id" /\ ~textIds
    /\ Close(w)
    /\ UNCHANGED <<given, processed, tables, faults, history>>

\* handle_invoice_payment_failed reads customer_details without asking whether it is there;
\* its sibling for paid invoices asks.  The endpoint rolls back and answers 500, every time.
RejectBareInvoice(w) ==
    /\ pc[w] = "user"
    /\ content[ev[w]].names = "no details"
    /\ Close(w)
    /\ UNCHANGED <<given, processed, tables, faults, history>>

\* The user row is loaded; a missing customer id is set on it, to be saved by the next commit.
LoadUser(w) ==
    /\ pc[w] = "user"
    /\ Found(ev[w])
    /\ seenAcc' = [seenAcc EXCEPT ![w] = account[U(w)]]
    /\ link' = [link EXCEPT ![w] = ~linked[U(w)]]
    /\ Goto(w, CASE content[ev[w]].type = "checkout" -> "link"
                 [] S(w) # NoSub -> "sub"
                 [] OTHER -> "write")
    /\ UNCHANGED <<given, processed, tables, ev, seenRow, faults, history>>

\* handle_checkout_session_completed saves the customer id...
Link(w) ==
    /\ pc[w] = "link"
    /\ linked' = [linked EXCEPT ![U(w)] = TRUE]
    /\ link' = [link EXCEPT ![w] = FALSE]
    /\ applied' = applied \cup {ev[w]}
    /\ Goto(w, "mark")
    /\ UNCHANGED <<given, processed, account, row, ev, seenAcc, seenRow, faults,
                   stale, last, ignored, lost>>

\* ... and swallows the failure of that commit: the customer id is lost, and the handler goes
\* on to have its event marked as processed.
LinkFails(w) ==
    /\ pc[w] = "link"
    /\ link[w]
    /\ Fault
    /\ link' = [link EXCEPT ![w] = FALSE]
    /\ lost' = lost \cup {ev[w]}
    /\ Goto(w, "mark")
    /\ UNCHANGED <<given, processed, tables, ev, seenAcc, seenRow, stale, last, applied, ignored>>

\* get_or_create_subscription raises; the endpoint rolls back and answers 500.
LookupRaises(w) ==
    /\ pc[w] = "sub"
    /\ \/ content[ev[w]].type = "created"
       \/ content[ev[w]].type \in {"updated", "failed"} /\ row[S(w)] = "absent"
    /\ Close(w)
    /\ UNCHANGED <<given, processed, tables, faults, history>>

\* The row of the subscription is loaded; a paid invoice does not need one.
LoadRow(w) ==
    /\ pc[w] = "sub"
    /\ content[ev[w]].type # "created"
    /\ content[ev[w]].type = "paid" \/ row[S(w)] # "absent"
    /\ seenRow' = [seenRow EXCEPT ![w] = row[S(w)]]
    /\ Goto(w, "write")
    /\ UNCHANGED <<given, processed, tables, ev, seenAcc, link, faults, history>>

\* handle_invoice_payment_failed commits nothing if it has not changed the account.
NothingToCommit(w) ==
    /\ content[ev[w]].type = "failed"
    /\ S(w) = NoSub \/ seenAcc[w] = "frozen"

\* Then the event only counts as processed.
LeaveUncommitted(w) ==
    /\ pc[w] = "write"
    /\ NothingToCommit(w)
    /\ ignored' = ignored \cup {ev[w]}
    /\ Goto(w, "mark")
    /\ UNCHANGED <<given, processed, tables, ev, sessions, faults, stale, last, applied, lost>>

\* Mutant of Changed: only what was never set is written.
ChangedNever(new, seen, there) == there

\* A column is written when its new value differs from the loaded one.
Changed(new, seen, there) == IF new # seen THEN new ELSE there

\* The commit of the handlers of updated, paid and failed.
Write(w) ==
    /\ pc[w] = "write"
    /\ ~NothingToCommit(w)
    /\ account' = [account EXCEPT ![U(w)] =
          IF Decides(ev[w]) THEN Changed(AccountFor(ev[w]), seenAcc[w], @) ELSE @]
    /\ row' = [s \in Subs |->
          IF s = S(w) THEN Changed(RowFor(ev[w], seenRow[w]), seenRow[w], row[s]) ELSE row[s]]
    /\ linked' = [linked EXCEPT ![U(w)] = @ \/ link[w]]
    /\ link' = [link EXCEPT ![w] = FALSE]
    /\ stale' = [x \in Workers |->
          \/ stale[x]
          \/ x # w /\ pc[x] \in {"sub", "write"} /\ (U(x) = U(w) \/ S(x) = S(w))]
    /\ last' = [last EXCEPT ![U(w)] =
          IF Decides(ev[w]) THEN [event |-> ev[w], stale |-> stale[w]] ELSE @]
    /\ applied' = applied \cup {ev[w]}
    /\ Goto(w, "mark")
    /\ UNCHANGED <<given, processed, ev, seenAcc, seenRow, faults, ignored, lost>>

\* Mutant of Mark: the event is marked before it is handled.
MarkEarly(w) ==
    /\ pc[w] \in {"check", "mark"}
    /\ ev[w] \notin processed
    /\ processed' = processed \cup {ev[w]}
    /\ Goto(w, "user")
    /\ UNCHANGED <<given, tables, ev, sessions, faults, history>>

\* Mutant of Mark: the marking is not committed.
MarkUncommitted(w) ==
    /\ pc[w] = "mark"
    /\ Close(w)
    /\ UNCHANGED <<given, processed, tables, faults, history>>

\* mark_event_as_processed: its commit also saves what the session still holds.  Then 200.
Mark(w) ==
    /\ pc[w] = "mark"
    /\ processed' = processed \cup {ev[w]}
    /\ linked' = [linked EXCEPT ![U(w)] = @ \/ link[w]]
    /\ Close(w)
    /\ UNCHANGED <<given, account, row, faults, history>>

\* A statement or a call fails, or the process dies: rollback and 500, or no answer at all.
Fail(w) ==
    /\ pc[w] # "idle"
    /\ Fault
    /\ Close(w)
    /\ UNCHANGED <<given, processed, tables, history>>

Handler(w) ==
    \/ SkipProcessed(w) \/ StartHandling(w) \/ IgnoreStranger(w) \/ RejectTextId(w)
    \/ RejectBareInvoice(w) \/ LoadUser(w)
    \/ Link(w) \/ LookupRaises(w) \/ LoadRow(w) \/ LeaveUncommitted(w) \/ Write(w) \/ Mark(w)

Next ==
    \E w \in Workers :
        \/ \E e \in Events : Deliver(w, e)
        \/ Handler(w)
        \/ CheckFails(w) \/ LinkFails(w) \/ Fail(w)

Spec == Init /\ [][Next]_vars

\* Handlers are resumed by the event loop.  Stripe retries an event that was not answered 200
\* over and over, and each time finds a moment when the service can take it.
Fairness ==
    /\ \A w \in Workers : WF_vars(Handler(w))
    /\ \A e \in Events : SF_vars(e \notin processed /\ \E w \in Workers : Deliver(w, e))

FairSpec == Spec /\ Fairness

-----------------------------------------------------------------------------
TypeOK ==
    /\ content \in [Events -> Contents]
    /\ textIds \in BOOLEAN
    /\ processed \subseteq Events
    /\ account \in [Users -> Accounts]
    /\ linked \in [Users -> BOOLEAN]
    /\ row \in [Subs -> Statuses \cup {"absent"}]
    /\ pc \in [Workers -> PCs]
    /\ ev \in [Workers -> Events \cup {NoEvent}]
    /\ \A w \in Workers : pc[w] # "idle" => ev[w] # NoEvent
    /\ seenAcc \in [Workers -> Accounts]
    /\ seenRow \in [Workers -> Statuses \cup {"absent"}]
    /\ link \in [Workers -> BOOLEAN]
    /\ faults \in 0..MaxFaults
    /\ stale \in [Workers -> BOOLEAN]
    /\ last \in [Users -> [event : Events \cup {NoEvent}, stale : BOOLEAN]]
    /\ applied \subseteq Events
    /\ ignored \subseteq Events
    /\ lost \subseteq Events

\* Whatever was skipped, repeated, reordered or overlapped: after a handler of
\* webhook_service.py has committed on fresh data, the account has the status its event asks
\* for, and keeps it until another handler commits.  Only a handler whose user or subscription
\* was written under it may leave the account with a status nobody asked for.
LastEventRules ==
    \A u \in Users :
        LET l == last[u] IN
        l.event # NoEvent /\ ~l.stale => account[u] = AccountFor(l.event)

\* An event is marked as processed only when its effect is committed, or its handler decided
\* that there was nothing to commit: a crash between the commits repeats an event and never
\* loses one.  The one exception is the customer id of a checkout session whose commit failed:
\* that handler swallows the error, its event is marked, and no retry will bring the id back.
\* The endpoint's "Mark event as processed after successful handling" is not true of it.
MarkedOnlyAfterApplied ==
    \A e \in processed :
        e \in applied \cup ignored \/ (e \in lost /\ content[e].type = "checkout")

\* The events a handler of this code can process at all: those whose user id the driver
\* takes, that are no failed invoice without customer_details, and that need no lookup of
\* get_or_create_subscription.
Processable(e) ==
    /\ content[e].names = "id" => textIds
    /\ content[e].names # "no details"
    /\ \/ content[e].type \in {"checkout", "paid"}
       \/ content[e].sub = NoSub
       \/ content[e].type \in {"updated", "failed"} /\ row[content[e].sub] # "absent"

\* After finitely many failures Stripe's retries get every such event processed.
RetriesSucceed == \A e \in Events : Processable(e) ~> e \in processed

\* schemas/webhook_schemas.py, "Idempotency": "Duplicate events (same event ID) are detected
\* and safely skipped, returning a success response."
DuplicatesSkipped ==
    [][\A w \in Workers : Write(w) => ev[w] \notin applied]_vars
=============================================================================
