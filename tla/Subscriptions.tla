--------------------------- MODULE Subscriptions ---------------------------
(***************************************************************************)
(* The life of the subscriptions rows of one user after they were bought   *)
(* (services/credit/subscription.py, services/stripe_service.py and the    *)
(* status read of services/user_service.py).                               *)
(*                                                                         *)
(* Every operation loads rows, often asks Stripe, and then commits; in     *)
(* between others commit.  A session never re-reads a row it holds, and a  *)
(* commit writes only the columns whose value differs from what the        *)
(* session loaded, so operations that overlap can mix their columns.       *)
(* Operations behind a route load all the rows of the user when they       *)
(* authenticate him; renewals, the auto-renewal switch and the status      *)
(* update have no route and load the one row they are called for.          *)
(*                                                                         *)
(* Two columns say whether a subscription is alive: status, which webhooks *)
(* and status reads copy from Stripe, and is_active, which purchases and   *)
(* renewals go by.  No operation writes them from the same knowledge.      *)
(*                                                                         *)
(* The grant of a renewal is one step here: CreditLedger models it.        *)
(***************************************************************************)
EXTENDS Calendar, FiniteSets, Sequences

CONSTANTS Rows,         \* rows of subscriptions, numbered in the order they started
          Requests,     \* calls of the operations
          NoRequest,    \* the writer of a status nobody has written yet
          First,        \* renewal date of every row at the start
          MaxVersions   \* row -> bound on the statuses Stripe gives it on its own

ASSUME SubscriptionsAssumption ==
    /\ Rows \subseteq Nat
    /\ NoRequest \notin Requests
    /\ IsDate(First)
    /\ MaxVersions \in [Rows -> Nat \ {0}]
    /\ IsFiniteSet(Requests)

VARIABLES
    log,        \* row -> statuses Stripe has given its subscription, the current one last
    atEnd,      \* rows whose subscription Stripe cancels at the end of the period
    row,        \* row -> its columns
    op,         \* request -> its operation; never changes
    target,     \* request -> the row it works on
    pc,         \* request -> where its handler stands
    copy,       \* request -> the rows its session has loaded
    heard,      \* request -> the status it was told
    answer,     \* request -> what its caller was told; "unsaved" is a status read's 200
                \* after a commit that failed
    granted,    \* renewals whose credits are committed
    stale,      \* request -> loaded rows others have written since (history)
    raced,      \* requests that committed over a row others had written since (history)
    moved,      \* renewals that committed the new renewal date (history)
    cancelled,  \* row -> cancellations committed since it was last made active (history)
    writer      \* row -> the request that wrote its status last (history)

stripe  == <<log, atEnd>>
session == <<op, target, pc, copy, heard, answer>>
history == <<stale, raced, moved, cancelled, writer>>
vars    == <<stripe, row, session, granted, history>>

\* "active" stands for trialing too, which no operation here tells apart but by priority, and
\* "past_due" for unpaid, which no operation here tells apart.
StripeStatuses == {"active", "past_due", "incomplete", "canceled", "paused"}
Statuses       == StripeStatuses \cup {"inactive", "replaced"}

\* The statuses the answer of a status read has a word for.  It shows any other as "active".
SubscriptionStatusEnum == StripeStatuses \ {"paused"}
Shown(x) == IF x \in SubscriptionStatusEnum THEN x ELSE "active"

Answers == {"none", "ok", "refused", "error", "unsaved"}

\* The columns of a row; due is its renewal date.
IsRow(c) == /\ DOMAIN c = {"status", "active", "auto", "due"}
            /\ c.status \in Statuses /\ c.active \in BOOLEAN /\ c.auto \in BOOLEAN
            /\ IsDate(c.due)

ByRow  == {"renew", "autoOn", "autoOff", "setStatus", "cancel", "event"}
ByUser == {"sync", "cancelMe", "replace"}
PCs    == {"load", "pick", "ask", "modify", "write", "end", "grant", "done"}

Current(s) == log[s][Len(log[s])]
-----------------------------------------------------------------------------
Init ==
    /\ log \in [Rows -> {<<x>> : x \in StripeStatuses}]
    /\ atEnd = {}
    /\ \E live \in SUBSET Rows :
          row = [s \in Rows |-> [status |-> Current(s), active |-> s \in live,
                                auto |-> TRUE, due |-> First]]
    /\ op \in [Requests -> ByRow \cup ByUser]
    /\ target \in [Requests -> Rows]
    /\ pc = [r \in Requests |-> "load"]
    /\ copy = [r \in Requests |-> << >>]
    /\ heard = [r \in Requests |-> "nothing"]
    /\ answer = [r \in Requests |-> "none"]
    /\ granted = {}
    /\ stale = [r \in Requests |-> {}]
    /\ raced = {}
    /\ moved = {}
    /\ cancelled = [s \in Rows |-> {}]
    /\ writer = [s \in Rows |-> NoRequest]

Goto(r, label) == pc' = [pc EXCEPT ![r] = label]

\* The handler ends with an answer and its session forgets its rows.
Finish(r, what) ==
    /\ Goto(r, "done")
    /\ copy' = [copy EXCEPT ![r] = << >>]
    /\ answer' = [answer EXCEPT ![r] = what]

Hear(r, x) == heard' = [heard EXCEPT ![r] = x]

Loaded(r) == copy[r][target[r]]

\* Mutant of Flush: the UPDATE names every column, the ones nobody changed too.
FlushWhole(s, from, to) == to

\* An UPDATE names the columns whose new value differs from the loaded one.
Flush(s, from, to) == [f \in DOMAIN to |-> IF to[f] # from[f] THEN to[f] ELSE row[s][f]]

\* The commit of request r, whose session changed its copy of the row into "to".
Commit(r, to) ==
    LET s == target[r]
        new == Flush(s, Loaded(r), to)
    IN  /\ row' = [row EXCEPT ![s] = new]
        /\ stale' = [q \in Requests |->
                        IF q # r /\ s \in DOMAIN copy[q] THEN stale[q] \cup {s} ELSE stale[q]]
        /\ raced' = IF s \in stale[r] THEN raced \cup {r} ELSE raced
        /\ moved' = IF to.due # Loaded(r).due THEN moved \cup {r} ELSE moved
        /\ cancelled' = [cancelled EXCEPT ![s] =
              IF ~row[s].active /\ new.active THEN {}
              ELSE IF op[r] = "cancel" THEN @ \cup {r} ELSE @]
        /\ writer' = IF to.status # Loaded(r).status THEN [writer EXCEPT ![s] = r] ELSE writer
-----------------------------------------------------------------------------
\* Renewals, the switch, the status update and webhooks select the row; a route authenticates
\* the user, which loads all his rows.
Load(r) ==
    /\ pc[r] = "load"
    /\ copy' = [copy EXCEPT ![r] =
          IF op[r] \in ByUser \cup {"cancel"} THEN row ELSE [s \in {target[r]} |-> row[s]]]
    /\ Goto(r, "pick")
    /\ UNCHANGED <<stripe, row, op, target, heard, answer, granted, history>>

\* Mutant of CheckRenewal: a row that ended is renewed like any other.
CheckRenewalBlindly(r) ==
    /\ pc[r] = "pick" /\ op[r] = "renew"
    /\ Goto(r, "ask")
    /\ UNCHANGED <<stripe, row, op, target, copy, heard, answer, granted, history>>

\* renew_subscription asks Stripe about the active row it loaded.
CheckRenewal(r) ==
    /\ pc[r] = "pick" /\ op[r] = "renew"
    /\ Loaded(r).active
    /\ Goto(r, "ask")
    /\ UNCHANGED <<stripe, row, op, target, copy, heard, answer, granted, history>>

\* The row has ended, or its plan was withdrawn: nothing is renewed.
RefuseRenewal(r) ==
    /\ pc[r] = "pick" /\ op[r] = "renew"
    /\ Finish(r, "refused")
    /\ UNCHANGED <<stripe, row, op, target, heard, granted, history>>

\* verify_subscription_active: a call that fails looks like a subscription that ended.
AskAlive(r) ==
    /\ pc[r] = "ask" /\ op[r] = "renew"
    /\ \/ Current(target[r]) = "active" /\ Goto(r, "write")
       \/ Goto(r, "end")
    /\ UNCHANGED <<stripe, row, op, target, copy, heard, answer, granted, history>>

\* Stripe does not vouch for the subscription: the row ends.
EndUnpaid(r) ==
    /\ pc[r] = "end"
    /\ Commit(r, [Loaded(r) EXCEPT !.active = FALSE, !.status = "inactive"])
    /\ Finish(r, "refused")
    /\ UNCHANGED <<stripe, op, target, heard, granted>>

\* The renewal date moves a month on from the loaded one, in a commit of its own.
MoveDate(r) ==
    /\ pc[r] = "write" /\ op[r] = "renew"
    /\ Commit(r, [Loaded(r) EXCEPT !.due = NextRenewal(@)])
    /\ Goto(r, "grant")
    /\ UNCHANGED <<stripe, op, target, copy, heard, answer, granted>>

\* Mutant of Grant: a failure to add the credits is logged and forgotten.
GrantOrForget(r) ==
    /\ pc[r] = "grant"
    /\ granted' \in {granted, granted \cup {r}}
    /\ Finish(r, "ok")
    /\ UNCHANGED <<stripe, row, op, target, heard, history>>

\* add_credits commits the credits of the renewal.
Grant(r) ==
    /\ pc[r] = "grant"
    /\ granted' = granted \cup {r}
    /\ Finish(r, "ok")
    /\ UNCHANGED <<stripe, row, op, target, heard, history>>
-----------------------------------------------------------------------------
\* update_subscription_auto_renew tells Stripe only of a switch from on to off...
SwitchOff(r) ==
    /\ pc[r] = "pick" /\ op[r] = "autoOff" /\ Loaded(r).auto
    /\ atEnd' \in {atEnd, atEnd \cup {target[r]}}
    /\ Goto(r, "write")
    /\ UNCHANGED <<log, row, op, target, copy, heard, answer, granted, history>>

\* ...and stores the setting whether or not Stripe took it.
StoreSwitch(r) ==
    /\ \/ pc[r] = "write" /\ op[r] = "autoOff"
       \/ pc[r] = "pick" /\ op[r] = "autoOff" /\ ~Loaded(r).auto
       \/ pc[r] = "pick" /\ op[r] = "autoOn"
    /\ Commit(r, [Loaded(r) EXCEPT !.auto = (op[r] = "autoOn")])
    /\ Finish(r, "ok")
    /\ UNCHANGED <<stripe, op, target, heard, granted>>

\* update_subscription_status: some statuses settle is_active, two do not.
SetStatus(r) ==
    /\ pc[r] = "pick" /\ op[r] = "setStatus"
    /\ \E x \in StripeStatuses :
          Commit(r, [Loaded(r) EXCEPT !.status = x,
                                      !.active = IF x = "active" THEN TRUE
                                                 ELSE IF x \in {"incomplete", "paused"} THEN @ ELSE FALSE])
    /\ Finish(r, "ok")
    /\ UNCHANGED <<stripe, op, target, heard, granted>>

\* A webhook stores a status the subscription had at some time, or what an invoice implies;
\* is_active is left as it is.
StoreEvent(r) ==
    /\ pc[r] = "pick" /\ op[r] = "event"
    /\ \E x \in {log[target[r]][i] : i \in DOMAIN log[target[r]]} \cup {"active", "past_due"} :
          Commit(r, [Loaded(r) EXCEPT !.status = x])
    /\ Finish(r, "ok")
    /\ UNCHANGED <<stripe, op, target, heard, granted>>

\* purchase_plan finds one active row by a new SELECT and retires the copy it holds.
Replace(r) ==
    /\ pc[r] = "pick" /\ op[r] = "replace"
    /\ \E s \in Rows :
          /\ {t \in Rows : row[t].active} = {s}
          /\ target' = [target EXCEPT ![r] = s]
    /\ Goto(r, "write")
    /\ UNCHANGED <<stripe, row, op, copy, heard, answer, granted, history>>

\* It finds none, or more than one and fails: no row is retired.
ReplaceNothing(r) ==
    /\ pc[r] = "pick" /\ op[r] = "replace"
    /\ \A s \in Rows : {t \in Rows : row[t].active} # {s}
    /\ Finish(r, "refused")
    /\ UNCHANGED <<stripe, row, op, target, heard, granted, history>>

Retire(r) ==
    /\ pc[r] = "write" /\ op[r] = "replace"
    /\ Commit(r, [Loaded(r) EXCEPT !.active = FALSE, !.status = "replaced"])
    /\ Finish(r, "ok")
    /\ UNCHANGED <<stripe, op, target, heard, granted>>
-----------------------------------------------------------------------------
\* Mutant of CheckCancel: the row is not asked whether it has ended.
CheckCancelBlindly(r) ==
    /\ pc[r] = "pick" /\ op[r] = "cancel"
    /\ \/ Goto(r, "ask") \/ Goto(r, "write")
    /\ UNCHANGED <<stripe, row, op, target, copy, heard, answer, granted, history>>

\* cancel_subscription: a live row is cancelled, in Stripe too if the caller asks for it.
CheckCancel(r) ==
    /\ pc[r] = "pick" /\ op[r] = "cancel"
    /\ Loaded(r).active /\ Loaded(r).status # "canceled"
    /\ \/ Goto(r, "ask") \/ Goto(r, "write")
    /\ UNCHANGED <<stripe, row, op, target, copy, heard, answer, granted, history>>

\* The row has ended, or is another user's.
RefuseCancel(r) ==
    /\ pc[r] = "pick" /\ op[r] = "cancel"
    /\ Finish(r, "refused")
    /\ UNCHANGED <<stripe, row, op, target, heard, granted, history>>

\* Stripe ends the subscription or the call fails; the handler goes on in both cases.
StopInStripe(r) ==
    /\ pc[r] = "ask" /\ op[r] = "cancel"
    /\ \/ /\ Current(target[r]) # "canceled"
          /\ log' = [log EXCEPT ![target[r]] = Append(@, "canceled")]
       \/ UNCHANGED log
    /\ Goto(r, "write")
    /\ UNCHANGED <<atEnd, row, op, target, copy, heard, answer, granted, history>>

\* The cancellation is committed; a failing e-mail then turns the success into a failure.
StoreCancel(r) ==
    /\ pc[r] = "write" /\ op[r] = "cancel"
    /\ Commit(r, [Loaded(r) EXCEPT !.active = FALSE, !.status = "canceled", !.auto = FALSE])
    /\ \E what \in {"ok", "error"} : Finish(r, what)
    /\ UNCHANGED <<stripe, op, target, heard, granted>>
-----------------------------------------------------------------------------
\* cancel_user_subscription selects anew for a row with a live status.
PickLive(r) ==
    /\ pc[r] = "pick" /\ op[r] = "cancelMe"
    /\ \E s \in Rows :
          /\ row[s].status = "active"
          /\ target' = [target EXCEPT ![r] = s]
    /\ Goto(r, "ask")
    /\ UNCHANGED <<stripe, row, op, copy, heard, answer, granted, history>>

PickNone(r) ==
    /\ pc[r] = "pick" /\ op[r] = "cancelMe"
    /\ \A s \in Rows : row[s].status # "active"
    /\ Finish(r, "refused")
    /\ UNCHANGED <<stripe, row, op, target, heard, granted, history>>

\* What Stripe answers decides: already over, already ending, or to be ended.
AskEnding(r) ==
    /\ pc[r] = "ask" /\ op[r] = "cancelMe"
    /\ \/ /\ Current(target[r]) = "canceled"
          /\ Goto(r, "write") /\ UNCHANGED <<copy, answer>>
       \/ /\ Current(target[r]) # "canceled" /\ target[r] \in atEnd
          /\ Finish(r, "ok")
       \/ /\ Current(target[r]) # "canceled" /\ target[r] \notin atEnd
          /\ Goto(r, "modify") /\ UNCHANGED <<copy, answer>>
    /\ UNCHANGED <<stripe, row, op, target, heard, granted, history>>

\* It is over: the status is stored, and the answer that follows is turned into a failure by
\* the handler's own except clause.
StoreOver(r) ==
    /\ pc[r] = "write" /\ op[r] = "cancelMe"
    /\ IF Loaded(r).status # "canceled"
       THEN Commit(r, [Loaded(r) EXCEPT !.status = "canceled"])
       ELSE UNCHANGED <<row, history>>
    /\ Finish(r, "error")
    /\ UNCHANGED <<stripe, op, target, heard, granted>>

\* Mutant of Modify: the answer of Stripe to the change is not looked at.
ModifyOrNot(r) ==
    /\ pc[r] = "modify"
    /\ atEnd' \in {atEnd, atEnd \cup {target[r]}}
    /\ Finish(r, "ok")
    /\ UNCHANGED <<log, row, op, target, heard, granted, history>>

\* Stripe is asked to end the subscription with the period.  The commit that follows touches
\* no column but updated_at; when it or the answer of Stripe is lost the request fails.
Modify(r) ==
    /\ pc[r] = "modify"
    /\ Current(target[r]) # "canceled"
    /\ atEnd' = atEnd \cup {target[r]}
    /\ \E what \in {"ok", "error"} : Finish(r, what)
    /\ UNCHANGED <<log, row, op, target, heard, granted, history>>
-----------------------------------------------------------------------------
\* The status read looks at one row: the best status first, then the newest.  Of two live
\* rows either may win, for a trialing one ranks below an active one.
Priority(x) == CASE x = "active" -> 1 [] x = "past_due" -> 2 [] x = "canceled" -> 3 [] OTHER -> 4

Candidates(r) == {s \in DOMAIN copy[r] : Priority(copy[r][s].status) < 4}

Better(r, s, t) ==
    \/ Priority(copy[r][s].status) < Priority(copy[r][t].status)
    \/ copy[r][s].status = copy[r][t].status /\ (s > t \/ copy[r][s].status = "active")

PickBest(r) ==
    /\ pc[r] = "pick" /\ op[r] = "sync"
    /\ \E s \in Candidates(r) :
          /\ \A t \in Candidates(r) \ {s} : Better(r, s, t)
          /\ target' = [target EXCEPT ![r] = s]
    /\ Goto(r, "ask")
    /\ UNCHANGED <<stripe, row, op, copy, heard, answer, granted, history>>

\* No row is worth showing.
PickNoCandidate(r) ==
    /\ pc[r] = "pick" /\ op[r] = "sync"
    /\ Candidates(r) = {}
    /\ Finish(r, "ok")
    /\ UNCHANGED <<stripe, row, op, target, heard, granted, history>>

\* Mutant of AskStatus: a call that fails yields no status, and that is stored.
AskStatusOrNone(r) ==
    /\ pc[r] = "ask" /\ op[r] = "sync"
    /\ Hear(r, "nothing")
    /\ Goto(r, "write")
    /\ UNCHANGED <<stripe, row, op, target, copy, answer, granted, history>>

\* Stripe tells the status it has, or the call fails and the loaded one is shown.
AskStatus(r) ==
    /\ pc[r] = "ask" /\ op[r] = "sync"
    /\ \/ /\ Hear(r, Current(target[r]))
          /\ IF Current(target[r]) # Loaded(r).status
             THEN Goto(r, "write") /\ UNCHANGED <<copy, answer>>
             ELSE Finish(r, "ok")
       \/ Hear(r, Loaded(r).status) /\ Finish(r, "ok")
    /\ UNCHANGED <<stripe, row, op, target, granted, history>>

\* Mutant of StoreStatus: is_active is left to the webhooks.
StoreStatusOnly(r) ==
    /\ pc[r] = "write" /\ op[r] = "sync"
    /\ Commit(r, [Loaded(r) EXCEPT !.status = heard[r]])
    /\ Finish(r, "ok")
    /\ UNCHANGED <<stripe, op, target, heard, granted>>

\* Mutant of StoreStatus: only a subscription that is over is stored.
StoreStatusOver(r) ==
    /\ pc[r] = "write" /\ op[r] = "sync"
    /\ IF heard[r] = "canceled"
       THEN Commit(r, [Loaded(r) EXCEPT !.status = heard[r], !.active = FALSE])
       ELSE UNCHANGED <<row, history>>
    /\ Finish(r, "ok")
    /\ UNCHANGED <<stripe, op, target, heard, granted>>

\* A status that differs from the loaded one is stored; any but a live one ends the row.
StoreStatus(r) ==
    /\ pc[r] = "write" /\ op[r] = "sync"
    /\ Commit(r, [Loaded(r) EXCEPT !.status = heard[r],
                                   !.active = IF heard[r] = "active" THEN @ ELSE FALSE])
    /\ Finish(r, "ok")
    /\ UNCHANGED <<stripe, op, target, heard, granted>>

\* The COMMIT fails: the except clause around the call to Stripe catches that too, and the
\* caller is shown a status no row holds.
StoreStatusLost(r) ==
    /\ pc[r] = "write" /\ op[r] = "sync"
    /\ Finish(r, "unsaved")
    /\ UNCHANGED <<stripe, row, op, target, heard, granted, history>>
-----------------------------------------------------------------------------
\* A statement, a commit or a Stripe call fails before it has any effect, or the process ends.
\* A status read fails with its UPDATE: the rollback expires the user it has yet to show.
Fail(r) ==
    /\ pc[r] # "done"
    /\ Finish(r, "error")
    /\ UNCHANGED <<stripe, row, op, target, heard, granted, history>>

\* Stripe moves on by itself: a payment fails or succeeds, a period ends, a user cancels there.
StripeMoves(s) ==
    /\ Len(log[s]) < MaxVersions[s]
    /\ Current(s) # "canceled"
    /\ \E x \in StripeStatuses \ {Current(s)} : log' = [log EXCEPT ![s] = Append(@, x)]
    /\ UNCHANGED <<atEnd, row, session, granted, history>>

Handler(r) ==
    \/ Load(r)
    \/ CheckRenewal(r) \/ RefuseRenewal(r) \/ AskAlive(r) \/ EndUnpaid(r) \/ MoveDate(r) \/ Grant(r)
    \/ SwitchOff(r) \/ StoreSwitch(r) \/ SetStatus(r) \/ StoreEvent(r)
    \/ Replace(r) \/ ReplaceNothing(r) \/ Retire(r)
    \/ CheckCancel(r) \/ RefuseCancel(r) \/ StopInStripe(r) \/ StoreCancel(r)
    \/ PickLive(r) \/ PickNone(r) \/ AskEnding(r) \/ StoreOver(r) \/ Modify(r)
    \/ PickBest(r) \/ PickNoCandidate(r) \/ AskStatus(r) \/ StoreStatus(r)
    \/ StoreStatusLost(r) \/ Fail(r)

Next == (\E r \in Requests : Handler(r)) \/ (\E s \in Rows : StripeMoves(s))

Spec == Init /\ [][Next]_vars
-----------------------------------------------------------------------------
\* The values the variables range over; a session holds copies of rows of the table.
TypeOK ==
    /\ log \in [Rows -> Seq(StripeStatuses)] /\ \A s \in Rows : log[s] # << >>
    /\ atEnd \subseteq Rows
    /\ DOMAIN row = Rows /\ \A s \in Rows : IsRow(row[s])
    /\ op \in [Requests -> ByRow \cup ByUser]
    /\ target \in [Requests -> Rows]
    /\ pc \in [Requests -> PCs]
    /\ \A r \in Requests :
          DOMAIN copy[r] \subseteq Rows /\ \A s \in DOMAIN copy[r] : IsRow(copy[r][s])
    /\ heard \in [Requests -> Statuses \cup {"nothing"}]
    /\ answer \in [Requests -> Answers]
    /\ granted \subseteq Requests /\ raced \subseteq Requests /\ moved \subseteq Requests
    /\ stale \in [Requests -> SUBSET Rows]
    /\ cancelled \in [Rows -> SUBSET Requests]
    /\ writer \in [Rows -> Requests \cup {NoRequest}]

Renewals(s) == {r \in moved : target[r] = s}
Moves(s)    == Index(row[s].due) - Index(First)

\* Renewals and credits keep step: the renewal date of a row never moves more months than
\* renewals committed, and exactly as many unless one committed over a row it held stale; a
\* renewal that moved the date has granted its credits, is about to, or reported a failure.
\* (renew_subscription commits the date and the credits separately, and nothing checks that
\* a renewal is due.)
RenewalsCounted ==
    /\ granted \subseteq moved
    /\ \A s \in Rows :
          /\ Moves(s) <= Cardinality(Renewals(s))
          /\ Renewals(s) \cap raced = {} => Moves(s) = Cardinality(Renewals(s))
    /\ \A r \in moved \ granted : pc[r] = "grant" \/ answer[r] = "error"

\* A renewal date that began on a day its later months do not have drops to the length of the
\* shortest of them and stays there: 31 December, 31 January, 29 February, 29 March.
\* (calculate_renewal_date goes by the last date, not by the first.)
DayOnlyDrops ==
    \A s \in Rows : row[s].due.day = DayAt(First, Index(row[s].due))

\* Of the cancellations of one row that were committed since it was last alive, all but one
\* overlapped another operation on it, and the row stays ended whatever stale sessions and
\* late webhooks write.  (cancel_subscription checks, calls Stripe, then commits.)
CancelledOnce ==
    \A s \in Rows :
        /\ Cardinality(cancelled[s] \ raced) <= 1
        /\ cancelled[s] # {} => ~row[s].active

\* The two columns disagree, a row cancelled by its status and active by its flag, only where
\* an operation that leaves the flag alone wrote the status (a webhook, or /me/subscription/
\* cancel), where the row was so from the start, or where a session committed over a row it
\* held stale.  A status read, a cancellation or a status update never leaves one behind.
DeadButActive ==
    \A s \in Rows :
        row[s].status = "canceled" /\ row[s].active =>
            \/ writer[s] = NoRequest
            \/ op[writer[s]] \in {"event", "cancelMe"}
            \/ \E r \in raced : target[r] = s

\* Who was told that his subscription will end is right: Stripe ends it with its period or
\* has ended it already.  (cancel_user_subscription of services/stripe_service.py.)
EndingIsTrue ==
    \A r \in Requests :
        op[r] = "cancelMe" /\ answer[r] = "ok" =>
            target[r] \in atEnd \/ Current(target[r]) = "canceled"

\* An ended row comes to life by update_subscription_status alone: no session that loaded it
\* alive writes its old flag back.
RevivedByStatusUpdateOnly ==
    [][\A s \in Rows :
          ~row[s].active /\ row'[s].active =>
              \E r \in Requests : op[r] = "setStatus" /\ target[r] = s /\ pc[r] # pc'[r]]_vars

\* The renewal date of a row that has ended moves only if the row ended while the renewal was
\* talking to Stripe.
EndedRowRenewedOnlyByRace ==
    [][\A s \in Rows :
          ~row[s].active /\ row'[s].due # row[s].due =>
              \E r \in Requests : r \in moved' \ moved /\ target[r] = s /\ s \in stale[r]]_vars

\* When a status read has answered, the row holds the status Stripe told, and that is the one
\* shown but for a status the enum of the answer lacks, which is stored as it is and shown as
\* "active".  Two reads are exempt: one whose row another operation has written since the user
\* was authenticated, and one whose COMMIT failed and was swallowed ("unsaved").
\* (get_user_status_details of services/user_service.py.)
ShownIsStored ==
    [][\A r \in Requests :
          LET kept == row'[target[r]].status
          IN  op[r] = "sync" /\ heard'[r] # "nothing" /\ answer[r] = "none" /\ answer'[r] = "ok" =>
                  \/ target[r] \in stale[r]
                  \/ /\ kept = heard'[r]
                     /\ kept = Shown(heard'[r]) \/ kept \notin SubscriptionStatusEnum]_vars
=============================================================================
