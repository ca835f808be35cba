------------------------- MODULE SubscriptionsProofs -------------------------
(***************************************************************************)
(* Subscriptions is safe for any rows, any number of calls, any date to    *)
(* begin with and whatever Stripe does.                                    *)
(*                                                                         *)
(* Everything rests on what a session knows: IInv says of each call what   *)
(* follows from where it stands (Own), and that a row it holds is still as *)
(* it was loaded unless others have written it (Fresh).  Steps that write  *)
(* nothing are put aside once (HandlerCommits), and the commits are then   *)
(* reasoned about as one (Turned, CommitFacts).                            *)
(***************************************************************************)
EXTENDS Subscriptions, FiniteSetTheorems, TLAPS

\* The day of a date that has come from First is the shortest of the days it met.
Dropped(d) ==
    LET lengths == {DaysIn(Month(j).year, Month(j).month) : j \in (Index(First) + 1)..Index(d)}
    IN  /\ IsDate(d)
        /\ Index(d) >= Index(First)
        /\ d.day \in lengths \cup {First.day}
        /\ \A y \in lengths \cup {First.day} : d.day <= y

\* A month has 28 to 31 days.
LEMMA DaysInRange ==
    ASSUME NEW year, NEW month PROVE DaysIn(year, month) \in 28..31
<1> DEFINE L == Leap(year)
<1> HIDE DEF L
<1>1. DaysIn(year, month) = CASE month \in {4, 6, 9, 11} -> 30
        [] month = 2 -> IF L THEN 29 ELSE 28
        [] OTHER -> 31
  BY DEF DaysIn, L
<1> QED
  BY <1>1

\* The number of a month leads back to it.
LEMMA IndexMonth ==
    ASSUME NEW d, IsDate(d)
    PROVE  /\ Index(d) \in Nat
           /\ Month(Index(d)) = [year |-> d.year, month |-> d.month]
<1>1. d.year \in Nat /\ d.month \in 1..12
  BY DEF IsDate
<1>2. (12 * d.year + d.month - 1) \div 12 = d.year /\ (12 * d.year + d.month - 1) % 12 = d.month - 1
  BY <1>1
<1> QED
  BY <1>1, <1>2 DEF Index, Month

\* A renewal leads to a date one month on, on the same day or the last one of a shorter month.
LEMMA NextRenewalDate ==
    ASSUME NEW d, IsDate(d)
    PROVE  /\ IsDate(NextRenewal(d))
           /\ Index(NextRenewal(d)) = Index(d) + 1
           /\ NextRenewal(d).day =
                 IF d.day <= DaysIn(NextRenewal(d).year, NextRenewal(d).month) THEN d.day
                 ELSE DaysIn(NextRenewal(d).year, NextRenewal(d).month)
           /\ NextRenewal(d) # d
<1> DEFINE n == NextMonth(d)
           l == DaysIn(n.year, n.month)
<1>1. d.year \in Nat /\ d.month \in 1..12 /\ d.day \in 1..31
  BY DEF IsDate
<1>2. n.year \in Nat /\ n.month \in 1..12 /\ 12 * n.year + n.month = 12 * d.year + d.month + 1
  BY <1>1 DEF NextMonth
<1>3. l \in 28..31
  BY DaysInRange
<1>4. /\ NextRenewal(d).year = n.year /\ NextRenewal(d).month = n.month
      /\ NextRenewal(d).day = IF d.day <= l THEN d.day ELSE l
      /\ NextRenewal(d) = [year |-> n.year, month |-> n.month, day |-> IF d.day <= l THEN d.day ELSE l]
  BY DEF NextRenewal
<1> HIDE DEF n, l
<1>5. Index(NextRenewal(d)) = Index(d) + 1
  <2>1. 12 * n.year + n.month - 1 = 12 * d.year + d.month - 1 + 1
    BY <1>1, <1>2
  <2> QED
    BY <1>4, <2>1 DEF Index
<1>6. IsDate(NextRenewal(d))
  <2>1. (IF d.day <= l THEN d.day ELSE l) \in 1..31 /\ (IF d.day <= l THEN d.day ELSE l) <= l
    BY <1>1, <1>3
  <2>2. l = DaysIn(NextRenewal(d).year, NextRenewal(d).month)
    BY <1>4 DEF l
  <2> QED
    BY <1>2, <1>4, <2>1, <2>2 DEF IsDate
<1>7. Index(d) \in Nat
  BY IndexMonth
<1>8. NextRenewal(d) # d
  BY <1>5, <1>7
<1> QED
  BY <1>4, <1>5, <1>6, <1>8 DEF l

\* A date that has dropped to the shortest month on its way does so by one more renewal.
LEMMA RenewalDrops ==
    ASSUME NEW d, Dropped(d), IsDate(First)
    PROVE  Dropped(NextRenewal(d))
<1> DEFINE e == NextRenewal(d)
           i == Index(First)
           Length(j) == DaysIn(Month(j).year, Month(j).month)
           Lengths(k) == {Length(j) : j \in (i + 1)..k}
<1>1. IsDate(d) /\ IsDate(e) /\ Index(e) = Index(d) + 1 /\ Index(d) >= i
  BY NextRenewalDate DEF Dropped
<1>2. i \in Nat /\ Index(d) \in Nat /\ First.day \in Nat /\ d.day \in Nat
  BY <1>1, IndexMonth DEF IsDate
<1>3. Length(Index(e)) = DaysIn(e.year, e.month)
  BY <1>1, IndexMonth
<1>4. e.day = IF d.day <= Length(Index(e)) THEN d.day ELSE Length(Index(e))
  BY <1>1, <1>3, NextRenewalDate
<1>5. Lengths(Index(e)) = Lengths(Index(d)) \cup {Length(Index(e))}
  <2> HIDE DEF Length
  <2>1. (i + 1)..(Index(d) + 1) = ((i + 1)..Index(d)) \cup {Index(d) + 1}
    BY <1>1, <1>2
  <2> QED
    BY <1>1, <2>1
<1>6. d.day \in Lengths(Index(d)) \cup {First.day} /\ \A y \in Lengths(Index(d)) \cup {First.day} : d.day <= y
  BY DEF Dropped
<1>7. \A j : Length(j) \in 28..31
  BY DaysInRange
<1> HIDE DEF Length
<1>8. Lengths(Index(d)) \subseteq Nat
  BY <1>7
<1> HIDE DEF Lengths
<1>9. /\ e.day \in Lengths(Index(e)) \cup {First.day}
      /\ \A y \in Lengths(Index(e)) \cup {First.day} : e.day <= y
  BY <1>2, <1>4, <1>5, <1>6, <1>7, <1>8
<1> QED
  BY <1>1, <1>2, <1>9 DEF Dropped, Lengths, Length

\* Its day is the one of the reference definition.
LEMMA DroppedDay ==
    ASSUME NEW d, Dropped(d), IsDate(First)
    PROVE  d.day = DayAt(First, Index(d))
<1> DEFINE S == {DaysIn(Month(j).year, Month(j).month) : j \in (Index(First) + 1)..Index(d)} \cup {First.day}
<1>1. d.day \in S /\ \A y \in S : d.day <= y
  BY DEF Dropped
<1>2. DayAt(First, Index(d)) = CHOOSE x \in S : \A y \in S : x <= y
  BY DEF DayAt
<1>3. S \subseteq Nat
  BY DaysInRange DEF IsDate
<1> HIDE DEF S
<1>4. ASSUME NEW x \in S, \A y \in S : x <= y PROVE x = d.day
  <2>1. x <= d.day /\ d.day <= x
    BY <1>1, <1>4
  <2>2. x \in Nat /\ d.day \in Nat
    BY <1>1, <1>3
  <2> QED
    BY <2>1, <2>2
<1>5. (CHOOSE x \in S : \A y \in S : x <= y) = d.day
  BY <1>1, <1>4, Zenon
<1> QED
  BY <1>2, <1>5
-----------------------------------------------------------------------------
\* What the place where a handler stands says of its request.
Own(r) ==
    /\ copy[r] = << >> \/ DOMAIN copy[r] = Rows \/ DOMAIN copy[r] = {target[r]}
    /\ pc[r] \in {"load", "done"} <=> copy[r] = << >>
    /\ op[r] \in ByUser \cup {"cancel"} /\ pc[r] \notin {"load", "done"} => DOMAIN copy[r] = Rows
    /\ answer[r] # "none" => pc[r] = "done"
    /\ pc[r] \in {"ask", "write"} /\ op[r] \in {"renew", "cancel"} => Loaded(r).active
    /\ pc[r] \in {"end", "grant"} => op[r] = "renew"
    /\ pc[r] = "modify" => op[r] = "cancelMe"
    /\ pc[r] = "grant" => r \in moved
    /\ op[r] = "sync" /\ pc[r] \in {"load", "pick"} => heard[r] = "nothing"
    /\ op[r] = "sync" /\ pc[r] = "write" => heard[r] \in StripeStatuses
    /\ r \in moved \cup raced => pc[r] \in {"grant", "done"}

\* A session that has not written holds the rows nobody else has written as they are.
Fresh(r) ==
    pc[r] # "grant" => \A s \in DOMAIN copy[r] \ stale[r] : copy[r][s] = row[s]

IInv == /\ TypeOK
        /\ copy = [r \in Requests |-> copy[r]]
        /\ \A r \in Requests : Own(r) /\ Fresh(r)

\* The row a commit makes of the one its session had loaded.
Turned(r, to) ==
    /\ IsRow(to)
    /\ copy[r] # << >> /\ pc[r] # "grant"
    /\ to.active /\ ~Loaded(r).active => op[r] = "setStatus"
    /\ IF op[r] = "renew" /\ pc[r] = "write"
       THEN to.due = NextRenewal(Loaded(r).due) /\ pc'[r] = "grant"
       ELSE to.due = Loaded(r).due /\ pc'[r] = "done"
    /\ op[r] = "cancel" => ~to.active /\ Loaded(r).active
    /\ to.status = "canceled" /\ to.active =>
          \/ Loaded(r).status = "canceled" /\ Loaded(r).active
          \/ op[r] \in {"event", "cancelMe"}
    /\ UNCHANGED target

\* A session that has forgotten its rows holds none.
LEMMA EmptyDomain == DOMAIN << >> = {}
  OBVIOUS

\* A session that stands between its load and its end holds the row it works on.
LEMMA LoadedRow ==
    ASSUME TypeOK, NEW r \in Requests, Own(r), pc[r] \notin {"load", "done"}
    PROVE  target[r] \in DOMAIN copy[r] /\ target[r] \in Rows /\ IsRow(Loaded(r)) /\ copy[r] # << >>
  BY EmptyDomain DEF TypeOK, Own, Loaded

\* Every step of a handler leaves the rows alone or is a commit of that kind.
LEMMA HandlerCommits ==
    ASSUME TypeOK, NEW r \in Requests, Own(r), Handler(r)
    PROVE  \/ UNCHANGED <<row, history>>
           \/ \E to : Commit(r, to) /\ Turned(r, to)
<1>1. pc[r] \notin {"load", "done"} =>
         /\ DOMAIN Loaded(r) = {"status", "active", "auto", "due"}
         /\ Loaded(r).status \in Statuses /\ Loaded(r).active \in BOOLEAN
         /\ Loaded(r).auto \in BOOLEAN /\ IsDate(Loaded(r).due)
         /\ copy[r] # << >>
  BY LoadedRow DEF IsRow
<1> DEFINE c == Loaded(r)
<1>2. IsDate(c.due) => IsDate(NextRenewal(c.due))
  BY NextRenewalDate
<1>3. pc' = [pc EXCEPT ![r] = "done"] => pc'[r] = "done"
  BY DEF TypeOK
<1>4. CASE EndUnpaid(r)
  <2> DEFINE to == [Loaded(r) EXCEPT !.active = FALSE, !.status = "inactive"]
  <2>1. Commit(r, to)
    BY <1>4 DEF EndUnpaid
  <2>2. Turned(r, to)
    BY <1>1, <1>2, <1>4 DEF EndUnpaid, Turned, TypeOK, Own, IsRow, Statuses, Goto, Finish
  <2> QED
    BY <2>1, <2>2
<1>5. CASE MoveDate(r)
  <2> DEFINE to == [Loaded(r) EXCEPT !.due = NextRenewal(@)]
  <2>1. Commit(r, to)
    BY <1>5 DEF MoveDate
  <2>2. Turned(r, to)
    BY <1>1, <1>2, <1>5 DEF MoveDate, Turned, TypeOK, Own, IsRow, Statuses, Goto, Finish
  <2> QED
    BY <2>1, <2>2
<1>6. CASE StoreSwitch(r)
  <2> DEFINE to == [Loaded(r) EXCEPT !.auto = (op[r] = "autoOn")]
  <2>1. Commit(r, to)
    BY <1>6 DEF StoreSwitch
  <2>2. Turned(r, to)
    BY <1>1, <1>2, <1>6 DEF StoreSwitch, Turned, TypeOK, Own, IsRow, Statuses, Goto, Finish
  <2> QED
    BY <2>1, <2>2
<1>7. CASE Retire(r)
  <2> DEFINE to == [Loaded(r) EXCEPT !.active = FALSE, !.status = "replaced"]
  <2>1. Commit(r, to)
    BY <1>7 DEF Retire
  <2>2. Turned(r, to)
    BY <1>1, <1>2, <1>7 DEF Retire, Turned, TypeOK, Own, IsRow, Statuses, Goto, Finish
  <2> QED
    BY <2>1, <2>2
<1>8. CASE StoreCancel(r)
  <2> DEFINE to == [Loaded(r) EXCEPT !.active = FALSE, !.status = "canceled", !.auto = FALSE]
  <2>1. Commit(r, to)
    BY <1>8 DEF StoreCancel
  <2>2. Turned(r, to)
    BY <1>1, <1>2, <1>8
    DEF StoreCancel, Turned, TypeOK, Own, IsRow, Statuses, StripeStatuses, Goto, Finish
  <2> QED
    BY <2>1, <2>2
<1>9. CASE StoreStatus(r)
  <2> DEFINE to == [Loaded(r) EXCEPT !.status = heard[r], !.active = IF heard[r] = "active" THEN @ ELSE FALSE]
  <2>1. Commit(r, to)
    BY <1>9 DEF StoreStatus
  <2>2. Turned(r, to)
    BY <1>1, <1>2, <1>9
    DEF StoreStatus,
        StoreStatusLost, Turned, TypeOK, Own, IsRow, Statuses, Goto, Finish, StripeStatuses
  <2> QED
    BY <2>1, <2>2
<1>10. CASE SetStatus(r) \/ StoreEvent(r) \/ StoreOver(r)
  <2>1. CASE SetStatus(r)
    <3>1. PICK x \in StripeStatuses :
             Commit(r, [c EXCEPT !.status = x,
                                 !.active = IF x = "active" THEN TRUE
                                            ELSE IF x \in {"incomplete", "paused"} THEN @ ELSE FALSE])
      BY <2>1 DEF SetStatus
    <3>2. Turned(r, [c EXCEPT !.status = x,
                              !.active = IF x = "active" THEN TRUE
                                         ELSE IF x \in {"incomplete", "paused"} THEN @ ELSE FALSE])
      BY <1>1, <2>1, <3>1
      DEF SetStatus, Turned, TypeOK, Own, IsRow, Statuses, Goto, Finish, StripeStatuses
    <3> QED
      BY <3>1, <3>2
  <2>2. CASE StoreEvent(r)
    <3>1. PICK x \in {log[target[r]][i] : i \in DOMAIN log[target[r]]} \cup {"active", "past_due"} :
             Commit(r, [c EXCEPT !.status = x])
      BY <2>2 DEF StoreEvent
    <3>3. log[target[r]] \in Seq(StripeStatuses)
      BY DEF TypeOK
    <3>4. \A i \in DOMAIN log[target[r]] : log[target[r]][i] \in StripeStatuses
      BY <3>3
    <3>5. x \in StripeStatuses
      BY <3>4 DEF StripeStatuses
    <3>2. Turned(r, [c EXCEPT !.status = x])
      BY <1>1, <2>2, <3>5
      DEF StoreEvent, Turned, TypeOK, Own, IsRow, Statuses, Goto, Finish, StripeStatuses
    <3> QED
      BY <3>1, <3>2
  <2>3. CASE StoreOver(r)
    <3>1. \/ UNCHANGED <<row, history>>
          \/ Commit(r, [c EXCEPT !.status = "canceled"])
      BY <2>3 DEF StoreOver
    <3>2. Turned(r, [c EXCEPT !.status = "canceled"])
      BY <1>1, <2>3 DEF StoreOver, Turned, TypeOK, Own, IsRow, Statuses, Goto, Finish,
          StripeStatuses
    <3> QED
      BY <3>1, <3>2
  <2> QED
    BY <1>10, <2>1, <2>2, <2>3
<1> QED
  BY <1>4, <1>5, <1>6, <1>7, <1>8, <1>9, <1>10
  DEF Handler, Load, CheckRenewal, RefuseRenewal, AskAlive, Grant, SwitchOff, Replace,
      ReplaceNothing, CheckCancel, RefuseCancel, StopInStripe, PickLive, PickNone, AskEnding,
      Modify, PickBest, PickNoCandidate, AskStatus, StoreStatusLost, Fail

\* A commit of a handler: the table and the history it leaves, each for itself.
LEMMA CommitLeaves ==
    ASSUME TypeOK, NEW r \in Requests, target[r] \in Rows, NEW to, Commit(r, to), IsRow(to),
           IsRow(Loaded(r))
    PROVE  /\ DOMAIN row' = Rows /\ \A s \in Rows : IsRow(row'[s])
           /\ \A s \in Rows \ {target[r]} : row'[s] = row[s]
           /\ \A f \in {"status", "active", "auto", "due"} :
                 row'[target[r]][f] = IF to[f] # Loaded(r)[f] THEN to[f] ELSE row[target[r]][f]
           /\ stale' \in [Requests -> SUBSET Rows]
           /\ \A q \in Requests : stale[q] \subseteq stale'[q]
           /\ \A q \in Requests \ {r} : target[r] \in DOMAIN copy[q] => target[r] \in stale'[q]
           /\ raced' = raced \cup (IF target[r] \in stale[r] THEN {r} ELSE {})
           /\ moved' = moved \cup (IF to.due # Loaded(r).due THEN {r} ELSE {})
           /\ cancelled' \in [Rows -> SUBSET Requests]
           /\ writer' \in [Rows -> Requests \cup {NoRequest}]
<1> DEFINE s0 == target[r]
           new == Flush(s0, Loaded(r), to)
<1>1. /\ row' = [row EXCEPT ![s0] = new]
      /\ stale' = [q \in Requests |->
                      IF q # r /\ s0 \in DOMAIN copy[q] THEN stale[q] \cup {s0} ELSE stale[q]]
      /\ raced' = IF s0 \in stale[r] THEN raced \cup {r} ELSE raced
      /\ moved' = IF to.due # Loaded(r).due THEN moved \cup {r} ELSE moved
      /\ cancelled' = [cancelled EXCEPT ![s0] =
            IF ~row[s0].active /\ new.active THEN {}
            ELSE IF op[r] = "cancel" THEN @ \cup {r} ELSE @]
      /\ writer' = IF to.status # Loaded(r).status THEN [writer EXCEPT ![s0] = r] ELSE writer
  BY DEF Commit
<1>2. new = [f \in {"status", "active", "auto", "due"} |->
                IF to[f] # Loaded(r)[f] THEN to[f] ELSE row[s0][f]]
  BY DEF Flush, IsRow
<1>3. IsRow(row[s0]) /\ row'[s0] = new
  BY <1>1 DEF TypeOK
<1> HIDE DEF new
<1>4. IsRow(new)
  BY <1>2, <1>3 DEF IsRow
<1>5. DOMAIN row' = Rows /\ \A s \in Rows : IsRow(row'[s])
  BY <1>1, <1>3, <1>4 DEF TypeOK
<1>6. /\ \A s \in Rows \ {s0} : row'[s] = row[s]
      /\ \A f \in {"status", "active", "auto", "due"} :
            row'[s0][f] = IF to[f] # Loaded(r)[f] THEN to[f] ELSE row[s0][f]
  BY <1>1, <1>2, <1>3 DEF TypeOK
<1>7. /\ stale' \in [Requests -> SUBSET Rows]
      /\ \A q \in Requests : stale[q] \subseteq stale'[q]
      /\ \A q \in Requests \ {r} : s0 \in DOMAIN copy[q] => s0 \in stale'[q]
  BY <1>1 DEF TypeOK
<1>8. /\ raced' = raced \cup (IF s0 \in stale[r] THEN {r} ELSE {})
      /\ moved' = moved \cup (IF to.due # Loaded(r).due THEN {r} ELSE {})
  BY <1>1
<1>9. cancelled' \in [Rows -> SUBSET Requests] /\ writer' \in [Rows -> Requests \cup {NoRequest}]
  BY <1>1 DEF TypeOK
<1> QED
  BY <1>5, <1>6, <1>7, <1>8, <1>9

\* A handler leaves the sessions of the others alone.
LEMMA OthersKeep ==
    ASSUME IInv, NEW r \in Requests, Handler(r), NEW q \in Requests \ {r}
    PROVE  /\ pc'[q] = pc[q] /\ copy'[q] = copy[q] /\ target'[q] = target[q]
           /\ heard'[q] = heard[q] /\ answer'[q] = answer[q]
<1>1. pc'[q] = pc[q]
  BY
  DEF IInv, TypeOK, Goto, Finish, Handler, Load, CheckRenewal, RefuseRenewal, AskAlive, EndUnpaid,
      MoveDate, Grant, SwitchOff,
         StoreSwitch, SetStatus, StoreEvent, Replace, ReplaceNothing, Retire, CheckCancel,
         RefuseCancel, StopInStripe, StoreCancel, PickLive, PickNone, AskEnding, StoreOver, Modify,
         PickBest, PickNoCandidate, AskStatus, StoreStatus, StoreStatusLost, Fail
<1>2. copy'[q] = copy[q]
  BY
  DEF IInv, TypeOK, Goto, Finish, Handler, Load, CheckRenewal, RefuseRenewal, AskAlive, EndUnpaid,
      MoveDate, Grant, SwitchOff,
         StoreSwitch, SetStatus, StoreEvent, Replace, ReplaceNothing, Retire, CheckCancel,
         RefuseCancel, StopInStripe, StoreCancel, PickLive, PickNone, AskEnding, StoreOver, Modify,
         PickBest, PickNoCandidate, AskStatus, StoreStatus, StoreStatusLost, Fail
<1>3. target'[q] = target[q]
  BY
  DEF IInv, TypeOK, Goto, Finish, Handler, Load, CheckRenewal, RefuseRenewal, AskAlive, EndUnpaid,
      MoveDate, Grant, SwitchOff,
         StoreSwitch, SetStatus, StoreEvent, Replace, ReplaceNothing, Retire, CheckCancel,
         RefuseCancel, StopInStripe, StoreCancel, PickLive, PickNone, AskEnding, StoreOver, Modify,
         PickBest, PickNoCandidate, AskStatus, StoreStatus, StoreStatusLost, Fail
<1>4. heard'[q] = heard[q]
  BY
  DEF IInv, TypeOK, Goto, Finish, Hear, Handler, Load, CheckRenewal, RefuseRenewal, AskAlive,
      EndUnpaid, MoveDate, Grant, SwitchOff,
         StoreSwitch, SetStatus, StoreEvent, Replace, ReplaceNothing, Retire, CheckCancel,
         RefuseCancel, StopInStripe, StoreCancel, PickLive, PickNone, AskEnding, StoreOver, Modify,
         PickBest, PickNoCandidate, AskStatus, StoreStatus, StoreStatusLost, Fail
<1>5. answer'[q] = answer[q]
  BY
  DEF IInv, TypeOK, Goto, Finish, Handler, Load, CheckRenewal, RefuseRenewal, AskAlive, EndUnpaid,
      MoveDate, Grant, SwitchOff,
         StoreSwitch, SetStatus, StoreEvent, Replace, ReplaceNothing, Retire, CheckCancel,
         RefuseCancel, StopInStripe, StoreCancel, PickLive, PickNone, AskEnding, StoreOver, Modify,
         PickBest, PickNoCandidate, AskStatus, StoreStatus, StoreStatusLost, Fail
<1> QED
  BY <1>1, <1>2, <1>3, <1>4, <1>5

\* Stripe has a status for every subscription.
LEMMA CurrentType ==
    ASSUME TypeOK, NEW s \in Rows
    PROVE  Current(s) \in StripeStatuses
<1>1. log[s] \in Seq(StripeStatuses) /\ log[s] # << >>
  BY DEF TypeOK
<1>2. Len(log[s]) \in 1..Len(log[s])
  BY <1>1
<1> QED
  BY <1>1, <1>2 DEF Current

\* A new status of Stripe is the current one of its subscription, and of no other.
LEMMA LogGrows ==
    ASSUME TypeOK, NEW s \in Rows, NEW x \in StripeStatuses, log' = [log EXCEPT ![s] = Append(@, x)]
    PROVE  /\ log' \in [Rows -> Seq(StripeStatuses)] /\ \A t \in Rows : log'[t] # << >>
           /\ Current(s)' = x
           /\ \A t \in Rows \ {s} : Current(t)' = Current(t)
<1>1. log[s] \in Seq(StripeStatuses)
  BY DEF TypeOK
<1>2. Append(log[s], x) \in Seq(StripeStatuses) /\ Append(log[s], x) # << >>
  BY <1>1
<1>3. Append(log[s], x)[Len(Append(log[s], x))] = x
  BY <1>1
<1>4. log' = [log EXCEPT ![s] = Append(log[s], x)]
  OBVIOUS
<1>5. log'[s] = Append(log[s], x) /\ \A t \in Rows \ {s} : log'[t] = log[t]
  BY <1>4 DEF TypeOK
<1>6. log' \in [Rows -> Seq(StripeStatuses)] /\ \A t \in Rows : log'[t] # << >>
  BY <1>2, <1>4, <1>5 DEF TypeOK
<1> QED
  BY <1>3, <1>5, <1>6 DEF Current

\* What a handler's step does to the table and the history.
LEMMA TableType ==
    ASSUME IInv, NEW r \in Requests, Handler(r)
    PROVE  /\ DOMAIN row' = Rows /\ \A s \in Rows : IsRow(row'[s])
           /\ stale' \in [Requests -> SUBSET Rows]
           /\ moved' \subseteq moved \cup {r} /\ raced' \subseteq raced \cup {r}
           /\ moved \subseteq moved' /\ raced \subseteq raced'
           /\ moved' # moved \/ raced' # raced => pc'[r] \in {"grant", "done"}
           /\ MoveDate(r) => r \in moved'
           /\ cancelled' \in [Rows -> SUBSET Requests]
           /\ writer' \in [Rows -> Requests \cup {NoRequest}]
<1>1. CASE UNCHANGED <<row, history>> /\ ~MoveDate(r)
  BY <1>1 DEF IInv, TypeOK, history
<1>2. ASSUME NEW to, Commit(r, to), Turned(r, to)
      PROVE  /\ DOMAIN row' = Rows /\ \A s \in Rows : IsRow(row'[s])
             /\ stale' \in [Requests -> SUBSET Rows]
             /\ moved' = moved \cup (IF to.due # Loaded(r).due THEN {r} ELSE {})
             /\ raced' = raced \cup (IF target[r] \in stale[r] THEN {r} ELSE {})
             /\ pc'[r] \in {"grant", "done"}
             /\ cancelled' \in [Rows -> SUBSET Requests]
             /\ writer' \in [Rows -> Requests \cup {NoRequest}]
  <2>1. pc[r] \notin {"load", "done"} /\ Own(r)
    BY <1>2 DEF IInv, Own, Turned
  <2>2. target[r] \in Rows /\ IsRow(Loaded(r)) /\ IsRow(to)
    BY <1>2, <2>1, LoadedRow DEF IInv, Turned
  <2> QED
    BY <1>2, <2>2, CommitLeaves DEF IInv, Turned
<1>3. CASE MoveDate(r)
  <2> DEFINE to == [Loaded(r) EXCEPT !.due = NextRenewal(@)]
  <2>1. pc[r] = "write" /\ op[r] = "renew" /\ Commit(r, to) /\ Own(r)
    BY <1>3 DEF MoveDate, IInv
  <2>2. IsRow(Loaded(r)) /\ target[r] \in Rows
    BY <2>1, LoadedRow DEF IInv
  <2>3. /\ IsDate(NextRenewal(Loaded(r).due)) /\ NextRenewal(Loaded(r).due) # Loaded(r).due
    BY <2>2, NextRenewalDate DEF IsRow
  <2>4. IsRow(to) /\ to.due # Loaded(r).due
    BY <2>2, <2>3 DEF IsRow
  <2>5. pc'[r] = "grant"
    BY <1>3 DEF MoveDate, Goto, IInv, TypeOK
  <2> HIDE DEF to
  <2> QED
    BY <2>1, <2>2, <2>4, <2>5, CommitLeaves DEF IInv
<1>4. CASE \E to : Commit(r, to) /\ Turned(r, to) /\ ~MoveDate(r)
  BY <1>2, <1>4
<1>5. Own(r) /\ TypeOK
  BY DEF IInv
<1> QED
  BY <1>1, <1>3, <1>4, <1>5, HandlerCommits

\* The step of a handler: the type of what it leaves.
LEMMA HandlerType ==
    ASSUME IInv, NEW r \in Requests, Handler(r)
    PROVE  TypeOK' /\ copy' = [q \in Requests |-> copy'[q]]
<1>1. log' \in [Rows -> Seq(StripeStatuses)] /\ \A s \in Rows : log'[s] # << >>
  <2>1. log' = log \/ log' = [log EXCEPT ![target[r]] = Append(@, "canceled")]
    BY
    DEF stripe, Handler, Load, CheckRenewal, RefuseRenewal, AskAlive, EndUnpaid, MoveDate, Grant,
        SwitchOff, StoreSwitch, SetStatus, StoreEvent, Replace, ReplaceNothing, Retire, CheckCancel,
        RefuseCancel, StopInStripe, StoreCancel, PickLive, PickNone, AskEnding, StoreOver, Modify,
        PickBest, PickNoCandidate, AskStatus, StoreStatus, StoreStatusLost, Fail
  <2>2. target[r] \in Rows /\ "canceled" \in StripeStatuses
    BY DEF IInv, TypeOK, StripeStatuses
  <2> QED
    BY <2>1, <2>2, LogGrows DEF IInv, TypeOK
<1>2. atEnd' \subseteq Rows
  BY
  DEF IInv, TypeOK, stripe, Handler, Load, CheckRenewal, RefuseRenewal, AskAlive, EndUnpaid,
      MoveDate, Grant, SwitchOff, StoreSwitch, SetStatus, StoreEvent, Replace, ReplaceNothing,
      Retire, CheckCancel, RefuseCancel, StopInStripe, StoreCancel, PickLive, PickNone, AskEnding,
      StoreOver, Modify, PickBest, PickNoCandidate, AskStatus, StoreStatus, StoreStatusLost, Fail
<1>3. op' = op
  BY
  DEF Handler, Load, CheckRenewal, RefuseRenewal, AskAlive, EndUnpaid, MoveDate, Grant, SwitchOff,
      StoreSwitch, SetStatus, StoreEvent, Replace, ReplaceNothing, Retire, CheckCancel,
      RefuseCancel, StopInStripe, StoreCancel, PickLive, PickNone, AskEnding, StoreOver, Modify,
      PickBest, PickNoCandidate, AskStatus, StoreStatus, StoreStatusLost, Fail
<1>4. target' \in [Requests -> Rows]
  <2>1. target' = target \/ \E s \in Rows : target' = [target EXCEPT ![r] = s]
    BY EmptyDomain
    DEF IInv, TypeOK, Candidates, Handler, Load, CheckRenewal, RefuseRenewal, AskAlive, EndUnpaid,
        MoveDate, Grant, SwitchOff, StoreSwitch, SetStatus, StoreEvent, Replace, ReplaceNothing,
        Retire, CheckCancel, RefuseCancel, StopInStripe, StoreCancel, PickLive, PickNone, AskEnding,
        StoreOver, Modify, PickBest, PickNoCandidate, AskStatus, StoreStatus, StoreStatusLost, Fail
  <2> QED
    BY <2>1 DEF IInv, TypeOK
<1>5. pc' \in [Requests -> PCs]
  <2>1. \E label \in PCs : pc' = [pc EXCEPT ![r] = label]
    BY
    DEF PCs, Goto, Finish, Handler, Load, CheckRenewal, RefuseRenewal, AskAlive, EndUnpaid,
        MoveDate, Grant, SwitchOff, StoreSwitch, SetStatus, StoreEvent, Replace, ReplaceNothing,
        Retire, CheckCancel, RefuseCancel, StopInStripe, StoreCancel, PickLive, PickNone, AskEnding,
        StoreOver, Modify, PickBest, PickNoCandidate, AskStatus, StoreStatus, StoreStatusLost, Fail
  <2> QED
    BY <2>1 DEF IInv, TypeOK
<1>6. copy' = [q \in Requests |-> copy'[q]]
  BY
  DEF IInv, Finish, Handler, Load, CheckRenewal, RefuseRenewal, AskAlive, EndUnpaid, MoveDate,
      Grant, SwitchOff, StoreSwitch, SetStatus, StoreEvent, Replace, ReplaceNothing, Retire,
      CheckCancel, RefuseCancel, StopInStripe, StoreCancel, PickLive, PickNone, AskEnding,
      StoreOver, Modify, PickBest, PickNoCandidate, AskStatus, StoreStatus, StoreStatusLost, Fail
<1>7. \A q \in Requests : DOMAIN copy'[q] \subseteq Rows /\ \A s \in DOMAIN copy'[q] : IsRow(copy'[q][s])
  <2>1. \A q \in Requests \ {r} : copy'[q] = copy[q]
    BY OthersKeep
  <2>2. CASE Load(r)
    <3>1. copy'[r] = IF op[r] \in ByUser \cup {"cancel"} THEN row ELSE [s \in {target[r]} |-> row[s]]
      BY <2>2 DEF Load, IInv
    <3>2. DOMAIN row = Rows /\ target[r] \in Rows /\ \A s \in Rows : IsRow(row[s])
      BY DEF IInv, TypeOK
    <3>3. DOMAIN copy'[r] \subseteq Rows /\ \A s \in DOMAIN copy'[r] : IsRow(copy'[r][s])
      <4>1. CASE op[r] \in ByUser \cup {"cancel"}
        BY <3>1, <3>2, <4>1
      <4>2. CASE op[r] \notin ByUser \cup {"cancel"}
        <5>1. copy'[r] = [s \in {target[r]} |-> row[s]]
          BY <3>1, <4>2
        <5> QED
          BY <3>2, <5>1
      <4> QED
        BY <4>1, <4>2
    <3>4. \A q \in Requests : DOMAIN copy[q] \subseteq Rows /\ \A s \in DOMAIN copy[q] : IsRow(copy[q][s])
      BY DEF IInv, TypeOK
    <3> QED
      BY <2>1, <3>3, <3>4
  <2>3. CASE ~Load(r)
    <3>1. copy'[r] = copy[r] \/ copy'[r] = << >>
      BY <2>3
      DEF IInv, Finish, Handler, Load, CheckRenewal, RefuseRenewal, AskAlive, EndUnpaid, MoveDate,
          Grant, SwitchOff, StoreSwitch, SetStatus, StoreEvent, Replace, ReplaceNothing, Retire,
          CheckCancel, RefuseCancel, StopInStripe, StoreCancel, PickLive, PickNone, AskEnding,
          StoreOver, Modify, PickBest, PickNoCandidate, AskStatus, StoreStatus,
          StoreStatusLost, Fail
    <3> QED
      BY <2>1, <3>1, EmptyDomain DEF IInv, TypeOK
  <2> QED
    BY <2>2, <2>3
<1>8. heard' \in [Requests -> Statuses \cup {"nothing"}]
  <2>1. heard' = heard \/ AskStatus(r)
    BY
    DEF Handler, Load, CheckRenewal, RefuseRenewal, AskAlive, EndUnpaid, MoveDate, Grant, SwitchOff,
        StoreSwitch, SetStatus, StoreEvent, Replace, ReplaceNothing, Retire, CheckCancel,
        RefuseCancel, StopInStripe, StoreCancel, PickLive, PickNone, AskEnding, StoreOver, Modify,
        PickBest, PickNoCandidate, AskStatus, StoreStatus, StoreStatusLost, Fail
  <2>2. CASE AskStatus(r)
    <3>1. Current(target[r]) \in Statuses
      BY CurrentType DEF IInv, TypeOK, Statuses
    <3>2. Loaded(r).status \in Statuses
      BY <2>2, LoadedRow DEF IInv, IsRow, AskStatus
    <3>3. heard' = [heard EXCEPT ![r] = Current(target[r])] \/ heard' = [heard EXCEPT ![r] = Loaded(r).status]
      BY <2>2 DEF AskStatus, Hear
    <3> QED
      BY <3>1, <3>2, <3>3 DEF IInv, TypeOK
  <2> QED
    BY <2>1, <2>2 DEF IInv, TypeOK
<1>9. answer' \in [Requests -> Answers]
  BY
  DEF Answers, IInv, TypeOK, Finish, Handler, Load, CheckRenewal, RefuseRenewal, AskAlive, EndUnpaid,
      MoveDate, Grant, SwitchOff, StoreSwitch, SetStatus, StoreEvent, Replace, ReplaceNothing,
      Retire, CheckCancel, RefuseCancel, StopInStripe, StoreCancel, PickLive, PickNone, AskEnding,
      StoreOver, Modify, PickBest, PickNoCandidate, AskStatus, StoreStatus, StoreStatusLost, Fail
<1>10. granted' \subseteq Requests
  BY
  DEF IInv, TypeOK, Handler, Load, CheckRenewal, RefuseRenewal, AskAlive, EndUnpaid, MoveDate,
      Grant, SwitchOff, StoreSwitch, SetStatus, StoreEvent, Replace, ReplaceNothing, Retire,
      CheckCancel, RefuseCancel, StopInStripe, StoreCancel, PickLive, PickNone, AskEnding,
      StoreOver, Modify, PickBest, PickNoCandidate, AskStatus, StoreStatus, StoreStatusLost, Fail
<1> QED
  BY <1>1, <1>2, <1>3, <1>4, <1>5, <1>6, <1>7, <1>8, <1>9, <1>10, TableType DEF IInv, TypeOK

\* What the program counters say stays true.
LEMMA HandlerOwn ==
    ASSUME IInv, NEW r \in Requests, Handler(r)
    PROVE  \A q \in Requests : Own(q)'
<1>1. /\ pc \in [Requests -> PCs] /\ copy = [q \in Requests |-> copy[q]]
      /\ answer \in [Requests -> Answers] /\ target \in [Requests -> Rows]
      /\ heard \in [Requests -> Statuses \cup {"nothing"}] /\ Own(r) /\ TypeOK
      /\ DOMAIN row = Rows
  BY DEF IInv, TypeOK
<1>2. /\ moved' \subseteq moved \cup {r} /\ raced' \subseteq raced \cup {r}
      /\ moved' # moved \/ raced' # raced => pc'[r] \in {"grant", "done"}
      /\ moved \subseteq moved' /\ raced \subseteq raced' /\ (MoveDate(r) => r \in moved')
  BY TableType
<1>3. op' = op
  BY
  DEF Handler, Load, CheckRenewal, RefuseRenewal, AskAlive, EndUnpaid, MoveDate, Grant, SwitchOff,
      StoreSwitch, SetStatus, StoreEvent, Replace, ReplaceNothing, Retire, CheckCancel,
      RefuseCancel, StopInStripe, StoreCancel, PickLive, PickNone, AskEnding, StoreOver, Modify,
      PickBest, PickNoCandidate, AskStatus, StoreStatus, StoreStatusLost, Fail
<1>4. ASSUME NEW q \in Requests \ {r} PROVE Own(q)'
  <2>1. /\ pc'[q] = pc[q] /\ copy'[q] = copy[q] /\ target'[q] = target[q]
        /\ heard'[q] = heard[q] /\ answer'[q] = answer[q]
    BY OthersKeep
  <2>2. (q \in moved' <=> q \in moved) /\ (q \in raced' <=> q \in raced)
    BY <1>2
  <2>3. Own(q)
    BY DEF IInv
  <2> QED
    BY <1>3, <2>1, <2>2, <2>3 DEF Own, Loaded
<1>5. Own(r)'
  <2>1. CASE pc'[r] = "done" /\ copy'[r] = << >>
    BY <1>3, <2>1 DEF Own
  <2>2. CASE Load(r)
    <3>1. /\ pc'[r] = "pick" /\ pc[r] = "load" /\ UNCHANGED <<answer, target, heard, moved, raced>>
          /\ copy'[r] = IF op[r] \in ByUser \cup {"cancel"} THEN row ELSE [s \in {target[r]} |-> row[s]]
      BY <1>1, <2>2 DEF Load, Goto, history
    <3>2. target[r] \in Rows /\ DOMAIN row = Rows
      BY <1>1
    <3>3. /\ DOMAIN copy'[r] = Rows \/ DOMAIN copy'[r] = {target[r]}
          /\ op[r] \in ByUser \cup {"cancel"} => DOMAIN copy'[r] = Rows
          /\ copy'[r] # << >>
      <4>1. CASE op[r] \in ByUser \cup {"cancel"}
        BY <3>1, <3>2, <4>1, EmptyDomain
      <4>2. CASE op[r] \notin ByUser \cup {"cancel"}
        <5>1. copy'[r] = [s \in {target[r]} |-> row[s]]
          BY <3>1, <4>2
        <5>2. DOMAIN copy'[r] = {target[r]}
          BY <5>1
        <5> QED
          BY <4>2, <5>2, EmptyDomain
      <4> QED
        BY <4>1, <4>2
    <3> QED
      BY <1>1, <1>3, <3>1, <3>3 DEF Own
  <2>3. CASE MoveDate(r)
    BY <1>1, <1>2, <1>3, <2>3 DEF MoveDate, Own, Goto, ByUser
  <2>4. CASE AskAlive(r) \/ SwitchOff(r) \/ StopInStripe(r)
    BY <1>1, <1>3, <2>4
    DEF AskAlive, SwitchOff, StopInStripe, Own, Goto, Finish, ByUser, history, Loaded
  <2>5. CASE CheckRenewal(r) \/ CheckCancel(r)
    BY <1>1, <1>3, <2>5 DEF CheckRenewal, CheckCancel, Own, Goto, ByUser, history, Loaded
  <2>6. CASE Replace(r) \/ PickLive(r) \/ PickBest(r)
    <3>1. /\ op[r] \in ByUser /\ DOMAIN copy[r] = Rows
      BY <1>1, <2>6 DEF Own, ByUser, Replace, PickLive, PickBest
    <3>2. /\ pc[r] = "pick" /\ pc'[r] \in {"ask", "write"} /\ UNCHANGED <<copy, answer, heard, moved, raced>>
          /\ pc'[r] = "write" => op[r] = "replace"
      BY <1>1, <2>6 DEF Replace, PickLive, PickBest, Goto, history
    <3> QED
      BY <1>1, <1>3, <3>1, <3>2 DEF Own, ByUser
  <2>7. CASE AskEnding(r) /\ pc'[r] # "done"
    BY <1>1, <1>3, <2>7 DEF AskEnding, Own, Goto, Finish, ByUser, history, Loaded
  <2>8. CASE AskStatus(r) /\ pc'[r] # "done"
    <3>1. Current(target[r]) \in StripeStatuses
      BY <1>1, CurrentType
    <3> QED
      BY <1>1, <1>3, <2>8, <3>1 DEF AskStatus, Own, Goto, Finish, Hear, ByUser, history, Loaded
  <2>9. pc'[r] = "done" => copy'[r] = << >>
    BY <1>1
    DEF Own, Goto, Finish, Handler, Load, CheckRenewal, RefuseRenewal, AskAlive, EndUnpaid,
        MoveDate, Grant, SwitchOff, StoreSwitch, SetStatus, StoreEvent, Replace, ReplaceNothing,
        Retire, CheckCancel, RefuseCancel, StopInStripe, StoreCancel, PickLive, PickNone, AskEnding,
        StoreOver, Modify, PickBest, PickNoCandidate, AskStatus, StoreStatus, StoreStatusLost, Fail
  <2>10. pc'[r] # "done" =>
            \/ Load(r) \/ MoveDate(r) \/ AskAlive(r) \/ SwitchOff(r) \/ StopInStripe(r)
            \/ CheckRenewal(r) \/ CheckCancel(r) \/ Replace(r) \/ PickLive(r) \/ PickBest(r)
            \/ AskEnding(r) \/ AskStatus(r)
    BY <1>1
    DEF Goto, Finish, Handler, RefuseRenewal, EndUnpaid, Grant, StoreSwitch, SetStatus, StoreEvent,
        ReplaceNothing, Retire, RefuseCancel, StoreCancel, PickNone, StoreOver, Modify,
        PickNoCandidate, StoreStatus, StoreStatusLost, Fail
  <2> QED
    BY <2>1, <2>2, <2>3, <2>4, <2>5, <2>6, <2>7, <2>8, <2>9, <2>10
<1> QED
  BY <1>4, <1>5

\* Whoever else holds a row that is written holds it stale from then on.
LEMMA HandlerFresh ==
    ASSUME IInv, NEW r \in Requests, Handler(r)
    PROVE  \A q \in Requests : Fresh(q)'
<1>1. TypeOK /\ Own(r)
  BY DEF IInv
<1>2. CASE UNCHANGED <<row, history>>
  <2>1. \A q \in Requests \ {r} : pc'[q] = pc[q] /\ copy'[q] = copy[q]
    BY OthersKeep
  <2>2. CASE Load(r)
    <3>1. copy'[r] = IF op[r] \in ByUser \cup {"cancel"} THEN row ELSE [s \in {target[r]} |-> row[s]]
      BY <2>2 DEF Load, IInv
    <3>2. \A s \in DOMAIN copy'[r] : copy'[r][s] = row[s]
      BY <3>1
    <3> QED
      BY <1>2, <2>1, <3>2 DEF Fresh, IInv, history
  <2>3. CASE ~Load(r)
    <3>1. copy'[r] = copy[r] \/ copy'[r] = << >>
      BY <2>3
      DEF IInv, Finish, Handler, Load, CheckRenewal, RefuseRenewal, AskAlive, EndUnpaid, MoveDate,
          Grant, SwitchOff, StoreSwitch, SetStatus, StoreEvent, Replace, ReplaceNothing, Retire,
          CheckCancel, RefuseCancel, StopInStripe, StoreCancel, PickLive, PickNone, AskEnding,
          StoreOver, Modify, PickBest, PickNoCandidate, AskStatus, StoreStatus,
          StoreStatusLost, Fail
    <3>2. pc[r] = "grant" => pc'[r] = "done"
      BY <1>1
      DEF TypeOK, Goto, Finish, Handler, Load, CheckRenewal, RefuseRenewal, AskAlive, EndUnpaid,
          MoveDate, Grant, SwitchOff, StoreSwitch, SetStatus, StoreEvent, Replace, ReplaceNothing,
          Retire, CheckCancel, RefuseCancel, StopInStripe, StoreCancel, PickLive, PickNone,
          AskEnding, StoreOver, Modify, PickBest, PickNoCandidate, AskStatus, StoreStatus,
          StoreStatusLost, Fail
    <3>3. pc'[r] = "done" => copy'[r] = << >>
      BY HandlerOwn DEF Own
    <3> QED
      BY <1>2, <2>1, <3>1, <3>2, <3>3, EmptyDomain DEF Fresh, IInv, history
  <2> QED
    BY <2>2, <2>3
<1>3. ASSUME NEW to, Commit(r, to), Turned(r, to) PROVE \A q \in Requests : Fresh(q)'
  <2>1. pc[r] \notin {"load", "done"}
    BY <1>1, <1>3 DEF Own, Turned
  <2>2. target[r] \in Rows /\ IsRow(Loaded(r)) /\ IsRow(to)
    BY <1>1, <1>3, <2>1, LoadedRow DEF Turned
  <2>3. /\ \A s \in Rows \ {target[r]} : row'[s] = row[s]
        /\ \A q \in Requests : stale[q] \subseteq stale'[q]
        /\ \A q \in Requests \ {r} : target[r] \in DOMAIN copy[q] => target[r] \in stale'[q]
    BY <1>1, <1>3, <2>2, CommitLeaves
  <2>4. \A q \in Requests \ {r} : pc'[q] = pc[q] /\ copy'[q] = copy[q] /\ DOMAIN copy[q] \subseteq Rows
    BY <1>1, OthersKeep DEF TypeOK
  <2>5. \A q \in Requests \ {r} : Fresh(q)'
    BY <2>3, <2>4 DEF Fresh, IInv
  <2>6. pc'[r] \in {"grant", "done"}
    BY <1>3 DEF Turned
  <2>7. pc'[r] = "done" => copy'[r] = << >>
    BY HandlerOwn DEF Own
  <2>8. Fresh(r)'
    BY <2>6, <2>7, EmptyDomain DEF Fresh
  <2> QED
    BY <2>5, <2>8
<1> QED
  BY <1>1, <1>2, <1>3, HandlerCommits

\* The strengthening holds at the start...
LEMMA InitIInv == Init => IInv
<1> SUFFICES ASSUME Init PROVE IInv
  OBVIOUS
<1>1. \A x \in StripeStatuses : <<x>> \in Seq(StripeStatuses) /\ <<x>> # << >> /\ Len(<<x>>) = 1 /\ <<x>>[1] = x
  OBVIOUS
<1>2. log \in [Rows -> Seq(StripeStatuses)] /\ \A s \in Rows : log[s] # << >> /\ Current(s) \in StripeStatuses
  <2>1. log \in [Rows -> {<<x>> : x \in StripeStatuses}]
    BY DEF Init
  <2>2. ASSUME NEW s \in Rows
        PROVE  log[s] \in Seq(StripeStatuses) /\ log[s] # << >> /\ Current(s) \in StripeStatuses
    <3>1. PICK x \in StripeStatuses : log[s] = <<x>>
      BY <2>1
    <3> QED
      BY <1>1, <3>1 DEF Current
  <2>3. log = [s \in Rows |-> log[s]]
    BY <2>1
  <2> QED
    BY <2>2, <2>3
<1>3. DOMAIN row = Rows /\ \A s \in Rows : IsRow(row[s])
  <2>1. PICK live \in SUBSET Rows :
           row = [s \in Rows |-> [status |-> Current(s), active |-> s \in live,
                                  auto |-> TRUE, due |-> First]]
    BY DEF Init
  <2>2. ASSUME NEW s \in Rows PROVE IsRow(row[s])
    <3>1. row[s] = [status |-> Current(s), active |-> s \in live, auto |-> TRUE, due |-> First]
      BY <2>1
    <3>2. Current(s) \in Statuses
      BY <1>2 DEF Statuses
    <3> QED
      BY <3>1, <3>2, SubscriptionsAssumption DEF IsRow
  <2> QED
    BY <2>1, <2>2
<1>4. TypeOK
  BY <1>2, <1>3, EmptyDomain DEF Init, TypeOK, PCs, Answers
<1>5. \A r \in Requests : Own(r) /\ Fresh(r)
  BY EmptyDomain DEF Init, Own, Fresh
<1> QED
  BY <1>4, <1>5 DEF Init, IInv

\* ...and is kept by every step.
LEMMA StepIInv == IInv /\ [Next]_vars => IInv'
<1> SUFFICES ASSUME IInv, [Next]_vars PROVE IInv'
  OBVIOUS
<1>1. CASE UNCHANGED vars
  BY <1>1 DEF vars, stripe, session, history, IInv, TypeOK, Own, Fresh, Loaded
<1>2. ASSUME NEW r \in Requests, Handler(r) PROVE IInv'
  BY <1>2, HandlerType, HandlerOwn, HandlerFresh DEF IInv
<1>3. ASSUME NEW s \in Rows, StripeMoves(s) PROVE IInv'
  <2>1. /\ UNCHANGED <<atEnd, row, session, granted, history>>
        /\ \E x \in StripeStatuses : log' = [log EXCEPT ![s] = Append(@, x)]
    BY <1>3 DEF StripeMoves
  <2>2. log' \in [Rows -> Seq(StripeStatuses)] /\ \A t \in Rows : log'[t] # << >>
    BY <2>1, LogGrows DEF IInv
  <2>3. TypeOK'
    BY <2>1, <2>2 DEF session, history, IInv, TypeOK
  <2>4. \A r \in Requests : Own(r)' /\ Fresh(r)'
    BY <2>1 DEF session, history, IInv, Own, Fresh, Loaded
  <2> QED
    BY <2>1, <2>3, <2>4 DEF session, IInv
<1> QED
  BY <1>1, <1>2, <1>3 DEF Next

\* The strengthening is an invariant.
LEMMA Invariance == Spec => []IInv
  BY InitIInv, StepIInv, PTL DEF Spec

-----------------------------------------------------------------------------
\* A step of the system leaves the table and its history alone or is the commit of a handler.
LEMMA Steps ==
    ASSUME IInv, [Next]_vars
    PROVE  \/ UNCHANGED <<row, history>>
           \/ \E r \in Requests : Handler(r) /\ \E to : Commit(r, to) /\ Turned(r, to)
<1>1. CASE UNCHANGED vars
  BY <1>1 DEF vars
<1>2. ASSUME NEW s \in Rows, StripeMoves(s) PROVE UNCHANGED <<row, history>>
  BY <1>2 DEF StripeMoves
<1>3. ASSUME NEW r \in Requests, Handler(r)
      PROVE  UNCHANGED <<row, history>> \/ \E to : Commit(r, to) /\ Turned(r, to)
  BY <1>3, HandlerCommits DEF IInv
<1> QED
  BY <1>1, <1>2, <1>3 DEF Next

\* What is true of a commit: the session holds the row, has not written before, and the row
\* is as it was loaded unless others have written it.
LEMMA CommitFacts ==
    ASSUME IInv, NEW r \in Requests, NEW to, Commit(r, to), Turned(r, to)
    PROVE  /\ target[r] \in Rows /\ target[r] \in DOMAIN copy[r]
           /\ IsRow(Loaded(r)) /\ IsRow(to) /\ IsRow(row[target[r]])
           /\ r \notin moved /\ r \notin raced /\ pc'[r] # pc[r]
           /\ target[r] \notin stale[r] => Loaded(r) = row[target[r]]
           /\ \A s \in Rows \ {target[r]} : row'[s] = row[s]
           /\ \A f \in {"status", "active", "auto", "due"} :
                 row'[target[r]][f] = IF to[f] # Loaded(r)[f] THEN to[f] ELSE row[target[r]][f]
           /\ raced' = raced \cup (IF target[r] \in stale[r] THEN {r} ELSE {})
           /\ moved' = moved \cup (IF to.due # Loaded(r).due THEN {r} ELSE {})
<1>1. TypeOK /\ Own(r) /\ Fresh(r)
  BY DEF IInv
<1>2. pc[r] \notin {"load", "done", "grant"} /\ IsRow(to)
  BY <1>1 DEF Turned, Own
<1>3. target[r] \in Rows /\ target[r] \in DOMAIN copy[r] /\ IsRow(Loaded(r))
  BY <1>1, <1>2, LoadedRow
<1>4. r \notin moved /\ r \notin raced
  BY <1>1, <1>2 DEF Own
<1>5. target[r] \notin stale[r] => Loaded(r) = row[target[r]]
  BY <1>1, <1>2, <1>3 DEF Fresh, Loaded
<1>6. IsRow(row[target[r]])
  BY <1>1, <1>3 DEF TypeOK
<1>7. pc'[r] # pc[r]
  BY <1>2 DEF Turned
<1> QED
  BY <1>1, <1>2, <1>3, <1>4, <1>5, <1>6, <1>7, CommitLeaves

\* The operations never change, and a request that has written keeps the row it worked on.
LEMMA TargetStays ==
    ASSUME IInv, [Next]_vars
    PROVE  /\ op' = op
           /\ \A q \in Requests : pc[q] \in {"grant", "done"} => target'[q] = target[q]
           /\ \A q \in Requests : pc[q] = "done" => pc'[q] = pc[q] /\ answer'[q] = answer[q]
<1>1. CASE UNCHANGED vars
  BY <1>1 DEF vars, session
<1>2. ASSUME NEW s \in Rows, StripeMoves(s) PROVE UNCHANGED <<op, target, pc, answer>>
  BY <1>2 DEF StripeMoves, session
<1>3. ASSUME NEW r \in Requests, Handler(r)
      PROVE  /\ op' = op
             /\ \A q \in Requests : pc[q] \in {"grant", "done"} => target'[q] = target[q]
             /\ \A q \in Requests : pc[q] = "done" => pc'[q] = pc[q] /\ answer'[q] = answer[q]
  <2>1. op' = op
    BY <1>3
    DEF Handler, Load, CheckRenewal, RefuseRenewal, AskAlive, EndUnpaid, MoveDate, Grant, SwitchOff,
        StoreSwitch, SetStatus, StoreEvent, Replace, ReplaceNothing, Retire, CheckCancel,
        RefuseCancel, StopInStripe, StoreCancel, PickLive, PickNone, AskEnding, StoreOver, Modify,
        PickBest, PickNoCandidate, AskStatus, StoreStatus, StoreStatusLost, Fail
  <2>2. pc[r] \in {"grant", "done"} => target' = target
    BY <1>3
    DEF Handler, Load, CheckRenewal, RefuseRenewal, AskAlive, EndUnpaid, MoveDate, Grant, SwitchOff,
        StoreSwitch, SetStatus, StoreEvent, Replace, ReplaceNothing, Retire, CheckCancel,
        RefuseCancel, StopInStripe, StoreCancel, PickLive, PickNone, AskEnding, StoreOver, Modify,
        PickBest, PickNoCandidate, AskStatus, StoreStatus, StoreStatusLost, Fail
  <2>3. pc[r] # "done"
    BY <1>3
    DEF Handler, Load, CheckRenewal, RefuseRenewal, AskAlive, EndUnpaid, MoveDate, Grant, SwitchOff,
        StoreSwitch, SetStatus, StoreEvent, Replace, ReplaceNothing, Retire, CheckCancel,
        RefuseCancel, StopInStripe, StoreCancel, PickLive, PickNone, AskEnding, StoreOver, Modify,
        PickBest, PickNoCandidate, AskStatus, StoreStatus, StoreStatusLost, Fail
  <2> QED
    BY <1>3, <2>1, <2>2, <2>3, OthersKeep
<1> QED
  BY <1>1, <1>2, <1>3 DEF Next

\* A session holds what it held before or has just loaded the table.
LEMMA CopiesFrom ==
    ASSUME IInv, [Next]_vars, NEW q \in Requests, NEW s \in DOMAIN copy'[q]
    PROVE  s \in Rows /\ (\/ s \in DOMAIN copy[q] /\ copy'[q][s] = copy[q][s]
                          \/ copy'[q][s] = row[s])
<1>1. s \in Rows
  BY StepIInv DEF IInv, TypeOK
<1>2. CASE copy' = copy
  BY <1>1, <1>2
<1>3. ASSUME NEW r \in Requests, Handler(r)
      PROVE  \/ s \in DOMAIN copy[q] /\ copy'[q][s] = copy[q][s]
             \/ copy'[q][s] = row[s]
  <2>1. CASE q # r
    BY <1>3, <2>1, OthersKeep
  <2>2. CASE q = r /\ Load(r)
    <3>1. copy'[r] = IF op[r] \in ByUser \cup {"cancel"} THEN row ELSE [t \in {target[r]} |-> row[t]]
      BY <2>2 DEF Load, IInv
    <3>2. \A t \in DOMAIN copy'[r] : copy'[r][t] = row[t]
      BY <3>1
    <3> QED
      BY <2>2, <3>2
  <2>3. CASE q = r /\ ~Load(r)
    <3>1. copy'[r] = copy[r] \/ copy'[r] = << >>
      BY <1>3, <2>3
      DEF IInv, Finish, Handler, Load, CheckRenewal, RefuseRenewal, AskAlive, EndUnpaid, MoveDate,
          Grant, SwitchOff, StoreSwitch, SetStatus, StoreEvent, Replace, ReplaceNothing, Retire,
          CheckCancel, RefuseCancel, StopInStripe, StoreCancel, PickLive, PickNone, AskEnding,
          StoreOver, Modify, PickBest, PickNoCandidate, AskStatus, StoreStatus,
          StoreStatusLost, Fail
    <3> QED
      BY <2>3, <3>1, EmptyDomain
  <2> QED
    BY <2>1, <2>2, <2>3
<1>4. copy' = copy \/ \E r \in Requests : Handler(r)
  BY DEF vars, session, Next, StripeMoves
<1> QED
  BY <1>1, <1>2, <1>3, <1>4
-----------------------------------------------------------------------------
\* Every reachable state has its type.
THEOREM TypeCorrect == Spec => []TypeOK
<1>1. IInv => TypeOK
  BY DEF IInv
<1> QED
  BY <1>1, Invariance, PTL

\* A row that has ended is made active by a status update alone.
THEOREM EndedUnlessUpdated == Spec => RevivedByStatusUpdateOnly
<1> DEFINE Revived ==
       \A s \in Rows :
          ~row[s].active /\ row'[s].active =>
              \E r \in Requests : op[r] = "setStatus" /\ target[r] = s /\ pc[r] # pc'[r]
<1>1. ASSUME IInv, [Next]_vars PROVE Revived
  <2>1. ASSUME NEW s \in Rows, ~row[s].active, row'[s].active
        PROVE  \E r \in Requests : op[r] = "setStatus" /\ target[r] = s /\ pc[r] # pc'[r]
    <3>1. PICK r \in Requests : Handler(r) /\ \E to : Commit(r, to) /\ Turned(r, to)
      BY <1>1, <2>1, Steps
    <3>2. PICK to : Commit(r, to) /\ Turned(r, to)
      BY <3>1
    <3>5. target[r] = s
      <4>1. row'[s] # row[s]
        BY <2>1
      <4> QED
        BY <1>1, <3>2, <4>1, CommitFacts
    <3>3. pc'[r] # pc[r] /\ IsRow(Loaded(r)) /\ IsRow(to)
          /\ row'[s].active = IF to.active # Loaded(r).active THEN to.active ELSE row[s].active
      BY <1>1, <3>2, <3>5, CommitFacts
    <3>4. to.active /\ ~Loaded(r).active
      BY <2>1, <3>3 DEF IsRow
    <3> QED
      BY <3>2, <3>3, <3>4, <3>5 DEF Turned
  <2> QED
    BY <2>1
<1> QED
  BY <1>1, Invariance, PTL DEF Spec, RevivedByStatusUpdateOnly

\* A row that has ended is renewed only when it ended while the renewal was under way.
THEOREM RenewedAliveUnlessRaced == Spec => EndedRowRenewedOnlyByRace
<1> DEFINE Raced ==
       \A s \in Rows :
          ~row[s].active /\ row'[s].due # row[s].due =>
              \E r \in Requests : r \in moved' \ moved /\ target[r] = s /\ s \in stale[r]
<1>1. ASSUME IInv, [Next]_vars PROVE Raced
  <2>1. ASSUME NEW s \in Rows, ~row[s].active, row'[s].due # row[s].due
        PROVE  \E r \in Requests : r \in moved' \ moved /\ target[r] = s /\ s \in stale[r]
    <3>1. PICK r \in Requests : Handler(r) /\ \E to : Commit(r, to) /\ Turned(r, to)
      BY <1>1, <2>1, Steps
    <3>2. PICK to : Commit(r, to) /\ Turned(r, to)
      BY <3>1
    <3>3. /\ target[r] = s /\ r \notin moved
          /\ row'[s].due = IF to.due # Loaded(r).due THEN to.due ELSE row[s].due
          /\ moved' = moved \cup (IF to.due # Loaded(r).due THEN {r} ELSE {})
          /\ s \notin stale[r] => Loaded(r) = row[s]
      BY <1>1, <2>1, <3>2, CommitFacts
    <3>4. to.due # Loaded(r).due
      BY <2>1, <3>3
    <3>5. op[r] = "renew" /\ pc[r] = "write"
      BY <3>2, <3>4 DEF Turned
    <3>6. Loaded(r).active
      BY <1>1, <3>5 DEF IInv, Own
    <3> QED
      BY <2>1, <3>3, <3>4, <3>6
  <2> QED
    BY <2>1
<1> QED
  BY <1>1, Invariance, PTL DEF Spec, EndedRowRenewedOnlyByRace

\* What a status read shows is what the row holds, or a word for what it holds, unless another
\* operation has written the row or the COMMIT of the read failed.
THEOREM ShownStored == Spec => ShownIsStored
<1> DEFINE Right ==
       \A r \in Requests :
          LET kept == row'[target[r]].status
          IN  op[r] = "sync" /\ heard'[r] # "nothing" /\ answer[r] = "none" /\ answer'[r] = "ok" =>
                  \/ target[r] \in stale[r]
                  \/ /\ kept = heard'[r]
                     /\ kept = Shown(heard'[r]) \/ kept \notin SubscriptionStatusEnum
<1>1. ASSUME IInv, [Next]_vars PROVE Right
  <2>1. ASSUME NEW r \in Requests, op[r] = "sync", heard'[r] # "nothing", answer[r] = "none",
               answer'[r] = "ok", target[r] \notin stale[r]
        PROVE  row'[target[r]].status = heard'[r]
    <3>1. Handler(r)
      <4>1. answer' # answer
        BY <2>1
      <4>2. PICK q \in Requests : Handler(q)
        BY <1>1, <4>1 DEF vars, session, Next, StripeMoves
      <4> QED
        BY <1>1, <2>1, <4>2, OthersKeep
    <3>2. TypeOK /\ Own(r) /\ Fresh(r)
      BY <1>1 DEF IInv
    <3>3. PickNoCandidate(r) \/ AskStatus(r) \/ StoreStatus(r)
      BY <2>1, <3>1, <3>2
      DEF TypeOK, Finish, Own, Handler, Load, CheckRenewal, RefuseRenewal, AskAlive, EndUnpaid,
          MoveDate, Grant, SwitchOff, StoreSwitch, SetStatus, StoreEvent, Replace, ReplaceNothing,
          Retire, CheckCancel, RefuseCancel, StopInStripe, StoreCancel, PickLive, PickNone,
          AskEnding, StoreOver, Modify, PickBest, PickNoCandidate, AskStatus, StoreStatus,
          StoreStatusLost, Fail
    <3>4. ~PickNoCandidate(r)
      BY <2>1, <3>2 DEF PickNoCandidate, Own
    <3>5. pc[r] \in {"ask", "write"}
      BY <3>3, <3>4 DEF AskStatus, StoreStatus
    <3>6. target[r] \in Rows /\ IsRow(Loaded(r)) /\ Loaded(r) = row[target[r]]
      BY <2>1, <3>2, <3>5, LoadedRow DEF Fresh, Loaded
    <3>7. CASE AskStatus(r)
      <4>1. row' = row
        BY <3>7 DEF AskStatus
      <4>2. heard'[r] = Loaded(r).status
        BY <2>1, <3>2, <3>7 DEF AskStatus, Hear, TypeOK
      <4> QED
        BY <3>6, <4>1, <4>2
    <3>8. CASE StoreStatus(r)
      <4> DEFINE to == [Loaded(r) EXCEPT !.status = heard[r],
                                         !.active = IF heard[r] = "active" THEN @ ELSE FALSE]
      <4>1. Commit(r, to) /\ heard' = heard /\ pc[r] = "write"
        BY <3>8 DEF StoreStatus
      <4>2. heard[r] \in StripeStatuses
        BY <2>1, <3>2, <4>1 DEF Own
      <4>3. IsRow(to) /\ to.status = heard[r]
        BY <3>6, <4>2 DEF IsRow, Statuses
      <4> HIDE DEF to
      <4>4. row'[target[r]].status = IF to.status # Loaded(r).status THEN to.status ELSE row[target[r]].status
        BY <3>2, <3>6, <4>1, <4>3, CommitLeaves
      <4> QED
        BY <3>6, <4>1, <4>3, <4>4
    <3> QED
      BY <3>3, <3>4, <3>7, <3>8
  <2> QED
    BY <2>1 DEF Shown
<1> QED
  BY <1>1, Invariance, PTL DEF Spec, ShownIsStored

\* Who was told that his subscription ends is right: Stripe never takes an end back.
THEOREM EndingAsTold == Spec => []EndingIsTrue
<1>1. Init => EndingIsTrue
  BY DEF Init, EndingIsTrue
<1>2. ASSUME IInv, EndingIsTrue, [Next]_vars PROVE EndingIsTrue'
  <2>1. \A s \in Rows : Current(s) = "canceled" => Current(s)' = "canceled"
    <3>1. \/ log' = log
          \/ \E s \in Rows, x \in StripeStatuses :
                /\ log' = [log EXCEPT ![s] = Append(@, x)]
                /\ Current(s) # "canceled" \/ x = "canceled"
      <4>1. ASSUME NEW r \in Requests, Handler(r)
            PROVE  log' = log \/ log' = [log EXCEPT ![target[r]] = Append(@, "canceled")]
        BY <4>1
        DEF stripe, Handler, Load, CheckRenewal, RefuseRenewal, AskAlive, EndUnpaid, MoveDate,
            Grant, SwitchOff, StoreSwitch, SetStatus, StoreEvent, Replace, ReplaceNothing, Retire,
            CheckCancel, RefuseCancel, StopInStripe, StoreCancel, PickLive, PickNone, AskEnding,
            StoreOver, Modify, PickBest, PickNoCandidate, AskStatus, StoreStatus,
            StoreStatusLost, Fail
      <4>2. \A r \in Requests : target[r] \in Rows /\ "canceled" \in StripeStatuses
        BY <1>2 DEF IInv, TypeOK, StripeStatuses
      <4>3. ASSUME NEW s \in Rows, StripeMoves(s)
            PROVE  \E x \in StripeStatuses :
                      log' = [log EXCEPT ![s] = Append(@, x)] /\ Current(s) # "canceled"
        BY <4>3 DEF StripeMoves
      <4> QED
        BY <1>2, <4>1, <4>2, <4>3 DEF Next, vars, stripe
    <3>2. CASE log' = log
      BY <3>2 DEF Current
    <3>3. ASSUME NEW s \in Rows, NEW x \in StripeStatuses, log' = [log EXCEPT ![s] = Append(@, x)],
                 Current(s) # "canceled" \/ x = "canceled"
          PROVE  \A t \in Rows : Current(t) = "canceled" => Current(t)' = "canceled"
      <4>1. Current(s)' = x /\ \A t \in Rows \ {s} : Current(t)' = Current(t)
        BY <1>2, <3>3, LogGrows DEF IInv
      <4> QED
        BY <3>3, <4>1
    <3> QED
      BY <3>1, <3>2, <3>3
  <2>2. atEnd \subseteq atEnd'
    BY <1>2
    DEF Next, vars, stripe, StripeMoves, Handler, Load, CheckRenewal, RefuseRenewal, AskAlive,
        EndUnpaid, MoveDate, Grant, SwitchOff, StoreSwitch, SetStatus, StoreEvent, Replace,
        ReplaceNothing, Retire, CheckCancel, RefuseCancel, StopInStripe, StoreCancel, PickLive,
        PickNone, AskEnding, StoreOver, Modify, PickBest, PickNoCandidate, AskStatus, StoreStatus,
        StoreStatusLost,
        Fail
  <2>3. op' = op
    BY <1>2, TargetStays
  <2>4. ASSUME NEW q \in Requests, op[q] = "cancelMe", answer'[q] = "ok"
        PROVE  target'[q] \in atEnd' \/ Current(target[q])' = "canceled"
    <3>1. CASE answer[q] = "ok"
      <4>1. pc[q] = "done" /\ target[q] \in Rows
        BY <1>2, <3>1 DEF IInv, Own, TypeOK
      <4>2. target'[q] = target[q]
        BY <1>2, <4>1, TargetStays
      <4>3. target[q] \in atEnd \/ Current(target[q]) = "canceled"
        BY <2>4, <3>1, <1>2 DEF EndingIsTrue
      <4>4. PICK s \in Rows : s = target[q] /\ s = target'[q]
        BY <4>1, <4>2
      <4>5. s \in atEnd \/ Current(s) = "canceled"
        BY <4>3, <4>4
      <4>6. s \in atEnd' \/ Current(s)' = "canceled"
        BY <2>1, <2>2, <4>5
      <4> QED
        BY <4>4, <4>6 DEF Current
    <3>2. CASE answer[q] # "ok"
      <4>1. answer' # answer
        BY <2>4, <3>2
      <4>2. PICK r \in Requests : Handler(r)
        BY <1>2, <4>1 DEF Next, vars, session, StripeMoves
      <4>3. r = q
        BY <1>2, <2>4, <3>2, <4>2, OthersKeep
      <4>4. Own(q) /\ answer \in [Requests -> Answers]
        BY <1>2 DEF IInv, TypeOK
      <4>5. AskEnding(q) \/ Modify(q)
        BY <2>4, <3>2, <4>2, <4>3, <4>4
        DEF Finish, Own, Handler, Load, CheckRenewal, RefuseRenewal, AskAlive, EndUnpaid, MoveDate,
            Grant, SwitchOff, StoreSwitch, SetStatus, StoreEvent, Replace, ReplaceNothing, Retire,
            CheckCancel, RefuseCancel, StopInStripe, StoreCancel, PickLive, PickNone, AskEnding,
            StoreOver, Modify, PickBest, PickNoCandidate, AskStatus, StoreStatus,
            StoreStatusLost, Fail
      <4>6. target[q] \in atEnd' /\ target' = target
        BY <4>5, <2>4, <3>2 DEF AskEnding, Modify, stripe
      <4> QED
        BY <4>6
    <3> QED
      BY <3>1, <3>2
  <2> QED
    BY <2>3, <2>4 DEF EndingIsTrue
<1> QED
  BY <1>1, <1>2, Invariance, PTL DEF Spec

\* What happens to the cancelled rows, whoever writes them: all but one of the cancellations
\* overlapped another operation, and the row stays ended.
THEOREM OneCancellation == Spec => []CancelledOnce
<1>1. Init => CancelledOnce
  <2> SUFFICES ASSUME Init PROVE CancelledOnce
    OBVIOUS
  <2>1. \A s \in Rows : cancelled[s] = {} /\ cancelled[s] \ raced = {}
    BY DEF Init
  <2> QED
    BY <2>1, FS_EmptySet DEF CancelledOnce
<1>2. ASSUME IInv, CancelledOnce, [Next]_vars PROVE CancelledOnce'
  <2>1. CASE UNCHANGED <<row, history>>
    BY <1>2, <2>1 DEF CancelledOnce, history
  <2>2. ASSUME NEW r \in Requests, NEW to, Commit(r, to), Turned(r, to) PROVE CancelledOnce'
    <3> DEFINE t == target[r]
    <3>1. /\ t \in Rows /\ IsRow(Loaded(r)) /\ IsRow(to) /\ IsRow(row[t])
          /\ t \notin stale[r] => Loaded(r) = row[t]
          /\ \A s \in Rows \ {t} : row'[s] = row[s]
          /\ raced' = raced \cup (IF t \in stale[r] THEN {r} ELSE {})
      BY <1>2, <2>2, CommitFacts
    <3>2. row'[t].active = IF to.active # Loaded(r).active THEN to.active ELSE row[t].active
      BY <1>2, <2>2, CommitFacts
    <3>3. Flush(t, Loaded(r), to).active = row'[t].active
      <4>1. row' = [row EXCEPT ![t] = Flush(t, Loaded(r), to)]
        BY <2>2 DEF Commit
      <4> QED
        BY <1>2, <3>1, <4>1 DEF IInv, TypeOK
    <3>4. /\ cancelled'[t] = IF ~row[t].active /\ row'[t].active THEN {}
                             ELSE IF op[r] = "cancel" THEN cancelled[t] \cup {r} ELSE cancelled[t]
          /\ \A s \in Rows \ {t} : cancelled'[s] = cancelled[s]
      <4>1. cancelled' = [cancelled EXCEPT ![t] =
               IF ~row[t].active /\ row'[t].active THEN {}
               ELSE IF op[r] = "cancel" THEN @ \cup {r} ELSE @]
        BY <2>2, <3>3 DEF Commit
      <4> QED
        BY <1>2, <3>1, <4>1 DEF IInv, TypeOK
    <3>5. op[r] = "cancel" => ~row'[t].active /\ Loaded(r).active
      BY <2>2, <3>2 DEF Turned
    <3>6. \A s \in Rows : cancelled[s] # {} => ~row[s].active
      BY <1>2 DEF CancelledOnce
    <3>7. \A s \in Rows : cancelled'[s] # {} => ~row'[s].active
      BY <3>1, <3>4, <3>5, <3>6
    <3>8. ASSUME NEW s \in Rows PROVE Cardinality(cancelled'[s] \ raced') <= 1
      <4>1. IsFiniteSet(cancelled[s] \ raced) /\ Cardinality(cancelled[s] \ raced) <= 1
        <5>1. cancelled[s] \subseteq Requests
          BY <1>2 DEF IInv, TypeOK
        <5>2. IsFiniteSet(cancelled[s] \ raced)
          BY <5>1, SubscriptionsAssumption, FS_Subset
        <5> QED
          BY <1>2, <5>2 DEF CancelledOnce
      <4>2. CASE cancelled'[s] \ raced' \subseteq cancelled[s] \ raced
        <5>1. Cardinality(cancelled'[s] \ raced') <= Cardinality(cancelled[s] \ raced)
          BY <4>1, <4>2, FS_Subset
        <5>2. Cardinality(cancelled'[s] \ raced') \in Nat /\ Cardinality(cancelled[s] \ raced) \in Nat
          BY <4>1, <4>2, FS_Subset, FS_CardinalityType
        <5> QED
          BY <4>1, <5>1, <5>2
      <4>3. CASE s = t /\ op[r] = "cancel" /\ t \notin stale[r]
        <5>1. cancelled[t] = {}
          BY <3>1, <3>5, <3>6, <4>3
        <5>2. cancelled'[s] \ raced' \subseteq {r}
          BY <3>4, <4>3, <5>1
        <5>3. IsFiniteSet({r}) /\ Cardinality({r}) = 1
          BY FS_Singleton
        <5>4. Cardinality(cancelled'[s] \ raced') <= 1
          BY <5>2, <5>3, FS_Subset
        <5> QED
          BY <5>4
      <4> QED
        BY <3>1, <3>4, <4>2, <4>3
    <3> QED
      BY <3>7, <3>8 DEF CancelledOnce
  <2> QED
    BY <1>2, <2>1, <2>2, Steps
<1> QED
  BY <1>1, <1>2, Invariance, PTL DEF Spec

\* A row cancelled by its status and active by its flag was written by an operation that
\* leaves the flag alone, or over a stale copy.
THEOREM FlagAndStatus == Spec => []DeadButActive
<1>1. Init => DeadButActive
  BY DEF Init, DeadButActive
<1>2. ASSUME IInv, DeadButActive, [Next]_vars PROVE DeadButActive'
  <2>1. op' = op /\ \A q \in raced : target'[q] = target[q]
    BY <1>2, TargetStays DEF IInv, Own, TypeOK
  <2>2. CASE UNCHANGED <<row, history>>
    BY <1>2, <2>1, <2>2 DEF DeadButActive, history
  <2>3. ASSUME NEW r \in Requests, NEW to, Commit(r, to), Turned(r, to) PROVE DeadButActive'
    <3> DEFINE t == target[r]
    <3>1. /\ t \in Rows /\ IsRow(Loaded(r)) /\ IsRow(to) /\ IsRow(row[t])
          /\ t \notin stale[r] => Loaded(r) = row[t]
          /\ \A s \in Rows \ {t} : row'[s] = row[s]
          /\ raced' = raced \cup (IF t \in stale[r] THEN {r} ELSE {})
      BY <1>2, <2>3, CommitFacts
    <3>2. row'[t].active = IF to.active # Loaded(r).active THEN to.active ELSE row[t].active
      BY <1>2, <2>3, CommitFacts
    <3>3. row'[t].status = IF to.status # Loaded(r).status THEN to.status ELSE row[t].status
      BY <1>2, <2>3, CommitFacts
    <3>4. /\ writer'[t] = IF to.status # Loaded(r).status THEN r ELSE writer[t]
          /\ \A s \in Rows \ {t} : writer'[s] = writer[s]
      BY <1>2, <2>3, <3>1 DEF Commit, IInv, TypeOK
    <3>5. ASSUME NEW s \in Rows, row'[s].status = "canceled", row'[s].active
          PROVE  \/ writer'[s] = NoRequest
                 \/ op[writer'[s]] \in {"event", "cancelMe"}
                 \/ \E q \in raced' : target'[q] = s
      <4>1. CASE s # t
        <5>1. row'[s] = row[s] /\ writer'[s] = writer[s]
          BY <3>1, <3>4, <4>1
        <5>2. \/ writer[s] = NoRequest \/ op[writer[s]] \in {"event", "cancelMe"}
              \/ \E q \in raced : target[q] = s
          BY <1>2, <3>5, <5>1 DEF DeadButActive
        <5> QED
          BY <2>1, <3>1, <5>1, <5>2
      <4>2. CASE s = t /\ t \in stale[r]
        BY <2>3, <3>1, <4>2 DEF Turned
      <4>3. CASE s = t /\ t \notin stale[r]
        <5>1. Loaded(r) = row[t] /\ to.status = "canceled" /\ to.active
          BY <3>1, <3>2, <3>3, <3>5, <4>3
        <5>2. \/ row[t].status = "canceled" /\ row[t].active
              \/ op[r] \in {"event", "cancelMe"}
          BY <2>3, <5>1 DEF Turned
        <5>3. CASE to.status # Loaded(r).status
          BY <3>4, <4>3, <5>1, <5>2, <5>3
        <5>4. CASE to.status = Loaded(r).status /\ row[t].active
          <6>1. \/ writer[t] = NoRequest \/ op[writer[t]] \in {"event", "cancelMe"}
                \/ \E q \in raced : target[q] = t
            BY <1>2, <3>1, <5>1, <5>4 DEF DeadButActive
          <6> QED
            BY <2>1, <3>1, <3>4, <4>3, <5>4, <6>1
        <5>5. CASE to.status = Loaded(r).status /\ ~row[t].active
          <6>1. op[r] = "setStatus"
            BY <2>3, <5>1, <5>5 DEF Turned
          <6> QED
            BY <5>2, <5>5, <6>1
        <5> QED
          BY <5>3, <5>4, <5>5
      <4> QED
        BY <4>1, <4>2, <4>3
    <3> QED
      BY <2>1, <3>5 DEF DeadButActive
  <2> QED
    BY <1>2, <2>2, <2>3, Steps
<1> QED
  BY <1>1, <1>2, Invariance, PTL DEF Spec

-----------------------------------------------------------------------------
\* All dates there are have come from First by renewals.
Dated ==
    /\ \A s \in Rows : Dropped(row[s].due)
    /\ \A q \in Requests : \A s \in DOMAIN copy[q] : Dropped(copy[q][s].due)

\* Dates only come from dates, by renewals.
LEMMA DatedInvariant == Spec => []Dated
<1>1. ASSUME Init PROVE Dated
  <2>1. Dropped(First)
    <3>1. Index(First) \in Nat /\ First.day \in Nat /\ IsDate(First)
      BY SubscriptionsAssumption, IndexMonth DEF IsDate
    <3>2. (Index(First) + 1)..Index(First) = {}
      BY <3>1
    <3> QED
      BY <3>1, <3>2 DEF Dropped
  <2>2. \A s \in Rows : row[s].due = First
    BY <1>1 DEF Init
  <2>3. \A q \in Requests : copy[q] = << >>
    BY <1>1 DEF Init
  <2> QED
    BY <2>1, <2>2, <2>3, EmptyDomain DEF Dated
<1>2. ASSUME IInv, Dated, [Next]_vars PROVE Dated'
  <2>1. \A q \in Requests : \A s \in DOMAIN copy'[q] : Dropped(copy'[q][s].due)
    BY <1>2, CopiesFrom DEF Dated
  <2>2. CASE UNCHANGED <<row, history>>
    BY <1>2, <2>1, <2>2 DEF Dated, Dropped
  <2>3. ASSUME NEW r \in Requests, NEW to, Commit(r, to), Turned(r, to) PROVE Dated'
    <3> DEFINE t == target[r]
    <3>1. /\ t \in Rows /\ t \in DOMAIN copy[r]
          /\ \A s \in Rows \ {t} : row'[s] = row[s]
          /\ row'[t].due = IF to.due # Loaded(r).due THEN to.due ELSE row[t].due
      BY <1>2, <2>3, CommitFacts
    <3>2. to.due = Loaded(r).due \/ to.due = NextRenewal(Loaded(r).due)
      BY <2>3 DEF Turned
    <3>3. Dropped(Loaded(r).due)
      BY <1>2, <3>1 DEF Dated, Loaded
    <3>4. Dropped(NextRenewal(Loaded(r).due))
      BY <3>3, RenewalDrops, SubscriptionsAssumption
    <3>5. \A s \in Rows : Dropped(row'[s].due)
      BY <1>2, <3>1, <3>2, <3>4 DEF Dated
    <3> QED
      BY <2>1, <3>5 DEF Dated, Dropped
  <2> QED
    BY <1>2, <2>2, <2>3, Steps
<1> QED
  BY <1>1, <1>2, Invariance, PTL DEF Spec

\* The day of a renewal date has dropped to the shortest month on its way.
THEOREM DayDropsOnly == Spec => []DayOnlyDrops
<1>1. Dated => DayOnlyDrops
  BY DroppedDay, SubscriptionsAssumption DEF Dated, DayOnlyDrops
<1> QED
  BY <1>1, DatedInvariant, PTL

\* A row, and a copy whose session has not written it, is no more renewals ahead than committed.
Counted ==
    /\ RenewalsCounted
    /\ \A q \in Requests : pc[q] # "grant" =>
          \A s \in DOMAIN copy[q] :
             Index(copy[q][s].due) - Index(First) <= Cardinality(Renewals(s))

\* A commit moves the date of a row one renewal on from what the session holds, which is no more
\* than have been committed.
LEMMA CountedInvariant == Spec => []Counted
<1>1. ASSUME Init PROVE Counted
  <2>1. moved = {} /\ granted = {} /\ \A q \in Requests : copy[q] = << >>
    BY <1>1 DEF Init
  <2>2. \A s \in Rows : row[s].due = First
    BY <1>1 DEF Init
  <2>3. Index(First) \in Nat
    BY SubscriptionsAssumption, IndexMonth
  <2>4. \A s \in Rows : Renewals(s) = {} /\ Cardinality(Renewals(s)) = 0 /\ Moves(s) = 0
    BY <2>1, <2>2, <2>3, FS_EmptySet DEF Renewals, Moves
  <2>5. RenewalsCounted
    BY <2>1, <2>4 DEF RenewalsCounted
  <2> QED
    BY <2>1, <2>5, EmptyDomain DEF Counted
<1>2. ASSUME IInv, IInv', Counted, [Next]_vars PROVE Counted'
  <2>1. /\ op' = op
        /\ \A q \in moved : target'[q] = target[q]
        /\ moved \subseteq Requests /\ moved' \subseteq Requests
    BY <1>2, TargetStays DEF IInv, Own, TypeOK
  <2>2. \A s \in Rows : IsFiniteSet(Renewals(s)) /\ Cardinality(Renewals(s)) \in Nat
    <3>1. \A s \in Rows : Renewals(s) \subseteq Requests
      BY <2>1 DEF Renewals
    <3> QED
      BY <3>1, SubscriptionsAssumption, FS_Subset, FS_CardinalityType
  <2>3. /\ Index(First) \in Nat
        /\ \A s \in Rows : Index(row[s].due) \in Nat
        /\ \A q \in Requests : \A s \in DOMAIN copy[q] : s \in Rows /\ Index(copy[q][s].due) \in Nat
    BY <1>2, SubscriptionsAssumption, IndexMonth DEF IInv, TypeOK, IsRow
  \* Granting follows moving.
  <2>4. granted' \subseteq moved' /\ \A q \in moved' \ granted' : pc'[q] = "grant" \/ answer'[q] = "error"
    <3>1. granted \subseteq moved /\ \A q \in moved \ granted : pc[q] = "grant" \/ answer[q] = "error"
      BY <1>2 DEF Counted, RenewalsCounted
    <3>2. CASE UNCHANGED <<granted, moved, pc, answer>>
      BY <3>1, <3>2
    <3>3. ASSUME NEW r \in Requests, Handler(r)
          PROVE  granted' \subseteq moved' /\ \A q \in moved' \ granted' : pc'[q] = "grant" \/ answer'[q] = "error"
      <4>1. Own(r) /\ TypeOK
        BY <1>2 DEF IInv
      <4>2. granted' = granted \/ (granted' = granted \cup {r} /\ pc[r] = "grant")
        BY <3>3
        DEF Handler, Load, CheckRenewal, RefuseRenewal, AskAlive, EndUnpaid, MoveDate, Grant,
            SwitchOff, StoreSwitch, SetStatus, StoreEvent, Replace, ReplaceNothing, Retire,
            CheckCancel, RefuseCancel, StopInStripe, StoreCancel, PickLive, PickNone, AskEnding,
            StoreOver, Modify, PickBest, PickNoCandidate, AskStatus, StoreStatus,
            StoreStatusLost, Fail
      <4>3. moved \subseteq moved' /\ moved' \subseteq moved \cup {r}
        BY <1>2, <3>3, TableType
      <4>4. granted' \subseteq moved'
        BY <3>1, <4>1, <4>2, <4>3 DEF Own
      <4>5. granted \subseteq granted'
        BY <4>2
      <4>6. \A q \in moved' \ granted' : q # r => pc'[q] = "grant" \/ answer'[q] = "error"
        BY <1>2, <2>1, <3>1, <3>3, <4>3, <4>5, OthersKeep
      <4>7. r \in moved' \ granted' => pc'[r] = "grant" \/ answer'[r] = "error"
        <5>1. CASE pc[r] = "grant"
          <6>1. Grant(r) \/ Fail(r)
            BY <3>3, <5>1
            DEF Handler, Load, CheckRenewal, RefuseRenewal, AskAlive, EndUnpaid, MoveDate, Grant,
                SwitchOff, StoreSwitch, SetStatus, StoreEvent, Replace, ReplaceNothing, Retire,
                CheckCancel, RefuseCancel, StopInStripe, StoreCancel, PickLive, PickNone, AskEnding,
                StoreOver, Modify, PickBest, PickNoCandidate, AskStatus, StoreStatus,
                StoreStatusLost, Fail
          <6>2. CASE Grant(r)
            BY <6>2 DEF Grant
          <6>3. CASE Fail(r)
            BY <4>1, <6>3 DEF Fail, Finish, TypeOK
          <6> QED
            BY <6>1, <6>2, <6>3
        <5>2. CASE pc[r] # "grant" /\ r \in moved
          <6>1. pc[r] = "done"
            BY <4>1, <5>2 DEF Own
          <6> QED
            BY <3>3, <6>1
            DEF Handler, Load, CheckRenewal, RefuseRenewal, AskAlive, EndUnpaid, MoveDate, Grant,
                SwitchOff, StoreSwitch, SetStatus, StoreEvent, Replace, ReplaceNothing, Retire,
                CheckCancel, RefuseCancel, StopInStripe, StoreCancel, PickLive, PickNone, AskEnding,
                StoreOver, Modify, PickBest, PickNoCandidate, AskStatus, StoreStatus,
                StoreStatusLost, Fail
        <5>3. CASE r \notin moved /\ r \in moved'
          <6>1. PICK to : Commit(r, to) /\ Turned(r, to)
            BY <3>3, <4>1, <5>3, HandlerCommits DEF history
          <6>2. to.due # Loaded(r).due
            BY <1>2, <5>3, <6>1, CommitFacts
          <6> QED
            BY <6>1, <6>2 DEF Turned
        <5> QED
          BY <5>1, <5>2, <5>3
      <4> QED
        BY <4>4, <4>6, <4>7
    <3>4. UNCHANGED <<granted, moved, pc, answer>> \/ \E r \in Requests : Handler(r)
      BY <1>2 DEF Next, vars, session, history, StripeMoves
    <3> QED
      BY <3>2, <3>3, <3>4
  \* Dates follow renewals.
  <2> DEFINE Ahead(s) == Index(row[s].due) - Index(First)
             Number(s) == Cardinality(Renewals(s))
  <2>5. /\ \A s \in Rows : Ahead(s) <= Number(s) /\ (Renewals(s) \cap raced = {} => Ahead(s) = Number(s))
        /\ \A q \in Requests : pc[q] # "grant" =>
              \A s \in DOMAIN copy[q] : Index(copy[q][s].due) - Index(First) <= Number(s)
    BY <1>2 DEF Counted, RenewalsCounted, Moves
  <2>6. ASSUME \A s \in Rows : Number(s) <= Number(s)' /\ Number(s)' \in Nat
        PROVE  \A q \in Requests : pc'[q] # "grant" =>
                  \A s \in DOMAIN copy'[q] : Index(copy'[q][s].due) - Index(First) <= Number(s)'
    <3> SUFFICES ASSUME NEW q \in Requests, pc'[q] # "grant", NEW s \in DOMAIN copy'[q]
                 PROVE  Index(copy'[q][s].due) - Index(First) <= Number(s)'
      OBVIOUS
    <3>1. s \in Rows /\ (\/ s \in DOMAIN copy[q] /\ copy'[q][s] = copy[q][s]
                         \/ copy'[q][s] = row[s])
      BY <1>2, CopiesFrom
    <3>2. CASE copy'[q][s] = row[s]
      <4>1. Ahead(s) <= Number(s) /\ Ahead(s) \in Int /\ Number(s) \in Nat
        BY <2>2, <2>3, <2>5, <3>1
      <4>2. Number(s) <= Number(s)' /\ Number(s)' \in Nat
        BY <2>6, <3>1
      <4> HIDE DEF Number
      <4> QED
        BY <3>2, <4>1, <4>2
    <3>3. CASE s \in DOMAIN copy[q] /\ copy'[q][s] = copy[q][s]
      <4>1. pc[q] # "grant"
        <5>1. ASSUME pc[q] = "grant" PROVE FALSE
          <6>1. pc'[q] = "done"
            <7>1. PICK r \in Requests : Handler(r)
              BY <1>2, <5>1 DEF Next, vars, session, StripeMoves
            <7>2. r = q
              BY <1>2, <5>1, <7>1, OthersKeep
            <7>3. Grant(q) \/ Fail(q)
              BY <5>1, <7>1, <7>2
              DEF Handler, Load, CheckRenewal, RefuseRenewal, AskAlive, EndUnpaid, MoveDate, Grant,
                  SwitchOff, StoreSwitch, SetStatus, StoreEvent, Replace, ReplaceNothing, Retire,
                  CheckCancel, RefuseCancel, StopInStripe, StoreCancel, PickLive, PickNone,
                  AskEnding, StoreOver, Modify, PickBest, PickNoCandidate, AskStatus, StoreStatus,
                  StoreStatusLost,
                  Fail
            <7> QED
              BY <1>2, <7>3 DEF Grant, Fail, Finish, Goto, IInv, TypeOK
          <6>2. copy'[q] = << >>
            BY <1>2, <6>1 DEF IInv, Own
          <6> QED
            BY <6>2, EmptyDomain
        <5> QED
          BY <5>1
      <4>2. Index(copy[q][s].due) - Index(First) <= Number(s) /\ Index(copy[q][s].due) \in Nat /\ Number(s) \in Nat
        BY <2>2, <2>3, <2>5, <3>1, <3>3, <4>1
      <4>3. Number(s) <= Number(s)' /\ Number(s)' \in Nat
        BY <2>6, <3>1
      <4> HIDE DEF Number
      <4> QED
        BY <2>3, <3>3, <4>2, <4>3
    <3> QED
      BY <3>1, <3>2, <3>3
  <2>7. CASE UNCHANGED <<row, history>>
    <3>1. \A s \in Rows : Renewals(s)' = Renewals(s)
      BY <2>1, <2>7 DEF Renewals, history
    <3>2. \A s \in Rows : Number(s) = Number(s)' /\ Number(s)' \in Nat /\ Ahead(s)' = Ahead(s)
      BY <2>2, <2>7, <3>1
    <3>3. \A s \in Rows : Number(s) <= Number(s)' /\ Number(s)' \in Nat
      BY <3>2
    <3>4. \A s \in Rows : Ahead(s)' <= Number(s)' /\ (Renewals(s)' \cap raced' = {} => Ahead(s)' = Number(s)')
      BY <2>5, <2>7, <3>1, <3>2 DEF history
    <3> QED
      BY <2>4, <2>6, <3>3, <3>4 DEF Counted, RenewalsCounted, Moves
  <2>8. ASSUME NEW r \in Requests, NEW to, Commit(r, to), Turned(r, to) PROVE Counted'
    <3>0. PICK t \in Rows : t = target[r]
      BY <1>2, <2>8, CommitFacts
    <3>1. /\ t \in DOMAIN copy[r] /\ IsDate(Loaded(r).due) /\ r \notin moved /\ r \notin raced
          /\ t \notin stale[r] => Loaded(r) = row[t]
          /\ \A s \in Rows \ {t} : row'[s] = row[s]
          /\ row'[t].due = IF to.due # Loaded(r).due THEN to.due ELSE row[t].due
          /\ raced' = raced \cup (IF t \in stale[r] THEN {r} ELSE {})
          /\ moved' = moved \cup (IF to.due # Loaded(r).due THEN {r} ELSE {})
      BY <1>2, <2>8, <3>0, CommitFacts DEF IsRow
    <3>2. target' = target /\ pc[r] # "grant"
      BY <2>8 DEF Turned
    <3>3. CASE to.due = Loaded(r).due
      <4>1. moved' = moved /\ raced \subseteq raced' /\ raced' \subseteq raced \cup {r}
        BY <3>1, <3>3
      <4>2. \A s \in Rows : Renewals(s)' = Renewals(s) /\ row'[s].due = row[s].due
        BY <3>1, <3>2, <3>3, <4>1 DEF Renewals
      <4>3. \A s \in Rows : Number(s) = Number(s)' /\ Number(s)' \in Nat /\ Ahead(s)' = Ahead(s)
        BY <2>2, <4>2
      <4>4. \A s \in Rows : Number(s) <= Number(s)' /\ Number(s)' \in Nat
        BY <4>3
      <4>5. \A s \in Rows : Ahead(s)' <= Number(s)' /\ (Renewals(s)' \cap raced' = {} => Ahead(s)' = Number(s)')
        BY <2>5, <4>1, <4>2, <4>3
      <4> QED
        BY <2>4, <2>6, <4>4, <4>5 DEF Counted, RenewalsCounted, Moves
    <3>4. CASE to.due # Loaded(r).due
      <4>1. to.due = NextRenewal(Loaded(r).due)
        BY <2>8, <3>4 DEF Turned
      <4>2. Index(row'[t].due) = Index(Loaded(r).due) + 1
        BY <3>1, <3>4, <4>1, NextRenewalDate
      <4>3. Renewals(t)' = Renewals(t) \cup {r} /\ \A s \in Rows \ {t} : Renewals(s)' = Renewals(s)
        BY <2>1, <3>0, <3>1, <3>2, <3>4 DEF Renewals
      <4>4. r \notin Renewals(t)
        BY <3>1 DEF Renewals
      <4>5. Number(t)' = Number(t) + 1
        BY <2>2, <3>1, <4>3, <4>4, FS_AddElement
      <4>6. \A s \in Rows \ {t} : Number(s)' = Number(s) /\ Ahead(s)' = Ahead(s)
        BY <3>1, <4>3
      <4>7. \A s \in Rows : Number(s) \in Nat /\ Ahead(s) \in Int
        BY <2>2, <2>3
      <4>8. Index(Loaded(r).due) - Index(First) <= Number(t) /\ Index(Loaded(r).due) \in Nat
        BY <2>3, <2>5, <3>0, <3>1, <3>2 DEF Loaded
      <4>9. t \notin stale[r] => Index(Loaded(r).due) - Index(First) = Ahead(t)
        BY <3>1
      <4>10. Ahead(t)' = Index(Loaded(r).due) + 1 - Index(First)
        <5>1. Ahead(t)' = Index(row'[t].due) - Index(First)
          BY DEF Index
        <5> HIDE DEF Ahead
        <5> QED
          BY <2>3, <4>2, <4>8, <5>1
      <4>11. raced \subseteq raced' /\ (Renewals(t)' \cap raced' = {} => t \notin stale[r])
        BY <3>1, <4>3
      <4>12. Renewals(t)' \cap raced' = {} => Renewals(t) \cap raced = {}
        BY <4>3, <4>11
      <4>13. Renewals(t) \cap raced = {} => Ahead(t) = Number(t)
        BY <2>5, <3>1
      <4>14. \A s \in Rows \ {t} :
                Ahead(s) <= Number(s) /\ (Renewals(s)' \cap raced' = {} => Ahead(s) = Number(s))
        BY <2>5, <4>3, <4>11
      <4> HIDE DEF Number, Ahead
      <4>15. Number(t)' \in Nat /\ Number(t) <= Number(t)' /\ Ahead(t)' <= Number(t)'
        BY <2>3, <3>1, <4>5, <4>7, <4>8, <4>10
      <4>16. Renewals(t)' \cap raced' = {} => Ahead(t)' = Number(t)'
        BY <2>3, <3>1, <4>5, <4>7, <4>8, <4>9, <4>10, <4>11, <4>12, <4>13
      <4>17. \A s \in Rows : Number(s) <= Number(s)' /\ Number(s)' \in Nat
        BY <4>6, <4>7, <4>15
      <4>18. \A s \in Rows : Ahead(s)' <= Number(s)' /\ (Renewals(s)' \cap raced' = {} => Ahead(s)' = Number(s)')
        BY <4>6, <4>14, <4>15, <4>16
      <4> QED
        BY <2>4, <2>6, <4>17, <4>18 DEF Counted, RenewalsCounted, Moves, Number, Ahead
    <3> QED
      BY <3>3, <3>4
  <2> QED
    BY <1>2, <2>7, <2>8, Steps
<1> QED
  BY <1>1, <1>2, Invariance, PTL DEF Spec

\* Renewal dates and renewals keep step, and a renewal that moved a date is paid or reported.
THEOREM RenewalsAndCredits == Spec => []RenewalsCounted
<1>1. Counted => RenewalsCounted
  BY DEF Counted
<1> QED
  BY <1>1, CountedInvariant, PTL

=============================================================================
