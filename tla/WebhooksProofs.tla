--------------------------- MODULE WebhooksProofs ---------------------------
(***************************************************************************)
(* What Webhooks promises, for any users, subscriptions, events, workers   *)
(* and number of faults.                                                   *)
(***************************************************************************)
EXTENDS Webhooks, TLAPS

\* A handler that has loaded its user holds the account as it is, until somebody writes it.
Fresh(w) ==
    pc[w] \in {"sub", "write"} /\ ~stale[w] => seenAcc[w] = account[U(w)]

\* The row of a subscription is looked for only when the event is about one.
Routed(w) == pc[w] = "sub" => S(w) # NoSub

\* A customer id is all that a handler goes on without having saved.
LostCheckouts == \A e \in lost : content[e].type = "checkout"

\* A handler about to save a customer id handles a checkout session.
Linking(w) == pc[w] = "link" => content[ev[w]].type = "checkout"

\* A handler about to mark its event has committed it, found nothing to commit, or swallowed
\* the failure of its commit.
Handled(w) == pc[w] = "mark" => ev[w] \in applied \cup ignored \cup lost

\* The inductive invariant.
IInv ==
    /\ TypeOK
    /\ LastEventRules
    /\ MarkedOnlyAfterApplied
    /\ LostCheckouts
    /\ \A w \in Workers : Routed(w) /\ Fresh(w) /\ Linking(w) /\ Handled(w)
-----------------------------------------------------------------------------
\* The event of a delivery under way, and the rows it is about.
LEMMA Sent ==
    ASSUME TypeOK, NEW w \in Workers, pc[w] # "idle"
    PROVE  /\ ev[w] \in Events
           /\ U(w) \in Users
           /\ S(w) \in Subs \cup {NoSub}
<1>1. ev[w] \in Events
  BY DEF TypeOK
<1>2. content[ev[w]] \in Contents
  BY <1>1 DEF TypeOK
<1>3. content[ev[w]].user \in Users /\ content[ev[w]].sub \in Subs \cup {NoSub}
  BY <1>2 DEF Contents
<1> QED
  BY <1>1, <1>3 DEF U, S

\* An event that decides asks for a status an account can have.
LEMMA Asked ==
    ASSUME NEW e \in Events, content \in [Events -> Contents], Decides(e)
    PROVE  AccountFor(e) \in Accounts
<1>1. content[e] \in Contents
  OBVIOUS
<1> QED
  BY <1>1 DEF Contents, Decides, AccountFor, Accounts, Statuses

\* The status an event gives a row is one a row can have.
LEMMA RowAsked ==
    ASSUME NEW e \in Events, content \in [Events -> Contents],
           NEW there \in Statuses \cup {"absent"}
    PROVE  RowFor(e, there) \in Statuses \cup {"absent"}
<1>1. content[e] \in Contents
  OBVIOUS
<1> QED
  BY <1>1 DEF Contents, RowFor, Statuses

\* The commit of a handler, on the tables.
LEMMA Written ==
    ASSUME TypeOK, NEW w \in Workers, Write(w)
    PROVE  /\ account' \in [Users -> Accounts]
           /\ row' \in [Subs -> Statuses \cup {"absent"}]
           /\ linked' \in [Users -> BOOLEAN]
           /\ last' \in [Users -> [event : Events \cup {NoEvent}, stale : BOOLEAN]]
           /\ stale' \in [Workers -> BOOLEAN]
           /\ \A u \in Users \ {U(w)} : account'[u] = account[u] /\ last'[u] = last[u]
           /\ Decides(ev[w]) =>
                 /\ last'[U(w)].event = ev[w] /\ last'[U(w)].stale = stale[w]
                 /\ account'[U(w)] =
                       IF AccountFor(ev[w]) # seenAcc[w] THEN AccountFor(ev[w]) ELSE account[U(w)]
           /\ ~Decides(ev[w]) => UNCHANGED <<account, last>>
           /\ \A x \in Workers \ {w} :
                 pc[x] \in {"sub", "write"} /\ ~stale'[x] => ~stale[x] /\ U(x) # U(w)
<1>1. ev[w] \in Events /\ U(w) \in Users
  BY Sent DEF Write
<1>2. Decides(ev[w]) => AccountFor(ev[w]) \in Accounts
  BY <1>1, Asked DEF TypeOK
<1>3. RowFor(ev[w], seenRow[w]) \in Statuses \cup {"absent"}
  BY <1>1, RowAsked DEF TypeOK
<1>4. account' \in [Users -> Accounts]
  BY <1>1, <1>2 DEF Write, TypeOK, Changed
<1>5. row' \in [Subs -> Statuses \cup {"absent"}]
  BY <1>3 DEF Write, TypeOK, Changed
<1>6. last' \in [Users -> [event : Events \cup {NoEvent}, stale : BOOLEAN]]
  BY <1>1 DEF Write, TypeOK
<1>7. linked' \in [Users -> BOOLEAN] /\ stale' \in [Workers -> BOOLEAN]
  BY <1>1 DEF Write, TypeOK
<1>8. \A u \in Users \ {U(w)} : account'[u] = account[u] /\ last'[u] = last[u]
  BY DEF Write, TypeOK
<1>9. Decides(ev[w]) =>
         /\ last'[U(w)] = [event |-> ev[w], stale |-> stale[w]]
         /\ account'[U(w)] =
               IF AccountFor(ev[w]) # seenAcc[w] THEN AccountFor(ev[w]) ELSE account[U(w)]
  BY <1>1 DEF Write, TypeOK, Changed
<1>10. ~Decides(ev[w]) => UNCHANGED <<account, last>>
  BY <1>1 DEF Write, TypeOK
<1>11. \A x \in Workers \ {w} :
          pc[x] \in {"sub", "write"} /\ ~stale'[x] => ~stale[x] /\ U(x) # U(w)
  BY DEF Write, TypeOK
<1> QED
  BY <1>4, <1>5, <1>6, <1>7, <1>8, <1>9, <1>10, <1>11
-----------------------------------------------------------------------------
\* It holds at the start.
LEMMA InitIInv == Init => IInv
  BY WebhooksAssumption DEF Init, IInv, TypeOK, LastEventRules, MarkedOnlyAfterApplied, Routed,
     Fresh, Linking, Handled, LostCheckouts, Accounts, Statuses, PCs

\* A step of a worker other than its commit keeps the types and writes no account.
LEMMA QuietType ==
    ASSUME TypeOK, NEW w \in Workers, Routed(w),
           \/ \E e \in Events : Deliver(w, e)
           \/ SkipProcessed(w) \/ StartHandling(w) \/ CheckFails(w) \/ IgnoreStranger(w)
           \/ RejectTextId(w) \/ RejectBareInvoice(w) \/ LoadUser(w) \/ Link(w) \/ LinkFails(w)
           \/ LookupRaises(w) \/ LoadRow(w) \/ LeaveUncommitted(w) \/ Mark(w) \/ Fail(w)
    PROVE  TypeOK'
<1> USE DEF TypeOK, Goto, given, tables, sessions, history, PCs
<1>1. CASE \E e \in Events : Deliver(w, e)
  BY <1>1, WebhooksAssumption DEF Deliver
<1>2. CASE SkipProcessed(w) \/ RejectTextId(w) \/ RejectBareInvoice(w) \/ LookupRaises(w)
  BY <1>2 DEF SkipProcessed, RejectTextId, RejectBareInvoice, LookupRaises, Close, Accounts, Statuses
<1>3. CASE StartHandling(w)
  BY <1>3 DEF StartHandling
<1>4. CASE CheckFails(w)
  BY <1>4, WebhooksAssumption DEF CheckFails, Fault
<1>5. CASE IgnoreStranger(w)
  BY <1>5, Sent DEF IgnoreStranger
<1>6. CASE LoadUser(w)
  BY <1>6, Sent DEF LoadUser
<1>7. CASE Link(w)
  BY <1>7, Sent DEF Link
<1>8. CASE LinkFails(w)
  BY <1>8, Sent, WebhooksAssumption DEF LinkFails, Fault
<1>9. CASE LoadRow(w)
  <2>1. seenRow' \in [Workers -> Statuses \cup {"absent"}]
    BY <1>9, Sent DEF LoadRow, Routed
  <2> QED
    BY <1>9, <2>1 DEF LoadRow
<1>10. CASE LeaveUncommitted(w)
  BY <1>10, Sent DEF LeaveUncommitted
<1>11. CASE Mark(w)
  BY <1>11, Sent DEF Mark, Close, Accounts, Statuses
<1>12. CASE Fail(w)
  BY <1>12, WebhooksAssumption DEF Fail, Close, Fault, Accounts, Statuses
<1> QED
  BY <1>1, <1>2, <1>3, <1>4, <1>5, <1>6, <1>7, <1>8, <1>9, <1>10, <1>11, <1>12

\* Every step of every worker keeps the types.
LEMMA StepType ==
    ASSUME TypeOK, \A w \in Workers : Routed(w), [Next]_vars
    PROVE  TypeOK'
<1>1. CASE UNCHANGED vars
  BY <1>1 DEF vars, given, tables, sessions, history, TypeOK
<1>2. ASSUME NEW w \in Workers, Write(w) PROVE TypeOK'
  <2>1. /\ pc' = [pc EXCEPT ![w] = "mark"] /\ link' = [link EXCEPT ![w] = FALSE]
        /\ applied' = applied \cup {ev[w]} /\ ev[w] \in Events
        /\ UNCHANGED <<content, textIds, processed, ev, seenAcc, seenRow, faults, ignored, lost>>
    BY <1>2, Sent DEF Write, Goto, given
  <2>2. pc' \in [Workers -> PCs] /\ link' \in [Workers -> BOOLEAN] /\ applied' \subseteq Events
    BY <2>1 DEF TypeOK, PCs
  <2>3. \A x \in Workers : pc'[x] # "idle" => ev'[x] # NoEvent
    BY <2>1, WebhooksAssumption DEF TypeOK
  <2> QED
    BY <1>2, <2>1, <2>2, <2>3, Written DEF TypeOK
<1> QED
  BY <1>1, <1>2, QuietType DEF Next, Handler

\* What a step changes for other workers, and where it leaves its own.
LEMMA StepShape ==
    ASSUME TypeOK, NEW w \in Workers,
           \/ \E e \in Events : Deliver(w, e)
           \/ Handler(w) \/ CheckFails(w) \/ LinkFails(w) \/ Fail(w)
    PROVE  /\ UNCHANGED content
           /\ \A x \in Workers \ {w} : pc'[x] = pc[x] /\ ev'[x] = ev[x] /\ seenAcc'[x] = seenAcc[x]
           /\ applied \subseteq applied' /\ ignored \subseteq ignored' /\ lost \subseteq lost'
           /\ lost' # lost => pc[w] = "link" /\ lost' = lost \cup {ev[w]}
           /\ ~Write(w) =>
                 UNCHANGED <<account, last>> /\ \A x \in Workers \ {w} : stale'[x] = stale[x]
           /\ pc'[w] = "mark" => ev'[w] \in applied' \cup ignored' \cup lost'
           /\ pc'[w] = "link" => UNCHANGED ev /\ content[ev[w]].type = "checkout"
           /\ pc'[w] = "sub" => /\ LoadUser(w) /\ S(w) # NoSub
           /\ pc'[w] \in {"sub", "write"} =>
                 /\ UNCHANGED ev
                 /\ \/ seenAcc'[w] = account[U(w)] 
                    \/ pc[w] = "sub" /\ UNCHANGED <<seenAcc, stale>>
           /\ processed' # processed => pc[w] = "mark" /\ processed' = processed \cup {ev[w]}
<1> USE DEF TypeOK, Goto, Close, given, tables, sessions, history, PCs
<1>1. CASE \E e \in Events : Deliver(w, e)
  BY <1>1 DEF Deliver, Write
<1>2. CASE \/ SkipProcessed(w) \/ RejectTextId(w) \/ RejectBareInvoice(w)
            \/ LookupRaises(w) \/ StartHandling(w)
  BY <1>2 DEF SkipProcessed, RejectTextId, RejectBareInvoice, LookupRaises, StartHandling
<1>3. CASE CheckFails(w) \/ Fail(w)
  BY <1>3 DEF CheckFails, Fail
<1>4. CASE IgnoreStranger(w) \/ LeaveUncommitted(w) \/ LinkFails(w) \/ Link(w)
  BY <1>4 DEF IgnoreStranger, LeaveUncommitted, LinkFails, Link
<1>5. CASE LoadUser(w)
  BY <1>5 DEF LoadUser
<1>6. CASE LoadRow(w)
  BY <1>6 DEF LoadRow
<1>7. CASE Mark(w)
  BY <1>7 DEF Mark
<1>8. CASE Write(w)
  BY <1>8 DEF Write
<1> QED
  BY <1>1, <1>2, <1>3, <1>4, <1>5, <1>6, <1>7, <1>8 DEF Handler

\* Every step keeps the invariant.
LEMMA StepIInv == IInv /\ [Next]_vars => IInv'
<1> SUFFICES ASSUME IInv, [Next]_vars PROVE IInv'
  OBVIOUS
<1>1. TypeOK'
  BY StepType DEF IInv
<1>2. CASE UNCHANGED vars
  BY <1>1, <1>2 DEF vars, given, tables, sessions, history, IInv, TypeOK, LastEventRules,
     MarkedOnlyAfterApplied, LostCheckouts, Linking, Routed, Fresh, Handled, AccountFor, U, S
<1>3. ASSUME NEW w \in Workers,
             \/ \E e \in Events : Deliver(w, e)
             \/ Handler(w) \/ CheckFails(w) \/ LinkFails(w) \/ Fail(w)
      PROVE  IInv'
  <2>1. \A x \in Workers \ {w} : U(x)' = U(x) /\ S(x)' = S(x)
    BY <1>3, StepShape DEF IInv, U, S
  <2>2. \A x \in Workers : Routed(x)'
    BY <1>3, <2>1, StepShape DEF IInv, Routed, U, S
  <2>3. \A x \in Workers : Handled(x)'
    BY <1>3, StepShape DEF IInv, Handled
  <2>8. \A x \in Workers : Linking(x)'
    BY <1>3, StepShape DEF IInv, Linking
  <2>9. LostCheckouts'
    BY <1>3, StepShape DEF IInv, LostCheckouts, Linking
  <2>4. MarkedOnlyAfterApplied'
    BY <1>3, StepShape DEF IInv, Handled, LostCheckouts, MarkedOnlyAfterApplied
  <2>5. \A e \in Events : AccountFor(e)' = AccountFor(e)
    BY <1>3, StepShape DEF IInv, AccountFor
  <2>6. CASE Write(w)
    <3>1. \A x \in Workers : Fresh(x)'
      <4>1. Fresh(w)'
        BY <2>6, StepShape DEF Write, Goto, Fresh, IInv, TypeOK
      <4>2. ASSUME NEW x \in Workers \ {w} PROVE Fresh(x)'
        <5>1. pc[x] \in {"sub", "write"} => U(x) \in Users
          BY Sent DEF IInv
        <5> QED
          BY <1>3, <2>1, <2>6, <5>1, StepShape, Written DEF IInv, Fresh
      <4> QED
        BY <4>1, <4>2
    <3>2. LastEventRules'
      <4>1. U(w) \in Users /\ ev[w] \in Events /\ pc[w] = "write"
        BY <2>6, Sent DEF Write, IInv
      <4>2. ASSUME NEW u \in Users, last'[u].event # NoEvent, ~last'[u].stale
            PROVE  account'[u] = AccountFor(last'[u].event)
        <5>1. CASE u = U(w) /\ Decides(ev[w])
          BY <2>6, <4>1, <4>2, <5>1, Written DEF IInv, Fresh
        <5>2. CASE ~(u = U(w) /\ Decides(ev[w]))
          BY <2>6, <4>1, <4>2, <5>2, Written DEF IInv, LastEventRules
        <5> QED
          BY <5>1, <5>2
      <4>3. \A u \in Users : last'[u].event \in Events \cup {NoEvent}
        BY <1>1 DEF TypeOK
      <4> QED
        BY <2>5, <4>2, <4>3 DEF LastEventRules
    <3> QED
      BY <1>1, <2>2, <2>3, <2>4, <2>8, <2>9, <3>1, <3>2 DEF IInv
  <2>7. CASE ~Write(w)
    <3>1. \A x \in Workers : Fresh(x)'
      <4>1. Fresh(w)'
        BY <1>3, <2>7, StepShape DEF IInv, Fresh, U
      <4> QED
        BY <1>3, <2>1, <2>7, <4>1, StepShape DEF IInv, Fresh
    <3>2. LastEventRules'
      BY <1>3, <2>5, <2>7, StepShape DEF IInv, TypeOK, LastEventRules
    <3> QED
      BY <1>1, <2>2, <2>3, <2>4, <2>8, <2>9, <3>1, <3>2 DEF IInv
  <2> QED
    BY <2>6, <2>7
<1> QED
  BY <1>2, <1>3 DEF Next

\* The inductive invariant holds throughout.
LEMMA Invariance == Spec => []IInv
  BY InitIInv, StepIInv, PTL DEF Spec
-----------------------------------------------------------------------------
\* Every reachable state has its type.
THEOREM TypeCorrect == Spec => []TypeOK
<1>1. IInv => TypeOK
  BY DEF IInv
<1> QED
  BY <1>1, Invariance, PTL

\* An account has the status the event committed last asks for, unless its handler held the
\* account or the subscription stale.
THEOREM LastCommitDecides == Spec => []LastEventRules
<1>1. IInv => LastEventRules
  BY DEF IInv
<1> QED
  BY <1>1, Invariance, PTL

\* No event counts as processed before its effect is committed or found to be none, except a
\* checkout session whose customer id the handler gave up.
THEOREM OnlyLinksLost == Spec => []MarkedOnlyAfterApplied
<1>1. IInv => MarkedOnlyAfterApplied
  BY DEF IInv
<1> QED
  BY <1>1, Invariance, PTL
=============================================================================
