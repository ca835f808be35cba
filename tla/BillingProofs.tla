--------------------------- MODULE BillingProofs ----------------------------
(***************************************************************************)
(* Billing is safe for any number of users, subscriptions and requests.    *)
(*                                                                         *)
(* Every step of Billing is a step of Purchase or leaves its variables     *)
(* alone, so that all that is proved of Purchase holds here too.  On top   *)
(* of it stands what a request knows, between looking for what to replace  *)
(* and ending it, of the subscriptions of its user: each is settled.       *)
(***************************************************************************)
EXTENDS Billing, PurchaseProofs

\* As far as request r is concerned: x's subscription is over in Stripe, or r has given up on
\* one, or the row of x came after r had looked.
Settled(r, x) == stripe[job[x].ref] = "canceled" \/ r \in gaveUp \/ x \in newer[r]

LooksAfter(r) ==
    /\ pc[r] \in {"probe", "cancel"} =>
           \A x \in Active(job[r].user) : x = found[r] \/ Settled(r, x)
    /\ pc[r] = "plan" => \A x \in Active(job[r].user) : Settled(r, x)
    /\ pc[r] = "replace" => Settled(r, found[r])
    /\ pc[r] = "revoke" => Settled(r, r)

EndSettled(x) == row[x] = "ended" => ender[x] \in Requests /\ Settled(ender[x], x)

\* What Stripe sends of an end is true, and stays true.
EndsTrue == \A e \in sent : e.status = "canceled" => stripe[e.sub] = "canceled"

BillingInv ==
    /\ IInv
    /\ BillingTypeOK
    /\ \A r \in Requests : LooksAfter(r) /\ EndSettled(r)
    /\ EndsTrue
    /\ CanceledForAnEnd

-----------------------------------------------------------------------------
\* A step of a request: its handler's, its failure or its timeout.
Turn(r) == Handler(r) \/ Fail(r) \/ Timeout(r)

\* Billing adds nothing to what Purchase does to its own variables.
LEMMA PurchaseSteps == [BillingNext]_billingVars => [Next]_vars
<1>1. ASSUME NEW r \in Requests, Purchasing(r) PROVE Next
  BY <1>1 DEF Purchasing, Next
<1>2. ASSUME NEW s \in Subscriptions, StripeTurns(s) PROVE Next
  BY <1>2 DEF StripeTurns, Next
<1>3. ASSUME NEW e \in sent, HandleEvent(e) PROVE UNCHANGED vars
  BY <1>3 DEF HandleEvent
<1>4. UNCHANGED billingVars => UNCHANGED vars
  BY DEF billingVars
<1> QED
  BY <1>1, <1>2, <1>3, <1>4 DEF BillingNext

\* A request moves only itself, and few actions lead to the places between look and end.
LEMMA Places ==
    ASSUME IInv, NEW r \in Requests, Turn(r)
    PROVE  /\ \A p \in Requests \ {r} : pc'[p] = pc[p] /\ found'[p] = found[p]
           /\ pc'[r] = "probe"   => LookFinds(r) \/ Timeout(r)
           /\ pc'[r] = "cancel"  => ProbeActive(r) \/ Timeout(r)
           /\ pc'[r] = "plan"    => \/ LookMisses(r) \/ ProbeInactive(r) \/ ProbeFails(r)
                                    \/ CancelOld(r) \/ CancelFails(r) \/ Timeout(r)
           /\ pc'[r] = "replace" => FindExisting(r) \/ Timeout(r)
           /\ pc'[r] = "revoke"  => Disown(r) \/ Timeout(r)
<1> USE DEF IInv, TypeOK, Goto, Drop, Finish
<1>1. CASE PassCheck(r) \/ RefuseClaimed(r) \/ Verify(r) \/ RefuseUnverified(r)
  BY <1>1 DEF PassCheck, RefuseClaimed, Verify, RefuseUnverified
<1>2. CASE LookFinds(r) \/ LookMisses(r) \/ ProbeActive(r) \/ ProbeInactive(r)
               \/ ProbeFails(r) \/ CancelOld(r) \/ CancelFails(r)
  BY <1>2 DEF LookFinds, LookMisses, ProbeActive, ProbeInactive, ProbeFails, CancelOld, CancelFails
<1>3. CASE RefusePlan(r) \/ FindExisting(r) \/ MissExisting(r) \/ AmbiguousExisting(r)
               \/ Replace(r) \/ Create(r) \/ Grant(r)
  BY <1>3 DEF RefusePlan, FindExisting, MissExisting, AmbiguousExisting, Replace, Create, Grant
<1>4. CASE Reply(r) \/ Confirm(r) \/ Disown(r) \/ Revoke(r) \/ Fail(r)
  BY <1>4 DEF Reply, Confirm, Disown, Revoke, Fail
<1>5. CASE Timeout(r)
  BY <1>5 DEF Timeout
<1> QED
  BY <1>1, <1>2, <1>3, <1>4, <1>5 DEF Turn, Handler

\* What a step of a request does to the rows: it inserts its own or ends one that is there.
LEMMA RowSteps ==
    ASSUME IInv, NEW r \in Requests, Turn(r)
    PROVE  \/ UNCHANGED row
           \/ pc[r] = "create" /\ row[r] = "none" /\ row' = [row EXCEPT ![r] = "active"]
           \/ /\ ProbeInactive(r) \/ Replace(r)
              /\ found[r] \in Requests /\ row[found[r]] # "none"
              /\ row' = [row EXCEPT ![found[r]] = "ended"]
           \/ Revoke(r) /\ row[r] # "none" /\ row' = [row EXCEPT ![r] = "ended"]
<1>1. Stage(r) /\ AnswerTrue(r)
  BY DEF IInv, Good
<1>2. CASE Create(r)
  BY <1>1, <1>2 DEF Create, Stage
<1>3. CASE ProbeInactive(r) \/ Replace(r)
  BY <1>1, <1>3 DEF ProbeInactive, Replace, Stage, RowsOf
<1>4. CASE Revoke(r)
  BY <1>1, <1>4 DEF Revoke, Stage, AnswerTrue
<1>5. ASSUME ~Create(r), ~(ProbeInactive(r) \/ Replace(r) \/ Revoke(r)) PROVE UNCHANGED row
  BY <1>5 DEF Turn, Handler, PassCheck, RefuseClaimed, Verify, RefuseUnverified, LookFinds,
              LookMisses, ProbeActive, ProbeFails, CancelOld, CancelFails, RefusePlan,
              FindExisting, MissExisting, AmbiguousExisting, Grant, Reply, Confirm, Disown,
              Fail, Timeout, tables
<1> QED
  BY <1>2, <1>3, <1>4, <1>5

\* A subscription that is canceled in Stripe stays so, and nobody's job changes.
LEMMA EndIsFinal ==
    ASSUME IInv, [Next]_vars
    PROVE  /\ job' = job
           /\ \A ref \in Refs : stripe[ref] = "canceled" => stripe'[ref] = "canceled"
<1> USE DEF IInv, TypeOK
<1>1. ASSUME NEW r \in Requests, CancelOld(r)
      PROVE  job' = job /\ \A ref \in Refs : stripe[ref] = "canceled" => stripe'[ref] = "canceled"
  BY <1>1 DEF CancelOld
<1>2. ASSUME NEW r \in Requests, Turn(r), ~CancelOld(r) PROVE UNCHANGED <<job, stripe>>
  BY <1>2 DEF Turn, Handler, PassCheck, RefuseClaimed, Verify, RefuseUnverified, LookFinds,
              LookMisses, ProbeActive, ProbeInactive, ProbeFails, CancelFails, RefusePlan,
              FindExisting, MissExisting, AmbiguousExisting, Replace, Create, Grant, Reply,
              Confirm, Disown, Revoke, Fail, Timeout
<1>3. ASSUME NEW s \in Subscriptions, StripeMoves(s)
      PROVE  job' = job /\ \A ref \in Refs : stripe[ref] = "canceled" => stripe'[ref] = "canceled"
  BY <1>3 DEF StripeMoves
<1>4. CASE UNCHANGED vars
  BY <1>4 DEF vars
<1> QED
  BY <1>1, <1>2, <1>3, <1>4 DEF Next, Turn

\* A row that was inserted stays, and one that was ended stays ended.
LEMMA RowsRemain ==
    ASSUME IInv, [Next]_vars, NEW x \in Requests
    PROVE  /\ row[x] # "none" => row'[x] # "none"
           /\ row[x] = "ended" => row'[x] = "ended"
<1>1. row \in [Requests -> {"none", "active", "ended"}]
  BY DEF IInv, TypeOK
<1>2. ASSUME NEW r \in Requests, Turn(r)
      PROVE  (row[x] # "none" => row'[x] # "none") /\ (row[x] = "ended" => row'[x] = "ended")
  BY <1>1, <1>2, RowSteps
<1>3. ASSUME NEW s \in Subscriptions, StripeMoves(s) PROVE UNCHANGED row
  BY <1>3 DEF StripeMoves, tables
<1>4. UNCHANGED vars => UNCHANGED row
  BY DEF vars, tables
<1> QED
  BY <1>2, <1>3, <1>4 DEF Next, Turn

\* What is settled stays settled: nothing is taken back by Stripe or by the histories.
LEMMA SettledStays ==
    ASSUME IInv, [Next]_vars, gaveUp \subseteq gaveUp',
           NEW r \in Requests, NEW x \in Requests, newer[r] \subseteq newer'[r], Settled(r, x)
    PROVE  Settled(r, x)'
<1>1. job[x].ref \in Refs
  BY JobType DEF IInv
<1> QED
  BY <1>1, EndIsFinal DEF Settled

\* A step that touches neither places nor rows leaves every request as knowing as it was.
LEMMA KnowsAsBefore ==
    ASSUME BillingInv, [Next]_vars, UNCHANGED <<pc, found, row, notes>>
    PROVE  \A r \in Requests : LooksAfter(r)' /\ EndSettled(r)'
<1> SUFFICES ASSUME NEW r \in Requests PROVE LooksAfter(r)' /\ EndSettled(r)'
  OBVIOUS
<1>1. LooksAfter(r) /\ EndSettled(r) /\ IInv
  BY DEF BillingInv
<1>2. ASSUME NEW p \in Requests, NEW x \in Requests, Settled(p, x) PROVE Settled(p, x)'
  BY <1>1, <1>2, SettledStays DEF notes
<1>3. job' = job
  BY <1>1, EndIsFinal
<1>4. pc[r] = "replace" => found[r] \in Requests
  BY <1>1 DEF IInv, Good, Stage, RowsOf
<1>5. LooksAfter(r)'
  BY <1>1, <1>2, <1>3, <1>4 DEF LooksAfter, Active, RowsOf
<1>6. EndSettled(r)'
  BY <1>1, <1>2 DEF EndSettled, notes
<1> QED
  BY <1>5, <1>6

-----------------------------------------------------------------------------
\* What the histories record of a step of a purchase.
LEMMA Noted ==
    ASSUME BillingInv, NEW r \in Requests, Purchasing(r)
    PROVE  /\ Turn(r) /\ [Next]_vars
           /\ gaveUp \subseteq gaveUp' /\ (LeavesBehind(r) => r \in gaveUp')
           /\ \A p \in Requests : newer[p] \subseteq newer'[p]
           /\ \A p, x \in Requests :
                  Replacing(p) /\ job[x].user = job[p].user /\ row[x] = "none" /\ row'[x] # "none"
                  => x \in newer'[p]
           /\ \A x \in Requests :
                  ender'[x] = IF row[x] = "active" /\ row'[x] = "ended" THEN r ELSE ender[x]
<1>1. Turn(r) /\ [Next]_vars
  BY DEF Purchasing, Turn, Next
<1>2. gaveUp \subseteq gaveUp' /\ (LeavesBehind(r) => r \in gaveUp')
  BY DEF Purchasing, Note
<1> QED
  BY <1>1, <1>2 DEF Purchasing, Note

\* A row that is ended by a step is settled for the request that ends it.
LEMMA EndsWhatIsSettled ==
    ASSUME BillingInv, NEW r \in Requests, Purchasing(r), NEW x \in Requests
    PROVE  EndSettled(x)'
<1> SUFFICES ASSUME row'[x] = "ended", NEW by, by = ender'[x]
             PROVE  by \in Requests /\ Settled(by, x)'
  BY DEF EndSettled, Settled
<1>1. IInv /\ LooksAfter(r) /\ EndSettled(x) /\ row \in [Requests -> {"none", "active", "ended"}]
  BY DEF BillingInv, IInv, TypeOK
<1>2. /\ Turn(r) /\ [Next]_vars /\ gaveUp \subseteq gaveUp' /\ (LeavesBehind(r) => r \in gaveUp')
      /\ \A p \in Requests : newer[p] \subseteq newer'[p]
      /\ by = IF row[x] = "active" /\ row'[x] = "ended" THEN r ELSE ender[x]
  BY Noted
<1>3. ASSUME NEW p \in Requests, Settled(p, x) PROVE Settled(p, x)'
  BY <1>1, <1>2, <1>3, SettledStays
<1>4. CASE row[x] = "ended"
  BY <1>1, <1>2, <1>3, <1>4 DEF EndSettled
<1>5. row[x] # "none"
  BY <1>1, <1>2, RowSteps
<1>6. CASE row[x] = "active"
  <2>1. by = r
    BY <1>2, <1>6
  <2>2. \/ ProbeInactive(r) /\ x = found[r]
        \/ Replace(r) /\ x = found[r]
        \/ Revoke(r) /\ x = r
    BY <1>1, <1>2, <1>6, RowSteps
  <2>3. CASE ProbeInactive(r) /\ x = found[r]
    <3>1. CASE stripe[job[x].ref] = "canceled"
      BY <1>3, <2>1, <3>1 DEF Settled
    <3>2. CASE stripe[job[x].ref] # "canceled"
      BY <1>2, <2>1, <2>3, <3>2 DEF LeavesBehind, Settled
    <3> QED
      BY <3>1, <3>2
  <2>4. CASE Replace(r) /\ x = found[r]
    BY <1>1, <1>3, <2>1, <2>4 DEF Replace, LooksAfter
  <2>5. CASE Revoke(r) /\ x = r
    BY <1>1, <1>3, <2>1, <2>5 DEF Revoke, LooksAfter
  <2> QED
    BY <2>1, <2>2, <2>3, <2>4, <2>5
<1> QED
  BY <1>1, <1>4, <1>5, <1>6

\* The other requests take note of the one row that may have come.
LEMMA OthersLookAfter ==
    ASSUME BillingInv, NEW r \in Requests, Purchasing(r), NEW p \in Requests,
           pc'[p] = pc[p], found'[p] = found[p]
    PROVE  LooksAfter(p)'
<1>1. IInv /\ LooksAfter(p) /\ row \in [Requests -> {"none", "active", "ended"}]
  BY DEF BillingInv, IInv, TypeOK
<1>2. /\ Turn(r) /\ [Next]_vars /\ gaveUp \subseteq gaveUp' /\ newer[p] \subseteq newer'[p]
      /\ \A x \in Requests :
             Replacing(p) /\ job[x].user = job[p].user /\ row[x] = "none" /\ row'[x] # "none"
             => x \in newer'[p]
  BY Noted
<1>3. ASSUME NEW x \in Requests, Settled(p, x) PROVE Settled(p, x)'
  BY <1>1, <1>2, <1>3, SettledStays
<1>4. job' = job
  BY <1>1, <1>2, EndIsFinal
<1>5. ASSUME NEW x \in Active(job[p].user)', Replacing(p)
      PROVE  x \in Requests /\ (x \in Active(job[p].user) \/ Settled(p, x)')
  <2>1. x \in Requests /\ job[x].user = job[p].user /\ row'[x] = "active"
    BY <1>4, <1>5 DEF Active, RowsOf
  <2>2. row[x] # "ended"
    BY <1>1, <1>2, <2>1, RowsRemain
  <2>3. CASE row[x] = "none"
    BY <1>2, <1>5, <2>1, <2>3 DEF Settled
  <2>4. CASE row[x] = "active"
    BY <2>1, <2>4 DEF Active, RowsOf
  <2> QED
    BY <1>1, <2>1, <2>2, <2>3, <2>4
<1>6. pc[p] \in {"probe", "cancel"} =>
          \A x \in Active(job[p].user)' : x = found[p] \/ Settled(p, x)'
  BY <1>1, <1>3, <1>5 DEF LooksAfter, Replacing
<1>7. pc[p] = "plan" => \A x \in Active(job[p].user)' : Settled(p, x)'
  BY <1>1, <1>3, <1>5 DEF LooksAfter, Replacing
<1>8. pc[p] = "replace" => Settled(p, found[p])'
  <2>1. pc[p] = "replace" => found[p] \in Requests
    BY <1>1 DEF IInv, Good, Stage, RowsOf
  <2>2. pc[p] = "replace" => Settled(p, found[p])
    BY <1>1 DEF LooksAfter
  <2> QED
    BY <1>3, <2>1, <2>2
<1>9. pc[p] = "revoke" => Settled(p, p)'
  BY <1>1, <1>3 DEF LooksAfter
<1> QED
  BY <1>6, <1>7, <1>8, <1>9 DEF LooksAfter

\* The request itself: wherever it goes on, what it leaves behind is settled.
LEMMA SelfLooksAfter ==
    ASSUME BillingInv, NEW r \in Requests, Purchasing(r)
    PROVE  LooksAfter(r)'
<1>1. /\ IInv /\ LooksAfter(r) /\ Stage(r) /\ row \in [Requests -> {"none", "active", "ended"}]
      /\ found \in [Requests -> Requests \cup {NoRow}] /\ stripe \in [Refs -> StripeStates]
  BY DEF BillingInv, IInv, TypeOK, Good
<1>2. /\ Turn(r) /\ [Next]_vars /\ gaveUp \subseteq gaveUp' /\ newer[r] \subseteq newer'[r]
      /\ LeavesBehind(r) => r \in gaveUp'
  BY Noted
<1>3. ASSUME NEW x \in Requests, Settled(r, x) PROVE Settled(r, x)'
  BY <1>1, <1>2, <1>3, SettledStays
<1>4. job' = job
  BY <1>1, <1>2, EndIsFinal
<1>5. CASE Timeout(r)
  BY <1>5, OthersLookAfter DEF Timeout
<1>6. LeavesBehind(r) => \A x \in Requests : Settled(r, x)'
  BY <1>2 DEF Settled
<1>7. ASSUME ~Timeout(r), pc'[r] \in {"probe", "cancel"}, NEW x \in Active(job[r].user)'
      PROVE  x = found'[r] \/ Settled(r, x)'
  <2>1. CASE LookFinds(r)
    BY <1>1, <1>4, <1>7, <2>1 DEF LookFinds, Active, RowsOf, tables
  <2>2. CASE ProbeActive(r)
    BY <1>1, <1>3, <1>4, <1>7, <2>2 DEF ProbeActive, LooksAfter, Active, RowsOf, tables
  <2> QED
    BY <1>1, <1>2, <1>7, <2>1, <2>2, Places
<1>8. ASSUME ~Timeout(r), pc'[r] = "plan", NEW x \in Active(job[r].user)'
      PROVE  Settled(r, x)'
  <2>1. x \in Requests
    BY DEF Active, RowsOf
  <2>2. CASE LookMisses(r)
    <3>1. CASE Active(job[r].user) = {}
      BY <1>4, <2>2, <3>1 DEF LookMisses, Active, RowsOf, tables
    <3>2. CASE Active(job[r].user) # {}
      BY <1>6, <2>1, <2>2, <3>2 DEF LeavesBehind
    <3> QED
      BY <3>1, <3>2
  <2>3. ASSUME ProbeInactive(r) \/ ProbeFails(r) \/ CancelOld(r) \/ CancelFails(r)
        PROVE  Settled(r, x)'
    <3>1. pc[r] \in {"probe", "cancel"}
      BY <2>3 DEF ProbeInactive, ProbeFails, CancelOld, CancelFails
    <3>2. found[r] \in Requests /\ job[found[r]].ref \in Refs
      BY <1>1, <3>1, JobType DEF Stage, RowsOf, IInv
    <3>3. x \in Active(job[r].user)
      BY <1>1, <1>4, <2>3, <3>2 DEF ProbeInactive, ProbeFails, CancelOld, CancelFails, Active, RowsOf, tables
    <3>4. CASE x # found[r]
      BY <1>1, <1>3, <2>1, <3>1, <3>3, <3>4 DEF LooksAfter
    <3>5. CASE x = found[r] /\ CancelOld(r)
      BY <1>1, <1>4, <3>2, <3>5 DEF CancelOld, Settled
    <3>6. CASE x = found[r] /\ ~CancelOld(r) /\ stripe[job[x].ref] # "canceled"
      BY <1>6, <2>1, <2>3, <3>6 DEF LeavesBehind
    <3>7. CASE stripe[job[x].ref] = "canceled"
      BY <1>3, <2>1, <3>7 DEF Settled
    <3> QED
      BY <3>4, <3>5, <3>6, <3>7
  <2> QED
    BY <1>1, <1>2, <1>8, <2>2, <2>3, Places
<1>9. ASSUME ~Timeout(r), pc'[r] = "replace", NEW x, x = found'[r] PROVE Settled(r, x)'
  <2>1. FindExisting(r)
    BY <1>1, <1>2, <1>9, Places
  <2>2. x \in Active(job[r].user) /\ pc[r] = "plan"
    BY <1>1, <1>9, <2>1 DEF FindExisting
  <2>3. x \in Requests /\ Settled(r, x)
    BY <1>1, <2>2 DEF LooksAfter, Active, RowsOf
  <2> QED
    BY <1>3, <2>3
<1>10. ASSUME ~Timeout(r), pc'[r] = "revoke" PROVE Settled(r, r)'
  <2>1. Disown(r)
    BY <1>1, <1>2, <1>10, Places
  <2>2. CASE stripe[job[r].ref] = "canceled"
    BY <1>3, <2>2 DEF Settled
  <2>3. CASE stripe[job[r].ref] # "canceled"
    BY <1>6, <2>1, <2>3 DEF LeavesBehind
  <2> QED
    BY <2>2, <2>3
<1> QED
  BY <1>5, <1>7, <1>8, <1>9, <1>10 DEF LooksAfter, Settled

-----------------------------------------------------------------------------
\* Stripe sends of ends only those that came, whoever moves it.
LEMMA EmitsTruth ==
    ASSUME BillingInv, [Next]_vars, Emit
    PROVE  EndsTrue' /\ sent' \subseteq Events
<1>1. sent \subseteq Events /\ EndsTrue /\ IInv
  BY DEF BillingInv, BillingTypeOK
<1>2. \A e \in Events : e.sub \in Refs
  BY DEF Events, Refs
<1>3. EndsTrue'
  BY <1>1, <1>2, EndIsFinal DEF Emit, EndsTrue
<1> QED
  BY <1>1, <1>3 DEF Emit

\* An end that excuses a canceled account goes on excusing it.
LEMMA ExcuseStays ==
    ASSUME BillingInv, [Next]_vars, UNCHANGED <<owner, account>>
    PROVE  CanceledForAnEnd'
<1> SUFFICES ASSUME NEW u \in Users, account[u] = "canceled"
             PROVE  \E s \in Subscriptions :
                        owner[s] = u /\ Registered(s)' /\ stripe'[s] = "canceled"
  BY DEF CanceledForAnEnd
<1>1. IInv
  BY DEF BillingInv
<1>2. PICK s \in Subscriptions : owner[s] = u /\ Registered(s) /\ stripe[s] = "canceled"
  BY DEF BillingInv, CanceledForAnEnd
<1>3. PICK q \in Requests : job[q].ref = s /\ row[q] # "none"
  BY <1>2 DEF Registered
<1>4. Registered(s)'
  BY <1>1, <1>3, EndIsFinal, RowsRemain DEF Registered
<1>5. stripe'[s] = "canceled"
  BY <1>1, <1>2, EndIsFinal DEF Refs
<1> QED
  BY <1>2, <1>4, <1>5

LEMMA PurchasingStep == ASSUME BillingInv, NEW r \in Requests, Purchasing(r) PROVE BillingInv'
<1>1. Turn(r) /\ [Next]_vars /\ IInv
  BY Noted DEF BillingInv
<1>2. IInv'
  BY <1>1, StepIInv
<1>3. EndsTrue' /\ sent' \subseteq Events
  BY <1>1, EmitsTruth DEF Purchasing
<1>4. BillingTypeOK'
  BY <1>2, <1>3 DEF IInv, BillingInv, BillingTypeOK, Purchasing, Note
<1>5. ASSUME NEW p \in Requests PROVE LooksAfter(p)'
  <2>1. CASE p = r
    BY <2>1, SelfLooksAfter
  <2>2. CASE p # r
    BY <1>1, <2>2, Places, OthersLookAfter
  <2> QED
    BY <2>1, <2>2
<1>6. \A x \in Requests : EndSettled(x)'
  BY EndsWhatIsSettled
<1>7. CanceledForAnEnd'
  BY <1>1, ExcuseStays DEF Purchasing
<1> QED
  BY <1>2, <1>3, <1>4, <1>5, <1>6, <1>7 DEF BillingInv

LEMMA StripeTurnsStep ==
    ASSUME BillingInv, NEW s \in Subscriptions, StripeTurns(s) PROVE BillingInv'
<1>1. [Next]_vars /\ UNCHANGED <<pc, found, row, notes>>
  BY DEF StripeTurns, StripeMoves, Next, tables
<1>2. IInv'
  BY <1>1, StepIInv DEF BillingInv
<1>3. EndsTrue' /\ sent' \subseteq Events
  BY <1>1, EmitsTruth DEF StripeTurns
<1>4. BillingTypeOK'
  BY <1>2, <1>3 DEF IInv, BillingInv, BillingTypeOK, StripeTurns, notes
<1>5. CanceledForAnEnd'
  BY <1>1, ExcuseStays DEF StripeTurns
<1> QED
  BY <1>1, <1>2, <1>3, <1>4, <1>5, KnowsAsBefore DEF BillingInv

\* A webhook: the account is canceled for an end that Stripe told of.
LEMMA HandleEventStep == ASSUME BillingInv, NEW e \in sent, HandleEvent(e) PROVE BillingInv'
<1>1. UNCHANGED vars /\ UNCHANGED <<stripe, job, pc, found, row>> /\ UNCHANGED <<owner, notes>>
  BY DEF HandleEvent, vars, tables
<1>2. IInv'
  BY <1>1, StepIInv DEF BillingInv
<1>3. e \in Events /\ e.sub \in Subscriptions /\ owner[e.sub] \in Users
      /\ e.status \in {"active", "canceled"}
  BY DEF BillingInv, BillingTypeOK, Events
<1>4. sent' \subseteq sent
  BY DEF HandleEvent
<1>5. BillingTypeOK'
  BY <1>1, <1>2, <1>3, <1>4 DEF IInv, BillingInv, BillingTypeOK, HandleEvent, notes
<1>6. EndsTrue'
  BY <1>1, <1>4 DEF BillingInv, EndsTrue
<1>7. CanceledForAnEnd'
  <2> SUFFICES ASSUME NEW u \in Users, account'[u] = "canceled"
               PROVE  \E s \in Subscriptions :
                          owner[s] = u /\ Registered(s) /\ stripe[s] = "canceled"
    BY <1>1 DEF CanceledForAnEnd, Registered
  <2>1. CASE u = owner[e.sub]
    <3>1. e.status = "canceled"
      BY <1>3, <2>1 DEF HandleEvent, BillingInv, BillingTypeOK
    <3> QED
      BY <1>3, <2>1, <3>1 DEF HandleEvent, BillingInv, EndsTrue
  <2>2. CASE u # owner[e.sub]
    <3>1. account[u] = "canceled"
      BY <1>3, <2>2 DEF HandleEvent, BillingInv, BillingTypeOK
    <3> QED
      BY <3>1 DEF BillingInv, CanceledForAnEnd
  <2> QED
    BY <2>1, <2>2
<1> QED
  BY <1>1, <1>2, <1>5, <1>6, <1>7, KnowsAsBefore DEF BillingInv

\* The invariant holds at the start.
LEMMA InitBilling == BillingInit => BillingInv
<1> SUFFICES ASSUME BillingInit PROVE BillingInv
  OBVIOUS
<1>1. Init /\ IInv
  BY InitIInv DEF BillingInit
<1>2. BillingTypeOK
  BY <1>1 DEF BillingInit, BillingTypeOK, IInv
<1>3. \A r \in Requests : pc[r] \in {"check", "verify"} /\ row[r] = "none"
  BY <1>1 DEF Init
<1>4. \A r \in Requests : LooksAfter(r) /\ EndSettled(r)
  BY <1>3 DEF LooksAfter, EndSettled
<1>5. EndsTrue /\ CanceledForAnEnd
  BY DEF BillingInit, EndsTrue, CanceledForAnEnd
<1> QED
  BY <1>1, <1>2, <1>4, <1>5 DEF BillingInv

\* Every step keeps the invariant.
LEMMA BillingStep == BillingInv /\ [BillingNext]_billingVars => BillingInv'
<1> SUFFICES ASSUME BillingInv, [BillingNext]_billingVars PROVE BillingInv'
  OBVIOUS
<1>1. CASE UNCHANGED billingVars
  <2>1. /\ UNCHANGED <<stripe, job, pc, found, row, owner, account, sent, ender, gaveUp, newer>>
        /\ UNCHANGED vars /\ UNCHANGED notes
    BY <1>1 DEF billingVars, vars, tables, events, notes
  <2>2. IInv'
    BY <2>1, StepIInv DEF BillingInv
  <2>3. BillingTypeOK' /\ EndsTrue' /\ CanceledForAnEnd'
    BY <2>1, <2>2 DEF BillingInv, IInv, BillingTypeOK, EndsTrue, CanceledForAnEnd, Registered
  <2> QED
    BY <2>1, <2>2, <2>3, KnowsAsBefore DEF BillingInv
<1> QED
  BY <1>1, PurchasingStep, StripeTurnsStep, HandleEventStep DEF BillingNext

LEMMA BillingInvariance == BillingSpec => []BillingInv
<1> QED
  BY InitBilling, BillingStep, PTL DEF BillingSpec

-----------------------------------------------------------------------------
\* Purchases, accounts, events and histories keep their types.
THEOREM BillingTypeCorrect == BillingSpec => []BillingTypeOK
<1>1. BillingInv => BillingTypeOK
  BY DEF BillingInv
<1> QED
  BY <1>1, BillingInvariance, PTL

\* However its events are repeated, delayed or reordered, Stripe gets an account canceled only
\* for the end of a subscription of that user which a purchase registered.
THEOREM AccountsCanceledForAnEnd == BillingSpec => []CanceledForAnEnd
<1>1. BillingInv => CanceledForAnEnd
  BY DEF BillingInv
<1> QED
  BY <1>1, BillingInvariance, PTL

\* A row that a purchase ended is paid for in Stripe only if that purchase had given up on an
\* end, or had looked before the row was there.
THEOREM PaidOnlyKnowingly == BillingSpec => []EndedYetPaid
<1>1. BillingInv => EndedYetPaid
  BY DEF BillingInv, EndSettled, Settled, EndedYetPaid
<1> QED
  BY <1>1, BillingInvariance, PTL

\* Billing implements Purchase: what is proved of purchases alone holds with webhooks beside them.
THEOREM BillingImplementsPurchase == BillingSpec => Spec
<1>1. BillingInit => Init
  BY DEF BillingInit
<1> QED
  BY <1>1, PurchaseSteps, PTL DEF BillingSpec, Spec

=============================================================================
