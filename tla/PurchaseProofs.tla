--------------------------- MODULE PurchaseProofs ---------------------------
(***************************************************************************)
(* Purchase is safe for any number of users, references and requests.      *)
(*                                                                         *)
(* The strengthening says, of each request, what its place in the handler  *)
(* tells about its own rows (Stage), and that while it is between asking   *)
(* and committing it has kept account of everything committed meanwhile    *)
(* (ClaimsKnown, RivalsKnown): what it does not know of does not exist.    *)
(***************************************************************************)
EXTENDS Purchase, TLAPS

Stage(r) ==
    /\ pc[r] \in {"look", "probe", "cancel", "plan", "replace", "create", "confirm", "revoke"}
          => IsSub(r)
    /\ pc[r] = "reply" => ~IsSub(r)
    /\ pc[r] \in {"check", "verify", "look", "probe", "cancel", "plan", "replace", "create"}
          => row[r] = "none"
    /\ pc[r] = "grant" => (row[r] # "none" <=> IsSub(r))
    /\ pc[r] \in {"reply", "confirm", "revoke"} => r \in granted
    /\ pc[r] # "done" => answer[r] \in {0, 504}
    /\ pc[r] \in {"probe", "cancel", "replace"} => found[r] \in RowsOf(job[r].user)

ClaimsKnown(r) == Claiming(r) => Claims(job[r].ref) \subseteq since[r]

RivalsKnown(r) ==
    Registering(r) =>
        \A q \in Active(job[r].user) : q \in rivals[r] \/ (pc[r] = "replace" /\ q = found[r])

AnswerTrue(r) ==
    /\ answer[r] = 200 => r \in granted
    /\ r \in granted => (row[r] # "none" <=> IsSub(r))
    /\ answer[r] = 400 => row[r] # "active"
    /\ row[r] = "active" /\ r \notin granted => pc[r] = "grant" \/ answer[r] \in {500, 504}

Good(r) == Stage(r) /\ ClaimsKnown(r) /\ RivalsKnown(r) /\ AnswerTrue(r)

IInv ==
    /\ TypeOK
    /\ \A r \in Requests : Good(r)
    /\ DoubleGrantsOverlap
    /\ TwoActiveOverlap

-----------------------------------------------------------------------------
\* Every request has a user and a reference.
LEMMA JobType ==
    ASSUME TypeOK, NEW r \in Requests
    PROVE  job[r].user \in Users /\ job[r].ref \in Refs
<1>1. job[r] \in Jobs
  BY DEF TypeOK
<1> QED
  BY <1>1 DEF Jobs

\* The strengthening holds of the tables with which the requests start.
LEMMA InitIInv == Init => IInv
<1> SUFFICES ASSUME Init PROVE IInv
  OBVIOUS
<1>1. TypeOK
  BY DEF Init, TypeOK, PCs
<1>2. \A r \in Requests : Good(r)
  BY DEF Init, Good, Stage, ClaimsKnown, RivalsKnown, AnswerTrue, Claiming, Registering, IsSub
<1>3. DoubleGrantsOverlap /\ TwoActiveOverlap
  BY DEF Init, DoubleGrantsOverlap, TwoActiveOverlap
<1> QED
  BY <1>1, <1>2, <1>3 DEF IInv

\* A step of one request that leaves the tables alone: only that request must be looked at.
LEMMA MoveStep ==
    ASSUME IInv, NEW r \in Requests, TypeOK',
           UNCHANGED <<job, row, granted, since, rivals>>,
           \A q \in Requests \ {r} : pc'[q] = pc[q] /\ found'[q] = found[q] /\ answer'[q] = answer[q],
           Good(r)'
    PROVE  IInv'
<1>1. ASSUME NEW q \in Requests \ {r} PROVE Good(q)'
  <2>1. Good(q)
    BY DEF IInv
  <2> QED
    BY <2>1, <1>1 DEF Good, Stage, ClaimsKnown, RivalsKnown, AnswerTrue, Claiming, Registering,
                      IsSub, Claims, RowsOf, Active
<1>2. DoubleGrantsOverlap' /\ TwoActiveOverlap'
  BY DEF IInv, DoubleGrantsOverlap, TwoActiveOverlap
<1> QED
  BY <1>1, <1>2 DEF IInv

\* A request that moves on to a place it may be in, without an answer.
LEMMA GotoStep ==
    ASSUME IInv, NEW r \in Requests, NEW next \in PCs, Goto(r, next),
           UNCHANGED <<job, row, granted, answer, since, rivals>>,
           found' \in [Requests -> Requests \cup {NoRow}],
           \A q \in Requests \ {r} : found'[q] = found[q],
           stripe' \in [Refs -> StripeStates], unpaid' \subseteq Requests,
           Stage(r)', ClaimsKnown(r)', RivalsKnown(r)', pc[r] # "grant", pc[r] # "done"
    PROVE  IInv'
<1>1. pc' \in [Requests -> PCs] /\ pc'[r] = next /\ \A q \in Requests \ {r} : pc'[q] = pc[q]
  BY DEF IInv, TypeOK, Goto
<1>2. TypeOK'
  BY <1>1 DEF IInv, TypeOK
<1>3. AnswerTrue(r)'
  <2>1. Stage(r) /\ AnswerTrue(r)
    BY DEF IInv, Good
  <2> QED
    BY <2>1 DEF AnswerTrue, IsSub
<1> QED
  BY <1>1, <1>2, <1>3, MoveStep DEF Good

\* A request that ends: 200 needs its credits, 400 that no active row of it is left.
LEMMA FinishStep ==
    ASSUME IInv, NEW r \in Requests, pc[r] # "done", NEW code \in {200, 400, 500}, Finish(r, code),
           code = 200 => r \in granted, code = 200 => pc[r] # "grant",
           code = 400 => row[r] = "none",
           UNCHANGED <<stripe, job, tables, history>>
    PROVE  IInv'
<1> USE DEF tables, history
<1>1. /\ pc'[r] = "done" /\ found'[r] = NoRow
      /\ answer[r] \in {0, 504}
      /\ answer'[r] = IF answer[r] = 0 THEN code ELSE answer[r]
      /\ \A q \in Requests \ {r} : pc'[q] = pc[q] /\ found'[q] = found[q] /\ answer'[q] = answer[q]
  BY DEF IInv, TypeOK, Finish, Goto, Good, Stage
<1>2. TypeOK'
  BY DEF IInv, TypeOK, Finish, Goto, PCs
<1>3. Stage(r)' /\ ClaimsKnown(r)' /\ RivalsKnown(r)'
  BY <1>1 DEF Stage, ClaimsKnown, RivalsKnown, Claiming, Registering
<1>4. AnswerTrue(r)'
  <2>1. Stage(r) /\ AnswerTrue(r)
    BY DEF IInv, Good
  <2>2. row[r] = "active" /\ r \notin granted => answer'[r] \in {500, 504}
    BY <1>1, <2>1 DEF AnswerTrue, Stage
  <2> QED
    BY <1>1, <2>1, <2>2 DEF AnswerTrue, IsSub
<1> QED
  BY <1>1, <1>2, <1>3, <1>4, MoveStep DEF Good

\* A row that was inserted is ended: nothing that is claimed of active rows gets weaker.
LEMMA EndRow ==
    ASSUME IInv, NEW r \in Requests, NEW x \in Requests, row[x] # "none",
           row' = [row EXCEPT ![x] = "ended"],
           UNCHANGED <<job, granted, since, rivals>>, TypeOK',
           \A q \in Requests \ {r} : pc'[q] = pc[q] /\ found'[q] = found[q] /\ answer'[q] = answer[q],
           Good(r)'
    PROVE  IInv'
<1>1. \A q \in Requests : (row'[q] = "none" <=> row[q] = "none")
                           /\ (row'[q] = "active" => row[q] = "active")
  <2>1. row \in [Requests -> {"none", "active", "ended"}]
    BY DEF IInv, TypeOK
  <2> QED
    BY <2>1
<1>2. ASSUME NEW q \in Requests \ {r} PROVE Good(q)'
  <2>1. Good(q)
    BY DEF IInv
  <2>2. Stage(q)' /\ AnswerTrue(q)'
    BY <1>1, <2>1 DEF Good, Stage, AnswerTrue, IsSub, RowsOf
  <2>3. ClaimsKnown(q)' /\ RivalsKnown(q)'
    BY <1>1, <2>1 DEF Good, ClaimsKnown, RivalsKnown, Claiming, Registering, IsSub, Claims,
                      RowsOf, Active
  <2> QED
    BY <2>2, <2>3 DEF Good
<1>3. DoubleGrantsOverlap' /\ TwoActiveOverlap'
  BY <1>1 DEF IInv, DoubleGrantsOverlap, TwoActiveOverlap
<1> QED
  BY <1>2, <1>3 DEF IInv

-----------------------------------------------------------------------------
\* The reference is new: there is nothing the request could have missed.
LEMMA PassCheckStep == ASSUME IInv, NEW r \in Requests, PassCheck(r) PROVE IInv'
<1> DEFINE next == IF IsSub(r) THEN "verify" ELSE "grant"
<1>1. next \in PCs /\ Goto(r, next) /\ pc'[r] = next
  BY DEF PassCheck, Goto, PCs, IInv, TypeOK
<1>2. Stage(r) /\ Stage(r)'
  BY <1>1 DEF PassCheck, tables, IInv, Good, Stage, IsSub
<1>3. ClaimsKnown(r)'
  BY DEF PassCheck, tables, ClaimsKnown, Claims
<1>4. RivalsKnown(r)'
  BY <1>1 DEF RivalsKnown, Registering
<1> QED
  BY <1>1, <1>2, <1>3, <1>4, GotoStep DEF PassCheck, tables, history, IInv, TypeOK

\* Stripe knows the reference.
LEMMA VerifyStep == ASSUME IInv, NEW r \in Requests, Verify(r) PROVE IInv'
<1> DEFINE next == IF IsSub(r) THEN "look" ELSE "check"
<1>1. next \in PCs /\ Goto(r, next) /\ pc'[r] = next
  BY DEF Verify, Goto, PCs, IInv, TypeOK
<1>2. Stage(r)'
  BY <1>1 DEF Verify, tables, IInv, Good, Stage, IsSub
<1>3. ClaimsKnown(r)'
  BY <1>1 DEF Verify, tables, IInv, Good, ClaimsKnown, Claiming, Claims, IsSub
<1>4. RivalsKnown(r)'
  BY <1>1 DEF RivalsKnown, Registering
<1>5. unpaid' \subseteq Requests
  BY DEF Verify, IInv, TypeOK
<1> QED
  BY <1>1, <1>2, <1>3, <1>4, <1>5, GotoStep DEF Verify, tables, IInv, TypeOK

\* The places between the check and the purchase, which write nothing but Stripe.
LEMMA OldSubscriptionStep ==
    ASSUME IInv, NEW r \in Requests,
           LookFinds(r) \/ LookMisses(r) \/ ProbeActive(r) \/ ProbeFails(r)
               \/ CancelOld(r) \/ CancelFails(r)
    PROVE  IInv'
<1> USE DEF LookFinds, LookMisses, ProbeActive, ProbeFails, CancelOld, CancelFails, tables, history
<1>1. PICK next \in {"probe", "cancel", "plan"} : Goto(r, next)
  BY DEF Drop
<1>2. pc'[r] = next /\ pc[r] \in {"look", "probe", "cancel"}
  BY <1>1 DEF Goto, IInv, TypeOK
<1>3. /\ found' \in [Requests -> Requests \cup {NoRow}]
      /\ \A q \in Requests \ {r} : found'[q] = found[q]
      /\ pc'[r] \in {"probe", "cancel"} => found'[r] \in RowsOf(job[r].user)
  <2>1. found \in [Requests -> Requests \cup {NoRow}] /\ Stage(r)
    BY DEF IInv, TypeOK, Good
  <2>2. CASE LookFinds(r)
    BY <2>1, <2>2 DEF Active, RowsOf
  <2>3. CASE LookMisses(r) \/ ProbeFails(r) \/ CancelOld(r) \/ CancelFails(r)
    <3>1. found' = [found EXCEPT ![r] = NoRow] /\ Goto(r, "plan")
      BY <2>3 DEF Drop
    <3>2. pc'[r] = "plan"
      BY <3>1 DEF Goto, IInv, TypeOK
    <3> QED
      BY <2>1, <3>1, <3>2
  <2>4. CASE ProbeActive(r)
    BY <2>1, <2>4 DEF Stage
  <2> QED
    BY <2>2, <2>3, <2>4
<1>4. Stage(r)'
  BY <1>2, <1>3 DEF IInv, Good, Stage, IsSub, RowsOf
<1>5. ClaimsKnown(r)'
  BY <1>2 DEF IInv, Good, ClaimsKnown, Claiming, Claims, IsSub
<1>6. RivalsKnown(r)'
  BY <1>2 DEF RivalsKnown, Registering
<1>7. stripe' \in [Refs -> StripeStates]
  BY DEF IInv, TypeOK, StripeStates
<1> QED
  BY <1>1, <1>2, <1>3, <1>4, <1>5, <1>6, <1>7, GotoStep DEF IInv, TypeOK, PCs

\* purchase_plan asks for the active row: from now on every rival is noticed.
LEMMA AskExistingStep ==
    ASSUME IInv, NEW r \in Requests, FindExisting(r) \/ MissExisting(r)
    PROVE  IInv'
<1> USE DEF FindExisting, MissExisting, tables, history
<1>1. PICK next \in {"replace", "create"} : Goto(r, next)
  OBVIOUS
<1>2. pc'[r] = next /\ pc[r] = "plan"
  BY <1>1 DEF Goto, IInv, TypeOK
<1>3. /\ found' \in [Requests -> Requests \cup {NoRow}]
      /\ \A q \in Requests \ {r} : found'[q] = found[q]
      /\ pc'[r] = "replace" => found'[r] \in RowsOf(job[r].user)
      /\ \A q \in Active(job[r].user) : pc'[r] = "replace" /\ q = found'[r]
  <2>1. found \in [Requests -> Requests \cup {NoRow}] /\ pc \in [Requests -> PCs]
    BY DEF IInv, TypeOK
  <2>2. CASE FindExisting(r)
    BY <2>1, <2>2 DEF Active, RowsOf, Goto
  <2>3. CASE MissExisting(r)
    BY <2>1, <2>3 DEF Goto
  <2> QED
    BY <2>2, <2>3
<1>4. Stage(r)'
  BY <1>2, <1>3 DEF IInv, Good, Stage, IsSub, RowsOf
<1>5. ClaimsKnown(r)'
  BY <1>2 DEF IInv, Good, ClaimsKnown, Claiming, Claims, IsSub
<1>6. RivalsKnown(r)'
  BY <1>3 DEF RivalsKnown, Active, RowsOf
<1> QED
  BY <1>1, <1>2, <1>3, <1>4, <1>5, <1>6, GotoStep DEF IInv, TypeOK, PCs

\* The found row is ended, because Stripe says so or because it is replaced.
LEMMA EndFoundStep ==
    ASSUME IInv, NEW r \in Requests, ProbeInactive(r) \/ Replace(r)
    PROVE  IInv'
<1> USE DEF ProbeInactive, Replace, Drop
<1>1. PICK next \in {"plan", "create"} :
          Goto(r, next) /\ (next = "plan" <=> pc[r] = "probe") /\ pc[r] \in {"probe", "replace"}
  OBVIOUS
<1>2. /\ pc'[r] = next
      /\ \A q \in Requests \ {r} : pc'[q] = pc[q] /\ found'[q] = found[q] /\ answer'[q] = answer[q]
  BY <1>1 DEF Goto, IInv, TypeOK
<1>3. Good(r) /\ found[r] \in Requests /\ found[r] # r /\ row[found[r]] # "none"
  BY <1>1 DEF IInv, Good, Stage, RowsOf
<1>4. row' = [row EXCEPT ![found[r]] = "ended"] /\ row'[r] = row[r]
  BY <1>3 DEF IInv, TypeOK
<1>5. TypeOK'
  <2>1. TypeOK
    BY DEF IInv
  <2>2. pc' \in [Requests -> PCs] /\ row' \in [Requests -> {"none", "active", "ended"}]
    BY <1>1, <1>4, <2>1 DEF TypeOK, Goto, PCs
  <2>3. found' \in [Requests -> Requests \cup {NoRow}]
    BY <2>1 DEF TypeOK
  <2>4. UNCHANGED <<stripe, job, granted, answer, unpaid, since, rivals>>
    BY DEF history
  <2> QED
    BY <2>1, <2>2, <2>3, <2>4 DEF TypeOK
<1>6. Stage(r)' /\ ClaimsKnown(r)' /\ AnswerTrue(r)'
  BY <1>1, <1>2, <1>3, <1>4 DEF Good, Stage, ClaimsKnown, AnswerTrue, Claiming, Claims, IsSub, history
<1>7. RivalsKnown(r)'
  <2>1. CASE pc[r] = "probe"
    BY <1>1, <1>2, <2>1 DEF RivalsKnown, Registering
  <2>2. CASE pc[r] = "replace"
    <3>1. ASSUME NEW q \in Requests, row'[q] = "active" PROVE row[q] = "active" /\ q # found[r]
      BY <1>3, <1>4, <3>1 DEF IInv, TypeOK
    <3> QED
      BY <1>1, <1>2, <1>3, <2>2, <3>1 DEF Good, RivalsKnown, Registering, Active, RowsOf, history
  <2> QED
    BY <1>1, <2>1, <2>2
<1> QED
  BY <1>2, <1>3, <1>4, <1>5, <1>6, <1>7, EndRow DEF Good, history

\* The request ends its own row and is refused.
LEMMA RevokeStep == ASSUME IInv, NEW r \in Requests, Revoke(r) PROVE IInv'
<1> USE DEF Revoke, history
<1>1. /\ pc'[r] = "done" /\ answer[r] \in {0, 504} /\ r \in granted /\ IsSub(r)
      /\ answer'[r] = IF answer[r] = 0 THEN 400 ELSE answer[r]
      /\ \A q \in Requests \ {r} : pc'[q] = pc[q] /\ found'[q] = found[q] /\ answer'[q] = answer[q]
  BY DEF IInv, TypeOK, Finish, Goto, Good, Stage
<1>2. row[r] # "none"
  BY <1>1 DEF IInv, Good, AnswerTrue
<1>3. row'[r] = "ended"
  BY DEF IInv, TypeOK
<1>4. TypeOK'
  BY DEF IInv, TypeOK, Finish, Goto, PCs
<1>5. Good(r)'
  BY <1>1, <1>3 DEF Good, Stage, ClaimsKnown, RivalsKnown, AnswerTrue, Claiming, Registering, IsSub
<1> QED
  BY <1>1, <1>2, <1>4, <1>5, EndRow

\* The new row: whoever else is about to insert one for this user takes note of it.
LEMMA CreateStep == ASSUME IInv, NEW r \in Requests, Create(r) PROVE IInv'
<1> USE DEF Create
<1>1. /\ pc'[r] = "grant" /\ row'[r] = "active" /\ row[r] = "none" /\ IsSub(r)
      /\ \A q \in Requests \ {r} : pc'[q] = pc[q] /\ row'[q] = row[q]
  BY DEF IInv, TypeOK, Goto, Good, Stage
<1>2. TypeOK'
  BY DEF IInv, TypeOK, Goto, PCs
<1>3. \A q \in Active(job[r].user) : q \in rivals[r]
  BY DEF IInv, Good, RivalsKnown, Registering
<1>4. \A q \in Requests : rivals[q] \subseteq rivals'[q]
  OBVIOUS
<1>5. ASSUME NEW q \in Requests PROVE Good(q)'
  <2>1. Good(q)
    BY DEF IInv
  <2>2. Stage(q)' /\ AnswerTrue(q)'
    BY <1>1, <2>1 DEF Good, Stage, AnswerTrue, IsSub, RowsOf
  <2>3. ClaimsKnown(q)'
    BY <1>1, <2>1 DEF Good, ClaimsKnown, Claiming, IsSub, Claims
  <2>4. RivalsKnown(q)'
    <3>1. CASE q = r
      BY <1>1, <3>1 DEF RivalsKnown, Registering
    <3>2. CASE q # r
      <4> SUFFICES ASSUME Registering(q), NEW x \in Requests,
                          job[x].user = job[q].user, row'[x] = "active"
                   PROVE  x \in rivals'[q] \/ (pc[q] = "replace" /\ x = found[q])
        BY <1>1, <3>2 DEF RivalsKnown, Registering, Active, RowsOf
      <4>1. CASE x = r
        BY <3>2, <4>1
      <4>2. CASE x # r
        BY <1>1, <1>4, <2>1, <4>2 DEF Good, RivalsKnown, Active, RowsOf
      <4> QED
        BY <4>1, <4>2
    <3> QED
      BY <3>1, <3>2
  <2> QED
    BY <2>2, <2>3, <2>4 DEF Good
<1>6. TwoActiveOverlap'
  <2> SUFFICES ASSUME NEW q \in Requests, NEW x \in Requests, q # x,
                      job[q].user = job[x].user, row'[q] = "active", row'[x] = "active"
               PROVE  q \in rivals'[x] \/ x \in rivals'[q]
    BY DEF TwoActiveOverlap
  <2>1. CASE q # r /\ x # r
    BY <1>1, <1>4, <2>1 DEF IInv, TwoActiveOverlap
  <2>2. CASE q = r
    BY <1>1, <1>3, <1>4, <2>2 DEF Active, RowsOf
  <2>3. CASE x = r
    BY <1>1, <1>3, <1>4, <2>3 DEF Active, RowsOf
  <2> QED
    BY <2>1, <2>2, <2>3
<1>7. DoubleGrantsOverlap'
  BY DEF IInv, DoubleGrantsOverlap
<1> QED
  BY <1>2, <1>5, <1>6, <1>7 DEF IInv

\* The credits: whoever else is about to commit some for this reference takes note.
LEMMA GrantStep == ASSUME IInv, NEW r \in Requests, Grant(r) PROVE IInv'
<1> USE DEF Grant
<1>1. /\ pc'[r] = IF IsSub(r) THEN "confirm" ELSE "reply"
      /\ \A q \in Requests \ {r} : pc'[q] = pc[q]
  BY DEF IInv, TypeOK, Goto
<1>2. TypeOK'
  BY DEF IInv, TypeOK, Goto, PCs
<1>3. Claims(job[r].ref) \subseteq since[r]
  BY DEF IInv, Good, ClaimsKnown, Claiming
<1>4. \A q \in Requests : since[q] \subseteq since'[q]
  OBVIOUS
<1>5. ASSUME NEW q \in Requests PROVE Good(q)'
  <2>1. Good(q)
    BY DEF IInv
  <2>2. Stage(q)' /\ AnswerTrue(q)' /\ RivalsKnown(q)'
    BY <1>1, <2>1 DEF Good, Stage, AnswerTrue, RivalsKnown, Registering, IsSub, RowsOf, Active
  <2>3. ClaimsKnown(q)'
    BY <1>1, <1>4, <2>1 DEF Good, ClaimsKnown, Claiming, IsSub, Claims
  <2> QED
    BY <2>2, <2>3 DEF Good
<1>6. DoubleGrantsOverlap'
  <2> SUFFICES ASSUME NEW q \in granted', NEW x \in granted', q # x, job[q].ref = job[x].ref
               PROVE  q \in since'[x] \/ x \in since'[q]
    BY DEF DoubleGrantsOverlap
  <2>1. q \in Requests /\ x \in Requests
    BY DEF IInv, TypeOK
  <2>2. CASE q \in granted /\ x \in granted
    BY <1>4, <2>1, <2>2 DEF IInv, DoubleGrantsOverlap
  <2>3. CASE q = r
    BY <1>3, <1>4, <2>1, <2>3 DEF Claims
  <2>4. CASE x = r
    BY <1>3, <1>4, <2>1, <2>4 DEF Claims
  <2> QED
    BY <2>2, <2>3, <2>4
<1>7. TwoActiveOverlap'
  BY DEF IInv, TwoActiveOverlap
<1> QED
  BY <1>2, <1>5, <1>6, <1>7 DEF IInv

-----------------------------------------------------------------------------
\* The endings that write nothing but the answer.
LEMMA EndingStep ==
    ASSUME IInv, NEW r \in Requests,
           RefuseClaimed(r) \/ RefuseUnverified(r) \/ RefusePlan(r) \/ AmbiguousExisting(r)
               \/ Reply(r) \/ Confirm(r) \/ Fail(r)
    PROVE  IInv'
<1> USE DEF RefuseClaimed, RefuseUnverified, RefusePlan, AmbiguousExisting, Reply, Confirm, Fail
<1>1. PICK code \in {200, 400, 500} :
          /\ Finish(r, code)
          /\ code = 200 => pc[r] \in {"reply", "confirm"}
          /\ code = 400 => pc[r] \in {"check", "verify", "plan"}
  OBVIOUS
<1>2. Stage(r) /\ pc[r] # "done" /\ UNCHANGED <<stripe, job, tables, history>>
  BY DEF IInv, Good
<1>3. (code = 200 => r \in granted /\ pc[r] # "grant") /\ (code = 400 => row[r] = "none")
  BY <1>1, <1>2 DEF Stage
<1> QED
  BY <1>1, <1>2, <1>3, FinishStep

\* A subscription that turns out not to be active is to be revoked.
LEMMA DisownStep == ASSUME IInv, NEW r \in Requests, Disown(r) PROVE IInv'
<1> USE DEF Disown, tables, history
<1>1. pc'[r] = "revoke" /\ pc[r] = "confirm" /\ "revoke" \in PCs
  BY DEF Goto, IInv, TypeOK, PCs
<1>2. Stage(r)' /\ ClaimsKnown(r)' /\ RivalsKnown(r)'
  BY <1>1 DEF IInv, Good, Stage, ClaimsKnown, RivalsKnown, Claiming, Registering, IsSub
<1> QED
  BY <1>1, <1>2, GotoStep DEF IInv, TypeOK

\* The client is answered by the middleware: nothing else is touched.
LEMMA TimeoutStep == ASSUME IInv, NEW r \in Requests, Timeout(r) PROVE IInv'
<1> USE DEF Timeout, tables, history
<1>1. answer'[r] = 504 /\ \A q \in Requests \ {r} : answer'[q] = answer[q]
  BY DEF IInv, TypeOK
<1>2. TypeOK'
  BY DEF IInv, TypeOK
<1>3. Good(r)'
  BY <1>1 DEF IInv, Good, Stage, ClaimsKnown, RivalsKnown, AnswerTrue, Claiming, Registering,
              IsSub, Claims, RowsOf, Active
<1> QED
  BY <1>1, <1>2, <1>3, MoveStep

\* What Stripe does on its own, and stuttering, change nothing the strengthening speaks of.
LEMMA OutsideStep ==
    ASSUME IInv, (\E s \in Subscriptions : StripeMoves(s)) \/ UNCHANGED vars
    PROVE  IInv'
<1>1. UNCHANGED <<job, pc, row, granted, found, answer, unpaid, since, rivals>>
  BY DEF StripeMoves, vars, tables, history
<1>2. stripe' \in [Refs -> StripeStates]
  BY DEF IInv, TypeOK, StripeMoves, StripeStates, vars
<1>3. TypeOK'
  BY <1>1, <1>2 DEF IInv, TypeOK
<1>4. (\A r \in Requests : Good(r))'
  BY <1>1 DEF IInv, Good, Stage, ClaimsKnown, RivalsKnown, AnswerTrue, Claiming, Registering,
              IsSub, Claims, RowsOf, Active
<1>5. DoubleGrantsOverlap' /\ TwoActiveOverlap'
  BY <1>1 DEF IInv, DoubleGrantsOverlap, TwoActiveOverlap
<1> QED
  BY <1>3, <1>4, <1>5 DEF IInv

\* Every step keeps the strengthening.
LEMMA StepIInv == IInv /\ [Next]_vars => IInv'
<1> SUFFICES ASSUME IInv, [Next]_vars PROVE IInv'
  OBVIOUS
<1>1. ASSUME NEW r \in Requests, Handler(r) PROVE IInv'
  BY <1>1, PassCheckStep, VerifyStep, OldSubscriptionStep, AskExistingStep, EndFoundStep,
     RevokeStep, CreateStep, GrantStep, EndingStep, DisownStep DEF Handler
<1>2. ASSUME NEW r \in Requests, Fail(r) \/ Timeout(r) PROVE IInv'
  BY <1>2, EndingStep, TimeoutStep
<1> QED
  BY <1>1, <1>2, OutsideStep DEF Next

\* The strengthening always holds.
LEMMA Invariance == Spec => []IInv
<1> QED
  BY InitIInv, StepIInv, PTL DEF Spec

-----------------------------------------------------------------------------
\* The tables and the handlers' variables keep their types.
THEOREM TypeCorrect == Spec => []TypeOK
<1>1. IInv => TypeOK
  BY DEF IInv
<1> QED
  BY <1>1, Invariance, PTL

\* However many requests present a reference, only overlapping ones can be paid twice; one that
\* goes on behind its 504 still overlaps.
THEOREM NoDoublePaymentAfterwards == Spec => []DoubleGrantsOverlap
<1>1. IInv => DoubleGrantsOverlap
  BY DEF IInv
<1> QED
  BY <1>1, Invariance, PTL

\* However many purchases a user makes, only overlapping ones leave two active rows.
THEOREM OneActiveWithoutOverlap == Spec => []TwoActiveOverlap
<1>1. IInv => TwoActiveOverlap
  BY DEF IInv
<1> QED
  BY <1>1, Invariance, PTL

\* An answer means of the tables what AnswersMatchTables says it does.
THEOREM HonestAnswers == Spec => []AnswersMatchTables
<1>1. IInv => AnswersMatchTables
  BY DEF IInv, Good, AnswerTrue, AnswersMatchTables
<1> QED
  BY <1>1, Invariance, PTL

\* No session, however stale, brings an ended row back.
THEOREM EndedForGood == Spec => NoRevival
<1>1. IInv /\ [Next]_vars => [\A r \in Requests : row[r] = "ended" => row'[r] = "ended"]_vars
  <2> SUFFICES ASSUME IInv, Next, NEW x \in Requests, row[x] = "ended"
               PROVE  row'[x] = "ended"
    OBVIOUS
  <2>1. row \in [Requests -> {"none", "active", "ended"}]
    BY DEF IInv, TypeOK
  <2>2. ASSUME NEW r \in Requests, Create(r) PROVE row'[x] = "ended"
    <3>1. row[r] = "none"
      BY <2>2 DEF Create, IInv, Good, Stage
    <3> QED
      BY <2>1, <2>2, <3>1 DEF Create
  <2>3. ASSUME NEW r \in Requests, ProbeInactive(r) \/ Replace(r) \/ Revoke(r)
        PROVE  row'[x] = "ended"
    BY <2>1, <2>3 DEF ProbeInactive, Replace, Revoke
  <2>4. ASSUME NEW r \in Requests, Handler(r) \/ Fail(r) \/ Timeout(r),
               ~Create(r), ~(ProbeInactive(r) \/ Replace(r) \/ Revoke(r))
        PROVE  UNCHANGED row
    BY <2>4 DEF Handler, PassCheck, RefuseClaimed, Verify, RefuseUnverified, LookFinds,
                LookMisses, ProbeActive, ProbeFails, CancelOld, CancelFails, RefusePlan,
                FindExisting, MissExisting, AmbiguousExisting, Grant, Reply, Confirm, Disown,
                Fail, Timeout, tables
  <2>5. ASSUME NEW s \in Subscriptions, StripeMoves(s) PROVE UNCHANGED row
    BY <2>5 DEF StripeMoves, tables
  <2> QED
    BY <2>2, <2>3, <2>4, <2>5 DEF Next
<1> QED
  BY <1>1, Invariance, PTL DEF Spec, NoRevival

\* What the service cancels in Stripe is a subscription the same user had registered.
THEOREM OnlyRegisteredCancelled == Spec => CancelsOnlyRegistered
<1>1. IInv /\ [Next]_vars =>
          [\A r \in Requests, s \in Subscriptions :
              CancelOld(r) /\ stripe'[s] # stripe[s]
              => \E q \in RowsOf(job[r].user) : job[q].ref = s]_vars
  <2> SUFFICES ASSUME IInv, NEW r \in Requests, NEW s \in Subscriptions,
                      CancelOld(r), stripe'[s] # stripe[s]
               PROVE  \E q \in RowsOf(job[r].user) : job[q].ref = s
    OBVIOUS
  <2>1. found[r] \in RowsOf(job[r].user)
    BY DEF CancelOld, IInv, Good, Stage
  <2>2. job[found[r]].ref = s
    BY DEF CancelOld, IInv, TypeOK
  <2> QED
    BY <2>1, <2>2
<1> QED
  BY <1>1, Invariance, PTL DEF Spec, CancelsOnlyRegistered

=============================================================================
