--------------------------- MODULE SessionsProofs ---------------------------
(***************************************************************************)
(* Sessions is safe for any number of requests, any pool and any number of *)
(* errors.                                                                 *)
(*                                                                         *)
(* RetryNeverHelps needs to know what has been said to a client whose      *)
(* request is still running: nothing, or 504.  That and the fact that only *)
(* a request of the interface sleeps are the strengthening.                *)
(***************************************************************************)
EXTENDS Sessions, FiniteSetTheorems, TLAPS

Running(r) ==
    /\ pc[r] # "idle" => answer[r] \in {"none", "504"}
    /\ pc[r] = "sleeping" => kind[r] = "api"

IInv ==
    /\ TypeOK
    /\ \A r \in Requests : Running(r)
    /\ RetryNeverHelps
-----------------------------------------------------------------------------
\* A request that does not take a connection leaves no more of them in use.
LEMMA HoldersShrink ==
    ASSUME TypeOK, NEW r \in Requests, NEW label \in PCs \ {"holding"}, Goto(r, label)
    PROVE  Cardinality(Holders') <= PoolLimit
<1>1. IsFiniteSet(Holders)
  BY SessionsAssumption, FS_Subset DEF Holders
<1>2. Holders' \subseteq Holders
  BY DEF Holders, Goto, TypeOK
<1>3. /\ Cardinality(Holders') <= Cardinality(Holders)
      /\ Cardinality(Holders') \in Nat /\ Cardinality(Holders) \in Nat
  BY <1>1, <1>2, FS_Subset, FS_CardinalityType
<1> QED
  BY <1>3, SessionsAssumption DEF TypeOK

\* One that takes a connection when one is left leaves no more in use than there are.
LEMMA HoldersGrow ==
    ASSUME TypeOK, NEW r \in Requests, Acquire(r)
    PROVE  Cardinality(Holders') <= PoolLimit
<1>1. IsFiniteSet(Holders)
  BY SessionsAssumption, FS_Subset DEF Holders
<1>2. Holders' = Holders \cup {r} /\ r \notin Holders
  BY DEF Holders, Acquire, Goto, TypeOK
<1>3. Cardinality(Holders') = Cardinality(Holders) + 1 /\ Cardinality(Holders) \in Nat
  BY <1>1, <1>2, FS_AddElement, FS_CardinalityType
<1> QED
  BY <1>3, SessionsAssumption DEF Acquire

LEMMA InitIInv == Init => IInv
<1> SUFFICES ASSUME Init PROVE IInv
  OBVIOUS
<1>1. Holders = {}
  BY DEF Init, Holders
<1>2. Cardinality(Holders) <= PoolLimit
  BY <1>1, FS_EmptySet, SessionsAssumption
<1>3. degraded \in BOOLEAN
  BY DEF Init
<1>4. TypeOK
  BY <1>2, <1>3, SessionsAssumption DEF Init, TypeOK, Phases, PCs, Answers
<1> QED
  BY <1>4 DEF Init, IInv, Running, RetryNeverHelps

\* The step of a handler: the type of what it leaves.
LEMMA HandlerType ==
    ASSUME TypeOK, NEW r \in Requests, Handler(r) \/ Begin(r) \/ BeginProbe(r)
    PROVE  TypeOK'
<1>1. Cardinality(Holders') <= PoolLimit
  <2>1. CASE Acquire(r)
    BY <2>1, HoldersGrow
  <2>2. CASE \E label \in PCs \ {"holding"} : Goto(r, label)
    BY <2>2, HoldersShrink
  <2>3. CASE Timeout(r)
    BY <2>3 DEF Timeout, TypeOK, Holders
  <2>4. Acquire(r) \/ Timeout(r) \/ \E label \in PCs \ {"holding"} : Goto(r, label)
    BY DEF Handler, Begin, BeginProbe, Acquire, Queue, GiveBack, Respond, Refused, Transient,
           NotTransient, WakeUp, Timeout, ProbeAnswers, ProbeFails, Finish, PCs
  <2> QED
    BY <2>1, <2>2, <2>3, <2>4
<1>2. phase' = phase
  BY DEF Handler, Begin, BeginProbe, Acquire, Queue, GiveBack, Respond, Refused, Transient,
         NotTransient, WakeUp, Timeout, ProbeAnswers, ProbeFails
<1>3. errors' \in 0..MaxErrors /\ last' \in {"never", "recent", "old"}
  <2>1. \/ UNCHANGED <<errors, last>>
        \/ errors' = 0 /\ last' = "never"
        \/ Count(r)
    BY DEF counters, Handler, Begin, BeginProbe, Acquire, Queue, GiveBack, Respond, Refused,
           Transient, NotTransient, WakeUp, Timeout, ProbeAnswers, ProbeFails, ResetWhenQuiet
  <2> QED
    BY <2>1, SessionsAssumption DEF TypeOK, Count
<1>7. degraded' \in BOOLEAN
  <2>1. \/ degraded' = degraded \/ degraded' = FALSE
        \/ degraded' = (degraded \/ errors + 1 >= Threshold)
    BY DEF counters, Handler, Begin, BeginProbe, Acquire, Queue, GiveBack, Respond, Refused,
           Transient, NotTransient, WakeUp, Timeout, ProbeAnswers, ProbeFails, ResetWhenQuiet
  <2> QED
    BY <2>1 DEF TypeOK
<1>4. kind' \in [Requests -> {"api", "probe"}] /\ failed' \subseteq Requests
  BY DEF TypeOK, Handler, Begin, BeginProbe, Acquire, Queue, GiveBack,
         Respond, Refused, Transient, NotTransient, WakeUp, Timeout, ProbeAnswers, ProbeFails, Count
<1>5. pc' \in [Requests -> PCs]
  BY DEF TypeOK, PCs, Handler, Begin, BeginProbe, Acquire, Queue, GiveBack, Goto, Finish,
         Respond, Refused, Transient, NotTransient, WakeUp, Timeout, ProbeAnswers, ProbeFails
<1>6. answer' \in [Requests -> Answers]
  BY DEF TypeOK, Answers, Handler, Begin, BeginProbe, Acquire, Queue, GiveBack, Finish,
         Respond, Refused, Transient, NotTransient, WakeUp, Timeout, ProbeAnswers, ProbeFails
<1> QED
  BY <1>1, <1>2, <1>3, <1>4, <1>5, <1>6, <1>7 DEF TypeOK

\* The step of a handler: what it leaves said of its own request and of the others.
LEMMA HandlerInv ==
    ASSUME IInv, NEW r \in Requests, Handler(r) \/ Begin(r) \/ BeginProbe(r)
    PROVE  IInv'
<1>1. TypeOK'
  BY HandlerType DEF IInv
<1>2. ASSUME NEW q \in Requests PROVE Running(q)'
  BY DEF IInv, Running, TypeOK, Handler, Begin, BeginProbe, Acquire, Queue, GiveBack, Goto, Finish,
         Respond, Refused, Transient, NotTransient, WakeUp, Timeout, ProbeAnswers, ProbeFails
<1>3. RetryNeverHelps'
  <2> SUFFICES ASSUME NEW q \in failed'
               PROVE  pc'[q] = "sleeping" \/ (pc'[q] = "idle" /\ answer'[q] \in {"500", "504"})
    BY DEF RetryNeverHelps
  <2>1. CASE q # r
    <3>1. q \in failed /\ q \in Requests
      <4>1. UNCHANGED failed \/ failed' = failed \ {r} \/ failed' = failed \cup {r}
        BY DEF Count, Handler, Begin, BeginProbe, Acquire, Queue, GiveBack, Respond, Refused,
               Transient, NotTransient, WakeUp, Timeout, ProbeAnswers, ProbeFails
      <4> QED
        BY <2>1, <4>1 DEF IInv, TypeOK
    <3>2. pc'[q] = pc[q] /\ answer'[q] = answer[q]
      <4>1. \/ UNCHANGED pc
            \/ \E label \in PCs : pc' = [pc EXCEPT ![r] = label]
        BY DEF PCs, Goto, Finish, Handler, Begin, BeginProbe, Acquire, Queue, GiveBack, Respond,
               Refused, Transient, NotTransient, WakeUp, Timeout, ProbeAnswers, ProbeFails
      <4>2. \/ UNCHANGED answer
            \/ \E what : answer' = [answer EXCEPT ![r] = what]
        BY DEF Finish, Handler, Begin, BeginProbe, Acquire, Queue, GiveBack, Respond,
               Refused, Transient, NotTransient, WakeUp, Timeout, ProbeAnswers, ProbeFails
      <4> QED
        BY <2>1, <3>1, <4>1, <4>2 DEF IInv, TypeOK
    <3> QED
      BY <3>1, <3>2 DEF IInv, RetryNeverHelps
  <2>2. CASE q = r /\ (Transient(r) \/ NotTransient(r))
    BY <2>2 DEF IInv, TypeOK, Running, Goto, Finish, Transient, NotTransient
  <2>3. CASE q = r /\ ~(Transient(r) \/ NotTransient(r))
    <3>1. r \in failed
      BY <2>3 DEF Handler, Begin, BeginProbe, Acquire, Queue, GiveBack,
             Respond, Refused, WakeUp, Timeout, ProbeAnswers, ProbeFails
    <3>2. (pc[r] = "sleeping" /\ kind[r] = "api") \/ pc[r] = "idle"
      BY <3>1 DEF IInv, RetryNeverHelps, Running
    <3>3. WakeUp(r) \/ Timeout(r)
      BY <2>3, <3>2 DEF Handler, Begin, BeginProbe, Acquire, Queue, GiveBack,
             Respond, Refused, ProbeAnswers, ProbeFails
    <3> QED
      BY <2>3, <3>1, <3>2, <3>3 DEF IInv, TypeOK, Running, Goto, Finish, WakeUp, Timeout
  <2> QED
    BY <2>1, <2>2, <2>3
<1> QED
  BY <1>1, <1>2, <1>3 DEF IInv

\* Time and the shutdown leave the requests alone.
LEMMA ProcessInv ==
    ASSUME IInv, Age \/ Close \/ Drain \/ Exit \/ Start
    PROVE  IInv'
<1>1. UNCHANGED <<kind, pc, answer, failed>>
  BY DEF Age, Close, Drain, Exit, Start
<1>2. errors' \in 0..MaxErrors /\ last' \in {"never", "recent", "old"} /\ phase' \in Phases
  BY SessionsAssumption DEF IInv, TypeOK, counters, Phases, Age, Close, Drain, Exit, Start
<1>3. degraded' = degraded \/ degraded' = FALSE
  BY DEF counters, Age, Close, Drain, Exit, Start
<1>4. TypeOK'
  BY <1>1, <1>2, <1>3 DEF IInv, TypeOK, Holders
<1> QED
  BY <1>1, <1>4 DEF IInv, Running, RetryNeverHelps

THEOREM StepIInv == IInv /\ [Next]_vars => IInv'
<1> SUFFICES ASSUME IInv, [Next]_vars PROVE IInv'
  OBVIOUS
<1>1. CASE UNCHANGED vars
  BY <1>1 DEF vars, counters, IInv, TypeOK, Holders, Running, RetryNeverHelps
<1>2. CASE Next
  BY <1>2, HandlerInv, ProcessInv DEF Next
<1> QED
  BY <1>1, <1>2
-----------------------------------------------------------------------------
\* The strengthening is an invariant.
LEMMA Invariance == Spec => []IInv
  BY InitIInv, StepIInv, PTL DEF Spec

\* Every reachable state has its type: no more connections are in use than the pool has.
THEOREM TypeCorrect == Spec => []TypeOK
<1>1. IInv => TypeOK
  BY DEF IInv
<1> QED
  BY <1>1, Invariance, PTL

\* A request whose error reached get_db is answered 500 or 504, for any number of requests.
THEOREM NoSecondChance == Spec => []RetryNeverHelps
<1>1. IInv => RetryNeverHelps
  BY DEF IInv
<1> QED
  BY <1>1, Invariance, PTL

\* What it takes to bring degraded mode on and to end it.
THEOREM DegradedOnlyWhenEarned == Spec => DegradedIsEarned
<1> DEFINE Earned ==
       /\ degraded' /\ ~degraded =>
             errors' >= Threshold /\ \A r \in Requests : pc'[r] = "sleeping" => pc[r] = "sleeping"
       /\ degraded /\ ~degraded' => last = "old" \/ phase = "stopped"
<1>1. ASSUME TypeOK, [Next]_vars PROVE Earned
  <2>1. ASSUME degraded', ~degraded
        PROVE  \E r \in Requests : NotTransient(r) /\ errors + 1 >= Threshold
    BY <1>1, <2>1 DEF vars, counters, Next, Age, Close, Drain, Exit, Start, Handler, Begin,
           BeginProbe, Acquire, Queue, GiveBack, Respond, Refused, Transient, NotTransient, WakeUp,
           Timeout, ProbeAnswers, ProbeFails, ResetWhenQuiet
  <2>2. ASSUME NEW r \in Requests, NotTransient(r), errors + 1 >= Threshold
        PROVE  /\ errors' >= Threshold
               /\ \A q \in Requests : pc'[q] = "sleeping" => pc[q] = "sleeping"
    BY <1>1, <2>2 DEF TypeOK, NotTransient, Count, Finish, Goto
  <2>3. ASSUME degraded, ~degraded' PROVE last = "old" \/ phase = "stopped"
    BY <1>1, <2>3 DEF vars, counters, Next, Age, Close, Drain, Exit, Start, Handler, Begin,
           BeginProbe, Acquire, Queue, GiveBack, Respond, Refused, Transient, NotTransient, WakeUp,
           Timeout, ProbeAnswers, ProbeFails, ResetWhenQuiet
  <2> QED
    BY <2>1, <2>2, <2>3
<1> QED
  BY <1>1, TypeCorrect, PTL DEF Spec, DegradedIsEarned

=============================================================================
