------------------------------ MODULE Sessions ------------------------------
(***************************************************************************)
(* The database sessions of one process: the dependency get_db with its    *)
(* retry loop, its count of errors and its degraded mode                   *)
(* (core/database.py), the connection pool, the probes                     *)
(* (routers/healthcheck_router.py) and the shutdown (main.py).             *)
(*                                                                         *)
(* get_db yields its session to the request.  An error of the request is   *)
(* thrown in at that yield, and a generator that answers it by yielding    *)
(* again is an error of its own: the retry loop can count and sleep, but   *)
(* no request ever gets a second session.                                  *)
(*                                                                         *)
(* The probes import the degraded flag and the count as values, when the   *)
(* module is loaded.  The server stops accepting and waits for every       *)
(* request before it tells the application of the shutdown.                *)
(***************************************************************************)
EXTENDS FiniteSets, Integers

CONSTANTS Requests,    \* requests that can be in the process at one time
          PoolLimit,   \* DB_POOL_SIZE + DB_MAX_OVERFLOW
          MaxErrors    \* bound on the errors counted

ASSUME SessionsAssumption ==
    /\ IsFiniteSet(Requests)
    /\ PoolLimit \in Nat \ {0}
    /\ MaxErrors \in Nat

VARIABLES
    phase,      \* of the process
    errors,     \* _connection_error_count
    last,       \* how long ago _last_connection_error was
    degraded,   \* _in_degraded_mode
    kind,       \* request -> what it asks for
    pc,         \* request -> where it stands
    answer,     \* request -> what it was answered
    failed      \* requests whose error reached get_db (history)

counters == <<errors, last, degraded>>
vars     == <<phase, counters, kind, pc, answer, failed>>

Phases  == {"running", "closing", "draining", "stopped"}
PCs     == {"idle", "open", "waiting", "holding", "sleeping"}
Answers == {"none", "handler", "500", "504", "unhealthy", "degraded", "healthy"}

\* MAX_ERROR_COUNT_BEFORE_DEGRADATION
Threshold == 3

Init ==
    /\ phase = "running"
    /\ errors = 0 /\ last = "never" /\ degraded = FALSE
    /\ kind = [r \in Requests |-> "api"]
    /\ pc = [r \in Requests |-> "idle"]
    /\ answer = [r \in Requests |-> "none"]
    /\ failed = {}

Goto(r, label) == pc' = [pc EXCEPT ![r] = label]

\* The handler ends; an answer after the one of the timeout is dropped.
Finish(r, what) ==
    /\ Goto(r, "idle")
    /\ answer' = [answer EXCEPT ![r] = IF @ = "none" THEN what ELSE @]

Holders == {r \in Requests : pc[r] = "holding"}

\* A new session clears the count and the mode when the last error is ERROR_RESET_PERIOD old.
ResetWhenQuiet ==
    IF last = "old"
    THEN errors' = 0 /\ last' = "never" /\ degraded' = FALSE
    ELSE UNCHANGED counters
-----------------------------------------------------------------------------
\* Mutant of Begin: connections kept alive bring requests after the socket is closed.
BeginWhileClosing(r) ==
    /\ phase \in {"running", "closing"} /\ pc[r] = "idle"
    /\ kind' = [kind EXCEPT ![r] = "api"]
    /\ answer' = [answer EXCEPT ![r] = "none"]
    /\ failed' = failed \ {r}
    /\ Goto(r, "open")
    /\ ResetWhenQuiet
    /\ UNCHANGED phase

\* A request enters get_db; its session has no connection yet.
Begin(r) ==
    /\ phase = "running" /\ pc[r] = "idle"
    /\ kind' = [kind EXCEPT ![r] = "api"]
    /\ answer' = [answer EXCEPT ![r] = "none"]
    /\ failed' = failed \ {r}
    /\ Goto(r, "open")
    /\ ResetWhenQuiet
    /\ UNCHANGED phase

\* Mutant of Acquire: one connection more than there are.
AcquireOneMore(r) ==
    /\ pc[r] \in {"open", "waiting"}
    /\ Cardinality(Holders) <= PoolLimit
    /\ Goto(r, "holding")
    /\ UNCHANGED <<phase, counters, kind, answer, failed>>

\* The first statement of a transaction takes a connection from the pool, or queues for one.
Acquire(r) ==
    /\ pc[r] \in {"open", "waiting"}
    /\ Cardinality(Holders) < PoolLimit
    /\ Goto(r, "holding")
    /\ UNCHANGED <<phase, counters, kind, answer, failed>>

Queue(r) ==
    /\ pc[r] = "open"
    /\ Cardinality(Holders) >= PoolLimit
    /\ Goto(r, "waiting")
    /\ UNCHANGED <<phase, counters, kind, answer, failed>>

\* A commit or a rollback gives the connection back.
GiveBack(r) ==
    /\ pc[r] = "holding" /\ kind[r] = "api"
    /\ Goto(r, "open")
    /\ UNCHANGED <<phase, counters, kind, answer, failed>>

\* The handler answers, also when it has caught an error itself: get_db hears nothing of it.
Respond(r) ==
    /\ pc[r] \in {"open", "holding"} /\ kind[r] = "api"
    /\ Finish(r, "handler")
    /\ UNCHANGED <<phase, counters, kind, failed>>

\* The server refuses the connection: no SQLAlchemyError, so the error passes get_db uncounted.
Refused(r) ==
    /\ pc[r] = "open" /\ kind[r] = "api"
    /\ Finish(r, "500")
    /\ UNCHANGED <<phase, counters, kind, failed>>

\* An error reaches get_db, which closes the session and counts it.
Count(r) ==
    /\ errors < MaxErrors
    /\ errors' = errors + 1
    /\ last' = "recent"
    /\ failed' = failed \cup {r}

\* Mutant of Transient: the mode is looked at before the sleep.
TransientDegrades(r) ==
    /\ \/ pc[r] = "holding"
       \/ pc[r] = "waiting"
    /\ kind[r] = "api"
    /\ Count(r)
    /\ degraded' = (degraded \/ errors + 1 >= Threshold)
    /\ Goto(r, "sleeping")
    /\ UNCHANGED <<phase, kind, answer>>

\* A lost connection, or DB_POOL_TIMEOUT in the queue: get_db sleeps to try again.
Transient(r) ==
    /\ \/ pc[r] = "holding"
       \/ pc[r] = "waiting"
    /\ kind[r] = "api"
    /\ Count(r)
    /\ Goto(r, "sleeping")
    /\ UNCHANGED <<phase, degraded, kind, answer>>

\* Any other error of SQLAlchemy, those raised without a connection (a row that expired in a
\* rollback) included: _handle_db_error, and the error is raised again.
NotTransient(r) ==
    /\ pc[r] \in {"open", "holding"} /\ kind[r] = "api"
    /\ Count(r)
    /\ degraded' = (degraded \/ errors + 1 >= Threshold)
    /\ Finish(r, "500")
    /\ UNCHANGED <<phase, kind>>

\* Mutant of WakeUp: the request is run again with the second session.
TryAgain(r) ==
    /\ pc[r] = "sleeping"
    /\ ResetWhenQuiet
    /\ Goto(r, "open")
    /\ UNCHANGED <<phase, kind, answer, failed>>

\* The loop creates a second session and yields it: RuntimeError, the generator did not stop.
WakeUp(r) ==
    /\ pc[r] = "sleeping"
    /\ ResetWhenQuiet
    /\ Finish(r, "500")
    /\ UNCHANGED <<phase, kind, failed>>

\* The timeout middleware answers; the handler runs on in a task of its own.
Timeout(r) ==
    /\ pc[r] # "idle" /\ kind[r] = "api" /\ answer[r] = "none"
    /\ answer' = [answer EXCEPT ![r] = "504"]
    /\ UNCHANGED <<phase, counters, kind, pc, failed>>
-----------------------------------------------------------------------------
\* A probe opens a session without get_db, and no timeout is set for it.  It reads the shutdown
\* flag first, and reads it unset: set_shutdown_state is called by Drain, and the server begins
\* no probe after Close.
BeginProbe(r) ==
    /\ phase = "running" /\ pc[r] = "idle"
    /\ kind' = [kind EXCEPT ![r] = "probe"]
    /\ answer' = [answer EXCEPT ![r] = "none"]
    /\ failed' = failed \ {r}
    /\ Goto(r, "open")
    /\ UNCHANGED <<phase, counters>>

\* What healthcheck_router imported: the value the flag had when the module was loaded.
ImportedDegraded == FALSE

\* SELECT 1 has answered: the imported mode decides what is reported.
ProbeAnswers(r) ==
    /\ pc[r] = "holding" /\ kind[r] = "probe"
    /\ Finish(r, IF ImportedDegraded THEN "degraded" ELSE "healthy")
    /\ UNCHANGED <<phase, counters, kind, failed>>

\* No connection, a full pool, a failing statement: caught and reported, not counted.
ProbeFails(r) ==
    /\ pc[r] # "idle" /\ kind[r] = "probe"
    /\ Finish(r, "unhealthy")
    /\ UNCHANGED <<phase, counters, kind, failed>>
-----------------------------------------------------------------------------
\* ERROR_RESET_PERIOD passes; no request sleeps that long.
Age ==
    /\ last = "recent"
    /\ \A r \in Requests : pc[r] # "sleeping"
    /\ last' = "old"
    /\ UNCHANGED <<phase, errors, degraded, kind, pc, answer, failed>>

\* SIGTERM: the server closes its socket.
Close ==
    /\ phase = "running"
    /\ phase' = "closing"
    /\ UNCHANGED <<counters, kind, pc, answer, failed>>

\* The server, not the application, waits for the last handler to end; then it resumes
\* lifespan, which sets the shutdown flag and sleeps for the load balancer to notice.
Drain ==
    /\ phase = "closing"
    /\ \A r \in Requests : pc[r] = "idle"
    /\ phase' = "draining"
    /\ UNCHANGED <<counters, kind, pc, answer, failed>>

\* _active_requests is never incremented: there is nothing to wait for.
Exit ==
    /\ phase = "draining"
    /\ phase' = "stopped"
    /\ UNCHANGED <<counters, kind, pc, answer, failed>>

\* A new process starts with a module state of its own.
Start ==
    /\ phase = "stopped"
    /\ phase' = "running"
    /\ errors' = 0 /\ last' = "never" /\ degraded' = FALSE
    /\ UNCHANGED <<kind, pc, answer, failed>>

Handler(r) ==
    \/ Acquire(r) \/ Queue(r) \/ GiveBack(r) \/ Respond(r)
    \/ Refused(r) \/ Transient(r) \/ NotTransient(r) \/ WakeUp(r) \/ Timeout(r)
    \/ ProbeAnswers(r) \/ ProbeFails(r)

Next ==
    \/ \E r \in Requests : Begin(r) \/ BeginProbe(r) \/ Handler(r)
    \/ Age \/ Close \/ Drain \/ Exit \/ Start

Spec == Init /\ [][Next]_vars

\* The pool serves its queue in order, a handler has finitely many statements, a sleep ends; a
\* probe is resumed when the database has answered or failed; the server and lifespan go on
\* with a shutdown they began.  Nothing forces an error or a timeout.
FairSpec ==
    /\ Spec
    /\ \A r \in Requests :
          /\ SF_vars(Acquire(r)) /\ SF_vars(Respond(r))
          /\ WF_vars(WakeUp(r)) /\ WF_vars(ProbeAnswers(r))
    /\ WF_vars(Drain) /\ WF_vars(Exit)
-----------------------------------------------------------------------------
\* The values the variables range over; the pool gives out no more connections than it has.
TypeOK ==
    /\ phase \in Phases
    /\ errors \in 0..MaxErrors
    /\ last \in {"never", "recent", "old"}
    /\ degraded \in BOOLEAN
    /\ kind \in [Requests -> {"api", "probe"}]
    /\ pc \in [Requests -> PCs]
    /\ answer \in [Requests -> Answers]
    /\ failed \subseteq Requests
    /\ Cardinality(Holders) <= PoolLimit

\* The retry loop of get_db never helps: a request whose error reached get_db is answered 500
\* or 504, whatever the error was and whether or not the database is back.
RetryNeverHelps ==
    \A r \in failed : pc[r] = "sleeping" \/ (pc[r] = "idle" /\ answer[r] \in {"500", "504"})

\* What brings degraded mode on and what ends it, whatever connections were lost, found again
\* or timed out meanwhile.  It begins with an error that is NOT a lost connection or a full
\* pool, when at least Threshold errors of any kind have been counted with no quiet
\* ERROR_RESET_PERIOD before a new session; it ends with such a quiet period or the process.
\* That is less than docs/database_error_handling.md promises: lost connections alone never
\* activate it (ErrorsDegrade fails), and a connection that is back does not end it.
DegradedIsEarned ==
    [][/\ degraded' /\ ~degraded =>
            errors' >= Threshold /\ \A r \in Requests : pc'[r] = "sleeping" => pc[r] = "sleeping"
       /\ degraded /\ ~degraded' => last = "old" \/ phase = "stopped"]_vars

\* A shutdown ends, whatever the requests that run when it begins are waiting for: the pool, a
\* sleep of get_db, or a service; the ones that were answered 504 are waited for too.
ShutdownEnds == phase = "closing" ~> phase = "stopped"

\* docs/database_error_handling.md, "Service Degradation Detection": "Degraded mode is activated
\* when errors exceed threshold".
ErrorsDegrade == errors > Threshold => degraded

\* docs/database_error_handling.md, "Service Degradation Detection": "Health endpoints report
\* degraded status for monitoring systems".
DegradedReported ==
    [][\A r \in Requests :
          kind[r] = "probe" /\ pc[r] = "holding" /\ answer'[r] \in {"healthy", "degraded"}
              => (answer'[r] = "degraded" <=> degraded)]_vars
=============================================================================
