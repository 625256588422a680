---------------------------- MODULE CleanupQueue ----------------------------
(***************************************************************************)
(* The server-scoped cleanup of disposable databases: the bounded queue and*)
(* its workers (src/cleanup.rs), the admission gate that every creation    *)
(* passes (src/admission.rs), and the leases that submit to the queue      *)
(* (DatabaseLease in src/harness.rs).                                      *)
(*                                                                         *)
(* Every database is created once and submitted for cleanup at most once,  *)
(* so a database also names the job that drops it and the thread that      *)
(* submits that job.  Each action is one critical section of a mutex, or   *)
(* one effect the other threads can see between two of them.               *)
(***************************************************************************)
EXTENDS Integers, Sequences, FiniteSets

CONSTANTS
    Lease,       \* databases created under a connection-budget permit
    Prewarmed,   \* idle databases of a prewarm pool, created without a permit
    Worker,      \* cleanup worker threads
    Drainer,     \* calls of drain_deferred_cleanup
    Closer,      \* calls of shutdown on an owned server
    MaxLeases,   \* permits of the admission semaphore, one per lease
    Capacity,    \* waiting jobs at which explicit submissions block
    NoDatabase,  \* a worker has no job
    Nobody,      \* no thread holds the drain mutex or runs the destructor
    Caller       \* an application thread, as opposed to a worker

Database == Lease \cup Prewarmed
Waiter == Drainer \cup Closer

ASSUME SizesAssumption ==
    /\ MaxLeases \in Nat \ {0}
    /\ Capacity \in Nat \ {0}

ASSUME FiniteAssumption ==
    /\ IsFiniteSet(Lease) /\ IsFiniteSet(Prewarmed)
    /\ IsFiniteSet(Worker) /\ Worker # {}

ASSUME DistinctAssumption ==
    /\ Lease \cap Prewarmed = {}
    /\ Drainer \cap Closer = {}
    /\ Database \cap Worker = {}
    /\ NoDatabase \notin Database
    /\ {Nobody, Caller} \cap (Worker \cup Waiter) = {}
    /\ Nobody # Caller

VARIABLES
    \* DatabaseAdmission and the server's catalog
    admission_closed,            \* the semaphore is closed
    permits,                     \* databases whose permit is held
    stored,                      \* databases that exist on the server
    \* the thread that creates and submits each database
    lease,                       \* how far it got
    mode,                        \* how it submits
    oneshot,                     \* channel of an awaited submission
    \* SubmissionState and its condition variable
    jobs, next_sequence, closed,
    sequence,                    \* the job's sequence number, 0 before
    waiting,                     \* threads parked on SubmissionQueue.changed
    \* workers
    worker, job,
    outcome,                     \* CleanupOutcome of the job's operation
    \* CompletionStateInner and its condition variable
    completed_through, completed_out_of_order,
    failures,                    \* how many retained errors of each database
    failure_delivery_in_flight,
    drain_waiting,               \* drains parked on CompletionState.changed
    \* barriers
    drain, drain_mutex, target,
    taken,                       \* failures held by a CleanupDrainOutcome
    \* lifetime of the DatabaseCleanupQueue
    handle,                      \* the application still holds the harness
    dropper, drop_stage,
    \* history: what each drain must cover, and what callers were told
    before, owed, reported, logged

admissionVars == <<admission_closed, permits, stored>>
leaseVars == <<lease, mode, oneshot>>
submissionVars == <<jobs, next_sequence, closed, sequence, waiting>>
workerVars == <<worker, job, outcome>>
completionVars == <<completed_through, completed_out_of_order, failures,
                    failure_delivery_in_flight, drain_waiting>>
promiseVars == <<before, owed>>
drainVars == <<drain, drain_mutex, target, taken, promiseVars>>
reportVars == <<reported, logged>>
vars == <<admissionVars, leaseVars, submissionVars, workerVars,
          completionVars, drainVars, handle, dropper, drop_stage, reportVars>>

LeaseState == {"unused", "admitted", "creating", "live", "submit",
               "accepted", "submitted", "failed", "rejected"}
Mode == {"none", "awaited", "deferred", "fallback", "prewarmer"}
OneshotState == {"none", "open", "cancelled", "sent", "consumed"}
WorkerState == {"next", "running", "close", "release", "send", "record",
                "guard", "exited"}
Outcome == {"none", "succeeded", "no_residual", "residual_possible"}
DrainState == {"idle", "lock", "wait", "join", "outcome", "finished",
               "cancelled"}

NoFailures == [d \in Database |-> 0]

Init ==
    /\ admission_closed = FALSE /\ permits = {} /\ stored = {}
    /\ lease = [d \in Database |-> "unused"]
    /\ mode = [d \in Database |-> "none"]
    /\ oneshot = [d \in Database |-> "none"]
    /\ jobs = << >> /\ next_sequence = 0 /\ closed = FALSE
    /\ sequence = [d \in Database |-> 0]
    /\ waiting = {}
    /\ worker = [w \in Worker |-> "next"]
    /\ job = [w \in Worker |-> NoDatabase]
    /\ outcome = [d \in Database |-> "none"]
    /\ completed_through = 0 /\ completed_out_of_order = {}
    /\ failures = NoFailures /\ failure_delivery_in_flight = FALSE
    /\ drain_waiting = {}
    /\ drain = [x \in Waiter |-> "idle"]
    /\ drain_mutex = Nobody
    /\ target = [x \in Waiter |-> 0]
    /\ taken = [x \in Waiter |-> NoFailures]
    /\ handle = TRUE /\ dropper = Nobody /\ drop_stage = "close"
    /\ before = [x \in Waiter |-> {}] /\ owed = [x \in Waiter |-> {}]
    /\ reported = NoFailures /\ logged = NoFailures

-----------------------------------------------------------------------------
(***************************************************************************)
(* Mistakes the code could plausibly contain.  Each replaces the operator  *)
(* whose name it starts with to show that a property notices it.           *)
(***************************************************************************)
Backpressured_NotDeferred(d) == mode[d] = "awaited"
RetainedByJob_OnlyQueued == jobs # << >>
NotifyOne_Forgotten == UNCHANGED waiting
NotifyAll_One ==
    IF waiting = {} THEN UNCHANGED waiting
                    ELSE \E t \in waiting : waiting' = waiting \ {t}
NotifyDrains_Forgotten == UNCHANGED drain_waiting
DropOutcome_Silent(d) == UNCHANGED <<failures, drain_waiting>>
MayLeaveResidual_Never(result) == FALSE
BarrierReached_InFlight(n) == completed_through >= n
Reportable_Before(d, n) == sequence[d] < n /\ failures[d] > 0

-----------------------------------------------------------------------------
(***************************************************************************)
(* References to the queue.  The harness, every lease and unpublished      *)
(* database (through ServerInner), every job, every undelivered error of   *)
(* an awaited cleanup and every running drain hold an Arc of it.           *)
(***************************************************************************)
Failed(d) == outcome[d] \in {"no_residual", "residual_possible"}

RetainedByJob == jobs # << >> \/ \E w \in Worker : job[w] # NoDatabase

Retained ==
    \/ handle
    \/ \E d \in Database :
          lease[d] \in {"admitted", "creating", "live", "submit", "accepted"}
    \/ RetainedByJob
    \/ \E d \in Database : oneshot[d] = "sent" /\ Failed(d)
    \/ \E x \in Waiter : drain[x] \in {"lock", "wait", "join", "outcome"}

\* The thread whose step gives up the last reference runs the destructor.
Release(thread) ==
    dropper' = IF Retained /\ ~Retained' THEN thread ELSE dropper

\* Condvar::notify_one on SubmissionQueue.changed.
NotifyOne ==
    \/ waiting = {} /\ waiting' = {}
    \/ \E t \in waiting : waiting' = waiting \ {t}

NotifyAll == waiting' = {}

\* Condvar::notify_all on CompletionState.changed.
NotifyDrains == drain_waiting' = {}

\* Drop of an AwaitedCleanupOutcome: record_late_failure keeps its error.
DropOutcome(d) ==
    IF Failed(d)
    THEN failures' = [failures EXCEPT ![d] = @ + 1] /\ NotifyDrains
    ELSE UNCHANGED <<failures, drain_waiting>>

-----------------------------------------------------------------------------
(***************************************************************************)
(* Admission and creation.                                                 *)
(***************************************************************************)

PermitAvailable == Cardinality(permits) < MaxLeases

\* DatabaseAdmission::acquire: a lease waits here for a free permit.
Acquire(d) ==
    /\ handle /\ d \in Lease /\ lease[d] = "unused"
    /\ ~admission_closed
    /\ PermitAvailable
    /\ permits' = permits \cup {d}
    /\ lease' = [lease EXCEPT ![d] = "admitted"]
    /\ UNCHANGED <<admission_closed, stored, mode, oneshot, submissionVars,
                   workerVars, completionVars, drainVars, handle, drop_stage,
                   reportVars>>

\* A prewarm pool starts a creation; it takes no permit.
BeginPrewarm(d) ==
    /\ handle /\ d \in Prewarmed /\ lease[d] = "unused"
    /\ lease' = [lease EXCEPT ![d] = "admitted"]
    /\ UNCHANGED <<admissionVars, mode, oneshot, submissionVars, workerVars,
                   completionVars, drainVars, handle, drop_stage, reportVars>>

\* attempt_managed_creation checks the gate before it runs the operation.
EnsureOpen(d) ==
    /\ lease[d] = "admitted"
    /\ IF admission_closed
       THEN /\ lease' = [lease EXCEPT ![d] = "failed"]
            /\ permits' = permits \ {d}
       ELSE /\ lease' = [lease EXCEPT ![d] = "creating"]
            /\ UNCHANGED permits
    /\ UNCHANGED <<admission_closed, stored, mode, oneshot, submissionVars,
                   workerVars, completionVars, drainVars, handle, drop_stage,
                   reportVars>>

\* The operation of attempt_managed_creation: it succeeds, or fails knowing
\* that nothing was left behind, or fails without knowing and closes the gate
\* before the caller's permit is dropped with the future.
CreateDatabase(d) ==
    /\ lease[d] = "creating"
    /\ \/ /\ stored' = stored \cup {d}
          /\ lease' = [lease EXCEPT ![d] = "live"]
          /\ UNCHANGED <<admission_closed, permits>>
       \/ /\ lease' = [lease EXCEPT ![d] = "failed"]
          /\ permits' = permits \ {d}
          /\ UNCHANGED <<admission_closed, stored>>
       \/ /\ lease' = [lease EXCEPT ![d] = "failed"]
          /\ stored' \in {stored, stored \cup {d}}
          /\ admission_closed' = TRUE
          /\ permits' = permits \ {d}
    /\ UNCHANGED <<mode, oneshot, submissionVars, workerVars, completionVars,
                   drainVars, handle, drop_stage, reportVars>>

-----------------------------------------------------------------------------
(***************************************************************************)
(* Submission: DatabaseLease::cleanup, defer_cleanup and Drop, and         *)
(* submit_prewarmer for the databases of a pool.                           *)
(***************************************************************************)
Modes(d) ==
    IF d \in Lease THEN {"awaited", "deferred", "fallback"} ELSE {"prewarmer"}

BeginSubmit(d) ==
    /\ lease[d] = "live"
    /\ \E m \in Modes(d) : mode' = [mode EXCEPT ![d] = m]
    /\ lease' = [lease EXCEPT ![d] = "submit"]
    /\ UNCHANGED <<admissionVars, oneshot, submissionVars, workerVars,
                   completionVars, drainVars, handle, drop_stage, reportVars>>

Backpressured(d) == mode[d] \in {"awaited", "deferred"}

\* enqueue blocks an explicit submission while the queue is full.
EnqueueWait(d) ==
    /\ lease[d] = "submit" /\ d \notin waiting
    /\ Backpressured(d) /\ Len(jobs) >= Capacity /\ ~closed
    /\ waiting' = waiting \cup {d}
    /\ UNCHANGED <<admissionVars, leaseVars, jobs, next_sequence, closed,
                   sequence, workerVars, completionVars, drainVars, handle,
                   drop_stage, reportVars>>

\* enqueue fails on a closed queue; the permit is dropped with the arguments.
EnqueueClosed(d) ==
    /\ lease[d] = "submit" /\ d \notin waiting
    /\ closed
    /\ lease' = [lease EXCEPT ![d] = "rejected"]
    /\ permits' = permits \ {d}
    /\ UNCHANGED <<admission_closed, stored, mode, oneshot, submissionVars,
                   workerVars, completionVars, drainVars, handle, drop_stage,
                   reportVars>>

\* enqueue accepts the job.  A deferred submission still holds its permit.
EnqueueAccept(d) ==
    /\ lease[d] = "submit" /\ d \notin waiting
    /\ ~closed
    /\ Backpressured(d) => Len(jobs) < Capacity
    /\ next_sequence' = next_sequence + 1
    /\ sequence' = [sequence EXCEPT ![d] = next_sequence + 1]
    /\ jobs' = Append(jobs, d)
    /\ NotifyOne
    /\ lease' = [lease EXCEPT ![d] = IF mode[d] = "deferred" THEN "accepted"
                                                             ELSE "submitted"]
    /\ oneshot' = [oneshot EXCEPT ![d] = IF mode[d] = "awaited" THEN "open"
                                                                ELSE "none"]
    /\ UNCHANGED <<admissionVars, mode, closed, workerVars, completionVars,
                   drainVars, handle, drop_stage, reportVars>>

\* submit_deferred_outcome drops the permit once the queue has the job.
ReleaseDeferredPermit(d) ==
    /\ lease[d] = "accepted"
    /\ lease' = [lease EXCEPT ![d] = "submitted"]
    /\ permits' = permits \ {d}
    /\ UNCHANGED <<admission_closed, stored, mode, oneshot, submissionVars,
                   workerVars, completionVars, drainVars, handle, drop_stage,
                   reportVars>>

-----------------------------------------------------------------------------
(***************************************************************************)
(* The caller of an awaited cleanup.                                       *)
(***************************************************************************)

\* AwaitedCleanupOutcome::finish.
ReceiveOutcome(d) ==
    /\ oneshot[d] = "sent"
    /\ oneshot' = [oneshot EXCEPT ![d] = "consumed"]
    /\ reported' = [reported EXCEPT ![d] = IF Failed(d) THEN @ + 1 ELSE @]
    /\ UNCHANGED <<admissionVars, lease, mode, submissionVars, workerVars,
                   completionVars, drainVars, handle, drop_stage, logged>>

\* The future is dropped.  An outcome that already sits in the channel is
\* dropped with the receiver, which records its error as a late failure.
CancelAwait(d) ==
    /\ oneshot[d] \in {"open", "sent"}
    /\ oneshot' = [oneshot EXCEPT ![d] = "cancelled"]
    /\ IF oneshot[d] = "sent" THEN DropOutcome(d)
                              ELSE UNCHANGED <<failures, drain_waiting>>
    /\ UNCHANGED <<admissionVars, lease, mode, submissionVars, workerVars,
                   completed_through, completed_out_of_order,
                   failure_delivery_in_flight, drainVars, handle, drop_stage,
                   reportVars>>

-----------------------------------------------------------------------------
(***************************************************************************)
(* Workers: next_job and run_cleanup_job.                                  *)
(***************************************************************************)

\* A worker is outside next_job while it runs the queue's destructor.
Dropping(w) == dropper = w /\ drop_stage # "done"

NextJob(w) ==
    /\ worker[w] = "next" /\ w \notin waiting /\ ~Dropping(w)
    /\ jobs # << >>
    /\ job' = [job EXCEPT ![w] = Head(jobs)]
    /\ jobs' = Tail(jobs)
    /\ NotifyAll
    /\ worker' = [worker EXCEPT ![w] = "running"]
    /\ UNCHANGED <<admissionVars, leaseVars, next_sequence, closed, sequence,
                   outcome, completionVars, drainVars, handle, drop_stage,
                   reportVars>>

NextJobExit(w) ==
    /\ worker[w] = "next" /\ w \notin waiting /\ ~Dropping(w)
    /\ jobs = << >> /\ closed
    /\ worker' = [worker EXCEPT ![w] = "exited"]
    /\ UNCHANGED <<admissionVars, leaseVars, submissionVars, job, outcome,
                   completionVars, drainVars, handle, drop_stage, reportVars>>

NextJobWait(w) ==
    /\ worker[w] = "next" /\ w \notin waiting /\ ~Dropping(w)
    /\ jobs = << >> /\ ~closed
    /\ waiting' = waiting \cup {w}
    /\ UNCHANGED <<admissionVars, leaseVars, jobs, next_sequence, closed,
                   sequence, workerVars, completionVars, drainVars, handle,
                   drop_stage, reportVars>>

MayLeaveResidual(result) == result = "residual_possible"

\* The operation: DROP DATABASE succeeds, or fails (a panic counts as that)
\* with or without having taken effect.  A lease of a prewarm pool can also
\* fail after the drop, when its replacement provably was not created.
RunOperation(w) ==
    /\ worker[w] = "running"
    /\ LET d == job[w] IN
       \/ /\ outcome' = [outcome EXCEPT ![d] = "succeeded"]
          /\ stored' = stored \ {d}
       \/ /\ d \in Lease
          /\ outcome' = [outcome EXCEPT ![d] = "no_residual"]
          /\ stored' = stored \ {d}
       \/ /\ outcome' = [outcome EXCEPT ![d] = "residual_possible"]
          /\ stored' \in {stored, stored \ {d}}
    /\ worker' = [worker EXCEPT ![w] =
                     IF MayLeaveResidual(outcome'[job[w]]) THEN "close"
                                                           ELSE "release"]
    /\ UNCHANGED <<admission_closed, permits, leaseVars, submissionVars, job,
                   completionVars, drainVars, handle, drop_stage, reportVars>>

CloseDatabaseAdmission(w) ==
    /\ worker[w] = "close"
    /\ admission_closed' = TRUE
    /\ worker' = [worker EXCEPT ![w] = "release"]
    /\ UNCHANGED <<permits, stored, leaseVars, submissionVars, job, outcome,
                   completionVars, drainVars, handle, drop_stage, reportVars>>

\* A deferred job carries no permit.
ReleasePermit(w) ==
    /\ worker[w] = "release"
    /\ permits' = IF mode[job[w]] = "deferred" THEN permits
                                              ELSE permits \ {job[w]}
    /\ worker' = [worker EXCEPT ![w] = IF mode[job[w]] = "awaited"
                                       THEN "send" ELSE "record"]
    /\ UNCHANGED <<admission_closed, stored, leaseVars, submissionVars, job,
                   outcome, completionVars, drainVars, handle, drop_stage,
                   reportVars>>

\* Sending to a dropped receiver drops the outcome on this thread.
SendOutcome(w) ==
    /\ worker[w] = "send"
    /\ LET d == job[w] IN
       IF oneshot[d] = "open"
       THEN /\ oneshot' = [oneshot EXCEPT ![d] = "sent"]
            /\ UNCHANGED <<failures, drain_waiting>>
       ELSE DropOutcome(d) /\ UNCHANGED oneshot
    /\ worker' = [worker EXCEPT ![w] = "record"]
    /\ UNCHANGED <<admissionVars, lease, mode, submissionVars, job, outcome,
                   completed_through, completed_out_of_order,
                   failure_delivery_in_flight, drainVars, handle, drop_stage,
                   reportVars>>

\* The loop of complete stops at the first sequence that has not completed.
PrefixEnds(first, n, done) == first .. n \subseteq done /\ n + 1 \notin done

\* CompletionState::complete: the prefix of completed sequences grows through
\* the sequences that completed out of order.
Complete(w) ==
    /\ worker[w] = "record"
    /\ LET d == job[w]
           done == completed_out_of_order \cup {sequence[d]}
       IN /\ failures' = [failures EXCEPT ![d] =
                 IF mode[d] # "awaited" /\ Failed(d) THEN @ + 1 ELSE @]
          /\ IF sequence[d] = completed_through + 1
             THEN \E n \in sequence[d] .. next_sequence :
                     /\ PrefixEnds(sequence[d], n, done)
                     /\ completed_through' = n
                     /\ completed_out_of_order' = done \ (sequence[d] .. n)
             ELSE /\ completed_out_of_order' =
                        IF sequence[d] > completed_through
                        THEN done ELSE completed_out_of_order
                  /\ UNCHANGED completed_through
    /\ NotifyDrains
    /\ worker' = [worker EXCEPT ![w] = "guard"]
    /\ UNCHANGED <<admissionVars, leaseVars, submissionVars, job, outcome,
                   failure_delivery_in_flight, drainVars, handle, drop_stage,
                   reportVars>>

\* The job's own reference goes last, after its sequence is visible.
DropQueueGuard(w) ==
    /\ worker[w] = "guard"
    /\ job' = [job EXCEPT ![w] = NoDatabase]
    /\ worker' = [worker EXCEPT ![w] = "next"]
    /\ UNCHANGED <<admissionVars, leaseVars, submissionVars, outcome,
                   completionVars, drainVars, handle, drop_stage, reportVars>>

-----------------------------------------------------------------------------
(***************************************************************************)
(* Barriers: begin_drain, and close_and_begin_drain of an owned shutdown.  *)
(***************************************************************************)
Accepted == {d \in Database : sequence[d] > 0}

\* What a drain promises at its call: to cover every accepted job, and to
\* report the errors that nobody else is waiting for.
Promise(x) ==
    /\ before' = [before EXCEPT ![x] = Accepted]
    /\ owed' = [owed EXCEPT ![x] = {d \in Accepted :
                    mode[d] # "awaited" \/ oneshot[d] = "cancelled"}]

\* drain_deferred_cleanup is called.
BeginDrain(x) ==
    /\ handle /\ x \in Drainer /\ drain[x] = "idle"
    /\ drain' = [drain EXCEPT ![x] = "lock"]
    /\ Promise(x)
    /\ UNCHANGED <<admissionVars, leaseVars, submissionVars, workerVars,
                   completionVars, drain_mutex, target, taken, handle,
                   drop_stage, reportVars>>

\* shutdown_container closes admission before it closes the queue.
BeginShutdown(x) ==
    /\ handle /\ x \in Closer /\ drain[x] = "idle"
    /\ admission_closed' = TRUE
    /\ drain' = [drain EXCEPT ![x] = "lock"]
    /\ Promise(x)
    /\ UNCHANGED <<permits, stored, leaseVars, submissionVars, workerVars,
                   completionVars, drain_mutex, target, taken, handle,
                   drop_stage, reportVars>>

\* Holding the drain mutex, a drain reads its target; a shutdown closes the
\* submissions and wakes everyone parked on them.
FixTarget(x) ==
    /\ drain[x] = "lock" /\ drain_mutex = Nobody
    /\ drain_mutex' = x
    /\ target' = [target EXCEPT ![x] = next_sequence]
    /\ drain' = [drain EXCEPT ![x] = "wait"]
    /\ IF x \in Closer THEN closed' = TRUE /\ NotifyAll
                       ELSE UNCHANGED <<closed, waiting>>
    /\ UNCHANGED <<admissionVars, leaseVars, jobs, next_sequence, sequence,
                   workerVars, completionVars, taken, promiseVars, handle,
                   drop_stage, reportVars>>

BarrierReached(n) == completed_through >= n /\ ~failure_delivery_in_flight

WaitForBarrier(x) ==
    /\ drain[x] = "wait" /\ x \notin drain_waiting
    /\ ~BarrierReached(target[x])
    /\ drain_waiting' = drain_waiting \cup {x}
    /\ UNCHANGED <<admissionVars, leaseVars, submissionVars, workerVars,
                   completed_through, completed_out_of_order, failures,
                   failure_delivery_in_flight, drainVars, handle, drop_stage,
                   reportVars>>

Reportable(d, n) == sequence[d] <= n /\ failures[d] > 0

\* What a drain that holds these failures does once it left its mutex.
AfterTake(x) ==
    IF \E d \in Database : taken[x][d] > 0 THEN "outcome" ELSE "finished"

\* wait_and_take: failures up to the target leave the shared state together.
WaitAndTake(x) ==
    /\ drain[x] = "wait" /\ x \notin drain_waiting
    /\ BarrierReached(target[x])
    /\ taken' = [taken EXCEPT ![x] = [d \in Database |->
                    IF Reportable(d, target[x]) THEN failures[d] ELSE 0]]
    /\ failures' = [d \in Database |->
                    IF Reportable(d, target[x]) THEN 0 ELSE failures[d]]
    /\ failure_delivery_in_flight' =
          \E d \in Database : Reportable(d, target[x])
    /\ IF x \in Closer
       THEN /\ drain' = [drain EXCEPT ![x] = "join"]
            /\ UNCHANGED drain_mutex
       ELSE /\ drain' = [drain EXCEPT ![x] = AfterTake(x)']
            /\ drain_mutex' = Nobody
    /\ UNCHANGED <<admissionVars, leaseVars, submissionVars, workerVars,
                   completed_through, completed_out_of_order, drain_waiting,
                   target, promiseVars, handle, drop_stage, reportVars>>

JoinWorkers(x) ==
    /\ drain[x] = "join"
    /\ \A w \in Worker : worker[w] = "exited"
    /\ drain' = [drain EXCEPT ![x] = AfterTake(x)]
    /\ drain_mutex' = Nobody
    /\ UNCHANGED <<admissionVars, leaseVars, submissionVars, workerVars,
                   completionVars, target, taken, promiseVars, handle,
                   drop_stage, reportVars>>

\* CleanupDrainOutcome::finish: the caller gets the failures.
FinishDrain(x) ==
    /\ drain[x] = "outcome"
    /\ reported' = [d \in Database |-> reported[d] + taken[x][d]]
    /\ taken' = [taken EXCEPT ![x] = NoFailures]
    /\ failure_delivery_in_flight' = FALSE
    /\ NotifyDrains
    /\ drain' = [drain EXCEPT ![x] = "finished"]
    /\ UNCHANGED <<admissionVars, leaseVars, submissionVars, workerVars,
                   completed_through, completed_out_of_order, failures,
                   drain_mutex, target, promiseVars, handle, drop_stage,
                   logged>>

\* The caller went away: dropping the outcome restores the failures.
DropDrainOutcome(x) ==
    /\ drain[x] = "outcome"
    /\ failures' = [d \in Database |-> failures[d] + taken[x][d]]
    /\ taken' = [taken EXCEPT ![x] = NoFailures]
    /\ failure_delivery_in_flight' = FALSE
    /\ NotifyDrains
    /\ drain' = [drain EXCEPT ![x] = "cancelled"]
    /\ UNCHANGED <<admissionVars, leaseVars, submissionVars, workerVars,
                   completed_through, completed_out_of_order, drain_mutex,
                   target, promiseVars, handle, drop_stage, reportVars>>

-----------------------------------------------------------------------------
(***************************************************************************)
(* Lifetime of the queue.                                                  *)
(***************************************************************************)
ReleaseHandle ==
    /\ handle
    /\ handle' = FALSE
    /\ UNCHANGED <<admissionVars, leaseVars, submissionVars, workerVars,
                   completionVars, drainVars, drop_stage, reportVars>>

DropClose ==
    /\ dropper # Nobody /\ drop_stage = "close"
    /\ closed' = TRUE /\ NotifyAll
    /\ drop_stage' = "take"
    /\ UNCHANGED <<admissionVars, leaseVars, jobs, next_sequence, sequence,
                   workerVars, completionVars, drainVars, handle, dropper,
                   reportVars>>

\* Errors that no drain asked for go to the log.
DropTake ==
    /\ drop_stage = "take"
    /\ BarrierReached(next_sequence)
    /\ logged' = [d \in Database |-> logged[d] + failures[d]]
    /\ failures' = NoFailures
    /\ drop_stage' = "join"
    /\ UNCHANGED <<admissionVars, leaseVars, submissionVars, workerVars,
                   completed_through, completed_out_of_order,
                   failure_delivery_in_flight, drain_waiting, drainVars,
                   handle, dropper, reported>>

\* join_workers skips the thread it runs on.
DropJoin ==
    /\ drop_stage = "join"
    /\ \A w \in Worker \ {dropper} : worker[w] = "exited"
    /\ drop_stage' = "done"
    /\ UNCHANGED <<admissionVars, leaseVars, submissionVars, workerVars,
                   completionVars, drainVars, handle, dropper, reportVars>>

-----------------------------------------------------------------------------
\* A condition variable may wake a thread that nobody notified.
SpuriousWakeup ==
    /\ \/ /\ \E t \in waiting : waiting' = waiting \ {t}
          /\ UNCHANGED drain_waiting
       \/ /\ \E x \in drain_waiting : drain_waiting' = drain_waiting \ {x}
          /\ UNCHANGED waiting
    /\ UNCHANGED <<admissionVars, leaseVars, jobs, next_sequence, closed,
                   sequence, workerVars, completed_through,
                   completed_out_of_order, failures,
                   failure_delivery_in_flight, drainVars, handle, dropper,
                   drop_stage, reportVars>>

\* Everything is over: the queue is gone and no thread is left.
Terminated ==
    /\ drop_stage = "done"
    /\ \A w \in Worker : worker[w] = "exited"
    /\ \A d \in Database : oneshot[d] # "sent" \* its receiver has not read
    /\ UNCHANGED vars

\* What the application decides to do.
ApplicationStep ==
    /\ \/ \E d \in Database : Acquire(d) \/ BeginPrewarm(d) \/ BeginSubmit(d)
       \/ \E x \in Waiter : BeginDrain(x) \/ BeginShutdown(x)
       \/ ReleaseHandle
    /\ Release(Caller)

\* What the thread of a creation or a submission does on its own.
SubmitterStep(d) ==
    /\ \/ EnsureOpen(d) \/ CreateDatabase(d)
       \/ EnqueueWait(d) \/ EnqueueClosed(d) \/ EnqueueAccept(d)
       \/ ReleaseDeferredPermit(d)
    /\ Release(Caller)

ReceiverStep(d) == (ReceiveOutcome(d) \/ CancelAwait(d)) /\ Release(Caller)

WorkerStep(w) ==
    /\ \/ NextJob(w) \/ NextJobExit(w) \/ NextJobWait(w)
       \/ RunOperation(w) \/ CloseDatabaseAdmission(w) \/ ReleasePermit(w)
       \/ SendOutcome(w) \/ Complete(w) \/ DropQueueGuard(w)
    /\ Release(w)

DrainStep(x) ==
    /\ \/ FixTarget(x) \/ WaitForBarrier(x) \/ WaitAndTake(x)
       \/ JoinWorkers(x) \/ FinishDrain(x) \/ DropDrainOutcome(x)
    /\ Release(Caller)

DropStep == DropClose \/ DropTake \/ DropJoin

Next ==
    \/ ApplicationStep
    \/ \E d \in Database : SubmitterStep(d) \/ ReceiverStep(d)
    \/ \E w \in Worker : WorkerStep(w)
    \/ \E x \in Waiter : DrainStep(x)
    \/ DropStep
    \/ SpuriousWakeup
    \/ Terminated

Spec == Init /\ [][Next]_vars

(***************************************************************************)
(* Threads that can run do run; database operations end (the admin client  *)
(* puts a timeout on each); a value nobody wants is dropped.  Nothing is   *)
(* asked of the application or of spurious wakeups.                        *)
(***************************************************************************)
Fairness ==
    /\ \A d \in Database :
          WF_vars(SubmitterStep(d)) /\ WF_vars(ReceiverStep(d))
    /\ \A w \in Worker : WF_vars(WorkerStep(w))
    /\ \A x \in Waiter : WF_vars(DrainStep(x))
    /\ WF_vars(DropStep)

FairSpec == Spec /\ Fairness

-----------------------------------------------------------------------------
(***************************************************************************)
(* Properties.                                                             *)
(***************************************************************************)

\* Every variable has its type.  Permits belong to leases only and their
\* number never exceeds the semaphore's.
TypeOK ==
    /\ admission_closed \in BOOLEAN
    /\ permits \subseteq Lease /\ Cardinality(permits) <= MaxLeases
    /\ stored \subseteq Database
    /\ lease \in [Database -> LeaseState]
    /\ mode \in [Database -> Mode]
    /\ oneshot \in [Database -> OneshotState]
    /\ jobs \in Seq(Database)
    /\ next_sequence \in Nat /\ closed \in BOOLEAN
    /\ sequence \in [Database -> Nat]
    /\ waiting \subseteq Database \cup Worker
    /\ worker \in [Worker -> WorkerState]
    /\ job \in [Worker -> Database \cup {NoDatabase}]
    /\ outcome \in [Database -> Outcome]
    /\ completed_through \in Nat /\ completed_out_of_order \subseteq Nat
    /\ failures \in [Database -> Nat]
    /\ failure_delivery_in_flight \in BOOLEAN
    /\ drain_waiting \subseteq Waiter
    /\ drain \in [Waiter -> DrainState]
    /\ drain_mutex \in Waiter \cup {Nobody}
    /\ target \in [Waiter -> Nat]
    /\ taken \in [Waiter -> [Database -> Nat]]
    /\ handle \in BOOLEAN
    /\ dropper \in Worker \cup {Nobody, Caller}
    /\ drop_stage \in {"close", "take", "join", "done"}
    /\ before \in [Waiter -> SUBSET Database]
    /\ owed \in [Waiter -> SUBSET Database]
    /\ reported \in [Database -> Nat] /\ logged \in [Database -> Nat]

Queued(d) == \E i \in 1 .. Len(jobs) : jobs[i] = d

\* Some thread is still responsible for the database: its creator or lease,
\* the queue, or a worker that has not yet acted on the operation's outcome.
Owned(d) ==
    \/ lease[d] \in {"admitted", "creating", "live", "submit", "accepted"}
    \/ Queued(d)
    \/ \E w \in Worker : job[w] = d /\ worker[w] \in {"running", "close"}

\* docs/operations.md: "at most L + W + Q disposable databases can be live,
\* running cleanup, or waiting for cleanup".  Counted over what exists on the
\* server, so databases that a failed drop left behind are included: admission
\* closes soon enough that they do not come on top.  (The types say that no
\* more than MaxLeases permits are out.)
StorageBound ==
    /\ TypeOK
    /\ Cardinality(stored \cap Lease)
           <= MaxLeases + Cardinality(Worker) + Capacity

\* A database that exists and that nobody is responsible for any more (a
\* failed drop, a creation whose answer was lost, a submission that the
\* closed queue refused) is left behind only once admission is closed.
OrphanClosesAdmission ==
    (\E d \in stored : ~Owned(d)) => admission_closed

\* The job has run and its completion was recorded.
Settled(d) ==
    /\ ~Queued(d)
    /\ \A w \in Worker : job[w] = d => worker[w] = "guard"

\* The sequences recorded as completed are exactly those of settled jobs, and
\* those beyond the prefix are kept apart from it by a gap.
CompletedPrefix ==
    /\ completed_through <= next_sequence
    /\ completed_through + 1 \notin completed_out_of_order
    /\ {sequence[d] : d \in {e \in Accepted : Settled(e)}} =
           (1 .. completed_through) \cup completed_out_of_order

\* drain_deferred_cleanup: "Waits for every database cleanup accepted before
\* this call".  A barrier is passed only when each such job was recorded, in
\* whatever order the workers finished them.
DrainCovers ==
    \A x \in Waiter :
        drain[x] \in {"join", "outcome", "finished", "cancelled"} =>
            \A d \in before[x] : Settled(d)

\* A drain that returns has seen every error it owed its caller reported, by
\* itself or by an earlier drain: a concurrent drain that still holds some of
\* them, and may yet be cancelled, holds this one back.
DrainReportsAll ==
    \A x \in Waiter : drain[x] = "finished" =>
        \A d \in owed[x] : Failed(d) => reported[d] = 1

\* What a drain means, with several workers that finish out of order and other
\* drains beside it: the numbers it waits for count settled jobs, it passes
\* its barrier after every job accepted before the call, and it returns when
\* every error it owes its caller was reported.
DrainSound == CompletedPrefix /\ DrainCovers /\ DrainReportsAll

\* One error is still in the hands of the worker that ran the operation.
InWorker(d) ==
    \E w \in Worker :
        /\ job[w] = d
        /\ \/ worker[w] \in {"close", "release", "send"}
           \/ worker[w] = "record" /\ mode[d] # "awaited"

Count(condition) == IF condition THEN 1 ELSE 0

\* "returned exactly once": an error is at every moment in exactly one place
\* (worker, channel of the awaiting caller, retained failures, one drain's
\* outcome, the log) or was reported once; cancellations move it, and never
\* lose or copy it.
ExactlyOnce ==
    \A d \in Database :
        /\ \A x, y \in Waiter : taken[x][d] > 0 /\ taken[y][d] > 0 => x = y
        /\ \A x \in Waiter : taken[x][d] <= 1
        /\ Count(Failed(d)) =
               Count(Failed(d) /\ InWorker(d))
               + Count(Failed(d) /\ oneshot[d] = "sent")
               + failures[d] + Count(\E x \in Waiter : taken[x][d] > 0)
               + reported[d] + logged[d]

\* Submitters and workers share one condition variable and enqueue wakes only
\* one of them.  Still, no job waits while every worker sleeps, and no
\* submitter sleeps unless the queue is open and full.
NoLostWakeup ==
    /\ jobs # << >> =>
          \E w \in Worker : w \notin waiting /\ worker[w] # "exited"
    /\ \A d \in Database \cap waiting : Len(jobs) >= Capacity /\ ~closed

\* The destructor of the queue, which may run on one of its own workers, never
\* has anything to wait for: each job and each undelivered error kept the
\* queue alive until its sequence and its failure were recorded.
QueueOutlivesWork ==
    dropper # Nobody =>
        /\ BarrierReached(next_sequence)
        /\ \A w \in Worker : worker[w] \in {"next", "exited"}

\* Every accepted cleanup is eventually covered by the completed prefix, and
\* an explicit submission that a full queue holds back is eventually accepted
\* or refused.
CleanupCompletes ==
    \A d \in Database :
        /\ sequence[d] > 0 ~> completed_through >= sequence[d]
        /\ lease[d] = "submit" ~> lease[d] # "submit"

\* Every drain and every shutdown eventually passes its barrier and returns.
DrainReturns ==
    \A x \in Waiter :
        drain[x] = "lock" ~> drain[x] \in {"finished", "cancelled"}

\* Once the last reference is gone every worker thread exits.
WorkersExit == dropper # Nobody ~> \A w \in Worker : worker[w] = "exited"

\* Nobody who ends the harness waits for ever: neither a drain or a shutdown
\* for its barrier nor the destructor of the queue for its threads.
ShutdownEnds == DrainReturns /\ WorkersExit

-----------------------------------------------------------------------------
(***************************************************************************)
(* The promise of the queue to the leases, the prewarm pools and the calls *)
(* that drain it.                                                          *)
(***************************************************************************)
Awaited == {d \in Accepted : mode[d] = "awaited" /\ oneshot[d] # "cancelled"}
SettledJobs == {d \in Accepted : Settled(d)}
Told(d) == reported[d] + logged[d] > 0
UntoldErrors == {d \in Database : Failed(d) /\ ~Told(d)}
ToldErrors == {d \in Database : Failed(d) /\ Told(d)}
CallState(stage) ==
    IF stage = "finished" THEN "returned"
    ELSE IF stage \in {"idle", "cancelled"} THEN stage ELSE "called"
Calls == [x \in Waiter |-> CallState(drain[x])]
Stopped == drop_stage \in {"join", "done"}

Service == INSTANCE CleanupService WITH
    accepted <- Accepted, awaited <- Awaited, settled <- SettledJobs,
    pending <- UntoldErrors, told <- ToldErrors, stopped <- Stopped,
    call <- Calls, promised <- before

\* With sequences, workers, permits and wakeups forgotten, every step of the
\* queue is a step of CleanupService, or no step of it.
ImplementsService == Service!Spec

=============================================================================
