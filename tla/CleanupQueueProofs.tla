------------------------- MODULE CleanupQueueProofs -------------------------
(***************************************************************************)
(* Proofs about CleanupQueue for any number of databases, workers, drains  *)
(* and permits and for any queue capacity: first types and permits, then   *)
(* what a barrier means, where every error is, what the destructor of the  *)
(* queue finds, and how many databases exist; last, that the queue does    *)
(* what CleanupService promises.                                           *)
(***************************************************************************)
EXTENDS CleanupQueue, FiniteSetTheorems, TLAPS

\* A subset of a lawful set of permits is lawful.
LEMMA FewerPermits ==
    ASSUME NEW P, NEW Q, P \subseteq Lease, Cardinality(P) <= MaxLeases,
           Q \subseteq P
    PROVE  Q \subseteq Lease /\ Cardinality(Q) <= MaxLeases
<1>1. IsFiniteSet(P)
  BY FS_Subset, FiniteAssumption
<1>2. IsFiniteSet(Q) /\ Cardinality(Q) <= Cardinality(P)
  BY <1>1, FS_Subset
<1>3. Cardinality(P) \in Nat /\ Cardinality(Q) \in Nat
  BY <1>1, <1>2, FS_CardinalityType
<1> QED
  BY <1>2, <1>3, SizesAssumption

\* Taking a free permit keeps within the semaphore's size.
LEMMA OneMorePermit ==
    ASSUME NEW P, NEW d \in Lease, P \subseteq Lease,
           Cardinality(P) < MaxLeases
    PROVE  P \cup {d} \subseteq Lease /\ Cardinality(P \cup {d}) <= MaxLeases
<1>1. IsFiniteSet(P)
  BY FS_Subset, FiniteAssumption
<1>2. Cardinality(P \cup {d}) = Cardinality(P)
         \/ Cardinality(P \cup {d}) = Cardinality(P) + 1
  BY <1>1, FS_AddElement
<1>3. Cardinality(P) \in Nat
  BY <1>1, FS_CardinalityType
<1> QED
  BY <1>2, <1>3, SizesAssumption

\* One more failure of a database keeps the type of the counters.
LEMMA OneMoreFailure ==
    ASSUME NEW f \in [Database -> Nat], NEW d \in Database
    PROVE  [f EXCEPT ![d] = f[d] + 1] \in [Database -> Nat]
OBVIOUS

\* A worker has a job exactly while it is running one.
JobAssigned ==
    \A w \in Worker : job[w] = NoDatabase <=> worker[w] \in {"next", "exited"}

\* A worker inside run_cleanup_job has a database to work on.
LEMMA RunningHasJob ==
    ASSUME TypeOK, JobAssigned, NEW w \in Worker,
           worker[w] \notin {"next", "exited"}
    PROVE  job[w] \in Database
BY DEF TypeOK, JobAssigned

\* Steps other than a worker's leave every worker alone.
LEMMA OnlyWorkers ==
    ASSUME [Next]_vars, ~ \E w \in Worker : WorkerStep(w)
    PROVE  UNCHANGED <<worker, job>>
<1> USE DEF vars, workerVars
<1>1. CASE UNCHANGED vars
  BY <1>1
<1>2. CASE ApplicationStep
  BY <1>2 DEF ApplicationStep, Acquire, BeginPrewarm, BeginSubmit, BeginDrain,
              BeginShutdown, ReleaseHandle
<1>3. ASSUME NEW d \in Database, SubmitterStep(d)
      PROVE  UNCHANGED <<worker, job>>
  BY <1>3 DEF SubmitterStep, EnsureOpen, CreateDatabase, EnqueueWait,
              EnqueueClosed, EnqueueAccept, ReleaseDeferredPermit
<1>4. ASSUME NEW d \in Database, ReceiverStep(d)
      PROVE  UNCHANGED <<worker, job>>
  BY <1>4 DEF ReceiverStep, ReceiveOutcome, CancelAwait
<1>5. ASSUME NEW x \in Waiter, DrainStep(x)
      PROVE  UNCHANGED <<worker, job>>
  BY <1>5 DEF DrainStep, FixTarget, WaitForBarrier, WaitAndTake, JoinWorkers,
              FinishDrain, DropDrainOutcome
<1>6. CASE DropStep
  BY <1>6 DEF DropStep, DropClose, DropTake, DropJoin
<1>7. CASE SpuriousWakeup \/ Terminated
  BY <1>7 DEF SpuriousWakeup, Terminated
<1> QED
  BY <1>1, <1>2, <1>3, <1>4, <1>5, <1>6, <1>7 DEF Next

\* Every variable keeps its type, and no more permits are held than the
\* admission semaphore has.
THEOREM TypeCorrect == Spec => [](TypeOK /\ JobAssigned)
<1> USE DEF TypeOK, LeaseState, Mode, OneshotState,
            WorkerState, Outcome, DrainState, NoFailures
<1>1. Init => TypeOK
  <2> SUFFICES ASSUME Init PROVE TypeOK
    OBVIOUS
  <2>1. permits \subseteq Lease /\ Cardinality(permits) <= MaxLeases
    BY FS_EmptySet, SizesAssumption DEF Init
  <2>2. NoFailures \in [Database -> Nat]
    OBVIOUS
  <2>3. /\ lease \in [Database -> LeaseState] /\ mode \in [Database -> Mode]
        /\ oneshot \in [Database -> OneshotState]
        /\ sequence \in [Database -> Nat] /\ outcome \in [Database -> Outcome]
        /\ jobs \in Seq(Database)
    BY DEF Init
  <2>4. /\ worker \in [Worker -> WorkerState]
        /\ job \in [Worker -> Database \cup {NoDatabase}]
        /\ drain \in [Waiter -> DrainState] /\ target \in [Waiter -> Nat]
        /\ before \in [Waiter -> SUBSET Database]
        /\ owed \in [Waiter -> SUBSET Database]
    BY DEF Init
  <2>5. taken \in [Waiter -> [Database -> Nat]]
    BY <2>2 DEF Init
  <2>6. failures \in [Database -> Nat] /\ reported \in [Database -> Nat]
        /\ logged \in [Database -> Nat]
    BY <2>2 DEF Init
  <2> HIDE DEF NoFailures
  <2> QED
    BY <2>1, <2>3, <2>4, <2>5, <2>6 DEF Init
<1>2. TypeOK /\ JobAssigned /\ [Next]_vars => TypeOK'
  <2> SUFFICES ASSUME TypeOK, JobAssigned, [Next]_vars PROVE TypeOK'
    OBVIOUS
  <2> USE DEF vars, admissionVars, leaseVars, submissionVars, workerVars,
              completionVars, drainVars, promiseVars, reportVars
  <2>1. CASE UNCHANGED vars
    BY <2>1
  <2>2. ASSUME NEW t \in Worker \cup {Caller}, Release(t)
        PROVE  dropper' \in Worker \cup {Nobody, Caller}
    BY <2>2 DEF Release
  <2>3. CASE ApplicationStep
    <3>0. dropper' \in Worker \cup {Nobody, Caller}
      BY <2>2, <2>3 DEF ApplicationStep
    <3>1. ASSUME NEW d \in Database, Acquire(d) PROVE TypeOK'
      <4>1. permits' \subseteq Lease /\ Cardinality(permits') <= MaxLeases
        BY <3>1, OneMorePermit DEF Acquire, PermitAvailable
      <4> QED
        BY <3>0, <3>1, <4>1 DEF Acquire
    <3>2. ASSUME NEW d \in Database, BeginPrewarm(d) PROVE TypeOK'
      BY <3>0, <3>2 DEF BeginPrewarm
    <3>3. ASSUME NEW d \in Database, BeginSubmit(d) PROVE TypeOK'
      BY <3>0, <3>3 DEF BeginSubmit, Modes
    <3>4. ASSUME NEW x \in Waiter, BeginDrain(x) PROVE TypeOK'
      BY <3>0, <3>4 DEF BeginDrain, Promise, Accepted
    <3>5. ASSUME NEW x \in Waiter, BeginShutdown(x) PROVE TypeOK'
      BY <3>0, <3>5 DEF BeginShutdown, Promise, Accepted
    <3>6. CASE ReleaseHandle
      BY <3>0, <3>6 DEF ReleaseHandle
    <3> QED
      BY <2>3, <3>1, <3>2, <3>3, <3>4, <3>5, <3>6 DEF ApplicationStep
  <2>4. ASSUME NEW d \in Database, SubmitterStep(d) PROVE TypeOK'
    <3>0. dropper' \in Worker \cup {Nobody, Caller}
      BY <2>2, <2>4 DEF SubmitterStep
    <3>a. ASSUME permits' = permits \/ permits' = permits \ {d}
          PROVE  permits' \subseteq Lease /\ Cardinality(permits') <= MaxLeases
      BY <3>a, FewerPermits
    <3>1. CASE EnsureOpen(d)
      BY <3>0, <3>a, <3>1 DEF EnsureOpen
    <3>2. CASE CreateDatabase(d)
      BY <3>0, <3>a, <3>2 DEF CreateDatabase
    <3>3. CASE EnqueueWait(d)
      BY <3>0, <3>3 DEF EnqueueWait
    <3>4. CASE EnqueueClosed(d)
      BY <3>0, <3>a, <3>4 DEF EnqueueClosed
    <3>5. CASE EnqueueAccept(d)
      <4>1. jobs' \in Seq(Database) /\ waiting' \subseteq Database \cup Worker
        BY <3>5 DEF EnqueueAccept, NotifyOne
      <4>2. next_sequence' \in Nat /\ sequence' \in [Database -> Nat]
        BY <3>5 DEF EnqueueAccept
      <4>3. lease' \in [Database -> LeaseState]
            /\ oneshot' \in [Database -> OneshotState]
        BY <3>5 DEF EnqueueAccept
      <4> QED
        BY <3>0, <3>5, <4>1, <4>2, <4>3 DEF EnqueueAccept
    <3>6. CASE ReleaseDeferredPermit(d)
      BY <3>0, <3>a, <3>6 DEF ReleaseDeferredPermit
    <3> QED
      BY <2>4, <3>1, <3>2, <3>3, <3>4, <3>5, <3>6 DEF SubmitterStep
  <2>5. ASSUME NEW d \in Database, ReceiverStep(d) PROVE TypeOK'
    <3>0. dropper' \in Worker \cup {Nobody, Caller}
      BY <2>2, <2>5 DEF ReceiverStep
    <3>1. CASE ReceiveOutcome(d)
      BY <3>0, <3>1 DEF ReceiveOutcome
    <3>2. CASE CancelAwait(d)
      <4>0. /\ \/ failures' = failures
               \/ failures' = [failures EXCEPT ![d] = failures[d] + 1]
            /\ drain_waiting' \in {drain_waiting, {}}
        BY <3>2 DEF CancelAwait, DropOutcome, NotifyDrains
      <4>1. failures' \in [Database -> Nat] /\ drain_waiting' \subseteq Waiter
        BY <4>0, OneMoreFailure
      <4>2. oneshot' \in [Database -> OneshotState]
        BY <3>2 DEF CancelAwait
      <4> QED
        BY <3>0, <3>2, <4>1, <4>2 DEF CancelAwait
    <3> QED
      BY <2>5, <3>1, <3>2 DEF ReceiverStep
  <2>6. ASSUME NEW w \in Worker, WorkerStep(w) PROVE TypeOK'
    <3>0. dropper' \in Worker \cup {Nobody, Caller}
      BY <2>2, <2>6 DEF WorkerStep
    <3>1. CASE NextJob(w)
      <4>1. Head(jobs) \in Database /\ Tail(jobs) \in Seq(Database)
        BY <3>1 DEF NextJob
      <4>2. /\ job' \in [Worker -> Database \cup {NoDatabase}]
            /\ worker' \in [Worker -> WorkerState]
            /\ waiting' \subseteq Database \cup Worker
        BY <3>1, <4>1 DEF NextJob, NotifyAll
      <4>3. jobs' \in Seq(Database)
        BY <3>1, <4>1 DEF NextJob
      <4> QED
        BY <3>0, <3>1, <4>2, <4>3 DEF NextJob
    <3>2. CASE NextJobExit(w)
      BY <3>0, <3>2 DEF NextJobExit
    <3>3. CASE NextJobWait(w)
      BY <3>0, <3>3 DEF NextJobWait
    <3>4. CASE RunOperation(w)
      BY <3>0, <3>4 DEF RunOperation
    <3>5. CASE CloseDatabaseAdmission(w)
      BY <3>0, <3>5 DEF CloseDatabaseAdmission
    <3>6. CASE ReleasePermit(w)
      <4>1. permits' \subseteq Lease /\ Cardinality(permits') <= MaxLeases
        BY <3>6, FewerPermits DEF ReleasePermit
      <4> QED
        BY <3>0, <3>6, <4>1 DEF ReleasePermit
    <3>7. CASE SendOutcome(w)
      <4>0. /\ \/ failures' = failures
               \/ failures' = [failures EXCEPT ![job[w]] = failures[job[w]] + 1]
            /\ drain_waiting' \in {drain_waiting, {}}
        BY <3>7 DEF SendOutcome, DropOutcome, NotifyDrains
      <4>a. job[w] \in Database
        BY <3>7, RunningHasJob DEF SendOutcome
      <4>1. failures' \in [Database -> Nat] /\ drain_waiting' \subseteq Waiter
        BY <4>0, <4>a, OneMoreFailure
      <4>2. oneshot' \in [Database -> OneshotState]
            /\ worker' \in [Worker -> WorkerState]
        BY <3>7 DEF SendOutcome
      <4> QED
        BY <3>0, <3>7, <4>1, <4>2 DEF SendOutcome
    <3>8. CASE Complete(w)
      <4>1. /\ job[w] \in Database /\ sequence[job[w]] \in Nat
            /\ failures \in [Database -> Nat] /\ completed_through \in Nat
            /\ completed_out_of_order \subseteq Nat /\ next_sequence \in Nat
        BY <3>8, RunningHasJob DEF Complete
      <4>2. failures' \in [Database -> Nat]
        <5> HIDE DEF TypeOK
        <5>1. \/ failures' = failures
              \/ failures' = [failures EXCEPT ![job[w]] = failures[job[w]] + 1]
          BY <3>8, <4>1 DEF Complete
        <5> QED
          BY <4>1, <5>1, OneMoreFailure
      <4>3. completed_through' \in Nat /\ completed_out_of_order' \subseteq Nat
        <5> HIDE DEF TypeOK
        <5> DEFINE s == sequence[job[w]]
                   done == completed_out_of_order \cup {s}
        <5>1. done \subseteq Nat
          BY <4>1
        <5>2. CASE s = completed_through + 1
          <6>1. PICK n \in s .. next_sequence :
                   completed_through' = n /\ completed_out_of_order' = done \ (s .. n)
            BY <3>8, <5>2 DEF Complete
          <6> QED
            BY <4>1, <5>1, <6>1
        <5>3. CASE s # completed_through + 1
          BY <3>8, <4>1, <5>1, <5>3 DEF Complete
        <5> QED
          BY <5>2, <5>3
      <4>4. worker' \in [Worker -> WorkerState] /\ drain_waiting' \subseteq Waiter
        BY <3>8 DEF Complete, NotifyDrains
      <4> QED
        BY <3>0, <3>8, <4>2, <4>3, <4>4 DEF Complete
    <3>9. CASE DropQueueGuard(w)
      BY <3>0, <3>9 DEF DropQueueGuard
    <3> QED
      BY <2>6, <3>1, <3>2, <3>3, <3>4, <3>5, <3>6, <3>7, <3>8, <3>9
      DEF WorkerStep
  <2>7. ASSUME NEW x \in Waiter, DrainStep(x) PROVE TypeOK'
    <3>0. dropper' \in Worker \cup {Nobody, Caller}
      BY <2>2, <2>7 DEF DrainStep
    <3>1. CASE FixTarget(x)
      BY <3>0, <3>1 DEF FixTarget, NotifyAll
    <3>2. CASE WaitForBarrier(x)
      BY <3>0, <3>2 DEF WaitForBarrier
    <3>3. CASE WaitAndTake(x)
      BY <3>0, <3>3 DEF WaitAndTake, AfterTake
    <3>4. CASE JoinWorkers(x)
      BY <3>0, <3>4 DEF JoinWorkers, AfterTake
    <3>5. CASE FinishDrain(x)
      <4>1. reported' \in [Database -> Nat]
        BY <3>5 DEF FinishDrain
      <4>2. taken' \in [Waiter -> [Database -> Nat]]
        BY <3>5 DEF FinishDrain
      <4> QED
        BY <3>0, <3>5, <4>1, <4>2 DEF FinishDrain, NotifyDrains
    <3>6. CASE DropDrainOutcome(x)
      <4>1. failures' \in [Database -> Nat]
        BY <3>6 DEF DropDrainOutcome
      <4>2. taken' \in [Waiter -> [Database -> Nat]]
        BY <3>6 DEF DropDrainOutcome
      <4> QED
        BY <3>0, <3>6, <4>1, <4>2 DEF DropDrainOutcome, NotifyDrains
    <3> QED
      BY <2>7, <3>1, <3>2, <3>3, <3>4, <3>5, <3>6 DEF DrainStep
  <2>8. CASE DropStep
    <3>1. CASE DropClose
      BY <3>1 DEF DropClose, NotifyAll
    <3>2. CASE DropTake
      <4>1. logged' \in [Database -> Nat] /\ failures' \in [Database -> Nat]
        BY <3>2 DEF DropTake
      <4> QED
        BY <3>2, <4>1 DEF DropTake
    <3>3. CASE DropJoin
      BY <3>3 DEF DropJoin
    <3> QED
      BY <2>8, <3>1, <3>2, <3>3 DEF DropStep
  <2>9. CASE SpuriousWakeup
    BY <2>9 DEF SpuriousWakeup
  <2>10. CASE Terminated
    BY <2>10 DEF Terminated
  <2> QED
    BY <2>1, <2>3, <2>4, <2>5, <2>6, <2>7, <2>8, <2>9, <2>10 DEF Next
<1>3. Init => JobAssigned
  BY DEF Init, JobAssigned
<1>4. TypeOK /\ JobAssigned /\ [Next]_vars => JobAssigned'
  <2> SUFFICES ASSUME TypeOK, JobAssigned, [Next]_vars PROVE JobAssigned'
    OBVIOUS
  <2>1. ASSUME NEW w \in Worker, WorkerStep(w) PROVE JobAssigned'
    <3>1. CASE NextJob(w)
      <4>1. Head(jobs) \in Database
        BY <3>1 DEF NextJob
      <4> QED
        BY <3>1, <4>1, DistinctAssumption DEF NextJob, JobAssigned
    <3>2. CASE \/ NextJobExit(w) \/ NextJobWait(w) \/ RunOperation(w)
              \/ CloseDatabaseAdmission(w) \/ ReleasePermit(w)
              \/ SendOutcome(w) \/ Complete(w) \/ DropQueueGuard(w)
      BY <3>2 DEF NextJobExit, NextJobWait, RunOperation, workerVars,
                  CloseDatabaseAdmission, ReleasePermit, SendOutcome,
                  Complete, DropQueueGuard, JobAssigned
    <3> QED
      BY <2>1, <3>1, <3>2 DEF WorkerStep
  <2>2. CASE ~ \E w \in Worker : WorkerStep(w)
    BY <2>2, OnlyWorkers DEF JobAssigned
  <2> QED
    BY <2>1, <2>2
<1> QED
  BY <1>1, <1>2, <1>3, <1>4, PTL DEF Spec

-----------------------------------------------------------------------------
(***************************************************************************)
(* No wakeup is lost on the condition variable that submitters and workers *)
(* share.  The strengthening says when a worker may be gone: a sleeping    *)
(* worker can take a new job unless the queue was closed.                  *)
(***************************************************************************)
WakeupInv ==
    /\ NoLostWakeup
    /\ \A w \in Worker : worker[w] = "exited" => closed

\* The state of the submission queue matters only where these change.
LEMMA WakeupQuiet ==
    ASSUME WakeupInv, UNCHANGED <<jobs, waiting, closed>>,
           \A w \in Worker : worker'[w] = "exited" <=> worker[w] = "exited"
    PROVE  WakeupInv'
BY DEF WakeupInv, NoLostWakeup

\* enqueue wakes one thread only, workers and submitters sleep on the same
\* condition variable, and still a job never waits while every worker sleeps
\* and a submitter never sleeps on a queue that is closed or has room.
THEOREM WakeupsNotLost == Spec => []NoLostWakeup
<1>1. Init => WakeupInv
  BY DEF Init, WakeupInv, NoLostWakeup
<1>2. TypeOK /\ JobAssigned /\ WakeupInv /\ [Next]_vars => WakeupInv'
  <2> SUFFICES ASSUME TypeOK, JobAssigned, WakeupInv, [Next]_vars
               PROVE  WakeupInv'
    OBVIOUS
  <2> USE DEF vars, submissionVars, workerVars
  <2>0. Worker # {} /\ Database \cap Worker = {} /\ Capacity \in Nat \ {0}
    BY FiniteAssumption, DistinctAssumption, SizesAssumption
  <2>t. /\ jobs \in Seq(Database) /\ waiting \subseteq Database \cup Worker
        /\ worker \in [Worker -> WorkerState] /\ closed \in BOOLEAN
    BY DEF TypeOK
  <2>1. CASE UNCHANGED vars
    BY <2>1, WakeupQuiet
  <2>2. CASE ApplicationStep
    BY <2>2, WakeupQuiet DEF ApplicationStep, Acquire, BeginPrewarm,
       BeginSubmit, BeginDrain, BeginShutdown, ReleaseHandle
  <2>3. ASSUME NEW d \in Database, SubmitterStep(d) PROVE WakeupInv'
    <3>1. CASE EnqueueWait(d)
      BY <2>0, <3>1 DEF EnqueueWait, WakeupInv, NoLostWakeup
    <3>2. CASE EnqueueAccept(d)
      <4>1. ~closed /\ ~closed' /\ jobs' = Append(jobs, d) /\ worker' = worker
        BY <3>2 DEF EnqueueAccept
      <4>2. waiting' \subseteq waiting
            /\ (waiting # {} => \E t \in waiting : waiting' = waiting \ {t})
        BY <3>2 DEF EnqueueAccept, NotifyOne
      <4>3. Len(jobs') = Len(jobs) + 1 /\ Len(jobs) \in Nat
        BY <2>t, <4>1
      <4>4. \A e \in Database \cap waiting' : Len(jobs') >= Capacity
        BY <2>0, <4>2, <4>3 DEF WakeupInv, NoLostWakeup
      <4>5. \E w \in Worker : w \notin waiting' /\ worker[w] # "exited"
        <5>1. CASE jobs # << >>
          BY <4>2, <5>1 DEF WakeupInv, NoLostWakeup
        <5>2. CASE jobs = << >>
          <6>1. Database \cap waiting = {}
            BY <2>0, <5>2 DEF WakeupInv, NoLostWakeup
          <6>2. \E w \in Worker : w \notin waiting'
            BY <2>0, <2>t, <4>2, <6>1
          <6> QED
            BY <4>1, <6>2 DEF WakeupInv
        <5> QED
          BY <5>1, <5>2
      <4> QED
        BY <4>1, <4>4, <4>5 DEF WakeupInv, NoLostWakeup
    <3>3. CASE \/ EnsureOpen(d) \/ CreateDatabase(d) \/ EnqueueClosed(d)
              \/ ReleaseDeferredPermit(d)
      BY <3>3, WakeupQuiet DEF EnsureOpen, CreateDatabase, EnqueueClosed,
         ReleaseDeferredPermit
    <3> QED
      BY <2>3, <3>1, <3>2, <3>3 DEF SubmitterStep
  <2>4. ASSUME NEW d \in Database, ReceiverStep(d) PROVE WakeupInv'
    BY <2>4, WakeupQuiet DEF ReceiverStep, ReceiveOutcome, CancelAwait
  <2>5. ASSUME NEW w \in Worker, WorkerStep(w) PROVE WakeupInv'
    <3>1. CASE NextJob(w)
      BY <2>t, <3>1 DEF NextJob, NotifyAll, WakeupInv, NoLostWakeup
    <3>2. CASE NextJobExit(w)
      BY <2>t, <3>2 DEF NextJobExit, WakeupInv, NoLostWakeup
    <3>3. CASE NextJobWait(w)
      BY <2>0, <2>t, <3>3 DEF NextJobWait, WakeupInv, NoLostWakeup
    <3>4. CASE \/ RunOperation(w) \/ CloseDatabaseAdmission(w)
              \/ ReleasePermit(w) \/ SendOutcome(w) \/ Complete(w)
              \/ DropQueueGuard(w)
      <4>1. UNCHANGED <<jobs, waiting, closed>>
        BY <3>4 DEF RunOperation, CloseDatabaseAdmission, ReleasePermit,
           SendOutcome, Complete, DropQueueGuard
      <4>2. \E s \in WorkerState \ {"exited"} :
               worker' = [worker EXCEPT ![w] = s]
        BY <3>4 DEF RunOperation, CloseDatabaseAdmission, ReleasePermit,
           SendOutcome, Complete, DropQueueGuard, WorkerState
      <4>3. worker[w] # "exited"
        BY <3>4 DEF RunOperation, CloseDatabaseAdmission, ReleasePermit,
           SendOutcome, Complete, DropQueueGuard
      <4> QED
        BY <2>t, <4>1, <4>2, <4>3, WakeupQuiet
    <3> QED
      BY <2>5, <3>1, <3>2, <3>3, <3>4 DEF WorkerStep
  <2>6. ASSUME NEW x \in Waiter, DrainStep(x) PROVE WakeupInv'
    <3>1. CASE FixTarget(x)
      BY <3>1 DEF FixTarget, NotifyAll, WakeupInv, NoLostWakeup
    <3>2. CASE \/ WaitForBarrier(x) \/ WaitAndTake(x) \/ JoinWorkers(x)
              \/ FinishDrain(x) \/ DropDrainOutcome(x)
      BY <3>2, WakeupQuiet DEF WaitForBarrier, WaitAndTake, JoinWorkers,
         FinishDrain, DropDrainOutcome
    <3> QED
      BY <2>6, <3>1, <3>2 DEF DrainStep
  <2>7. CASE DropStep
    <3>1. CASE DropClose
      BY <3>1 DEF DropClose, NotifyAll, WakeupInv, NoLostWakeup
    <3>2. CASE DropTake \/ DropJoin
      BY <3>2, WakeupQuiet DEF DropTake, DropJoin
    <3> QED
      BY <2>7, <3>1, <3>2 DEF DropStep
  <2>8. CASE SpuriousWakeup
    BY <2>8 DEF SpuriousWakeup, WakeupInv, NoLostWakeup
  <2>9. CASE Terminated
    BY <2>9, WakeupQuiet DEF Terminated
  <2> QED
    BY <2>1, <2>2, <2>3, <2>4, <2>5, <2>6, <2>7, <2>8, <2>9 DEF Next
<1>3. WakeupInv => NoLostWakeup
  BY DEF WakeupInv
<1> QED
  BY TypeCorrect, <1>1, <1>2, <1>3, PTL DEF Spec

-----------------------------------------------------------------------------
(***************************************************************************)
(* Nothing refers to the queue any more, for good.                         *)
(***************************************************************************)
LEMMA ReleasedForGood ==
    ASSUME TypeOK, JobAssigned, ~Retained, [Next]_vars
    PROVE  ~Retained'
<1> USE DEF vars, leaseVars, submissionVars, workerVars, drainVars
<1>0. /\ ~handle /\ jobs = << >>
      /\ \A w \in Worker : worker[w] \in {"next", "exited"}
      /\ \A d \in Database : lease[d] \notin
            {"admitted", "creating", "live", "submit", "accepted"}
      /\ \A x \in Waiter : drain[x] \notin {"lock", "wait", "join", "outcome"}
  BY DEF Retained, RetainedByJob, JobAssigned
<1>1. CASE UNCHANGED vars
  BY <1>1 DEF Retained, RetainedByJob, Failed
<1>2. ~ApplicationStep
  BY <1>0 DEF ApplicationStep, Acquire, BeginPrewarm, BeginSubmit, BeginDrain,
              BeginShutdown, ReleaseHandle
<1>3. ~ \E d \in Database : SubmitterStep(d)
  BY <1>0 DEF SubmitterStep, EnsureOpen, CreateDatabase, EnqueueWait,
              EnqueueClosed, EnqueueAccept, ReleaseDeferredPermit
<1>4. ~ \E x \in Waiter : DrainStep(x)
  BY <1>0 DEF DrainStep, FixTarget, WaitForBarrier, WaitAndTake, JoinWorkers,
              FinishDrain, DropDrainOutcome
<1>5. ASSUME NEW d \in Database, ReceiverStep(d) PROVE ~Retained'
  <2>1. /\ UNCHANGED <<handle, lease, jobs, job, outcome, drain>>
        /\ \A e \in Database : oneshot'[e] = "sent" => oneshot[e] = "sent"
    BY <1>5 DEF ReceiverStep, ReceiveOutcome, CancelAwait, TypeOK
  <2> QED
    BY <2>1 DEF Retained, RetainedByJob, Failed
<1>6. ASSUME NEW w \in Worker, WorkerStep(w) PROVE ~Retained'
  <2>1. UNCHANGED <<handle, lease, oneshot, jobs, job, outcome, drain>>
    BY <1>0, <1>6 DEF WorkerStep, NextJob, NextJobExit, NextJobWait,
       RunOperation, CloseDatabaseAdmission, ReleasePermit, SendOutcome,
       Complete, DropQueueGuard
  <2> QED
    BY <2>1 DEF Retained, RetainedByJob, Failed
<1>7. CASE DropStep \/ SpuriousWakeup \/ Terminated
  <2>1. UNCHANGED <<handle, lease, oneshot, jobs, job, outcome, drain>>
    BY <1>7 DEF DropStep, DropClose, DropTake, DropJoin, SpuriousWakeup,
       Terminated
  <2> QED
    BY <2>1 DEF Retained, RetainedByJob, Failed
<1> QED
  BY <1>1, <1>2, <1>3, <1>4, <1>5, <1>6, <1>7 DEF Next

\* The destructor starts only when nothing refers to the queue.
DropperInv == dropper # Nobody => ~Retained

\* A step starts the destructor only by giving up the last reference, and
\* once it has started nothing refers to the queue again.
LEMMA DropperStep ==
    ASSUME TypeOK, JobAssigned, DropperInv, [Next]_vars
    PROVE  DropperInv'
<1>1. \/ dropper' = dropper
      \/ Retained /\ ~Retained'
  <2>1. ASSUME NEW t, Release(t)
        PROVE  dropper' = dropper \/ (Retained /\ ~Retained')
    BY <2>1 DEF Release
  <2>2. CASE ApplicationStep \/ (\E d \in Database : SubmitterStep(d))
                \/ (\E d \in Database : ReceiverStep(d))
                \/ (\E w \in Worker : WorkerStep(w))
                \/ (\E x \in Waiter : DrainStep(x))
    BY <2>1, <2>2 DEF ApplicationStep, SubmitterStep, ReceiverStep,
       WorkerStep, DrainStep
  <2>3. CASE DropStep \/ SpuriousWakeup \/ Terminated \/ UNCHANGED vars
    BY <2>3 DEF DropStep, DropClose, DropTake, DropJoin, SpuriousWakeup,
       Terminated, vars
  <2> QED
    BY <2>2, <2>3 DEF Next
<1> QED
  BY <1>1, ReleasedForGood DEF DropperInv

-----------------------------------------------------------------------------
(***************************************************************************)
(* Databases left behind.  The strengthening follows a stored database     *)
(* through its lease, the queue and a worker, and records why a closed     *)
(* queue cannot turn a lease away while admission is open: a shutdown has  *)
(* closed admission first, and the destructor finds no lease.              *)
(***************************************************************************)
InCleanup(d) ==
    Queued(d) \/ \E w \in Worker : job[w] = d /\ worker[w] \in {"running", "close"}

OrphanInv ==
    /\ \A d \in stored :
          lease[d] \in {"live", "submit"} \/ InCleanup(d) \/ admission_closed
    /\ \A d \in Database :
          lease[d] \in {"unused", "admitted", "creating"} => d \notin stored
    /\ \A x \in Closer : drain[x] # "idle" => admission_closed
    /\ closed => admission_closed \/ dropper # Nobody

\* What enqueue pushes is queued, along with all that was queued before.
LEMMA QueuedAfterAppend ==
    ASSUME jobs \in Seq(Database), NEW d \in Database, jobs' = Append(jobs, d)
    PROVE  Queued(d)' /\ \A e \in Database : Queued(e) => Queued(e)'
<1>1. /\ Len(jobs) \in Nat /\ Len(jobs') = Len(jobs) + 1
      /\ jobs'[Len(jobs) + 1] = d
      /\ \A i \in 1 .. Len(jobs) : jobs'[i] = jobs[i]
  OBVIOUS
<1>2. Queued(d)'
  BY <1>1 DEF Queued
<1>3. ASSUME NEW e \in Database, Queued(e) PROVE Queued(e)'
  <2>1. PICK i \in 1 .. Len(jobs) : jobs[i] = e
    BY <1>3 DEF Queued
  <2>2. i \in 1 .. Len(jobs') /\ jobs'[i] = e
    BY <1>1, <2>1
  <2> QED
    BY <2>2 DEF Queued
<1> QED
  BY <1>2, <1>3

\* What next_job leaves in the queue is queued; only the head is gone.
LEMMA QueuedAfterTail ==
    ASSUME jobs \in Seq(Database), jobs # << >>, jobs' = Tail(jobs)
    PROVE  \A e \in Database : Queued(e) => e = Head(jobs) \/ Queued(e)'
<1>1. /\ Len(jobs) \in Nat /\ Len(jobs') = Len(jobs) - 1
      /\ Head(jobs) = jobs[1]
      /\ \A i \in 1 .. Len(jobs') : jobs'[i] = jobs[i + 1]
  OBVIOUS
<1>2. ASSUME NEW e \in Database, Queued(e), e # Head(jobs) PROVE Queued(e)'
  <2>1. PICK i \in 1 .. Len(jobs) : jobs[i] = e
    BY <1>2 DEF Queued
  <2>2. i - 1 \in 1 .. Len(jobs') /\ jobs'[i - 1] = e
    BY <1>1, <1>2, <2>1
  <2> QED
    BY <2>2 DEF Queued
<1> QED
  BY <1>2

\* Steps that touch neither leases nor the job of a running worker.
LEMMA OrphanQuiet ==
    ASSUME OrphanInv, DropperInv,
           UNCHANGED <<lease, jobs, stored, admission_closed, closed>>,
           \A w \in Worker : worker[w] \in {"running", "close"} =>
              job'[w] = job[w] /\ worker'[w] = worker[w],
           \A x \in Closer : drain'[x] # "idle" => drain[x] # "idle",
           dropper # Nobody => dropper' # Nobody
    PROVE  OrphanInv'
BY DEF OrphanInv, InCleanup, Queued

\* The destructor of the queue runs on one thread, once it runs at all.
LEMMA DropperStays ==
    ASSUME TypeOK, [Next]_vars, dropper # Nobody
    PROVE  dropper' # Nobody
<1>1. ASSUME NEW t \in Worker \cup {Caller}, Release(t) PROVE dropper' # Nobody
  BY <1>1, DistinctAssumption DEF Release
<1>2. CASE DropStep \/ SpuriousWakeup \/ Terminated \/ UNCHANGED vars
  BY <1>2 DEF DropStep, DropClose, DropTake, DropJoin, SpuriousWakeup,
     Terminated, vars
<1> QED
  BY <1>1, <1>2 DEF Next, ApplicationStep, SubmitterStep, ReceiverStep,
     WorkerStep, DrainStep

\* Every stored database has an owner while admission is open.
THEOREM OwnersKept == Spec => [](DropperInv /\ OrphanInv)
<1>1. Init => OrphanInv /\ DropperInv
  BY DEF Init, OrphanInv, DropperInv, Waiter
<1>2. TypeOK /\ JobAssigned /\ DropperInv /\ OrphanInv /\ [Next]_vars
         => OrphanInv'
  <2> SUFFICES ASSUME TypeOK, JobAssigned, DropperInv, OrphanInv, [Next]_vars
               PROVE  OrphanInv'
    OBVIOUS
  <2> USE DEF vars, admissionVars, leaseVars, submissionVars, workerVars,
              drainVars
  <2>t. /\ lease \in [Database -> LeaseState] /\ stored \subseteq Database
        /\ jobs \in Seq(Database) /\ worker \in [Worker -> WorkerState]
        /\ job \in [Worker -> Database \cup {NoDatabase}]
        /\ drain \in [Waiter -> DrainState] /\ Closer \subseteq Waiter
        /\ outcome \in [Database -> Outcome]
    BY DEF TypeOK, Waiter
  <2>d. dropper # Nobody => dropper' # Nobody
    BY DropperStays
  <2>1. CASE UNCHANGED vars
    BY <2>1, OrphanQuiet
  <2>2. CASE ApplicationStep
    <3>1. ASSUME NEW d \in Database, Acquire(d) \/ BeginPrewarm(d) \/ BeginSubmit(d)
          PROVE  OrphanInv'
      <4>1. UNCHANGED <<jobs, stored, admission_closed, closed, worker, job, drain>>
        BY <3>1 DEF Acquire, BeginPrewarm, BeginSubmit
      <4>2. \/ lease[d] = "unused" /\ lease' = [lease EXCEPT ![d] = "admitted"]
            \/ lease[d] = "live" /\ lease' = [lease EXCEPT ![d] = "submit"]
        BY <3>1 DEF Acquire, BeginPrewarm, BeginSubmit
      <4> QED
        BY <2>t, <2>d, <4>1, <4>2 DEF OrphanInv, InCleanup, Queued
    <3>2. ASSUME NEW x \in Waiter, BeginDrain(x) PROVE OrphanInv'
      BY <2>t, <2>d, <3>2, DistinctAssumption
      DEF BeginDrain, OrphanInv, InCleanup, Queued
    <3>3. ASSUME NEW x \in Waiter, BeginShutdown(x) PROVE OrphanInv'
      BY <2>t, <3>3 DEF BeginShutdown, OrphanInv
    <3>4. CASE ReleaseHandle
      BY <2>d, <3>4, OrphanQuiet DEF ReleaseHandle
    <3> QED
      BY <2>2, <3>1, <3>2, <3>3, <3>4 DEF ApplicationStep
  <2>3. ASSUME NEW d \in Database, SubmitterStep(d) PROVE OrphanInv'
    <3>0. UNCHANGED <<worker, job, drain, closed>>
      BY <2>3 DEF SubmitterStep, EnsureOpen, CreateDatabase, EnqueueWait,
         EnqueueClosed, EnqueueAccept, ReleaseDeferredPermit
    <3>1. CASE EnsureOpen(d)
      BY <2>t, <2>d, <3>0, <3>1 DEF EnsureOpen, OrphanInv, InCleanup, Queued
    <3>2. CASE CreateDatabase(d)
      <4>1. jobs' = jobs /\ lease[d] = "creating" /\ d \notin stored
        BY <3>2 DEF CreateDatabase, OrphanInv
      <4>2. \/ /\ stored' = stored \cup {d} /\ UNCHANGED admission_closed
               /\ lease' = [lease EXCEPT ![d] = "live"]
            \/ /\ stored' = stored /\ UNCHANGED admission_closed
               /\ lease' = [lease EXCEPT ![d] = "failed"]
            \/ /\ stored' \subseteq stored \cup {d} /\ admission_closed'
               /\ lease' = [lease EXCEPT ![d] = "failed"]
        BY <3>2 DEF CreateDatabase
      <4> QED
        BY <2>t, <2>d, <3>0, <4>1, <4>2 DEF OrphanInv, InCleanup, Queued
    <3>3. CASE EnqueueWait(d)
      BY <2>d, <3>0, <3>3, OrphanQuiet DEF EnqueueWait
    <3>4. CASE EnqueueClosed(d)
      <4>1. admission_closed
        BY <3>4 DEF EnqueueClosed, OrphanInv, DropperInv, Retained
      <4> QED
        BY <2>t, <2>d, <3>0, <3>4, <4>1 DEF EnqueueClosed, OrphanInv
    <3>5. CASE EnqueueAccept(d)
      <4>1. /\ jobs' = Append(jobs, d) /\ UNCHANGED <<stored, admission_closed>>
            /\ \A e \in Database : e # d => lease'[e] = lease[e]
            /\ lease'[d] \in {"accepted", "submitted"}
        BY <2>t, <3>5 DEF EnqueueAccept
      <4>2. Queued(d)' /\ \A e \in Database : Queued(e) => Queued(e)'
        BY <2>t, <4>1, QueuedAfterAppend
      <4> QED
        BY <2>t, <2>d, <3>0, <4>1, <4>2 DEF OrphanInv, InCleanup
    <3>6. CASE ReleaseDeferredPermit(d)
      BY <2>t, <2>d, <3>0, <3>6
      DEF ReleaseDeferredPermit, OrphanInv, InCleanup, Queued
    <3> QED
      BY <2>3, <3>1, <3>2, <3>3, <3>4, <3>5, <3>6 DEF SubmitterStep
  <2>4. ASSUME NEW d \in Database, ReceiverStep(d) PROVE OrphanInv'
    BY <2>4, <2>d, OrphanQuiet DEF ReceiverStep, ReceiveOutcome, CancelAwait
  <2>5. ASSUME NEW w \in Worker, WorkerStep(w) PROVE OrphanInv'
    <3>0. UNCHANGED <<lease, drain, closed>>
      BY <2>5 DEF WorkerStep, NextJob, NextJobExit, NextJobWait,
         RunOperation, CloseDatabaseAdmission, ReleasePermit, SendOutcome,
         Complete, DropQueueGuard
    <3>1. CASE NextJob(w)
      <4>1. /\ UNCHANGED <<stored, admission_closed>> /\ worker[w] = "next"
            /\ job' = [job EXCEPT ![w] = Head(jobs)]
            /\ worker' = [worker EXCEPT ![w] = "running"]
        BY <3>1 DEF NextJob
      <4>2. \A e \in Database : Queued(e) => e = Head(jobs) \/ Queued(e)'
        BY <2>t, <3>1, QueuedAfterTail DEF NextJob
      <4>3. \A e \in Database : InCleanup(e) => InCleanup(e)'
        BY <2>t, <4>1, <4>2 DEF InCleanup
      <4> QED
        BY <2>t, <2>d, <3>0, <4>1, <4>3 DEF OrphanInv
    <3>2. CASE RunOperation(w)
      <4>1. /\ UNCHANGED <<jobs, job, admission_closed>> /\ worker[w] = "running"
            /\ \E s \in WorkerState : worker' = [worker EXCEPT ![w] = s]
        BY <3>2 DEF RunOperation, WorkerState
      <4>2. job[w] \in Database
        BY <4>1, RunningHasJob
      <4>3. stored' \subseteq stored /\ (job[w] \in stored' => worker'[w] = "close")
        BY <2>t, <3>2, <4>2 DEF RunOperation, MayLeaveResidual, Outcome
      <4>4. \A e \in stored' : InCleanup(e) => InCleanup(e)'
        BY <2>t, <4>1, <4>3 DEF InCleanup, Queued
      <4> QED
        BY <2>t, <2>d, <3>0, <4>1, <4>3, <4>4 DEF OrphanInv
    <3>3. CASE CloseDatabaseAdmission(w)
      BY <2>t, <2>d, <3>0, <3>3 DEF CloseDatabaseAdmission, OrphanInv
    <3>4. CASE \/ NextJobExit(w) \/ NextJobWait(w) \/ ReleasePermit(w)
              \/ SendOutcome(w) \/ Complete(w) \/ DropQueueGuard(w)
      <4>1. UNCHANGED <<jobs, stored, admission_closed>>
        BY <3>4 DEF NextJobExit, NextJobWait, ReleasePermit, SendOutcome,
           Complete, DropQueueGuard
      <4>2. /\ worker[w] \notin {"running", "close"}
            /\ \A v \in Worker \ {w} : worker'[v] = worker[v] /\ job'[v] = job[v]
        BY <2>t, <3>4 DEF NextJobExit, NextJobWait, ReleasePermit,
           SendOutcome, Complete, DropQueueGuard
      <4> QED
        BY <2>d, <3>0, <4>1, <4>2, OrphanQuiet
    <3> QED
      BY <2>5, <3>1, <3>2, <3>3, <3>4 DEF WorkerStep
  <2>6. ASSUME NEW x \in Waiter, DrainStep(x) PROVE OrphanInv'
    <3>0. UNCHANGED <<lease, jobs, stored, admission_closed, worker, job>>
          /\ drain[x] # "idle"
          /\ \A y \in Waiter \ {x} : drain'[y] = drain[y]
      BY <2>t, <2>6 DEF DrainStep, FixTarget, WaitForBarrier, WaitAndTake,
         JoinWorkers, FinishDrain, DropDrainOutcome
    <3>1. closed' => closed \/ (x \in Closer)
      BY <2>6 DEF DrainStep, FixTarget, WaitForBarrier, WaitAndTake,
         JoinWorkers, FinishDrain, DropDrainOutcome
    <3> QED
      BY <2>t, <2>d, <3>0, <3>1 DEF OrphanInv, InCleanup, Queued
  <2>7. CASE DropStep
    <3>1. UNCHANGED <<lease, jobs, stored, admission_closed, worker, job, drain>>
          /\ (closed' => closed \/ dropper # Nobody)
      BY <2>7 DEF DropStep, DropClose, DropTake, DropJoin
    <3> QED
      BY <2>d, <3>1 DEF OrphanInv, InCleanup, Queued
  <2>8. CASE SpuriousWakeup \/ Terminated
    BY <2>8, <2>d, OrphanQuiet DEF SpuriousWakeup, Terminated
  <2> QED
    BY <2>1, <2>2, <2>3, <2>4, <2>5, <2>6, <2>7, <2>8 DEF Next
<1>3. TypeOK /\ JobAssigned /\ DropperInv /\ [Next]_vars => DropperInv'
  BY DropperStep
<1> QED
  BY TypeCorrect, <1>1, <1>2, <1>3, PTL DEF Spec

\* A database is left behind (its drop failed, the answer to its creation was
\* lost, or the queue refused it) only with admission closed, and so never
\* with a permit that a new database could take.
THEOREM OrphansCloseAdmission == Spec => []OrphanClosesAdmission
<1>1. TypeOK /\ OrphanInv => OrphanClosesAdmission
  BY DEF TypeOK, OrphanInv, OrphanClosesAdmission, Owned, InCleanup
<1> QED
  BY TypeCorrect, OwnersKept, <1>1, PTL

-----------------------------------------------------------------------------
(***************************************************************************)
(* Barriers, errors and storage: the inductive invariant.                  *)
(***************************************************************************)

\* The sequence numbers in use are 1 .. next_sequence, each of one job, and a
\* job has one from the moment enqueue accepts it.
Sequenced ==
    /\ \A d \in Database : sequence[d] <= next_sequence
    /\ \A d, e \in Database : sequence[d] = sequence[e] /\ sequence[d] > 0 => d = e
    /\ \A n \in 1 .. next_sequence : \E d \in Database : sequence[d] = n
    /\ \A d \in Database : sequence[d] > 0 <=> lease[d] \in {"accepted", "submitted"}

\* A job is in the queue or with one worker, once, and after that nowhere.
JobsOnce ==
    /\ \A i, j \in 1 .. Len(jobs) : jobs[i] = jobs[j] => i = j
    /\ \A d \in Database : Queued(d) => sequence[d] > 0 /\ \A w \in Worker : job[w] # d
    /\ \A w \in Worker : job[w] # NoDatabase => sequence[job[w]] > 0
    /\ \A v, w \in Worker : job[v] = job[w] /\ job[v] # NoDatabase => v = w

Running(d) == \E w \in Worker : job[w] = d /\ worker[w] = "running"

\* The outcome is known once the operation has run, and only an awaited one
\* goes through a channel.
Outcomes ==
    /\ \A d \in Database : sequence[d] = 0 \/ Queued(d) \/ Running(d) => outcome[d] = "none"
    /\ \A w \in Worker : worker[w] = "send" => mode[job[w]] = "awaited"
    /\ \A d \in Database : oneshot[d] # "none" => mode[d] = "awaited" /\ sequence[d] > 0

\* An outcome in the channel was put there by the worker that ran the job.
SentLate ==
    \A d \in Database : oneshot[d] \in {"sent", "consumed"} =>
        ~Queued(d) /\ \A w \in Worker : job[w] = d => worker[w] \in {"record", "guard"}

\* The errors of a delivery in flight are with one drain, which has not ended.
Delivery ==
    /\ \A x \in Waiter, d \in Database : taken[x][d] > 0 =>
          failure_delivery_in_flight /\ drain[x] \in {"join", "outcome"}
    /\ \A x, y \in Waiter, d, e \in Database : taken[x][d] > 0 /\ taken[y][e] > 0 => x = y
    /\ \A x \in Waiter : drain[x] = "outcome" => \E d \in Database : taken[x][d] > 0
    /\ failure_delivery_in_flight => \E x \in Waiter, d \in Database : taken[x][d] > 0

\* Only the destructor writes errors to the log.
LoggedLast ==
    /\ drop_stage # "close" => dropper # Nobody
    /\ \A d \in Database : logged[d] > 0 => dropper # Nobody

\* What a drain promised at its call is within its target.
Promised ==
    /\ \A x \in Waiter : owed[x] \subseteq before[x]
    /\ \A x \in Waiter : \A d \in before[x] : sequence[d] > 0
    /\ \A x \in Waiter : drain[x] \notin {"idle", "lock"} =>
          \A d \in before[x] : sequence[d] <= target[x]
    /\ \A x \in Waiter : \A d \in owed[x] : oneshot[d] \in {"none", "cancelled"}

\* From its barrier on, a drain holds the errors it owes, or they were
\* reported before.
OwedTaken ==
    \A x \in Waiter : \A d \in owed[x] : Failed(d) =>
        /\ drain[x] \in {"join", "outcome"} => taken[x][d] + reported[d] = 1
        /\ drain[x] = "finished" => reported[d] = 1

-----------------------------------------------------------------------------
(***************************************************************************)
(* What the threads leave alone.                                           *)
(***************************************************************************)
jobVars == <<next_sequence, sequence, lease, mode, jobs, job, worker, outcome>>
countVars == <<completed_through, completed_out_of_order>>

\* What each group of threads leaves alone: first the application's calls.
LEMMA ApplicationFrame ==
    ASSUME ApplicationStep
    PROVE  /\ UNCHANGED <<next_sequence, sequence, jobs, job, worker, outcome, oneshot>>
           /\ UNCHANGED <<countVars, failures, failure_delivery_in_flight, target, taken>>
           /\ UNCHANGED <<reported, logged, drop_stage>>
BY DEF ApplicationStep, Acquire, BeginPrewarm, BeginSubmit, BeginDrain, BeginShutdown,
       ReleaseHandle, admissionVars, leaseVars, submissionVars, workerVars, completionVars,
       drainVars, promiseVars, reportVars, countVars

\* A thread that submits a job has no part in the workers, drains or reports.
LEMMA SubmitterFrame ==
    ASSUME NEW d \in Database, SubmitterStep(d)
    PROVE  /\ UNCHANGED <<mode, job, worker, outcome, countVars, failures>>
           /\ UNCHANGED <<failure_delivery_in_flight, drain, target, taken, before, owed>>
           /\ UNCHANGED <<reported, logged, drop_stage>>
BY DEF SubmitterStep, EnsureOpen, CreateDatabase, EnqueueWait, EnqueueClosed, EnqueueAccept,
       ReleaseDeferredPermit, admissionVars, leaseVars, submissionVars, workerVars,
       completionVars, drainVars, promiseVars, reportVars, countVars

\* A caller that receives or abandons its outcome leaves the queue alone.
LEMMA ReceiverFrame ==
    ASSUME NEW d \in Database, ReceiverStep(d)
    PROVE  /\ UNCHANGED <<admissionVars, jobVars, countVars, failure_delivery_in_flight>>
           /\ UNCHANGED <<drain, target, taken, before, owed, logged, drop_stage>>
BY DEF ReceiverStep, ReceiveOutcome, CancelAwait, admissionVars, leaseVars, submissionVars,
       workerVars, completionVars, drainVars, promiseVars, reportVars, countVars, jobVars

\* A worker never touches leases, drains or what a drain promised.
LEMMA WorkerFrame ==
    ASSUME NEW w \in Worker, WorkerStep(w)
    PROVE  /\ UNCHANGED <<next_sequence, sequence, lease, mode, failure_delivery_in_flight>>
           /\ UNCHANGED <<drain, target, taken, before, owed, reported, logged, drop_stage>>
BY DEF WorkerStep, NextJob, NextJobExit, NextJobWait, RunOperation, CloseDatabaseAdmission,
       ReleasePermit, SendOutcome, Complete, DropQueueGuard, admissionVars, leaseVars,
       submissionVars, workerVars, completionVars, drainVars, promiseVars, reportVars

\* A drain never touches jobs, leases or workers.
LEMMA DrainFrame ==
    ASSUME NEW x \in Waiter, DrainStep(x)
    PROVE  /\ UNCHANGED <<admissionVars, jobVars, oneshot, countVars>>
           /\ UNCHANGED <<before, owed, logged, drop_stage>>
BY DEF DrainStep, FixTarget, WaitForBarrier, WaitAndTake, JoinWorkers, FinishDrain,
       DropDrainOutcome, admissionVars, leaseVars, submissionVars, workerVars,
       completionVars, drainVars, promiseVars, reportVars, countVars, jobVars

Other == DropStep \/ SpuriousWakeup \/ Terminated \/ UNCHANGED vars

\* The destructor, a spurious wakeup and the end touch neither jobs nor leases.
LEMMA OtherFrame ==
    ASSUME Other
    PROVE  /\ UNCHANGED <<admissionVars, jobVars, oneshot, countVars, dropper>>
           /\ UNCHANGED <<failure_delivery_in_flight, drain, target, taken, before, owed>>
           /\ UNCHANGED reported
           /\ DropTake \/ UNCHANGED <<failures, logged>>
BY DEF Other, DropStep, DropClose, DropTake, DropJoin, SpuriousWakeup, Terminated, vars,
       admissionVars, leaseVars, submissionVars, workerVars, completionVars, drainVars,
       promiseVars, reportVars, countVars, jobVars

\* A step belongs to one group of threads, or is a stutter.
LEMMA Threads ==
    ASSUME [Next]_vars
    PROVE  \/ ApplicationStep \/ Other
           \/ \E d \in Database : SubmitterStep(d)
           \/ \E d \in Database : ReceiverStep(d)
           \/ \E w \in Worker : WorkerStep(w)
           \/ \E x \in Waiter : DrainStep(x)
BY DEF Next, Other

-----------------------------------------------------------------------------
(***************************************************************************)
(* The queue as a set.                                                     *)
(***************************************************************************)
LEMMA QueuedAppend ==
    ASSUME jobs \in Seq(Database), NEW d \in Database, jobs' = Append(jobs, d)
    PROVE  /\ \A e \in Database : Queued(e)' <=> Queued(e) \/ e = d
           /\ Len(jobs') = Len(jobs) + 1 /\ jobs'[Len(jobs) + 1] = d
           /\ \A i \in 1 .. Len(jobs) : jobs'[i] = jobs[i]
<1>1. /\ Len(jobs) \in Nat /\ Len(jobs') = Len(jobs) + 1
      /\ jobs'[Len(jobs) + 1] = d
      /\ \A i \in 1 .. Len(jobs) : jobs'[i] = jobs[i]
  OBVIOUS
<1>2. ASSUME NEW e \in Database, Queued(e)' PROVE Queued(e) \/ e = d
  <2>1. PICK i \in 1 .. Len(jobs') : jobs'[i] = e
    BY <1>2 DEF Queued
  <2>2. i \in 1 .. Len(jobs) \/ i = Len(jobs) + 1
    BY <1>1, <2>1
  <2> QED
    BY <1>1, <2>1, <2>2 DEF Queued
<1> QED
  BY <1>1, <1>2, QueuedAfterAppend

\* Taking the first job of a queue without repetitions removes that job only.
LEMMA QueuedTail ==
    ASSUME jobs \in Seq(Database), jobs # << >>, jobs' = Tail(jobs),
           \A i, j \in 1 .. Len(jobs) : jobs[i] = jobs[j] => i = j
    PROVE  /\ \A e \in Database : Queued(e)' <=> Queued(e) /\ e # Head(jobs)
           /\ Head(jobs) \in Database /\ Queued(Head(jobs))
           /\ \A i, j \in 1 .. Len(jobs') : jobs'[i] = jobs'[j] => i = j
<1>1. /\ Len(jobs) \in Nat \ {0} /\ Len(jobs') = Len(jobs) - 1
      /\ Head(jobs) = jobs[1] /\ Head(jobs) \in Database
      /\ \A i \in 1 .. Len(jobs') : jobs'[i] = jobs[i + 1]
  OBVIOUS
<1>2. ASSUME NEW e \in Database, Queued(e)' PROVE Queued(e) /\ e # Head(jobs)
  <2>1. PICK i \in 1 .. Len(jobs') : jobs'[i] = e
    BY <1>2 DEF Queued
  <2>2. i + 1 \in 1 .. Len(jobs) /\ jobs[i + 1] = e /\ 1 \in 1 .. Len(jobs) /\ i + 1 # 1
    BY <1>1, <2>1
  <2> QED
    BY <1>1, <2>2 DEF Queued
<1>3. Queued(Head(jobs))
  BY <1>1 DEF Queued
<1>4. ASSUME NEW i \in 1 .. Len(jobs'), NEW j \in 1 .. Len(jobs'), jobs'[i] = jobs'[j]
      PROVE  i = j
  <2>1. i + 1 \in 1 .. Len(jobs) /\ j + 1 \in 1 .. Len(jobs) /\ jobs[i + 1] = jobs[j + 1]
    BY <1>1, <1>4
  <2>2. i + 1 = j + 1
    BY <2>1
  <2> QED
    BY <2>2
<1> QED
  BY <1>1, <1>2, <1>3, <1>4, QueuedAfterTail

-----------------------------------------------------------------------------
(***************************************************************************)
(* The life of a job.                                                      *)
(***************************************************************************)
JobInv == Sequenced /\ JobsOnce /\ Outcomes /\ SentLate

\* What enqueue and ReleaseDeferredPermit do to the lease, and what others do.
LEMMA LeaseMoves ==
    ASSUME TypeOK, NEW d \in Database, SubmitterStep(d)
    PROVE  \/ EnqueueAccept(d)
           \/ /\ UNCHANGED <<next_sequence, sequence, jobs, oneshot>>
              /\ \A e \in Database \ {d} : lease'[e] = lease[e]
              /\ lease'[d] \in {"accepted", "submitted"} <=> lease[d] \in {"accepted", "submitted"}
<1>1. CASE EnsureOpen(d) \/ CreateDatabase(d)
  BY <1>1 DEF EnsureOpen, CreateDatabase, submissionVars, TypeOK
<1>2. CASE EnqueueWait(d) \/ EnqueueClosed(d) \/ ReleaseDeferredPermit(d)
  BY <1>2 DEF EnqueueWait, EnqueueClosed, ReleaseDeferredPermit, submissionVars, leaseVars, TypeOK
<1> QED
  BY <1>1, <1>2 DEF SubmitterStep

\* The application never changes a job that the queue has accepted.
LEMMA ApplicationMoves ==
    ASSUME TypeOK, ApplicationStep, NEW e \in Database
    PROVE  /\ lease'[e] \in {"accepted", "submitted"} <=> lease[e] \in {"accepted", "submitted"}
           /\ mode'[e] # mode[e] => lease[e] = "live"
BY DEF ApplicationStep, Acquire, BeginPrewarm, BeginSubmit, BeginDrain, BeginShutdown,
       ReleaseHandle, leaseVars, TypeOK

\* The facts about an accepted submission that everything else uses.
LEMMA AcceptFacts ==
    ASSUME TypeOK, Sequenced, NEW d \in Database, EnqueueAccept(d)
    PROVE  /\ jobs \in Seq(Database) /\ jobs' = Append(jobs, d)
           /\ next_sequence' = next_sequence + 1 /\ next_sequence \in Nat
           /\ sequence[d] = 0 /\ sequence'[d] = next_sequence + 1
           /\ lease'[d] \in {"accepted", "submitted"}
           /\ oneshot'[d] \in {"open", "none"} /\ (oneshot'[d] = "open" => mode[d] = "awaited")
           /\ \A e \in Database \ {d} : /\ sequence'[e] = sequence[e] /\ lease'[e] = lease[e]
                                       /\ oneshot'[e] = oneshot[e]
           /\ \A e \in Database : sequence[e] \in Nat
<1>1. sequence[d] \in Nat /\ ~(sequence[d] > 0)
  BY DEF EnqueueAccept, TypeOK, Sequenced
<1>2. sequence[d] = 0
  BY <1>1
<1>3. /\ oneshot'[d] \in {"open", "none"} /\ (oneshot'[d] = "open" => mode[d] = "awaited")
      /\ \A e \in Database \ {d} : oneshot'[e] = oneshot[e]
  BY DEF EnqueueAccept, TypeOK
<1>4. /\ lease'[d] \in {"accepted", "submitted"}
      /\ \A e \in Database \ {d} : lease'[e] = lease[e]
  BY DEF EnqueueAccept, TypeOK
<1> QED
  BY <1>2, <1>3, <1>4 DEF EnqueueAccept, TypeOK

\* enqueue hands out the next number, and nothing else does.
LEMMA SequencedStep ==
    ASSUME TypeOK, Sequenced, [Next]_vars
    PROVE  Sequenced'
<1>1. CASE ApplicationStep
  BY <1>1, ApplicationFrame, ApplicationMoves DEF Sequenced
<1>2. ASSUME NEW d \in Database, SubmitterStep(d) PROVE Sequenced'
  <2>1. CASE EnqueueAccept(d)
    <3>1. /\ next_sequence' = next_sequence + 1 /\ next_sequence \in Nat
          /\ sequence'[d] = next_sequence + 1 /\ lease'[d] \in {"accepted", "submitted"}
          /\ \A e \in Database \ {d} : sequence'[e] = sequence[e] /\ lease'[e] = lease[e]
          /\ \A e \in Database : sequence[e] \in Nat
          /\ sequence[d] = 0
      BY <2>1, AcceptFacts
    <3>2. ASSUME NEW n \in 1 .. next_sequence' PROVE \E e \in Database : sequence'[e] = n
      <4>1. CASE n = next_sequence + 1
        BY <3>1, <4>1
      <4>2. CASE n # next_sequence + 1
        <5>1. n \in 1 .. next_sequence
          BY <3>1, <4>2
        <5>2. PICK e \in Database : sequence[e] = n
          BY <5>1 DEF Sequenced
        <5> QED
          BY <3>1, <5>1, <5>2
      <4> QED
        BY <4>1, <4>2
    <3>3. \A e \in Database : sequence'[e] <= next_sequence'
      BY <3>1 DEF Sequenced
    <3>4. \A e, f \in Database : sequence'[e] = sequence'[f] /\ sequence'[e] > 0 => e = f
      BY <3>1 DEF Sequenced
    <3>5. \A e \in Database : sequence'[e] > 0 <=> lease'[e] \in {"accepted", "submitted"}
      BY <3>1 DEF Sequenced
    <3> QED
      BY <3>2, <3>3, <3>4, <3>5 DEF Sequenced
  <2> QED
    BY <1>2, <2>1, LeaseMoves DEF Sequenced
<1>3. ASSUME NEW d \in Database, ReceiverStep(d) PROVE Sequenced'
  BY <1>3, ReceiverFrame DEF jobVars, Sequenced
<1>4. ASSUME NEW w \in Worker, WorkerStep(w) PROVE Sequenced'
  BY <1>4, WorkerFrame DEF Sequenced
<1>5. ASSUME NEW x \in Waiter, DrainStep(x) PROVE Sequenced'
  BY <1>5, DrainFrame DEF jobVars, Sequenced
<1>6. CASE Other
  BY <1>6, OtherFrame DEF jobVars, Sequenced
<1> QED
  BY <1>1, <1>2, <1>3, <1>4, <1>5, <1>6, Threads

\* What next_job takes is the head of the queue; what else a worker does
\* leaves queue and jobs alone until the job is over.
LEMMA WorkerMoves ==
    ASSUME TypeOK, JobAssigned, NEW w \in Worker, WorkerStep(w)
    PROVE  \/ NextJob(w)
           \/ DropQueueGuard(w)
           \/ /\ UNCHANGED <<jobs, job>>
              /\ NextJobExit(w) \/ NextJobWait(w) \/ RunOperation(w) \/ CloseDatabaseAdmission(w)
                   \/ ReleasePermit(w) \/ SendOutcome(w) \/ Complete(w)
BY DEF WorkerStep, NextJobExit, NextJobWait, RunOperation, CloseDatabaseAdmission,
       ReleasePermit, SendOutcome, Complete, submissionVars, workerVars

\* The facts about next_job that everything else uses.
LEMMA NextJobFacts ==
    ASSUME TypeOK, JobAssigned, JobsOnce, NEW w \in Worker, NextJob(w)
    PROVE  /\ Head(jobs) \in Database /\ Queued(Head(jobs))
           /\ \A e \in Database : Queued(e)' <=> Queued(e) /\ e # Head(jobs)
           /\ \A i, j \in 1 .. Len(jobs') : jobs'[i] = jobs'[j] => i = j
           /\ job[w] = NoDatabase /\ job'[w] = Head(jobs)
           /\ worker[w] = "next" /\ worker'[w] = "running"
           /\ \A v \in Worker \ {w} : job'[v] = job[v] /\ worker'[v] = worker[v]
           /\ UNCHANGED <<mode, oneshot, outcome, countVars, failures>>
<1>1. jobs \in Seq(Database) /\ jobs # << >> /\ jobs' = Tail(jobs)
  BY DEF NextJob, TypeOK
<1>2. \A i, j \in 1 .. Len(jobs) : jobs[i] = jobs[j] => i = j
  BY DEF JobsOnce
<1>3. /\ \A e \in Database : Queued(e)' <=> Queued(e) /\ e # Head(jobs)
      /\ Head(jobs) \in Database /\ Queued(Head(jobs))
      /\ \A i, j \in 1 .. Len(jobs') : jobs'[i] = jobs'[j] => i = j
  BY <1>1, <1>2, QueuedTail
<1>4. /\ job[w] = NoDatabase /\ job'[w] = Head(jobs)
      /\ worker[w] = "next" /\ worker'[w] = "running"
      /\ \A v \in Worker \ {w} : job'[v] = job[v] /\ worker'[v] = worker[v]
  BY DEF NextJob, TypeOK, JobAssigned
<1>5. UNCHANGED <<mode, oneshot, outcome, countVars, failures>>
  BY DEF NextJob, leaseVars, completionVars, countVars
<1> QED
  BY <1>3, <1>4, <1>5

\* A job goes from the queue to one worker and then away.
LEMMA JobsOnceStep ==
    ASSUME TypeOK, JobAssigned, Sequenced, JobsOnce, [Next]_vars
    PROVE  JobsOnce'
<1>1. ASSUME UNCHANGED <<jobs, sequence, job>> PROVE JobsOnce'
  BY <1>1 DEF JobsOnce, Queued
<1>2. ASSUME NEW d \in Database, SubmitterStep(d) PROVE JobsOnce'
  <2>1. CASE EnqueueAccept(d)
    <3>1. /\ jobs \in Seq(Database) /\ jobs' = Append(jobs, d) /\ job' = job
          /\ sequence[d] = 0 /\ sequence'[d] > 0
          /\ \A e \in Database \ {d} : sequence'[e] = sequence[e]
      BY <1>2, <2>1, SubmitterFrame, AcceptFacts
    <3>a. \A w \in Worker : job[w] # NoDatabase => job[w] \in Database
      BY DEF TypeOK
    <3>2. /\ \A e \in Database : Queued(e)' <=> Queued(e) \/ e = d
          /\ Len(jobs) \in Nat /\ Len(jobs') = Len(jobs) + 1 /\ jobs'[Len(jobs) + 1] = d
          /\ \A i \in 1 .. Len(jobs) : jobs'[i] = jobs[i]
      BY <3>1, QueuedAppend
    <3>3. ~Queued(d) /\ \A w \in Worker : job[w] # d
      BY <3>1, DistinctAssumption DEF JobsOnce
    <3>4. \A i, j \in 1 .. Len(jobs') : jobs'[i] = jobs'[j] => i = j
      <4>1. \A i \in 1 .. Len(jobs) : jobs[i] # d
        BY <3>3 DEF Queued
      <4>2. \A i \in 1 .. Len(jobs') : i \in 1 .. Len(jobs) \/ i = Len(jobs) + 1
        BY <3>2
      <4> QED
        BY <3>2, <4>1, <4>2 DEF JobsOnce
    <3> QED
      BY <3>1, <3>a, <3>2, <3>3, <3>4 DEF JobsOnce
  <2> QED
    BY <1>1, <1>2, <2>1, LeaseMoves, SubmitterFrame
<1>3. ASSUME NEW w \in Worker, WorkerStep(w) PROVE JobsOnce'
  <2>1. CASE NextJob(w)
    <3>1. /\ Head(jobs) \in Database /\ Queued(Head(jobs))
          /\ \A e \in Database : Queued(e)' <=> Queued(e) /\ e # Head(jobs)
          /\ \A i, j \in 1 .. Len(jobs') : jobs'[i] = jobs'[j] => i = j
          /\ job[w] = NoDatabase /\ job'[w] = Head(jobs)
          /\ \A v \in Worker \ {w} : job'[v] = job[v]
      BY <2>1, NextJobFacts
    <3> QED
      BY <1>3, <3>1, WorkerFrame DEF JobsOnce
  <2>2. CASE DropQueueGuard(w)
    <3>1. jobs' = jobs /\ job'[w] = NoDatabase /\ \A v \in Worker \ {w} : job'[v] = job[v]
      BY <2>2 DEF DropQueueGuard, submissionVars, TypeOK
    <3> QED
      BY <1>3, <3>1, WorkerFrame, DistinctAssumption DEF JobsOnce, Queued
  <2> QED
    BY <1>1, <1>3, <2>1, <2>2, WorkerMoves, WorkerFrame
<1>4. CASE ApplicationStep
  BY <1>1, <1>4, ApplicationFrame
<1>5. ASSUME NEW d \in Database, ReceiverStep(d) PROVE JobsOnce'
  BY <1>1, <1>5, ReceiverFrame DEF jobVars
<1>6. ASSUME NEW x \in Waiter, DrainStep(x) PROVE JobsOnce'
  BY <1>1, <1>6, DrainFrame DEF jobVars
<1>7. CASE Other
  BY <1>1, <1>7, OtherFrame DEF jobVars
<1> QED
  BY <1>2, <1>3, <1>4, <1>5, <1>6, <1>7, Threads

\* Only the operation's run decides an outcome.
LEMMA OutcomesStep ==
    ASSUME TypeOK, TypeOK', JobAssigned, Sequenced, JobsOnce, Outcomes, [Next]_vars
    PROVE  Outcomes'
<1>1. ASSUME UNCHANGED <<sequence, jobs, job, worker, outcome, mode, oneshot>> PROVE Outcomes'
  BY <1>1 DEF Outcomes, Queued, Running
<1>2. CASE ApplicationStep
  <2>1. \A d \in Database : sequence[d] > 0 => mode'[d] = mode[d]
    BY <1>2, ApplicationMoves DEF Sequenced
  <2>2. \A w \in Worker : worker[w] = "send" => mode'[job[w]] = mode[job[w]]
    BY <2>1, RunningHasJob, DistinctAssumption DEF JobsOnce
  <2> QED
    BY <1>2, <2>1, <2>2, ApplicationFrame DEF Outcomes, Queued, Running
<1>3. ASSUME NEW d \in Database, SubmitterStep(d) PROVE Outcomes'
  <2>1. CASE EnqueueAccept(d)
    <3>1. /\ jobs \in Seq(Database) /\ jobs' = Append(jobs, d)
          /\ sequence[d] = 0 /\ sequence'[d] > 0 /\ oneshot'[d] \in {"open", "none"}
          /\ oneshot'[d] = "open" => mode[d] = "awaited"
          /\ \A e \in Database \ {d} : sequence'[e] = sequence[e] /\ oneshot'[e] = oneshot[e]
      BY <2>1, AcceptFacts
    <3>2. \A e \in Database : Queued(e)' <=> Queued(e) \/ e = d
      BY <3>1, QueuedAppend
    <3>3. \A e \in Database : Running(e)' <=> Running(e)
      BY <1>3, SubmitterFrame DEF Running
    <3> QED
      BY <1>3, <3>1, <3>2, <3>3, SubmitterFrame DEF Outcomes
  <2> QED
    BY <1>1, <1>3, <2>1, LeaseMoves, SubmitterFrame
<1>4. ASSUME NEW d \in Database, ReceiverStep(d) PROVE Outcomes'
  <2>1. \A e \in Database : oneshot'[e] # "none" => oneshot[e] # "none"
    BY <1>4 DEF ReceiverStep, ReceiveOutcome, CancelAwait, TypeOK
  <2> QED
    BY <1>4, <2>1, ReceiverFrame DEF jobVars, Outcomes, Queued, Running
<1>5. ASSUME NEW w \in Worker, WorkerStep(w) PROVE Outcomes'
  <2>1. CASE NextJob(w)
    <3>1. /\ Head(jobs) \in Database /\ Queued(Head(jobs))
          /\ \A e \in Database : Queued(e)' <=> Queued(e) /\ e # Head(jobs)
          /\ job'[w] = Head(jobs) /\ worker'[w] = "running"
          /\ \A v \in Worker \ {w} : job'[v] = job[v] /\ worker'[v] = worker[v]
          /\ UNCHANGED <<mode, oneshot, outcome>>
      BY <2>1, NextJobFacts
    <3>2. \A e \in Database : Running(e)' => Running(e) \/ e = Head(jobs)
      BY <3>1 DEF Running
    <3>3. \A e \in Database : sequence'[e] = 0 \/ Queued(e)' \/ Running(e)' => outcome'[e] = "none"
      BY <1>5, <3>1, <3>2, WorkerFrame DEF Outcomes
    <3>4. \A v \in Worker : worker'[v] = "send" => mode'[job'[v]] = "awaited"
      BY <3>1 DEF Outcomes
    <3>5. \A e \in Database : oneshot'[e] # "none" => mode'[e] = "awaited" /\ sequence'[e] > 0
      BY <1>5, <3>1, WorkerFrame DEF Outcomes
    <3> QED
      BY <3>3, <3>4, <3>5 DEF Outcomes
  <2>2. CASE DropQueueGuard(w)
    <3>1. /\ jobs' = jobs /\ UNCHANGED <<outcome, mode, oneshot>>
          /\ worker'[w] = "next"
          /\ \A v \in Worker \ {w} : job'[v] = job[v] /\ worker'[v] = worker[v]
      BY <2>2 DEF DropQueueGuard, submissionVars, leaseVars, TypeOK
    <3>2. \A e \in Database : Running(e)' => Running(e)
      BY <3>1 DEF Running
    <3> QED
      BY <1>5, <3>1, <3>2, WorkerFrame DEF Outcomes, Queued
  <2>3. CASE RunOperation(w)
    <3>1. /\ worker[w] = "running" /\ UNCHANGED <<jobs, job, mode, oneshot>>
          /\ worker'[w] \in {"close", "release"}
          /\ \A v \in Worker \ {w} : worker'[v] = worker[v]
      BY <2>3 DEF RunOperation, submissionVars, leaseVars, TypeOK
    <3>2. job[w] \in Database
      BY <3>1, RunningHasJob
    <3>3. \A e \in Database \ {job[w]} : outcome'[e] = outcome[e]
      BY <2>3, <3>2 DEF RunOperation, TypeOK
    <3>4. ~Running(job[w])' /\ sequence[job[w]] # 0 /\ ~Queued(job[w])
      <4>1. \A v \in Worker : job[v] = job[w] => v = w
        BY <3>2, DistinctAssumption DEF JobsOnce
      <4>2. sequence[job[w]] > 0 /\ sequence[job[w]] \in Nat
        BY <3>2, DistinctAssumption DEF JobsOnce, TypeOK
      <4>3. sequence[job[w]] # 0
        BY <4>2
      <4> QED
        BY <3>1, <3>2, <4>1, <4>3 DEF Running, JobsOnce
    <3>5. \A e \in Database : Running(e)' => Running(e)
      BY <3>1 DEF Running
    <3> QED
      BY <1>5, <3>1, <3>3, <3>4, <3>5, WorkerFrame DEF Outcomes, Queued
  <2>4. CASE ReleasePermit(w)
    <3>1. /\ UNCHANGED <<jobs, job, mode, oneshot, outcome>>
          /\ worker'[w] = IF mode[job[w]] = "awaited" THEN "send" ELSE "record"
          /\ \A v \in Worker \ {w} : worker'[v] = worker[v]
      BY <2>4 DEF ReleasePermit, submissionVars, leaseVars, TypeOK
    <3>2. \A e \in Database : Running(e)' => Running(e)
      BY <3>1 DEF Running
    <3> QED
      BY <1>5, <3>1, <3>2, WorkerFrame DEF Outcomes, Queued
  <2>5. CASE SendOutcome(w)
    <3>1. /\ worker[w] = "send" /\ UNCHANGED <<jobs, job, mode, outcome>>
          /\ worker'[w] = "record" /\ \A v \in Worker \ {w} : worker'[v] = worker[v]
      BY <2>5 DEF SendOutcome, submissionVars, TypeOK
    <3>2. job[w] \in Database
      BY <3>1, RunningHasJob
    <3>3. \A e \in Database : oneshot'[e] # "none" => oneshot[e] # "none" \/ e = job[w]
      BY <2>5, <3>2 DEF SendOutcome, TypeOK
    <3>4. mode[job[w]] = "awaited" /\ sequence[job[w]] > 0
      BY <3>1, <3>2, DistinctAssumption DEF Outcomes, JobsOnce
    <3>5. \A e \in Database : Running(e)' => Running(e)
      BY <3>1 DEF Running
    <3> QED
      BY <1>5, <3>1, <3>3, <3>4, <3>5, WorkerFrame DEF Outcomes, Queued
  <2>6. CASE \/ NextJobExit(w) \/ NextJobWait(w) \/ CloseDatabaseAdmission(w) \/ Complete(w)
    <3>1. /\ UNCHANGED <<jobs, job, mode, oneshot, outcome>>
          /\ worker'[w] \notin {"send", "running"} \/ worker' = worker
          /\ \A v \in Worker \ {w} : worker'[v] = worker[v]
      BY <2>6 DEF NextJobExit, NextJobWait, CloseDatabaseAdmission, Complete, submissionVars,
                  leaseVars, workerVars, TypeOK
    <3>2. \A e \in Database : Running(e)' => Running(e)
      BY <3>1 DEF Running
    <3> QED
      BY <1>5, <3>1, <3>2, WorkerFrame DEF Outcomes, Queued
  <2> QED
    BY <1>5, <2>1, <2>2, <2>3, <2>4, <2>5, <2>6 DEF WorkerStep
<1>6. ASSUME NEW x \in Waiter, DrainStep(x) PROVE Outcomes'
  BY <1>1, <1>6, DrainFrame DEF jobVars
<1>7. CASE Other
  BY <1>1, <1>7, OtherFrame DEF jobVars
<1> QED
  BY <1>2, <1>3, <1>4, <1>5, <1>6, <1>7, Threads

\* Only the worker that ran the job fills its channel.
LEMMA SentLateStep ==
    ASSUME TypeOK, JobAssigned, Sequenced, JobsOnce, Outcomes, SentLate, [Next]_vars
    PROVE  SentLate'
<1>1. ASSUME UNCHANGED <<jobs, job, worker>>,
             \A d \in Database : oneshot'[d] \in {"sent", "consumed"} =>
                 oneshot[d] \in {"sent", "consumed"}
      PROVE  SentLate'
  BY <1>1 DEF SentLate, Queued
<1>2. CASE ApplicationStep
  BY <1>1, <1>2, ApplicationFrame
<1>3. ASSUME NEW d \in Database, SubmitterStep(d) PROVE SentLate'
  <2>1. CASE EnqueueAccept(d)
    <3>1. /\ jobs \in Seq(Database) /\ jobs' = Append(jobs, d) /\ oneshot'[d] \in {"open", "none"}
          /\ \A e \in Database \ {d} : oneshot'[e] = oneshot[e]
      BY <2>1, AcceptFacts
    <3>2. \A e \in Database : Queued(e)' <=> Queued(e) \/ e = d
      BY <3>1, QueuedAppend
    <3> QED
      BY <1>3, <3>1, <3>2, SubmitterFrame DEF SentLate
  <2> QED
    BY <1>1, <1>3, <2>1, LeaseMoves, SubmitterFrame
<1>4. ASSUME NEW d \in Database, ReceiverStep(d) PROVE SentLate'
  <2>1. \A e \in Database : oneshot'[e] \in {"sent", "consumed"} =>
            oneshot[e] \in {"sent", "consumed"}
    BY <1>4 DEF ReceiverStep, ReceiveOutcome, CancelAwait, TypeOK
  <2> QED
    BY <1>1, <1>4, <2>1, ReceiverFrame DEF jobVars
<1>5. ASSUME NEW w \in Worker, WorkerStep(w) PROVE SentLate'
  <2>1. CASE NextJob(w)
    <3>1. /\ Queued(Head(jobs)) /\ Head(jobs) \in Database
          /\ \A e \in Database : Queued(e)' <=> Queued(e) /\ e # Head(jobs)
          /\ job'[w] = Head(jobs) /\ oneshot' = oneshot
          /\ \A v \in Worker \ {w} : job'[v] = job[v] /\ worker'[v] = worker[v]
      BY <2>1, NextJobFacts
    <3> QED
      BY <3>1 DEF SentLate
  <2>2. CASE SendOutcome(w)
    <3>1. /\ UNCHANGED <<jobs, job>> /\ worker[w] = "send" /\ worker'[w] = "record"
          /\ \A v \in Worker \ {w} : worker'[v] = worker[v]
      BY <2>2 DEF SendOutcome, submissionVars, TypeOK
    <3>2. job[w] \in Database /\ job[w] # NoDatabase
      BY <3>1, RunningHasJob, DistinctAssumption
    <3>3. \A e \in Database : oneshot'[e] \in {"sent", "consumed"} =>
              oneshot[e] \in {"sent", "consumed"} \/ e = job[w]
      BY <2>2, <3>2 DEF SendOutcome, TypeOK
    <3>4. ~Queued(job[w]) /\ \A v \in Worker : job[v] = job[w] => v = w
      BY <3>2 DEF JobsOnce
    <3> QED
      BY <3>1, <3>3, <3>4 DEF SentLate, Queued
  <2>3. CASE \/ NextJobExit(w) \/ NextJobWait(w) \/ RunOperation(w) \/ CloseDatabaseAdmission(w)
             \/ ReleasePermit(w) \/ Complete(w) \/ DropQueueGuard(w)
    <3>1. /\ UNCHANGED <<jobs, oneshot>> /\ job'[w] \in {job[w], NoDatabase}
          /\ worker[w] \in {"record", "guard"} => worker'[w] \in {"guard", "next"}
          /\ worker[w] = "guard" => job'[w] = NoDatabase
          /\ worker[w] = "record" => worker'[w] = "guard"
          /\ \A v \in Worker \ {w} : job'[v] = job[v] /\ worker'[v] = worker[v]
      BY <2>3 DEF NextJobExit, NextJobWait, RunOperation, CloseDatabaseAdmission, ReleasePermit,
                  Complete, DropQueueGuard, submissionVars, leaseVars, workerVars, TypeOK
    <3> QED
      BY <3>1, DistinctAssumption DEF SentLate, Queued
  <2> QED
    BY <1>5, <2>1, <2>2, <2>3 DEF WorkerStep
<1>6. ASSUME NEW x \in Waiter, DrainStep(x) PROVE SentLate'
  BY <1>1, <1>6, DrainFrame DEF jobVars
<1>7. CASE Other
  BY <1>1, <1>7, OtherFrame DEF jobVars
<1> QED
  BY <1>2, <1>3, <1>4, <1>5, <1>6, <1>7, Threads

-----------------------------------------------------------------------------
(***************************************************************************)
(* The completed prefix.                                                   *)
(***************************************************************************)
Done(d) == sequence[d] > 0 /\ Settled(d)

\* A job that is done stays so, with its number, and a job is done when a
\* worker records it.
LEMMA DoneStep ==
    ASSUME TypeOK, JobAssigned, JobInv, [Next]_vars, NEW e \in Database
    PROVE  /\ sequence[e] > 0 => sequence'[e] = sequence[e]
           /\ Done(e) => Done(e)'
           /\ Done(e)' => Done(e) \/ \E w \in Worker : Complete(w) /\ job[w] = e
<1> USE DEF JobInv
<1>1. ASSUME UNCHANGED <<sequence, jobs, job, worker>>
      PROVE  Done(e) <=> Done(e)'
  BY <1>1 DEF Done, Settled, Queued
<1>2. CASE ApplicationStep
  BY <1>1, <1>2, ApplicationFrame
<1>3. ASSUME NEW d \in Database, SubmitterStep(d)
      PROVE  (sequence[e] > 0 => sequence'[e] = sequence[e]) /\ (Done(e) <=> Done(e)')
  <2>1. CASE EnqueueAccept(d)
    <3>1. /\ jobs \in Seq(Database) /\ jobs' = Append(jobs, d) /\ sequence[d] = 0
          /\ e # d => sequence'[e] = sequence[e]
      BY <2>1, AcceptFacts
    <3>2. Queued(e)' <=> Queued(e) \/ e = d
      BY <3>1, QueuedAppend
    <3>3. e = d => ~Done(e) /\ ~Done(e)'
      BY <3>1, <3>2 DEF Done, Settled
    <3>4. e # d => (Settled(e) <=> Settled(e)')
      BY <1>3, <3>2, SubmitterFrame DEF Settled
    <3> QED
      BY <3>1, <3>3, <3>4 DEF Done
  <2> QED
    BY <1>1, <1>3, <2>1, LeaseMoves, SubmitterFrame
<1>4. ASSUME NEW w \in Worker, WorkerStep(w), ~Complete(w)
      PROVE  sequence'[e] = sequence[e] /\ (Done(e) <=> Done(e)')
  <2>1. CASE NextJob(w)
    <3>1. /\ Queued(e)' <=> Queued(e) /\ e # Head(jobs)
          /\ Queued(Head(jobs)) /\ Head(jobs) \in Database
          /\ job[w] = NoDatabase /\ job'[w] = Head(jobs) /\ worker'[w] = "running"
          /\ \A v \in Worker \ {w} : job'[v] = job[v] /\ worker'[v] = worker[v]
      BY <2>1, NextJobFacts
    <3>2. Settled(e) <=> Settled(e)'
      BY <3>1, DistinctAssumption DEF Settled
    <3> QED
      BY <1>4, <3>2, WorkerFrame DEF Done
  <2>2. CASE DropQueueGuard(w)
    <3>1. /\ jobs' = jobs /\ worker[w] = "guard" /\ job'[w] = NoDatabase
          /\ \A v \in Worker \ {w} : job'[v] = job[v] /\ worker'[v] = worker[v]
      BY <2>2 DEF DropQueueGuard, submissionVars, TypeOK
    <3>2. Settled(e) <=> Settled(e)'
      BY <3>1, DistinctAssumption DEF Settled, Queued
    <3> QED
      BY <1>4, <3>2, WorkerFrame DEF Done
  <2>3. CASE \/ NextJobExit(w) \/ NextJobWait(w) \/ RunOperation(w) \/ CloseDatabaseAdmission(w)
             \/ ReleasePermit(w) \/ SendOutcome(w)
    <3>1. /\ UNCHANGED <<jobs, job>> /\ worker[w] # "guard" /\ worker'[w] # "guard"
          /\ \A v \in Worker \ {w} : worker'[v] = worker[v]
      BY <2>3 DEF NextJobExit, NextJobWait, RunOperation, CloseDatabaseAdmission, ReleasePermit,
                  SendOutcome, submissionVars, workerVars, TypeOK
    <3>2. Settled(e) <=> Settled(e)'
      BY <3>1 DEF Settled, Queued
    <3> QED
      BY <1>4, <3>2, WorkerFrame DEF Done
  <2> QED
    BY <1>4, <2>1, <2>2, <2>3 DEF WorkerStep
<1>5. ASSUME NEW w \in Worker, WorkerStep(w), Complete(w)
      PROVE  /\ sequence'[e] = sequence[e] /\ (Done(e) => Done(e)')
             /\ Done(e)' => Done(e) \/ job[w] = e
  <2>1. /\ UNCHANGED <<jobs, job>> /\ worker'[w] = "guard"
        /\ \A v \in Worker \ {w} : worker'[v] = worker[v]
    BY <1>5 DEF Complete, submissionVars, TypeOK
  <2> QED
    BY <1>5, <2>1, WorkerFrame DEF Done, Settled, Queued
<1>6. ASSUME NEW d \in Database, ReceiverStep(d)
      PROVE  sequence' = sequence /\ (Done(e) <=> Done(e)')
  BY <1>1, <1>6, ReceiverFrame DEF jobVars
<1>7. ASSUME NEW x \in Waiter, DrainStep(x)
      PROVE  sequence' = sequence /\ (Done(e) <=> Done(e)')
  BY <1>1, <1>7, DrainFrame DEF jobVars
<1>8. CASE Other
  BY <1>1, <1>8, OtherFrame DEF jobVars
<1> QED
  BY <1>2, <1>3, <1>4, <1>5, <1>6, <1>7, <1>8, ApplicationFrame, Threads

\* Only complete moves the prefix.
LEMMA CountStep ==
    ASSUME TypeOK, JobInv, [Next]_vars, ~ \E w \in Worker : Complete(w)
    PROVE  UNCHANGED countVars /\ next_sequence' >= next_sequence
<1>1. UNCHANGED countVars
  <2>1. ASSUME NEW w \in Worker, WorkerStep(w) PROVE UNCHANGED countVars
    BY <2>1 DEF WorkerStep, NextJob, NextJobExit, NextJobWait, RunOperation, ReleasePermit,
                CloseDatabaseAdmission, SendOutcome, DropQueueGuard, completionVars, countVars
  <2> QED
    BY <2>1, Threads, ApplicationFrame, SubmitterFrame, ReceiverFrame, DrainFrame, OtherFrame
<1>2. next_sequence' >= next_sequence
  <2>1. next_sequence \in Nat
    BY DEF TypeOK
  <2>2. next_sequence' \in {next_sequence, next_sequence + 1}
    BY Threads, ApplicationFrame, LeaseMoves, AcceptFacts, ReceiverFrame, WorkerFrame, DrainFrame,
       OtherFrame DEF jobVars, JobInv
  <2> QED
    BY <2>1, <2>2
<1> QED
  BY <1>1, <1>2

\* The prefix and what completed beyond it, number by number.
Recorded(n) == n \in 1 .. completed_through \/ n \in completed_out_of_order

\* The completed prefix and the set beside it count the settled jobs exactly.
LEMMA PrefixMeans ==
    CompletedPrefix <=>
        /\ completed_through <= next_sequence
        /\ completed_through + 1 \notin completed_out_of_order
        /\ \A d \in Database : Done(d) => Recorded(sequence[d])
        /\ \A n : Recorded(n) => \E d \in Database : Done(d) /\ sequence[d] = n
BY DEF CompletedPrefix, Recorded, Done, Accepted

\* complete: the prefix grows through what completed out of order, by its own
\* number at least.
LEMMA CompleteFacts ==
    ASSUME TypeOK, JobAssigned, NEW w \in Worker, Complete(w),
           completed_through <= next_sequence,
           completed_through + 1 \notin completed_out_of_order
    PROVE  /\ (completed_through <= next_sequence)'
           /\ (completed_through + 1 \notin completed_out_of_order)'
           /\ \A n : Recorded(n) => Recorded(n)'
           /\ \A n : Recorded(n)' => Recorded(n) \/ n = sequence[job[w]]
           /\ sequence[job[w]] > 0 => Recorded(sequence[job[w]])'
<1> DEFINE s == sequence[job[w]]
           done == completed_out_of_order \cup {s}
<1>1. /\ job[w] \in Database /\ s \in Nat /\ completed_through \in Nat
      /\ completed_out_of_order \subseteq Nat /\ next_sequence \in Nat
      /\ UNCHANGED <<next_sequence, sequence, job>>
  BY RunningHasJob DEF Complete, TypeOK, submissionVars
<1>2. CASE s = completed_through + 1
  <2>1. PICK n \in s .. next_sequence :
           /\ PrefixEnds(s, n, done)
           /\ completed_through' = n /\ completed_out_of_order' = done \ (s .. n)
    BY <1>2 DEF Complete
  <2>2. /\ n \in Nat /\ s <= n /\ n <= next_sequence
        /\ \A i \in s .. n : i \in done
        /\ n + 1 \notin done
    BY <1>1, <2>1 DEF PrefixEnds
  <2>3. \A i : i \in 1 .. n <=> i \in 1 .. completed_through \/ i \in s .. n
    BY <1>1, <1>2, <2>2
  <2>4. s \in 1 .. n
    BY <1>1, <1>2, <2>2
  <2>5. \A i : Recorded(i)' <=> i \in 1 .. n \/ i \in done
    BY <2>1, <2>3 DEF Recorded
  <2>6. \A i : Recorded(i)' <=> Recorded(i) \/ i = s
    BY <2>2, <2>3, <2>4, <2>5 DEF Recorded
  <2>7. completed_through' <= next_sequence' /\ completed_through' + 1 \notin completed_out_of_order'
    BY <1>1, <2>1, <2>2
  <2>8. s' = s
    BY <1>1
  <2> QED
    BY <2>6, <2>7, <2>8
<1>3. CASE s # completed_through + 1
  <2>1. /\ completed_through' = completed_through
        /\ completed_out_of_order' = IF s > completed_through THEN done ELSE completed_out_of_order
    BY <1>3 DEF Complete
  <2>2. s > 0 /\ ~(s > completed_through) => s \in 1 .. completed_through
    BY <1>1
  <2>3. \A i : Recorded(i)' => Recorded(i) \/ i = s
    BY <2>1 DEF Recorded
  <2>4. \A i : Recorded(i) => Recorded(i)'
    BY <2>1 DEF Recorded
  <2>5. s > 0 => (s \in 1 .. completed_through' \/ s \in completed_out_of_order')
    BY <2>1, <2>2
  <2>6. s' = s
    BY <1>1
  <2>7. completed_through' <= next_sequence' /\ completed_through' + 1 \notin completed_out_of_order'
    BY <1>1, <1>3, <2>1
  <2> QED
    BY <2>3, <2>4, <2>5, <2>6, <2>7 DEF Recorded
<1> QED
  BY <1>2, <1>3

\* Recording a completion advances the prefix over settled jobs only.
LEMMA PrefixStep ==
    ASSUME TypeOK, TypeOK', JobAssigned, JobInv, CompletedPrefix, [Next]_vars
    PROVE  CompletedPrefix'
<1>1. \A e \in Database :
         /\ Done(e) => Done(e)' /\ sequence'[e] = sequence[e]
         /\ Done(e)' => Done(e) \/ \E w \in Worker : Complete(w) /\ job[w] = e
  BY DoneStep DEF Done
<1>p. /\ completed_through <= next_sequence
      /\ completed_through + 1 \notin completed_out_of_order
      /\ \A d \in Database : Done(d) => Recorded(sequence[d])
      /\ \A n : Recorded(n) => \E d \in Database : Done(d) /\ sequence[d] = n
  BY PrefixMeans
<1>2. ASSUME NEW w \in Worker, Complete(w) PROVE CompletedPrefix'
  <2>1. /\ (completed_through <= next_sequence)'
        /\ (completed_through + 1 \notin completed_out_of_order)'
        /\ \A n : Recorded(n) => Recorded(n)'
        /\ \A n : Recorded(n)' => Recorded(n) \/ n = sequence[job[w]]
        /\ sequence[job[w]] > 0 => Recorded(sequence[job[w]])'
    BY <1>2, <1>p, CompleteFacts
  <2>2. /\ job[w] \in Database /\ sequence[job[w]] > 0 /\ sequence' = sequence
        /\ ~Queued(job[w]) /\ \A v \in Worker : job[v] = job[w] => v = w
    BY <1>2, RunningHasJob, DistinctAssumption DEF Complete, JobInv, JobsOnce, submissionVars
  <2>3. Done(job[w])'
    <3>1. UNCHANGED <<jobs, job>> /\ worker'[w] = "guard"
      BY <1>2 DEF Complete, submissionVars, TypeOK
    <3> QED
      BY <2>2, <3>1 DEF Done, Settled, Queued
  <2>4. \A v \in Worker : Complete(v) => v = w
    <3>1. ASSUME NEW v \in Worker, Complete(v), v # w PROVE FALSE
      <4>1. worker[v] = "record" /\ worker'[v] = "guard"
        BY <3>1 DEF Complete, TypeOK
      <4>2. worker'[v] = worker[v]
        BY <1>2, <3>1 DEF Complete, TypeOK
      <4> QED
        BY <4>1, <4>2
    <3> QED
      BY <3>1
  <2>a. job' = job
    BY <1>2 DEF Complete
  <2>b. \A n : Recorded(n)' <=> Recorded(n) \/ n = sequence[job[w]]
    <3>1. (sequence[job[w]])' = sequence[job[w]]
      BY <2>2, <2>a
    <3>2. Recorded(sequence[job[w]])' <=>
             \/ sequence[job[w]] \in 1 .. completed_through'
             \/ sequence[job[w]] \in completed_out_of_order'
      BY <3>1 DEF Recorded
    <3>3. \A n : Recorded(n)' <=> n \in 1 .. completed_through' \/ n \in completed_out_of_order'
      BY DEF Recorded
    <3> QED
      BY <2>1, <2>2, <3>2, <3>3
  <2>5. ASSUME NEW d \in Database, Done(d)' PROVE Recorded(sequence[d])'
    <3>1. Done(d) \/ d = job[w]
      BY <1>1, <2>4, <2>5
    <3>2. Recorded(sequence[d]) \/ sequence[d] = sequence[job[w]]
      BY <1>p, <3>1
    <3>3. sequence[d] \in 1 .. completed_through' \/ sequence[d] \in completed_out_of_order'
      BY <2>b, <3>2 DEF Recorded
    <3> QED
      BY <2>2, <3>3 DEF Recorded
  <2>6. ASSUME NEW n, Recorded(n)' PROVE \E d \in Database : Done(d)' /\ sequence'[d] = n
    <3>1. CASE n = sequence[job[w]]
      BY <2>a, <2>2, <2>3, <3>1
    <3>2. CASE Recorded(n)
      BY <1>1, <1>p, <3>2
    <3> QED
      BY <2>6, <2>b, <3>1, <3>2
  <2> QED
    BY <2>1, <2>5, <2>6 DEF CompletedPrefix, Recorded, Done, Accepted
<1>3. CASE ~ \E w \in Worker : Complete(w)
  <2>1. UNCHANGED countVars /\ next_sequence' >= next_sequence
    BY <1>3, CountStep
  <2>2. /\ next_sequence \in Nat /\ next_sequence' \in Nat /\ completed_through \in Nat
        /\ completed_through <= next_sequence
    BY <1>p DEF TypeOK
  <2>3. completed_through' <= next_sequence'
    BY <2>1, <2>2 DEF countVars
  <2>4. \A d \in Database : Done(d)' => Recorded(sequence[d])'
    BY <1>1, <1>3, <1>p, <2>1 DEF countVars, Recorded
  <2>5. \A n : Recorded(n)' => \E d \in Database : Done(d)' /\ sequence'[d] = n
    BY <1>1, <1>p, <2>1 DEF countVars, Recorded
  <2> QED
    BY <1>p, <2>1, <2>3, <2>4, <2>5 DEF CompletedPrefix, Recorded, Done, Accepted, countVars
<1> QED
  BY <1>2, <1>3

-----------------------------------------------------------------------------
(***************************************************************************)
(* Where the errors are.                                                   *)
(***************************************************************************)
Holds(x) == \E d \in Database : taken[x][d] > 0

\* A drain takes the retained errors only when no delivery is in flight.
LEMMA DeliveryStep ==
    ASSUME TypeOK, TypeOK', Delivery, [Next]_vars
    PROVE  Delivery'
<1>1. ASSUME UNCHANGED <<taken, failure_delivery_in_flight>>,
             \A x \in Waiter :
                \/ drain'[x] = drain[x]
                \/ drain[x] \notin {"join", "outcome"} /\ drain'[x] # "outcome"
      PROVE  Delivery'
  BY <1>1 DEF Delivery
<1>2. CASE ApplicationStep
  <2>1. \A x \in Waiter : drain'[x] = drain[x] \/ (drain[x] = "idle" /\ drain'[x] = "lock")
    BY <1>2 DEF ApplicationStep, Acquire, BeginPrewarm, BeginSubmit, BeginDrain, BeginShutdown,
                ReleaseHandle, drainVars, TypeOK
  <2> QED
    BY <1>1, <1>2, <2>1, ApplicationFrame
<1>3. ASSUME NEW d \in Database, SubmitterStep(d) PROVE Delivery'
  BY <1>1, <1>3, SubmitterFrame
<1>4. ASSUME NEW d \in Database, ReceiverStep(d) PROVE Delivery'
  BY <1>1, <1>4, ReceiverFrame
<1>5. ASSUME NEW w \in Worker, WorkerStep(w) PROVE Delivery'
  BY <1>1, <1>5, WorkerFrame
<1>6. ASSUME NEW x \in Waiter, DrainStep(x) PROVE Delivery'
  <2>1. CASE FixTarget(x) \/ WaitForBarrier(x)
    BY <1>1, <2>1 DEF FixTarget, WaitForBarrier, completionVars, drainVars, TypeOK
  <2>2. CASE WaitAndTake(x)
    <3>1. \A y \in Waiter, d \in Database : ~(taken[y][d] > 0)
      BY <2>2 DEF WaitAndTake, BarrierReached, Delivery
    <3>2. /\ \A y \in Waiter \ {x} : taken'[y] = taken[y] /\ drain'[y] = drain[y]
          /\ \A d \in Database : taken'[x][d] =
                IF Reportable(d, target[x]) THEN failures[d] ELSE 0
          /\ drain'[x] = IF x \in Closer THEN "join" ELSE AfterTake(x)'
      BY <2>2 DEF WaitAndTake, TypeOK
    <3>3. failure_delivery_in_flight' <=> \E d \in Database : Reportable(d, target[x])
      BY <2>2 DEF WaitAndTake
    <3>4. \A d \in Database : taken'[x][d] > 0 <=> Reportable(d, target[x])
      BY <3>2 DEF Reportable
    <3>5. drain'[x] = IF x \in Closer THEN "join"
                      ELSE IF \E d \in Database : taken'[x][d] > 0 THEN "outcome" ELSE "finished"
      BY <3>2 DEF AfterTake
    <3> QED
      BY <3>1, <3>2, <3>3, <3>4, <3>5 DEF Delivery
  <2>3. CASE JoinWorkers(x)
    <3>1. /\ UNCHANGED <<taken, failure_delivery_in_flight>>
          /\ \A y \in Waiter \ {x} : drain'[y] = drain[y]
          /\ drain'[x] = IF Holds(x) THEN "outcome" ELSE "finished"
      BY <2>3 DEF JoinWorkers, AfterTake, Holds, completionVars, TypeOK
    <3> QED
      BY <3>1 DEF Delivery, Holds
  <2>4. CASE FinishDrain(x) \/ DropDrainOutcome(x)
    <3>1. /\ drain[x] = "outcome" /\ ~failure_delivery_in_flight'
          /\ \A y \in Waiter \ {x} : taken'[y] = taken[y] /\ drain'[y] = drain[y]
          /\ taken'[x] = NoFailures /\ drain'[x] \in {"finished", "cancelled"}
      BY <2>4 DEF FinishDrain, DropDrainOutcome, TypeOK
    <3>2. \A d \in Database : ~(taken'[x][d] > 0)
      BY <3>1 DEF NoFailures
    <3>3. \A y \in Waiter \ {x}, d \in Database : ~(taken[y][d] > 0)
      BY <3>1 DEF Delivery
    <3> QED
      BY <3>1, <3>2, <3>3 DEF Delivery
  <2> QED
    BY <1>6, <2>1, <2>2, <2>3, <2>4 DEF DrainStep
<1>7. CASE Other
  BY <1>1, <1>7, OtherFrame
<1> QED
  BY <1>2, <1>3, <1>4, <1>5, <1>6, <1>7, Threads

\* The log is written by the steps of the destructor only.
LEMMA LoggedLastStep ==
    ASSUME TypeOK, LoggedLast, [Next]_vars
    PROVE  LoggedLast'
<1>1. dropper # Nobody => dropper' # Nobody
  BY DropperStays
<1>2. CASE UNCHANGED <<drop_stage, logged>>
  BY <1>1, <1>2 DEF LoggedLast
<1>3. CASE Other
  <2>1. CASE DropStep
    BY <1>1, <2>1 DEF DropStep, DropClose, DropTake, DropJoin, reportVars, LoggedLast, TypeOK
  <2>2. CASE SpuriousWakeup \/ Terminated \/ UNCHANGED vars
    BY <1>2, <2>2 DEF SpuriousWakeup, Terminated, vars, reportVars
  <2> QED
    BY <1>3, <2>1, <2>2 DEF Other
<1> QED
  BY <1>2, <1>3, Threads, ApplicationFrame, SubmitterFrame, ReceiverFrame, WorkerFrame, DrainFrame
  DEF reportVars

\* The parts of ExactlyOnce for one database.
HeldOnce(d) ==
    /\ \A x, y \in Waiter : taken[x][d] > 0 /\ taken[y][d] > 0 => x = y
    /\ \A x \in Waiter : taken[x][d] <= 1

Held(d) == \E x \in Waiter : taken[x][d] > 0
Working(d) == Failed(d) /\ InWorker(d)
Sent(d) == Failed(d) /\ oneshot[d] = "sent"

Balanced(d) ==
    Count(Failed(d)) = Count(Working(d)) + Count(Sent(d)) + failures[d] + Count(Held(d))
                           + reported[d] + logged[d]

\* Exactly once, as two facts about each database.
LEMMA OnceMeans == ExactlyOnce <=> \A d \in Database : HeldOnce(d) /\ Balanced(d)
BY DEF ExactlyOnce, HeldOnce, Held, Working, Sent, Balanced

\* A step that moves no error of d.
LEMMA BalancedQuiet ==
    ASSUME NEW d \in Database, HeldOnce(d), Balanced(d), UNCHANGED taken,
           outcome'[d] = outcome[d], InWorker(d)' <=> InWorker(d), oneshot'[d] = oneshot[d],
           failures'[d] = failures[d], reported'[d] = reported[d], logged'[d] = logged[d]
    PROVE  HeldOnce(d)' /\ Balanced(d)'
<1>1. (Failed(d)' <=> Failed(d)) /\ (Held(d)' <=> Held(d))
  BY DEF Failed, Held
<1>2. (Working(d)' <=> Working(d)) /\ (Sent(d)' <=> Sent(d))
  BY <1>1 DEF Working, Sent
<1>3. HeldOnce(d)'
  BY DEF HeldOnce
<1>4. Balanced(d)'
  BY <1>1, <1>2 DEF Balanced, Count
<1> QED
  BY <1>3, <1>4

\* Other databases than the worker's.
LEMMA WorkerElsewhere ==
    ASSUME TypeOK, JobAssigned, JobInv, NEW w \in Worker, WorkerStep(w),
           NEW e \in Database, e # job[w]
    PROVE  /\ InWorker(e)' <=> InWorker(e)
           /\ outcome'[e] = outcome[e] /\ oneshot'[e] = oneshot[e] /\ failures'[e] = failures[e]
<1>0. mode' = mode
  BY WorkerFrame
<1>1. CASE NextJob(w)
  <2>1. /\ job'[w] = Head(jobs) /\ worker'[w] = "running" /\ job[w] = NoDatabase
        /\ \A v \in Worker \ {w} : job'[v] = job[v] /\ worker'[v] = worker[v]
        /\ UNCHANGED <<oneshot, outcome, failures>>
    BY <1>1, NextJobFacts DEF JobInv
  <2> QED
    BY <1>0, <2>1 DEF InWorker
<1>2. CASE NextJobExit(w) \/ NextJobWait(w) \/ DropQueueGuard(w) \/ CloseDatabaseAdmission(w)
           \/ ReleasePermit(w)
  <2>1. /\ UNCHANGED <<oneshot, outcome, failures>> /\ job'[w] \in {job[w], NoDatabase}
        /\ \A v \in Worker \ {w} : job'[v] = job[v] /\ worker'[v] = worker[v]
    BY <1>2 DEF NextJobExit, NextJobWait, DropQueueGuard, CloseDatabaseAdmission, ReleasePermit,
                leaseVars, workerVars, completionVars, TypeOK
  <2> QED
    BY <1>0, <2>1, DistinctAssumption DEF InWorker
<1>3. CASE RunOperation(w) \/ SendOutcome(w) \/ Complete(w)
  <2>1. job' = job /\ \A v \in Worker \ {w} : worker'[v] = worker[v]
    BY <1>3 DEF RunOperation, SendOutcome, Complete, TypeOK
  <2>2. outcome'[e] = outcome[e]
    BY <1>3 DEF RunOperation, SendOutcome, Complete, TypeOK
  <2>3. oneshot'[e] = oneshot[e]
    BY <1>3 DEF RunOperation, SendOutcome, Complete, leaseVars, TypeOK
  <2>4. failures'[e] = failures[e]
    BY <1>3 DEF RunOperation, SendOutcome, Complete, DropOutcome, completionVars, TypeOK
  <2> QED
    BY <1>0, <2>1, <2>2, <2>3, <2>4 DEF InWorker
<1> QED
  BY <1>1, <1>2, <1>3 DEF WorkerStep

\* A worker's own database: the error appears with the outcome and stays with
\* the worker until it is sent or recorded.
LEMMA WorkerBalanced ==
    ASSUME TypeOK, TypeOK', JobAssigned, JobInv, NEW w \in Worker, WorkerStep(w),
           NEW d \in Database, job[w] = d, HeldOnce(d), Balanced(d)
    PROVE  HeldOnce(d)' /\ Balanced(d)'
<1>1. /\ UNCHANGED <<mode, taken, reported, logged>> /\ HeldOnce(d)'
      /\ (Held(d)' <=> Held(d))
  BY WorkerFrame DEF HeldOnce, Held
<1>2. /\ failures[d] \in Nat /\ reported[d] \in Nat /\ logged[d] \in Nat
      /\ failures'[d] \in Nat
  BY DEF TypeOK
<1>3. \A v \in Worker : job[v] = d => v = w
  BY DistinctAssumption DEF JobInv, JobsOnce
<1>4. worker[w] \notin {"next", "exited"}
  BY DistinctAssumption DEF JobAssigned
<1>5. CASE RunOperation(w)
  <2>1. /\ worker[w] = "running" /\ job' = job /\ worker'[w] \in {"close", "release"}
        /\ UNCHANGED <<oneshot, failures>>
    BY <1>5 DEF RunOperation, leaseVars, completionVars, TypeOK
  <2>2. ~Failed(d) /\ ~Working(d) /\ ~Sent(d)
    BY <2>1 DEF JobInv, Outcomes, Running, Failed, Working, Sent
  <2>3. failures[d] = 0 /\ ~Held(d) /\ reported[d] = 0 /\ logged[d] = 0
    <3>1. Count(Failed(d)) = 0 /\ Count(Working(d)) = 0 /\ Count(Sent(d)) = 0
      BY <2>2 DEF Count
    <3>2. PICK held \in Nat : held = Count(Held(d))
      BY DEF Count
    <3>3. 0 = failures[d] + held + reported[d] + logged[d]
      BY <1>2, <3>1, <3>2 DEF Balanced
    <3>4. failures[d] = 0 /\ held = 0 /\ reported[d] = 0 /\ logged[d] = 0
      BY <1>2, <3>3
    <3>5. ~Held(d)
      BY <3>2, <3>4 DEF Count
    <3> QED
      BY <3>4, <3>5
  <2>4. oneshot[d] # "sent"
    BY <2>1 DEF JobInv, SentLate
  <2>5. InWorker(d)'
    BY <2>1 DEF InWorker
  <2>6. (Working(d)' <=> Failed(d)') /\ ~Sent(d)'
    BY <2>1, <2>4, <2>5 DEF Working, Sent
  <2> QED
    BY <1>1, <2>1, <2>3, <2>6 DEF Balanced, Count
<1>6. CASE CloseDatabaseAdmission(w) \/ ReleasePermit(w)
  <2>1. /\ UNCHANGED <<oneshot, failures, outcome, job>> /\ worker[w] \in {"close", "release"}
        /\ \/ worker'[w] \in {"release", "send"}
           \/ worker'[w] = "record" /\ mode[d] # "awaited"
    BY <1>6 DEF CloseDatabaseAdmission, ReleasePermit, leaseVars, completionVars, TypeOK
  <2>2. InWorker(d) /\ InWorker(d)'
    BY <1>1, <2>1 DEF InWorker
  <2> QED
    BY <1>1, <2>1, <2>2, BalancedQuiet
<1>7. CASE SendOutcome(w)
  <2>1. /\ worker[w] = "send" /\ mode[d] = "awaited" /\ UNCHANGED <<job, outcome>>
        /\ worker'[w] = "record"
    BY <1>7 DEF SendOutcome, JobInv, Outcomes, TypeOK
  <2>2. InWorker(d) /\ ~InWorker(d)'
    BY <1>1, <1>3, <2>1 DEF InWorker
  <2>3. \/ oneshot[d] = "open" /\ oneshot'[d] = "sent" /\ failures'[d] = failures[d]
        \/ /\ oneshot'[d] = oneshot[d]
           /\ failures'[d] = IF Failed(d) THEN failures[d] + 1 ELSE failures[d]
    BY <1>7 DEF SendOutcome, DropOutcome, TypeOK
  <2>4. /\ Failed(d)' <=> Failed(d)
        /\ (Working(d) <=> Failed(d)) /\ ~Working(d)'
    BY <2>1, <2>2 DEF Failed, Working
  <2>5. \/ ~Sent(d) /\ (Sent(d)' <=> Failed(d)) /\ failures'[d] = failures[d]
        \/ /\ Sent(d)' <=> Sent(d)
           /\ failures'[d] = IF Failed(d) THEN failures[d] + 1 ELSE failures[d]
    BY <2>3, <2>4 DEF Sent
  <2> QED
    BY <1>1, <1>2, <2>4, <2>5 DEF Balanced, Count
<1>8. CASE Complete(w)
  <2>1. /\ worker[w] = "record" /\ worker'[w] = "guard" /\ UNCHANGED <<job, outcome, oneshot>>
        /\ failures'[d] = IF mode[d] # "awaited" /\ Failed(d) THEN failures[d] + 1 ELSE failures[d]
    BY <1>8 DEF Complete, leaseVars, TypeOK
  <2>2. (InWorker(d) <=> mode[d] # "awaited") /\ ~InWorker(d)'
    BY <1>1, <1>3, <2>1 DEF InWorker
  <2>3. /\ Failed(d)' <=> Failed(d)
        /\ (Working(d) <=> Failed(d) /\ mode[d] # "awaited") /\ ~Working(d)'
    BY <2>1, <2>2 DEF Failed, Working
  <2>4. Sent(d)' <=> Sent(d)
    BY <2>1, <2>3 DEF Sent
  <2> QED
    BY <1>1, <1>2, <2>1, <2>3, <2>4 DEF Balanced, Count
<1>9. CASE DropQueueGuard(w)
  <2>1. /\ worker[w] = "guard" /\ worker'[w] = "next" /\ UNCHANGED <<oneshot, failures, outcome>>
        /\ \A v \in Worker \ {w} : job'[v] = job[v]
    BY <1>9 DEF DropQueueGuard, leaseVars, completionVars, TypeOK
  <2>2. ~InWorker(d) /\ ~InWorker(d)'
    BY <1>3, <2>1 DEF InWorker
  <2> QED
    BY <1>1, <2>1, <2>2, BalancedQuiet
<1>10. ~(NextJob(w) \/ NextJobExit(w) \/ NextJobWait(w))
  BY <1>4 DEF NextJob, NextJobExit, NextJobWait
<1> QED
  BY <1>5, <1>6, <1>7, <1>8, <1>9, <1>10 DEF WorkerStep

\* The receiver of an awaited outcome takes its error, or leaves it to drains.
LEMMA ReceiverBalanced ==
    ASSUME TypeOK, TypeOK', NEW d \in Database, ReceiverStep(d),
           NEW e \in Database, HeldOnce(e), Balanced(e)
    PROVE  HeldOnce(e)' /\ Balanced(e)'
<1>1. /\ UNCHANGED <<mode, taken, logged, job, worker, outcome>> /\ HeldOnce(e)'
      /\ (Held(e)' <=> Held(e)) /\ (InWorker(e)' <=> InWorker(e))
      /\ (Failed(e)' <=> Failed(e))
  BY ReceiverFrame DEF HeldOnce, Held, InWorker, Failed, jobVars
<1>2. /\ failures[e] \in Nat /\ reported[e] \in Nat /\ logged[e] \in Nat
  BY DEF TypeOK
<1>3. CASE e # d
  <2>1. oneshot'[e] = oneshot[e] /\ failures'[e] = failures[e] /\ reported'[e] = reported[e]
    BY <1>3 DEF ReceiverStep, ReceiveOutcome, CancelAwait, DropOutcome, completionVars,
                reportVars, TypeOK
  <2> QED
    BY <1>1, <2>1, BalancedQuiet
<1>4. CASE e = d
  <2>1. Working(e)' <=> Working(e)
    BY <1>1 DEF Working
  <2>2. CASE ReceiveOutcome(d)
    <3>1. /\ oneshot[e] = "sent" /\ oneshot'[e] = "consumed" /\ failures'[e] = failures[e]
          /\ reported'[e] = IF Failed(e) THEN reported[e] + 1 ELSE reported[e]
      BY <1>4, <2>2 DEF ReceiveOutcome, completionVars, TypeOK
    <3>2. (Sent(e) <=> Failed(e)) /\ ~Sent(e)'
      BY <3>1 DEF Sent
    <3> QED
      BY <1>1, <1>2, <2>1, <3>1, <3>2 DEF Balanced, Count
  <2>3. CASE CancelAwait(d)
    <3>1. /\ oneshot[e] \in {"open", "sent"} /\ oneshot'[e] = "cancelled"
          /\ reported'[e] = reported[e]
          /\ failures'[e] = IF oneshot[e] = "sent" /\ Failed(e) THEN failures[e] + 1
                                                               ELSE failures[e]
      BY <1>4, <2>3 DEF CancelAwait, DropOutcome, reportVars, TypeOK
    <3>2. (Sent(e) <=> oneshot[e] = "sent" /\ Failed(e)) /\ ~Sent(e)'
      BY <3>1 DEF Sent
    <3> QED
      BY <1>1, <1>2, <2>1, <3>1, <3>2 DEF Balanced, Count
  <2> QED
    BY <2>2, <2>3 DEF ReceiverStep
<1> QED
  BY <1>3, <1>4

\* A drain takes what is retained and reports it, or puts it back.
LEMMA DrainBalanced ==
    ASSUME TypeOK, TypeOK', Delivery, NEW x \in Waiter, DrainStep(x),
           NEW d \in Database, HeldOnce(d), Balanced(d)
    PROVE  HeldOnce(d)' /\ Balanced(d)'
<1>1. /\ UNCHANGED <<mode, logged, job, worker, outcome, oneshot>>
      /\ (Failed(d)' <=> Failed(d)) /\ (InWorker(d)' <=> InWorker(d))
      /\ (Working(d)' <=> Working(d)) /\ (Sent(d)' <=> Sent(d))
  BY DrainFrame DEF InWorker, Failed, Working, Sent, jobVars
<1>2. /\ failures[d] \in Nat /\ reported[d] \in Nat /\ logged[d] \in Nat
      /\ \A y \in Waiter : taken[y][d] \in Nat
  BY DEF TypeOK
<1>3. CASE FixTarget(x) \/ WaitForBarrier(x) \/ JoinWorkers(x)
  <2>1. UNCHANGED <<taken, failures, reported>>
    BY <1>3 DEF FixTarget, WaitForBarrier, JoinWorkers, completionVars, drainVars, reportVars
  <2> QED
    BY <1>1, <2>1, BalancedQuiet
<1>4. CASE WaitAndTake(x)
  <2>1. \A y \in Waiter : ~(taken[y][d] > 0)
    BY <1>4 DEF WaitAndTake, BarrierReached, Delivery
  <2>2. /\ \A y \in Waiter \ {x} : taken'[y] = taken[y]
        /\ reported'[d] = reported[d]
        /\ \/ taken'[x][d] = failures[d] /\ failures'[d] = 0
           \/ taken'[x][d] = 0 /\ failures'[d] = failures[d]
    BY <1>4 DEF WaitAndTake, reportVars, TypeOK
  <2>3. ~Held(d) /\ failures[d] \in {0, 1}
    BY <1>2, <2>1 DEF Held, Balanced, Count
  <2>4. Held(d)' <=> taken'[x][d] > 0
    BY <2>1, <2>2 DEF Held
  <2>5. HeldOnce(d)'
    BY <1>2, <2>1, <2>2, <2>3 DEF HeldOnce
  <2>6. failures[d] = failures'[d] + Count(Held(d)')
    BY <1>2, <2>2, <2>3, <2>4 DEF Count
  <2> QED
    BY <1>1, <1>2, <2>2, <2>3, <2>5, <2>6 DEF Balanced, Count
<1>5. CASE FinishDrain(x) \/ DropDrainOutcome(x)
  <2>a. /\ drain[x] = "outcome"
        /\ \A y \in Waiter \ {x} : taken'[y] = taken[y]
        /\ taken'[x] = NoFailures
    BY <1>5 DEF FinishDrain, DropDrainOutcome, TypeOK
  <2>b. \/ failures'[d] = failures[d] + taken[x][d] /\ reported'[d] = reported[d]
        \/ reported'[d] = reported[d] + taken[x][d] /\ failures'[d] = failures[d]
    BY <1>5 DEF FinishDrain, DropDrainOutcome, reportVars
  <2>1. /\ drain[x] = "outcome"
        /\ \A y \in Waiter \ {x} : taken'[y] = taken[y]
        /\ taken'[x][d] = 0
        /\ \/ failures'[d] = failures[d] + taken[x][d] /\ reported'[d] = reported[d]
           \/ reported'[d] = reported[d] + taken[x][d] /\ failures'[d] = failures[d]
    BY <2>a, <2>b DEF NoFailures
  <2>2. \A y \in Waiter \ {x} : ~(taken[y][d] > 0)
    BY <2>1 DEF Delivery
  <2>3. ~Held(d)' /\ (Held(d) <=> taken[x][d] > 0)
    BY <2>1, <2>2 DEF Held
  <2>4. HeldOnce(d)'
    BY <2>1, <2>2 DEF HeldOnce
  <2>5. taken[x][d] = Count(Held(d))
    BY <1>2, <2>3 DEF Count, HeldOnce
  <2> QED
    BY <1>1, <1>2, <2>1, <2>3, <2>4, <2>5 DEF Balanced, Count
<1> QED
  BY <1>3, <1>4, <1>5 DEF DrainStep

\* Every step moves an error from one place to another, or leaves it.
LEMMA ExactlyOnceStep ==
    ASSUME TypeOK, TypeOK', JobAssigned, JobInv, Delivery, ExactlyOnce, [Next]_vars
    PROVE  ExactlyOnce'
<1> SUFFICES ASSUME NEW e \in Database PROVE HeldOnce(e)' /\ Balanced(e)'
  BY DEF ExactlyOnce, HeldOnce, Held, Working, Sent, Balanced
<1>0. HeldOnce(e) /\ Balanced(e)
  BY OnceMeans
<1>1. CASE ApplicationStep
  <2>1. UNCHANGED <<taken, outcome, oneshot, failures, reported, logged, job, worker>>
    BY <1>1, ApplicationFrame
  <2>2. (\E w \in Worker : job[w] = e) => mode'[e] = mode[e]
    BY <1>1, ApplicationMoves, DistinctAssumption DEF JobInv, JobsOnce, Sequenced
  <2>3. InWorker(e)' <=> InWorker(e)
    BY <2>1, <2>2 DEF InWorker
  <2> QED
    BY <1>0, <2>1, <2>3, BalancedQuiet
<1>2. ASSUME NEW d \in Database, SubmitterStep(d) PROVE HeldOnce(e)' /\ Balanced(e)'
  <2>1. /\ UNCHANGED <<taken, outcome, mode, failures, reported, logged, job, worker>>
        /\ (InWorker(e)' <=> InWorker(e))
    BY <1>2, SubmitterFrame DEF InWorker
  <2>2. CASE oneshot'[e] = oneshot[e]
    BY <1>0, <2>1, <2>2, BalancedQuiet
  <2>3. CASE oneshot'[e] # oneshot[e]
    <3>1. EnqueueAccept(d) /\ e = d
      BY <1>2, <2>3, LeaseMoves, AcceptFacts DEF JobInv
    <3>2. sequence[e] = 0
      BY <3>1, AcceptFacts DEF JobInv
    <3>3. ~Failed(e) /\ ~Failed(e)'
      BY <2>1, <3>2 DEF JobInv, Outcomes, Failed
    <3>4. /\ ~Working(e) /\ ~Working(e)' /\ ~Sent(e) /\ ~Sent(e)'
          /\ (Held(e)' <=> Held(e)) /\ HeldOnce(e)'
      BY <1>0, <2>1, <3>3 DEF Working, Sent, Held, HeldOnce
    <3> QED
      BY <1>0, <2>1, <3>3, <3>4 DEF Balanced, Count
  <2> QED
    BY <2>2, <2>3
<1>3. ASSUME NEW d \in Database, ReceiverStep(d) PROVE HeldOnce(e)' /\ Balanced(e)'
  BY <1>0, <1>3, ReceiverBalanced
<1>4. ASSUME NEW w \in Worker, WorkerStep(w) PROVE HeldOnce(e)' /\ Balanced(e)'
  <2>1. CASE job[w] = e
    BY <1>0, <1>4, <2>1, WorkerBalanced
  <2>2. CASE job[w] # e
    BY <1>0, <1>4, <2>2, WorkerElsewhere, WorkerFrame, BalancedQuiet
  <2> QED
    BY <2>1, <2>2
<1>5. ASSUME NEW x \in Waiter, DrainStep(x) PROVE HeldOnce(e)' /\ Balanced(e)'
  BY <1>0, <1>5, DrainBalanced
<1>6. CASE Other
  <2>1. /\ UNCHANGED <<taken, outcome, mode, oneshot, reported, job, worker>>
        /\ (InWorker(e)' <=> InWorker(e))
    BY <1>6, OtherFrame DEF InWorker, jobVars
  <2>2. CASE UNCHANGED <<failures, logged>>
    BY <1>0, <2>1, <2>2, BalancedQuiet
  <2>3. CASE DropTake
    <3>1. logged'[e] = logged[e] + failures[e] /\ failures'[e] = 0
      BY <2>3 DEF DropTake, NoFailures
    <3>2. failures[e] \in Nat /\ reported[e] \in Nat /\ logged[e] \in Nat
      BY DEF TypeOK
    <3>3. /\ (Failed(e)' <=> Failed(e)) /\ (Working(e)' <=> Working(e))
          /\ (Sent(e)' <=> Sent(e)) /\ (Held(e)' <=> Held(e)) /\ HeldOnce(e)'
      BY <1>0, <2>1 DEF Failed, Working, Sent, Held, HeldOnce
    <3> QED
      BY <1>0, <2>1, <3>1, <3>2, <3>3 DEF Balanced, Count
  <2> QED
    BY <1>6, <2>2, <2>3, OtherFrame
<1> QED
  BY <1>1, <1>2, <1>3, <1>4, <1>5, <1>6, Threads

-----------------------------------------------------------------------------
(***************************************************************************)
(* Barriers.                                                               *)
(***************************************************************************)

\* From the start of a call to its barrier: only the call itself moves it.
LEMMA DrainMoves ==
    ASSUME TypeOK, [Next]_vars, NEW x \in Waiter
    PROVE  \/ UNCHANGED <<drain[x], target[x], before[x], owed[x], taken[x]>>
           \/ BeginDrain(x) \/ BeginShutdown(x)
           \/ DrainStep(x)
<1>1. CASE ApplicationStep
  <2>1. ASSUME NEW y \in Waiter, BeginDrain(y) \/ BeginShutdown(y), y # x
        PROVE  UNCHANGED <<drain[x], target[x], before[x], owed[x], taken[x]>>
    BY <2>1 DEF BeginDrain, BeginShutdown, Promise, TypeOK
  <2>2. CASE (\E d \in Database : Acquire(d) \/ BeginPrewarm(d) \/ BeginSubmit(d)) \/ ReleaseHandle
    BY <2>2 DEF Acquire, BeginPrewarm, BeginSubmit, ReleaseHandle, drainVars, promiseVars
  <2> QED
    BY <1>1, <2>1, <2>2 DEF ApplicationStep
<1>2. ASSUME NEW y \in Waiter, DrainStep(y), y # x
      PROVE  UNCHANGED <<drain[x], target[x], before[x], owed[x], taken[x]>>
  <2>1. UNCHANGED <<before, owed>>
    BY <1>2, DrainFrame
  <2>2. UNCHANGED <<drain[x], target[x], taken[x]>>
    BY <1>2 DEF DrainStep, FixTarget, WaitForBarrier, WaitAndTake, JoinWorkers, FinishDrain,
                DropDrainOutcome, drainVars, TypeOK
  <2> QED
    BY <2>1, <2>2
<1> QED
  BY <1>1, <1>2, Threads, SubmitterFrame, ReceiverFrame, WorkerFrame, OtherFrame

\* What a call does to its own state.
LEMMA OwnMoves ==
    ASSUME TypeOK, NEW x \in Waiter, DrainStep(x)
    PROVE  /\ UNCHANGED <<before, owed>>
           /\ \/ FixTarget(x) /\ drain'[x] = "wait" /\ target'[x] = next_sequence
              \/ /\ drain[x] = "wait" /\ target'[x] = target[x]
                 /\ drain'[x] = "wait" \/ WaitAndTake(x)
              \/ /\ drain[x] \in {"join", "outcome"} /\ target'[x] = target[x]
                 /\ JoinWorkers(x) \/ FinishDrain(x) \/ DropDrainOutcome(x)
<1>1. UNCHANGED <<before, owed>>
  BY DrainFrame
<1>2. CASE FixTarget(x)
  BY <1>1, <1>2 DEF FixTarget, TypeOK
<1>3. CASE WaitForBarrier(x) \/ WaitAndTake(x)
  BY <1>1, <1>3 DEF WaitForBarrier, WaitAndTake, drainVars
<1>4. CASE JoinWorkers(x) \/ FinishDrain(x) \/ DropDrainOutcome(x)
  BY <1>1, <1>4 DEF JoinWorkers, FinishDrain, DropDrainOutcome
<1> QED
  BY <1>2, <1>3, <1>4 DEF DrainStep

\* A promise is made at the call and its target is taken after it.
LEMMA PromisedStep ==
    ASSUME TypeOK, TypeOK', JobAssigned, JobInv, Promised, [Next]_vars
    PROVE  Promised'
<1> SUFFICES ASSUME NEW x \in Waiter
             PROVE  /\ owed'[x] \subseteq before'[x]
                    /\ \A d \in before'[x] : sequence'[d] > 0
                    /\ drain'[x] \notin {"idle", "lock"} =>
                          \A d \in before'[x] : sequence'[d] <= target'[x]
                    /\ \A d \in owed'[x] : oneshot'[d] \in {"none", "cancelled"}
  BY DEF Promised
<1>0. before[x] \subseteq Database /\ owed[x] \subseteq Database
  BY DEF TypeOK
<1>1. \A d \in Database : sequence[d] > 0 => sequence'[d] = sequence[d]
  BY DoneStep
<1>2. \A d \in Database : sequence[d] > 0 /\ oneshot[d] \in {"none", "cancelled"} =>
         oneshot'[d] \in {"none", "cancelled"}
  <2>1. ASSUME NEW d \in Database, SubmitterStep(d), NEW e \in Database, sequence[e] > 0
        PROVE  oneshot'[e] = oneshot[e]
    BY <2>1, LeaseMoves, AcceptFacts DEF JobInv
  <2>2. ASSUME NEW d \in Database, ReceiverStep(d), NEW e \in Database,
               oneshot[e] \in {"none", "cancelled"}
        PROVE  oneshot'[e] \in {"none", "cancelled"}
    BY <2>2 DEF ReceiverStep, ReceiveOutcome, CancelAwait, TypeOK
  <2>3. ASSUME NEW w \in Worker, WorkerStep(w), NEW e \in Database,
               oneshot[e] \in {"none", "cancelled"}
        PROVE  oneshot'[e] = oneshot[e]
    BY <2>3 DEF WorkerStep, NextJob, NextJobExit, NextJobWait, RunOperation,
       CloseDatabaseAdmission, ReleasePermit, SendOutcome, Complete, DropQueueGuard, leaseVars,
       TypeOK
  <2> QED
    BY <2>1, <2>2, <2>3, Threads, ApplicationFrame, DrainFrame, OtherFrame
<1>3. CASE UNCHANGED <<drain[x], target[x], before[x], owed[x]>>
  BY <1>0, <1>1, <1>2, <1>3 DEF Promised
<1>4. CASE BeginDrain(x) \/ BeginShutdown(x)
  <2>1. /\ drain'[x] = "lock" /\ before'[x] = Accepted
        /\ owed'[x] = {d \in Accepted : mode[d] # "awaited" \/ oneshot[d] = "cancelled"}
        /\ UNCHANGED <<sequence, oneshot>>
    BY <1>4 DEF BeginDrain, BeginShutdown, Promise, submissionVars, leaseVars, TypeOK
  <2>2. \A d \in Database : mode[d] # "awaited" => oneshot[d] = "none"
    BY DEF JobInv, Outcomes
  <2> QED
    BY <2>1, <2>2 DEF Accepted
<1>5. CASE DrainStep(x)
  <2>1. UNCHANGED <<before, owed, sequence, oneshot>>
    BY <1>5, DrainFrame DEF jobVars
  <2>2. CASE FixTarget(x)
    <3>1. target'[x] = next_sequence
      BY <1>5, <2>2 DEF FixTarget, TypeOK
    <3> QED
      BY <1>0, <2>1, <3>1 DEF Promised, JobInv, Sequenced
  <2>3. CASE ~FixTarget(x)
    <3>1. target'[x] = target[x] /\ drain[x] \notin {"idle", "lock"}
      BY <1>5, <2>3, OwnMoves
    <3> QED
      BY <1>0, <2>1, <3>1 DEF Promised
  <2> QED
    BY <2>2, <2>3
<1> QED
  BY <1>3, <1>4, <1>5, DrainMoves

\* A drain at its barrier: what it promised to cover is done.
LEMMA BarrierCovers ==
    ASSUME TypeOK, JobInv, CompletedPrefix, Promised, NEW x \in Waiter, drain[x] = "wait",
           BarrierReached(target[x]), NEW d \in before[x]
    PROVE  Settled(d)
<1>1. d \in Database /\ sequence[d] \in Nat /\ sequence[d] > 0 /\ sequence[d] <= target[x]
      /\ target[x] \in Nat /\ completed_through \in Nat /\ target[x] <= completed_through
  BY DEF TypeOK, Promised, BarrierReached
<1>2. Recorded(sequence[d])
  BY <1>1 DEF Recorded
<1>3. PICK e \in Database : Done(e) /\ sequence[e] = sequence[d]
  BY <1>2, PrefixMeans
<1>4. e = d
  BY <1>1, <1>3 DEF JobInv, Sequenced
<1> QED
  BY <1>3, <1>4 DEF Done

\* A drain past its barrier saw every job it promised settled.
LEMMA DrainCoversStep ==
    ASSUME TypeOK, TypeOK', JobAssigned, JobInv, CompletedPrefix, Promised, DrainCovers,
           [Next]_vars
    PROVE  DrainCovers'
<1> SUFFICES ASSUME NEW x \in Waiter, drain'[x] \in {"join", "outcome", "finished", "cancelled"},
                    NEW d \in before'[x]
             PROVE  Settled(d)'
  BY DEF DrainCovers
<1>1. before'[x] = before[x]
  <2>1. CASE BeginDrain(x) \/ BeginShutdown(x)
    BY <2>1 DEF BeginDrain, BeginShutdown, TypeOK
  <2> QED
    BY <2>1, DrainMoves, OwnMoves
<1>2. d \in Database /\ sequence[d] > 0
  BY <1>1 DEF TypeOK, Promised
<1>3. Settled(d)
  <2>1. CASE drain[x] \in {"join", "outcome", "finished", "cancelled"}
    BY <1>1, <2>1 DEF DrainCovers
  <2>2. CASE WaitAndTake(x)
    BY <1>1, <2>2, BarrierCovers DEF WaitAndTake
  <2>3. CASE BeginDrain(x) \/ BeginShutdown(x)
    BY <2>3 DEF BeginDrain, BeginShutdown, TypeOK
  <2> QED
    BY <2>1, <2>2, <2>3, DrainMoves, OwnMoves
<1>4. Done(d)'
  BY <1>2, <1>3, DoneStep DEF Done
<1> QED
  BY <1>4 DEF Done

\* An error of a settled job that is in no channel is retained, held by a
\* drain, reported or logged.
LEMMA SettledBalance ==
    ASSUME TypeOK, ExactlyOnce, NEW d \in Database, Failed(d), Settled(d), oneshot[d] # "sent"
    PROVE  /\ failures[d] \in Nat /\ reported[d] \in Nat /\ logged[d] \in Nat
           /\ 1 = failures[d] + Count(Held(d)) + reported[d] + logged[d]
           /\ Count(Held(d)) \in {0, 1} /\ (Held(d) <=> Count(Held(d)) = 1)
<1>1. Balanced(d)
  BY OnceMeans
<1>2. ~InWorker(d)
  BY DEF Settled, InWorker
<1>3. ~Working(d) /\ ~Sent(d)
  BY <1>2 DEF Working, Sent
<1>4. Count(Failed(d)) = 1 /\ Count(Working(d)) = 0 /\ Count(Sent(d)) = 0
  BY <1>3 DEF Count
<1>5. Count(Held(d)) \in {0, 1} /\ (Held(d) <=> Count(Held(d)) = 1)
  BY DEF Count
<1>6. failures[d] \in Nat /\ reported[d] \in Nat /\ logged[d] \in Nat
  BY DEF TypeOK
<1>7. 1 = 0 + 0 + failures[d] + Count(Held(d)) + reported[d] + logged[d]
  BY <1>1, <1>4 DEF Balanced
<1> QED
  BY <1>5, <1>6, <1>7

\* What happens elsewhere to an error that x owes.
LEMMA OwedStays ==
    ASSUME TypeOK, JobAssigned, JobInv, ExactlyOnce, [Next]_vars,
           NEW x \in Waiter, ~DrainStep(x), NEW d \in Database, Settled(d), sequence[d] > 0,
           oneshot[d] # "sent"
    PROVE  /\ Failed(d)' <=> Failed(d)
           /\ Failed(d) /\ taken[x][d] + reported[d] = 1 => reported'[d] = reported[d]
<1>1. Failed(d)' <=> Failed(d)
  <2>1. ASSUME NEW w \in Worker, WorkerStep(w) PROVE outcome'[d] = outcome[d]
    <3>1. CASE RunOperation(w)
      <4>1. job[w] # d
        BY <3>1 DEF RunOperation, Settled
      <4> QED
        BY <3>1, <4>1 DEF RunOperation, TypeOK
    <3>2. CASE ~RunOperation(w)
      BY <2>1, <3>2 DEF WorkerStep, NextJob, NextJobExit, NextJobWait, CloseDatabaseAdmission,
         ReleasePermit, SendOutcome, Complete, DropQueueGuard, workerVars
    <3> QED
      BY <3>1, <3>2
  <2>2. outcome'[d] = outcome[d]
    BY <2>1, Threads, ApplicationFrame, SubmitterFrame, ReceiverFrame, DrainFrame, OtherFrame
    DEF jobVars
  <2> QED
    BY <2>2 DEF Failed
<1>2. ASSUME Failed(d), taken[x][d] + reported[d] = 1 PROVE reported'[d] = reported[d]
  <2>1. ASSUME NEW e \in Database, ReceiverStep(e) PROVE reported'[d] = reported[d]
    BY <2>1 DEF ReceiverStep, ReceiveOutcome, CancelAwait, reportVars, TypeOK
  <2>2. ASSUME NEW y \in Waiter, DrainStep(y) PROVE reported'[d] = reported[d]
    <3>1. CASE FinishDrain(y)
      <4>1. reported'[d] = reported[d] + taken[y][d] /\ y # x
        BY <2>2, <3>1 DEF FinishDrain
      <4>2. /\ taken[x][d] \in Nat /\ taken[y][d] \in Nat /\ reported[d] \in Nat
        BY DEF TypeOK
      <4>3. taken[y][d] = 0
        <5>1. CASE taken[x][d] > 0
          BY <4>1, <4>2, <5>1, OnceMeans DEF HeldOnce
        <5>2. CASE ~(taken[x][d] > 0)
          <6>1. reported[d] = 1
            BY <1>2, <4>2, <5>2
          <6>2. Count(Held(d)) = 0 /\ (Held(d) <=> Count(Held(d)) = 1)
            <7>1. /\ failures[d] \in Nat /\ reported[d] \in Nat /\ logged[d] \in Nat
                  /\ 1 = failures[d] + Count(Held(d)) + reported[d] + logged[d]
                  /\ Count(Held(d)) \in {0, 1} /\ (Held(d) <=> Count(Held(d)) = 1)
              BY <1>2, SettledBalance
            <7> QED
              BY <6>1, <7>1
          <6>3. ~Held(d)
            BY <6>2
          <6> QED
            BY <4>2, <6>3 DEF Held
        <5> QED
          BY <5>1, <5>2
      <4> QED
        BY <4>1, <4>2, <4>3
    <3>2. CASE ~FinishDrain(y)
      BY <2>2, <3>2 DEF DrainStep, FixTarget, WaitForBarrier, WaitAndTake, JoinWorkers,
         DropDrainOutcome, reportVars
    <3> QED
      BY <3>1, <3>2
  <2> QED
    BY <2>1, <2>2, Threads, ApplicationFrame, SubmitterFrame, WorkerFrame, OtherFrame
<1> QED
  BY <1>1, <1>2

\* At its barrier a drain gets hold of the errors it owes, unless they were
\* reported: no other drain has them, and the log comes after all drains.
LEMMA TakeOwed ==
    ASSUME TypeOK, JobInv, CompletedPrefix, Promised, Delivery, LoggedLast, DropperInv, ExactlyOnce,
           NEW x \in Waiter, WaitAndTake(x), NEW d \in owed[x], Failed(d)
    PROVE  taken'[x][d] + reported[d] = 1 /\ taken'[x][d] \in Nat
<1>1. /\ drain[x] = "wait" /\ BarrierReached(target[x]) /\ d \in before[x] /\ d \in Database
      /\ oneshot[d] # "sent" /\ sequence[d] <= target[x]
  BY DEF WaitAndTake, Promised, TypeOK
<1>2. Settled(d)
  BY <1>1, BarrierCovers
<1>3. /\ failures[d] \in Nat /\ reported[d] \in Nat /\ logged[d] \in Nat
      /\ 1 = failures[d] + Count(Held(d)) + reported[d] + logged[d]
      /\ Count(Held(d)) \in {0, 1} /\ (Held(d) <=> Count(Held(d)) = 1)
  BY <1>1, <1>2, SettledBalance
<1>4. ~Held(d)
  BY <1>1 DEF BarrierReached, Delivery, Held
<1>5. dropper = Nobody
  BY <1>1 DEF DropperInv, Retained
<1>6. logged[d] = 0
  BY <1>1, <1>3, <1>5 DEF LoggedLast
<1>7. taken'[x][d] = IF Reportable(d, target[x]) THEN failures[d] ELSE 0
  BY <1>1 DEF WaitAndTake, TypeOK
<1>8. taken'[x][d] = failures[d]
  BY <1>1, <1>3, <1>7 DEF Reportable
<1>9. Count(Held(d)) = 0
  BY <1>3, <1>4
<1> QED
  BY <1>3, <1>6, <1>8, <1>9

\* At its barrier a drain takes the errors it owes or finds them reported.
LEMMA OwedTakenStep ==
    ASSUME TypeOK, TypeOK', JobAssigned, JobInv, CompletedPrefix, Promised, Delivery, LoggedLast,
           DropperInv, DrainCovers, ExactlyOnce, OwedTaken, [Next]_vars
    PROVE  OwedTaken'
<1> SUFFICES ASSUME NEW x \in Waiter, NEW d \in owed'[x], Failed(d)'
             PROVE  /\ drain'[x] \in {"join", "outcome"} => taken'[x][d] + reported'[d] = 1
                    /\ drain'[x] = "finished" => reported'[d] = 1
  BY DEF OwedTaken
<1>1. CASE BeginDrain(x) \/ BeginShutdown(x)
  BY <1>1 DEF BeginDrain, BeginShutdown, TypeOK
<1>2. ASSUME owed'[x] = owed[x]
      PROVE  /\ d \in Database /\ d \in before[x] /\ sequence[d] > 0 /\ oneshot[d] # "sent"
             /\ taken[x][d] \in Nat /\ reported[d] \in Nat
  BY <1>2 DEF TypeOK, Promised
<1>3. CASE UNCHANGED <<drain[x], owed[x], taken[x]>> /\ ~DrainStep(x)
  <2>1. CASE drain[x] \in {"join", "outcome", "finished"}
    <3>1. Settled(d)
      BY <1>2, <1>3, <2>1 DEF DrainCovers
    <3>2. Failed(d)
      BY <1>2, <1>3, <3>1, OwedStays
    <3>3. CASE drain[x] \in {"join", "outcome"}
      <4>1. taken[x][d] + reported[d] = 1
        BY <1>2, <1>3, <3>2, <3>3 DEF OwedTaken
      <4>2. reported'[d] = reported[d]
        BY <1>2, <1>3, <3>1, <3>2, <4>1, OwedStays
      <4> QED
        BY <1>3, <3>3, <4>1, <4>2
    <3>4. CASE drain[x] = "finished"
      <4>1. reported[d] = 1
        BY <1>2, <1>3, <3>2, <3>4 DEF OwedTaken
      <4>2. taken[x][d] = 0
        BY <1>2, <1>3, <3>4 DEF Delivery
      <4>3. taken[x][d] + reported[d] = 1
        BY <4>1, <4>2
      <4>4. reported'[d] = reported[d]
        BY <1>2, <1>3, <3>1, <3>2, <4>3, OwedStays
      <4> QED
        BY <1>3, <3>4, <4>1, <4>4
    <3> QED
      BY <2>1, <3>3, <3>4
  <2> QED
    BY <1>3, <2>1
<1>4. CASE DrainStep(x)
  <2>1. owed' = owed /\ outcome' = outcome
    BY <1>4, DrainFrame DEF jobVars
  <2>2. Failed(d)
    BY <2>1 DEF Failed
  <2>3. CASE WaitAndTake(x)
    <3>1. taken'[x][d] + reported[d] = 1 /\ taken'[x][d] \in Nat
      BY <2>1, <2>2, <2>3, TakeOwed
    <3>2. reported' = reported
      BY <2>3 DEF WaitAndTake, reportVars
    <3>3. drain'[x] = "finished" => ~(taken'[x][d] > 0)
      BY <1>2, <2>1, <2>3 DEF WaitAndTake, AfterTake, TypeOK
    <3> QED
      BY <1>2, <2>1, <3>1, <3>2, <3>3
  <2>4. CASE JoinWorkers(x)
    <3>1. /\ drain[x] = "join" /\ UNCHANGED <<taken, reported>>
          /\ drain'[x] = "finished" => ~(taken[x][d] > 0)
      BY <1>2, <2>1, <2>4 DEF JoinWorkers, AfterTake, reportVars, TypeOK
    <3>2. taken[x][d] + reported[d] = 1
      BY <2>1, <2>2, <3>1 DEF OwedTaken
    <3> QED
      BY <1>2, <2>1, <3>1, <3>2
  <2>5. CASE FinishDrain(x)
    <3>1. /\ drain[x] = "outcome" /\ drain'[x] = "finished"
          /\ reported'[d] = reported[d] + taken[x][d]
      BY <1>2, <2>1, <2>5 DEF FinishDrain, TypeOK
    <3>2. taken[x][d] + reported[d] = 1
      BY <2>1, <2>2, <3>1 DEF OwedTaken
    <3> QED
      BY <1>2, <2>1, <3>1, <3>2
  <2>6. CASE DropDrainOutcome(x)
    BY <2>6 DEF DropDrainOutcome, TypeOK
  <2> QED
    BY <1>4, <2>3, <2>4, <2>5, <2>6, OwnMoves
<1> QED
  BY <1>1, <1>3, <1>4, DrainMoves

-----------------------------------------------------------------------------
(***************************************************************************)
(* The theorems about barriers, errors and the destructor.                 *)
(***************************************************************************)
BarrierInv ==
    /\ JobInv /\ CompletedPrefix /\ Delivery /\ LoggedLast /\ ExactlyOnce
    /\ Promised /\ DrainCovers /\ OwedTaken

\* The invariant holds of the new queue.
LEMMA BarrierInit == Init => BarrierInv
<1> SUFFICES ASSUME Init PROVE BarrierInv
  OBVIOUS
<1>1. /\ jobs = << >> /\ Len(jobs) = 0 /\ next_sequence = 0 /\ completed_through = 0
      /\ completed_out_of_order = {} /\ ~failure_delivery_in_flight
      /\ dropper = Nobody /\ drop_stage = "close"
      /\ \A d \in Database : /\ sequence[d] = 0 /\ lease[d] = "unused" /\ outcome[d] = "none"
                             /\ oneshot[d] = "none" /\ failures[d] = 0 /\ reported[d] = 0
                             /\ logged[d] = 0
      /\ \A w \in Worker : job[w] = NoDatabase /\ worker[w] = "next"
      /\ \A x \in Waiter : drain[x] = "idle" /\ before[x] = {} /\ owed[x] = {}
      /\ \A x \in Waiter, d \in Database : taken[x][d] = 0
  BY DEF Init, NoFailures
<1>2. \A d \in Database : ~Queued(d)
  BY <1>1 DEF Queued
<1>3. Sequenced /\ JobsOnce /\ Outcomes /\ SentLate
  BY <1>1, <1>2 DEF Sequenced, JobsOnce, Outcomes, Running, SentLate
<1>4. CompletedPrefix
  <2>1. (\A n : ~Recorded(n)) /\ \A d \in Database : ~Done(d)
    BY <1>1 DEF Recorded, Done
  <2> QED
    BY <1>1, <2>1, PrefixMeans
<1>5. Delivery /\ LoggedLast
  BY <1>1 DEF Delivery, LoggedLast
<1>6. ExactlyOnce
  <2>1. ASSUME NEW d \in Database PROVE HeldOnce(d) /\ Balanced(d)
    <3>1. ~Failed(d) /\ ~Held(d) /\ ~Working(d) /\ ~Sent(d)
      BY <1>1 DEF Failed, Held, Working, Sent
    <3> QED
      BY <1>1, <3>1 DEF HeldOnce, Balanced, Count
  <2> QED
    BY <2>1, OnceMeans
<1>7. Promised /\ DrainCovers /\ OwedTaken
  BY <1>1 DEF Promised, DrainCovers, OwedTaken
<1> QED
  BY <1>3, <1>4, <1>5, <1>6, <1>7 DEF BarrierInv, JobInv

\* Every step of every thread keeps the invariant.
LEMMA BarrierStep ==
    ASSUME TypeOK, TypeOK', JobAssigned, DropperInv, BarrierInv, [Next]_vars
    PROVE  BarrierInv'
<1> USE DEF BarrierInv
<1>1. JobInv'
  BY SequencedStep, JobsOnceStep, OutcomesStep, SentLateStep DEF JobInv
<1>2. CompletedPrefix' /\ Delivery' /\ LoggedLast' /\ ExactlyOnce'
  BY PrefixStep, DeliveryStep, LoggedLastStep, ExactlyOnceStep
<1>3. Promised' /\ DrainCovers' /\ OwedTaken'
  BY PromisedStep, DrainCoversStep, OwedTakenStep
<1> QED
  BY <1>1, <1>2, <1>3

\* For all constants: numbers, channels, retained errors and the promises of
\* drains agree with each other.
THEOREM BarrierInvariant == Spec => []BarrierInv
BY TypeCorrect, OwnersKept, BarrierInit, BarrierStep, PTL DEF Spec

\* For any workers and drains: the completed prefix counts settled jobs, a
\* drain passes its barrier after every job accepted before its call, and it
\* returns when every error it owes was reported, by itself or another drain.
THEOREM DrainsAreSound == Spec => []DrainSound
<1>1. BarrierInv => DrainSound
  BY DEF BarrierInv, DrainSound, DrainReportsAll, OwedTaken
<1> QED
  BY BarrierInvariant, <1>1, PTL

\* For any workers, drains and cancellations: an error is in one place or was
\* reported once.
THEOREM ErrorsExactlyOnce == Spec => []ExactlyOnce
<1>1. BarrierInv => ExactlyOnce
  BY DEF BarrierInv
<1> QED
  BY BarrierInvariant, <1>1, PTL

\* For all constants: the thread that runs the queue's destructor, which may
\* be a worker, finds every job recorded, no delivery in flight and no worker
\* inside a job.
THEOREM DestructorWaitsForNothing == Spec => []QueueOutlivesWork
<1>1. ASSUME TypeOK, JobAssigned, DropperInv, BarrierInv, dropper # Nobody
      PROVE  BarrierReached(next_sequence) /\ \A w \in Worker : worker[w] \in {"next", "exited"}
  <2>1. /\ jobs = << >> /\ \A w \in Worker : job[w] = NoDatabase
        /\ \A x \in Waiter : drain[x] \notin {"join", "outcome"}
    BY <1>1 DEF DropperInv, Retained, RetainedByJob
  <2>2. \A w \in Worker : worker[w] \in {"next", "exited"}
    BY <1>1, <2>1 DEF JobAssigned
  <2>3. ~failure_delivery_in_flight
    BY <1>1, <2>1 DEF BarrierInv, Delivery
  <2>4. \A d \in Database : Settled(d)
    BY <2>1, DistinctAssumption DEF Settled, Queued
  <2>5. \A n \in 1 .. next_sequence : Recorded(n)
    <3> SUFFICES ASSUME NEW n \in 1 .. next_sequence PROVE Recorded(n)
      OBVIOUS
    <3>1. PICK d \in Database : sequence[d] = n
      BY <1>1 DEF BarrierInv, JobInv, Sequenced
    <3> QED
      BY <1>1, <2>4, <3>1, PrefixMeans DEF BarrierInv, Done
  <2>6. completed_through >= next_sequence
    <3>1. completed_through \in Nat /\ next_sequence \in Nat
      BY <1>1 DEF TypeOK
    <3>2. completed_through + 1 \notin completed_out_of_order
      BY <1>1 DEF BarrierInv, CompletedPrefix
    <3>3. ASSUME completed_through < next_sequence PROVE FALSE
      <4>1. completed_through + 1 \in 1 .. next_sequence
        BY <3>1, <3>3
      <4> QED
        BY <2>5, <3>1, <3>2, <4>1 DEF Recorded
    <3> QED
      BY <3>1, <3>3
  <2> QED
    BY <2>2, <2>3, <2>6 DEF BarrierReached
<1>2. TypeOK /\ JobAssigned /\ DropperInv /\ BarrierInv => QueueOutlivesWork
  BY <1>1 DEF QueueOutlivesWork
<1> QED
  BY TypeCorrect, OwnersKept, BarrierInvariant, <1>2, PTL

-----------------------------------------------------------------------------
(***************************************************************************)
(* How many databases there can be.  A lease keeps its permit up to its    *)
(* submission, and beyond it unless it is deferred; deferred ones wait for *)
(* room in the queue.                                                      *)
(***************************************************************************)
DeferredQueue == {d \in Lease : Queued(d) /\ mode[d] = "deferred"}

PermitInv ==
    /\ \A d \in Lease : lease[d] \in {"admitted", "creating", "live", "submit"} => d \in permits
    /\ \A d \in Lease : Queued(d) /\ mode[d] # "deferred" => d \in permits
    /\ \A d \in Database : lease[d] = "accepted" => mode[d] = "deferred"
    /\ Cardinality(DeferredQueue) <= Capacity

\* The databases that exist or may still come into existence.
Potential == (stored \cap Lease) \cup {d \in Lease : lease[d] \in {"admitted", "creating"}}

Bound == MaxLeases + Cardinality(Worker) + Capacity

\* What the permits and the queue bound, as long as admission is open.
OpenBound == ~admission_closed => Cardinality(Potential) <= Bound

\* Fewer deferred jobs in the queue stay within its capacity.
LEMMA FewerDeferred ==
    ASSUME PermitInv, DeferredQueue' \subseteq DeferredQueue
    PROVE  Cardinality(DeferredQueue') <= Capacity
<1>1. IsFiniteSet(DeferredQueue)
  BY FS_Subset, FiniteAssumption DEF DeferredQueue
<1>2. /\ Cardinality(DeferredQueue') <= Cardinality(DeferredQueue)
      /\ IsFiniteSet(DeferredQueue')
  BY <1>1, FS_Subset
<1>3. Cardinality(DeferredQueue') \in Nat /\ Cardinality(DeferredQueue) \in Nat
  BY <1>1, <1>2, FS_CardinalityType
<1> QED
  BY <1>2, <1>3, SizesAssumption DEF PermitInv

\* The queue is no shorter than the set of databases in it.
LEMMA DeferredCounted ==
    ASSUME jobs \in Seq(Database)
    PROVE  /\ IsFiniteSet(DeferredQueue) /\ Cardinality(DeferredQueue) \in Nat
           /\ Cardinality(DeferredQueue) <= Len(jobs)
<1> DEFINE All == {jobs[i] : i \in 1 .. Len(jobs)}
<1>1. Len(jobs) \in Nat
  OBVIOUS
<1>2. IsFiniteSet(1 .. Len(jobs)) /\ Cardinality(1 .. Len(jobs)) = Len(jobs)
  <2>1. IsFiniteSet(1 .. Len(jobs)) /\ Cardinality(1 .. Len(jobs)) =
          IF 1 > Len(jobs) THEN 0 ELSE Len(jobs) - 1 + 1
    BY <1>1, FS_Interval
  <2> QED
    BY <1>1, <2>1
<1>3. IsFiniteSet(All) /\ Cardinality(All) <= Len(jobs)
  <2> DEFINE f == [i \in 1 .. Len(jobs) |-> jobs[i]]
  <2>1. f \in Surjection(1 .. Len(jobs), All)
    BY DEF Surjection
  <2> QED
    BY <1>2, <2>1, FS_Surjection
<1>4. DeferredQueue \subseteq All
  BY DEF DeferredQueue, Queued
<1>5. IsFiniteSet(DeferredQueue) /\ Cardinality(DeferredQueue) <= Cardinality(All)
  BY <1>3, <1>4, FS_Subset
<1>6. Cardinality(DeferredQueue) \in Nat /\ Cardinality(All) \in Nat
  BY <1>3, <1>5, FS_CardinalityType
<1> QED
  BY <1>1, <1>3, <1>5, <1>6

\* Every step keeps a permit with each lease up to its submission.
LEMMA PermitStep ==
    ASSUME TypeOK, TypeOK', JobAssigned, JobInv, PermitInv, [Next]_vars
    PROVE  PermitInv'
<1>0. Lease \subseteq Database
  BY DEF Database
<1>1. ASSUME UNCHANGED <<lease, permits, mode, jobs>> PROVE PermitInv'
  BY <1>1 DEF PermitInv, DeferredQueue, Queued
<1>2. CASE ApplicationStep
  <2>1. UNCHANGED jobs /\ permits \subseteq permits'
    BY <1>2 DEF ApplicationStep, Acquire, BeginPrewarm, BeginSubmit, BeginDrain, BeginShutdown,
                ReleaseHandle, submissionVars, admissionVars
  <2>2. \A d \in Lease : lease'[d] \in {"admitted", "creating", "live", "submit"} =>
           lease[d] \in {"admitted", "creating", "live", "submit"} \/ d \in permits'
    <3>1. ASSUME NEW d \in Database, Acquire(d)
          PROVE  d \in permits' /\ \A e \in Database \ {d} : lease'[e] = lease[e]
      BY <3>1 DEF Acquire, TypeOK
    <3>2. ASSUME NEW d \in Database, BeginPrewarm(d)
          PROVE  d \notin Lease /\ \A e \in Database \ {d} : lease'[e] = lease[e]
      BY <3>2, DistinctAssumption DEF BeginPrewarm, TypeOK
    <3>3. ASSUME NEW d \in Database, BeginSubmit(d)
          PROVE  lease[d] = "live" /\ \A e \in Database \ {d} : lease'[e] = lease[e]
      BY <3>3 DEF BeginSubmit, TypeOK
    <3>4. CASE lease' = lease
      BY <3>4
    <3> QED
      BY <1>0, <1>2, <3>1, <3>2, <3>3, <3>4 DEF ApplicationStep, BeginDrain, BeginShutdown,
         ReleaseHandle, leaseVars
  <2>3. \A d \in Database : Queued(d) \/ lease[d] = "accepted" => mode'[d] = mode[d]
    BY <1>2, ApplicationMoves DEF JobInv, JobsOnce, Sequenced
  <2>4. \A d \in Database : lease'[d] = "accepted" => lease[d] = "accepted"
    BY <1>2 DEF ApplicationStep, Acquire, BeginPrewarm, BeginSubmit, BeginDrain, BeginShutdown,
                ReleaseHandle, leaseVars, TypeOK
  <2>5. \A d \in Database : Queued(d)' <=> Queued(d)
    BY <2>1 DEF Queued
  <2>6. DeferredQueue' \subseteq DeferredQueue
    BY <1>0, <2>3, <2>5 DEF DeferredQueue
  <2>7. Cardinality(DeferredQueue') <= Capacity
    BY <2>6, FewerDeferred
  <2>8. \A d \in Database : lease'[d] = "accepted" => mode'[d] = "deferred"
    BY <2>3, <2>4 DEF PermitInv
  <2>9. \A d \in Lease : Queued(d)' /\ mode'[d] # "deferred" => d \in permits'
    BY <1>0, <2>1, <2>3, <2>5 DEF PermitInv
  <2> QED
    BY <2>1, <2>2, <2>7, <2>8, <2>9 DEF PermitInv
<1>3. ASSUME NEW d \in Database, SubmitterStep(d) PROVE PermitInv'
  <2>0. mode' = mode
    BY <1>3, SubmitterFrame
  <2>1. CASE EnqueueAccept(d)
    <3>1. /\ jobs \in Seq(Database) /\ jobs' = Append(jobs, d)
          /\ UNCHANGED permits /\ lease[d] = "submit" /\ (Backpressured(d) => Len(jobs) < Capacity)
          /\ lease'[d] = IF mode[d] = "deferred" THEN "accepted" ELSE "submitted"
          /\ \A e \in Database \ {d} : lease'[e] = lease[e]
      BY <2>1 DEF EnqueueAccept, admissionVars, TypeOK
    <3>2. \A e \in Database : Queued(e)' <=> Queued(e) \/ e = d
      BY <3>1, QueuedAppend
    <3>3. Cardinality(DeferredQueue') <= Capacity
      <4>1. CASE mode[d] = "deferred"
        <5>1. /\ IsFiniteSet(DeferredQueue) /\ Cardinality(DeferredQueue) \in Nat
              /\ Cardinality(DeferredQueue) <= Len(jobs) /\ Len(jobs) < Capacity
              /\ Len(jobs) \in Nat
          BY <3>1, <4>1, DeferredCounted DEF Backpressured
        <5>2. DeferredQueue' \subseteq DeferredQueue \cup {d}
          BY <1>0, <2>0, <3>2 DEF DeferredQueue
        <5>3. /\ IsFiniteSet(DeferredQueue \cup {d})
              /\ Cardinality(DeferredQueue \cup {d})
                    \in {Cardinality(DeferredQueue), Cardinality(DeferredQueue) + 1}
          BY <5>1, FS_AddElement
        <5>4. /\ IsFiniteSet(DeferredQueue')
              /\ Cardinality(DeferredQueue') <= Cardinality(DeferredQueue \cup {d})
          BY <5>2, <5>3, FS_Subset
        <5>5. Cardinality(DeferredQueue') \in Nat
          BY <5>4, FS_CardinalityType
        <5> QED
          BY <5>1, <5>3, <5>4, <5>5, SizesAssumption
      <4>2. CASE mode[d] # "deferred"
        <5>1. DeferredQueue' \subseteq DeferredQueue
          BY <1>0, <2>0, <3>2, <4>2 DEF DeferredQueue
        <5> QED
          BY <5>1, FewerDeferred
      <4> QED
        BY <4>1, <4>2
    <3>4. \A e \in Lease : lease'[e] \in {"admitted", "creating", "live", "submit"} => e \in permits'
      BY <1>0, <3>1 DEF PermitInv
    <3>5. \A e \in Lease : Queued(e)' /\ mode'[e] # "deferred" => e \in permits'
      BY <1>0, <2>0, <3>1, <3>2 DEF PermitInv
    <3>6. \A e \in Database : lease'[e] = "accepted" => mode'[e] = "deferred"
      BY <2>0, <3>1 DEF PermitInv
    <3> QED
      BY <3>3, <3>4, <3>5, <3>6 DEF PermitInv
  <2>2. CASE ~EnqueueAccept(d)
    <3>1. UNCHANGED jobs /\ \A e \in Database \ {d} : lease'[e] = lease[e]
      BY <1>3, <2>2, LeaseMoves
    <3>2. permits' = permits \/ permits' = permits \ {d}
      BY <1>3, <2>2 DEF SubmitterStep, EnsureOpen, CreateDatabase, EnqueueWait, EnqueueClosed,
         ReleaseDeferredPermit, admissionVars
    <3>3. /\ lease'[d] # "accepted" \/ lease'[d] = lease[d]
          /\ lease'[d] \in {"admitted", "creating", "live", "submit"} =>
                /\ permits' = permits
                /\ lease[d] \in {"admitted", "creating", "live", "submit"}
          /\ permits' = permits \/ lease[d] \in {"admitted", "creating", "submit", "accepted"}
      BY <1>3, <2>2 DEF SubmitterStep, EnsureOpen, CreateDatabase, EnqueueWait, EnqueueClosed,
         ReleaseDeferredPermit, admissionVars, leaseVars, TypeOK
    <3>4. DeferredQueue' = DeferredQueue /\ \A e \in Database : Queued(e)' <=> Queued(e)
      BY <2>0, <3>1 DEF DeferredQueue, Queued
    <3>5. lease[d] \in {"admitted", "creating", "submit"} => ~Queued(d)
      BY DEF JobInv, JobsOnce, Sequenced
    <3>6. \A e \in Lease : Queued(e)' /\ mode'[e] # "deferred" => e \in permits'
      BY <1>0, <2>0, <3>2, <3>3, <3>4, <3>5 DEF PermitInv
    <3>7. \A e \in Lease : lease'[e] \in {"admitted", "creating", "live", "submit"} => e \in permits'
      BY <1>0, <3>1, <3>2, <3>3 DEF PermitInv
    <3>8. \A e \in Database : lease'[e] = "accepted" => mode'[e] = "deferred"
      BY <2>0, <3>1, <3>3 DEF PermitInv
    <3> QED
      BY <3>4, <3>6, <3>7, <3>8 DEF PermitInv
  <2> QED
    BY <2>1, <2>2
<1>4. ASSUME NEW d \in Database, ReceiverStep(d) PROVE PermitInv'
  BY <1>1, <1>4, ReceiverFrame DEF jobVars, admissionVars
<1>5. ASSUME NEW w \in Worker, WorkerStep(w) PROVE PermitInv'
  <2>0. UNCHANGED <<lease, mode>>
    BY <1>5, WorkerFrame
  <2>1. CASE NextJob(w)
    <3>1. \A e \in Database : Queued(e)' => Queued(e)
      BY <2>1, NextJobFacts DEF JobInv
    <3>2. permits' = permits
      BY <2>1 DEF NextJob, admissionVars
    <3>3. DeferredQueue' \subseteq DeferredQueue
      BY <1>0, <2>0, <3>1 DEF DeferredQueue
    <3>4. Cardinality(DeferredQueue') <= Capacity
      BY <3>3, FewerDeferred
    <3> QED
      BY <1>0, <2>0, <3>1, <3>2, <3>4 DEF PermitInv
  <2>2. CASE ReleasePermit(w)
    <3>1. /\ jobs' = jobs /\ worker[w] = "release"
          /\ permits' = permits \/ permits' = permits \ {job[w]}
      BY <2>2 DEF ReleasePermit, submissionVars
    <3>2. job[w] \in Database /\ sequence[job[w]] > 0 /\ ~Queued(job[w])
      BY <3>1, RunningHasJob, DistinctAssumption DEF JobInv, JobsOnce
    <3>3. lease[job[w]] \in {"accepted", "submitted"}
      BY <3>2 DEF JobInv, Sequenced
    <3>4. DeferredQueue' = DeferredQueue /\ \A e \in Database : Queued(e)' <=> Queued(e)
      BY <2>0, <3>1 DEF DeferredQueue, Queued
    <3> QED
      BY <1>0, <2>0, <3>1, <3>2, <3>3, <3>4 DEF PermitInv
  <2>3. CASE ~NextJob(w) /\ ~ReleasePermit(w)
    <3>1. UNCHANGED <<jobs, permits>>
      BY <1>5, <2>3 DEF WorkerStep, NextJobExit, NextJobWait, RunOperation,
         CloseDatabaseAdmission, SendOutcome, Complete, DropQueueGuard, submissionVars,
         admissionVars
    <3> QED
      BY <1>1, <2>0, <3>1
  <2> QED
    BY <2>1, <2>2, <2>3
<1>6. ASSUME NEW x \in Waiter, DrainStep(x) PROVE PermitInv'
  BY <1>1, <1>6, DrainFrame DEF jobVars, admissionVars
<1>7. CASE Other
  BY <1>1, <1>7, OtherFrame DEF jobVars, admissionVars
<1> QED
  BY <1>2, <1>3, <1>4, <1>5, <1>6, <1>7, Threads

\* While admission is open, every database that exists or may come into
\* existence has a permit, waits deferred in the queue, or is a worker's.
LEMMA OpenPotential ==
    ASSUME TypeOK, PermitInv, OrphanInv, ~admission_closed
    PROVE  Cardinality(Potential) <= Bound
<1> DEFINE Jobs == {job[w] : w \in Worker}
<1>1. Potential \subseteq (permits \cup DeferredQueue) \cup Jobs
  <2> SUFFICES ASSUME NEW d \in Potential, d \notin Jobs PROVE d \in permits \cup DeferredQueue
    OBVIOUS
  <2>1. d \in Lease /\ d \in Database
    BY DEF Potential, Database
  <2>2. CASE lease[d] \in {"admitted", "creating", "live", "submit"}
    BY <2>1, <2>2 DEF PermitInv
  <2>3. CASE d \in stored /\ lease[d] \notin {"live", "submit"}
    <3>1. Queued(d)
      BY <2>3 DEF OrphanInv, InCleanup
    <3> QED
      BY <2>1, <3>1 DEF PermitInv, DeferredQueue
  <2> QED
    BY <2>2, <2>3 DEF Potential
<1>2. IsFiniteSet(Jobs) /\ Cardinality(Jobs) <= Cardinality(Worker)
  <2> DEFINE f == [w \in Worker |-> job[w]]
  <2>1. f \in Surjection(Worker, Jobs)
    BY DEF Surjection
  <2> QED
    BY <2>1, FS_Surjection, FiniteAssumption
<1>3. IsFiniteSet(permits) /\ Cardinality(permits) <= MaxLeases
  BY FS_Subset, FiniteAssumption DEF TypeOK
<1>4. IsFiniteSet(DeferredQueue) /\ Cardinality(DeferredQueue) <= Capacity
  BY FS_Subset, FiniteAssumption DEF DeferredQueue, PermitInv
<1> DEFINE A == permits \cup DeferredQueue
<1>5. /\ IsFiniteSet(A)
      /\ Cardinality(A) = Cardinality(permits) + Cardinality(DeferredQueue)
                             - Cardinality(permits \cap DeferredQueue)
  BY <1>3, <1>4, FS_Union
<1>6. /\ IsFiniteSet(A \cup Jobs)
      /\ Cardinality(A \cup Jobs) = Cardinality(A) + Cardinality(Jobs) - Cardinality(A \cap Jobs)
  BY <1>2, <1>5, FS_Union
<1>7. /\ IsFiniteSet(permits \cap DeferredQueue) /\ IsFiniteSet(A \cap Jobs)
  BY <1>2, <1>3, FS_Subset
<1>8. IsFiniteSet(Potential) /\ Cardinality(Potential) <= Cardinality(A \cup Jobs)
  BY <1>1, <1>6, FS_Subset
<1>9. /\ Cardinality(permits) \in Nat /\ Cardinality(DeferredQueue) \in Nat
      /\ Cardinality(Jobs) \in Nat /\ Cardinality(A) \in Nat /\ Cardinality(A \cup Jobs) \in Nat
      /\ Cardinality(permits \cap DeferredQueue) \in Nat /\ Cardinality(A \cap Jobs) \in Nat
      /\ Cardinality(Potential) \in Nat /\ Cardinality(Worker) \in Nat
  BY <1>2, <1>3, <1>4, <1>5, <1>6, <1>7, <1>8, FS_CardinalityType, FiniteAssumption
<1> HIDE DEF A, Jobs
<1>10. Cardinality(A) <= MaxLeases + Capacity
  BY <1>3, <1>4, <1>5, <1>9, SizesAssumption
<1>11. Cardinality(A \cup Jobs) <= MaxLeases + Capacity + Cardinality(Worker)
  BY <1>2, <1>6, <1>9, <1>10, SizesAssumption
<1> QED
  BY <1>8, <1>9, <1>11, SizesAssumption DEF Bound

\* Only Acquire makes a database possible that was not, and a creation that
\* was let through may become a stored database.
LEMMA PotentialShrinks ==
    ASSUME TypeOK, JobAssigned, [Next]_vars, ~ \E d \in Database : Acquire(d)
    PROVE  Potential' \subseteq Potential
<1>0. Lease \subseteq Database
  BY DEF Database
<1>1. ASSUME stored' \subseteq stored,
             \A d \in Lease : lease'[d] \in {"admitted", "creating"} =>
                lease[d] \in {"admitted", "creating"}
      PROVE  Potential' \subseteq Potential
  BY <1>1 DEF Potential
<1>2. CASE ApplicationStep
  BY <1>0, <1>1, <1>2, DistinctAssumption DEF ApplicationStep, BeginPrewarm, BeginSubmit,
     BeginDrain, BeginShutdown, ReleaseHandle, admissionVars, leaseVars, TypeOK
<1>3. ASSUME NEW d \in Database, SubmitterStep(d) PROVE Potential' \subseteq Potential
  <2>1. CASE CreateDatabase(d)
    <3>1. /\ lease[d] = "creating" /\ stored' \subseteq stored \cup {d}
          /\ lease'[d] \in {"live", "failed"}
          /\ \A e \in Database \ {d} : lease'[e] = lease[e]
      BY <2>1 DEF CreateDatabase, TypeOK
    <3> QED
      BY <1>0, <3>1 DEF Potential
  <2>2. CASE \/ EnsureOpen(d) \/ EnqueueWait(d) \/ EnqueueClosed(d) \/ EnqueueAccept(d)
             \/ ReleaseDeferredPermit(d)
    BY <1>0, <1>1, <2>2 DEF EnsureOpen, EnqueueWait, EnqueueClosed, EnqueueAccept,
       ReleaseDeferredPermit, admissionVars, leaseVars, TypeOK
  <2> QED
    BY <1>3, <2>1, <2>2 DEF SubmitterStep
<1>4. ASSUME NEW w \in Worker, WorkerStep(w) PROVE Potential' \subseteq Potential
  <2>1. stored' \subseteq stored
    BY <1>4 DEF WorkerStep, NextJob, NextJobExit, NextJobWait, RunOperation, ReleasePermit,
       CloseDatabaseAdmission, SendOutcome, Complete, DropQueueGuard, admissionVars
  <2> QED
    BY <1>1, <1>4, <2>1, WorkerFrame
<1>5. ASSUME NEW d \in Database, ReceiverStep(d) PROVE Potential' \subseteq Potential
  BY <1>1, <1>5, ReceiverFrame DEF jobVars, admissionVars
<1>6. ASSUME NEW x \in Waiter, DrainStep(x) PROVE Potential' \subseteq Potential
  BY <1>1, <1>6, DrainFrame DEF jobVars, admissionVars
<1>7. CASE Other
  BY <1>1, <1>7, OtherFrame DEF jobVars, admissionVars
<1> QED
  BY <1>2, <1>3, <1>4, <1>5, <1>6, <1>7, Threads

\* The permits account for the leases, in every reachable state.
LEMMA PermitsKept == Spec => []PermitInv
<1>1. Init => PermitInv
  <2> SUFFICES ASSUME Init PROVE PermitInv
    OBVIOUS
  <2>1. /\ jobs = << >> /\ Len(jobs) = 0
        /\ \A d \in Database : lease[d] = "unused"
    BY DEF Init
  <2>2. DeferredQueue = {} /\ \A d \in Lease : ~Queued(d)
    BY <2>1 DEF DeferredQueue, Queued, Database
  <2>3. Cardinality(DeferredQueue) <= Capacity
    BY <2>2, FS_EmptySet, SizesAssumption
  <2> QED
    BY <2>1, <2>2, <2>3 DEF PermitInv, Database
<1>2. BarrierInv => JobInv
  BY DEF BarrierInv
<1> QED
  BY TypeCorrect, BarrierInvariant, PermitStep, <1>1, <1>2, PTL DEF Spec

\* docs/operations.md, for any numbers of leases, workers and slots in the
\* queue: at most L + W + Q leased databases exist, also when drops fail.
THEOREM StorageIsBounded == Spec => []StorageBound
<1>1. Init => Cardinality(Potential) <= Bound
  <2> SUFFICES ASSUME Init PROVE Cardinality(Potential) <= Bound
    OBVIOUS
  <2>1. Potential = {}
    BY DEF Init, Potential, Database
  <2>2. Cardinality(Worker) \in Nat /\ Cardinality({}) = 0
    BY FS_EmptySet, FS_CardinalityType, FiniteAssumption
  <2> QED
    BY <2>1, <2>2, SizesAssumption DEF Bound
<1>2. TypeOK /\ PermitInv /\ OrphanInv => OpenBound
  BY OpenPotential DEF OpenBound
<1>3. ASSUME TypeOK, JobAssigned, OpenBound', Cardinality(Potential) <= Bound, [Next]_vars
      PROVE  (Cardinality(Potential) <= Bound)'
  <2>1. CASE ~ \E d \in Database : Acquire(d)
    <3>1. Potential' \subseteq Potential
      BY <1>3, <2>1, PotentialShrinks
    <3>2. IsFiniteSet(Potential)
      BY FS_Subset, FiniteAssumption DEF Potential
    <3>3. IsFiniteSet(Potential') /\ Cardinality(Potential') <= Cardinality(Potential)
      BY <3>1, <3>2, FS_Subset
    <3>4. Cardinality(Potential') \in Nat /\ Cardinality(Potential) \in Nat
          /\ Bound \in Nat /\ Bound' = Bound
      BY <3>2, <3>3, FS_CardinalityType, FiniteAssumption, SizesAssumption DEF Bound
    <3> QED
      BY <1>3, <3>3, <3>4
  <2>2. CASE \E d \in Database : Acquire(d)
    <3>1. ~admission_closed'
      BY <2>2 DEF Acquire
    <3> QED
      BY <1>3, <3>1 DEF OpenBound
  <2> QED
    BY <2>1, <2>2
<1>4. TypeOK /\ Cardinality(Potential) <= Bound => StorageBound
  <2> SUFFICES ASSUME TypeOK, Cardinality(Potential) <= Bound PROVE StorageBound
    OBVIOUS
  <2>1. IsFiniteSet(Potential) /\ stored \cap Lease \subseteq Potential
    BY FS_Subset, FiniteAssumption DEF Potential
  <2>2. IsFiniteSet(stored \cap Lease) /\ Cardinality(stored \cap Lease) <= Cardinality(Potential)
    BY <2>1, FS_Subset
  <2>3. Cardinality(stored \cap Lease) \in Nat /\ Cardinality(Potential) \in Nat /\ Bound \in Nat
    BY <2>1, <2>2, FS_CardinalityType, FiniteAssumption, SizesAssumption DEF Bound
  <2>4. Cardinality(stored \cap Lease) <= Bound
    BY <2>2, <2>3
  <2> QED
    BY <2>4 DEF StorageBound, Bound
<1> QED
  BY TypeCorrect, OwnersKept, PermitsKept, <1>1, <1>2, <1>3, <1>4, PTL DEF Spec

-----------------------------------------------------------------------------
(***************************************************************************)
(* The queue implements CleanupService.  Two facts are needed beyond the   *)
(* invariant of the barriers: drains only get errors that nobody awaits,   *)
(* and the destructor closes the queue before anything else.               *)
(***************************************************************************)
AwaitedFirst ==
    /\ \A d \in Database : sequence[d] > 0 /\ mode[d] = "awaited" => oneshot[d] # "none"
    /\ \A d \in Database : failures[d] > 0 \/ Held(d) =>
          mode[d] # "awaited" \/ oneshot[d] = "cancelled"

ClosedFirst == drop_stage # "close" => closed

\* Only an accepted job whose operation failed has an error somewhere.
LEMMA ErrorsFailed ==
    ASSUME TypeOK, JobInv, ExactlyOnce, NEW d \in Database,
           failures[d] > 0 \/ Held(d) \/ Told(d)
    PROVE  Failed(d) /\ sequence[d] > 0
<1>1. /\ failures[d] \in Nat /\ reported[d] \in Nat /\ logged[d] \in Nat
      /\ sequence[d] \in Nat
  BY DEF TypeOK
<1>2. Balanced(d)
  BY OnceMeans
<1>3. Failed(d)
  <2> SUFFICES ASSUME ~Failed(d) PROVE FALSE
    OBVIOUS
  <2>1. PICK held \in Nat : held = Count(Held(d)) /\ (Held(d) => held = 1)
    BY DEF Count
  <2>2. Count(Failed(d)) = 0 /\ Count(Working(d)) = 0 /\ Count(Sent(d)) = 0
    BY DEF Count, Working, Sent
  <2>3. 0 = failures[d] + held + reported[d] + logged[d]
    BY <1>1, <1>2, <2>1, <2>2 DEF Balanced
  <2>4. failures[d] = 0 /\ held = 0 /\ reported[d] + logged[d] = 0
    BY <1>1, <2>1, <2>3
  <2> QED
    BY <2>1, <2>4 DEF Told
<1>4. sequence[d] # 0
  BY <1>3 DEF Failed, JobInv, Outcomes
<1> QED
  BY <1>1, <1>3, <1>4

\* An error that waits in the channel of its caller is nowhere else.
LEMMA SentUntold ==
    ASSUME TypeOK, ExactlyOnce, NEW d \in Database, Sent(d)
    PROVE  Failed(d) /\ ~Told(d)
<1>1. failures[d] \in Nat /\ reported[d] \in Nat /\ logged[d] \in Nat
  BY DEF TypeOK
<1>2. Balanced(d) /\ Failed(d)
  BY OnceMeans DEF Sent
<1> QED
  BY <1>1, <1>2 DEF Balanced, Count, Told

\* A step of a drain moves errors between the retained ones and the drains.
LEMMA DrainKeeps ==
    ASSUME TypeOK, NEW x \in Waiter, DrainStep(x), NEW d \in Database,
           (failures[d] > 0 \/ Held(d))'
    PROVE  failures[d] > 0 \/ Held(d)
<1>1. failures[d] \in Nat /\ \A y \in Waiter : taken[y][d] \in Nat
  BY DEF TypeOK
<1>2. CASE FixTarget(x) \/ WaitForBarrier(x) \/ JoinWorkers(x)
  BY <1>2 DEF FixTarget, WaitForBarrier, JoinWorkers, completionVars, drainVars, Held
<1>3. CASE WaitAndTake(x)
  <2>1. /\ \A y \in Waiter \ {x} : taken'[y] = taken[y]
        /\ taken'[x][d] \in {failures[d], 0} /\ failures'[d] \in {failures[d], 0}
    BY <1>3 DEF WaitAndTake, TypeOK
  <2> QED
    BY <1>1, <2>1 DEF Held
<1>4. CASE FinishDrain(x) \/ DropDrainOutcome(x)
  <2>1. /\ \A y \in Waiter \ {x} : taken'[y] = taken[y]
        /\ taken'[x] = NoFailures
        /\ failures'[d] \in {failures[d], failures[d] + taken[x][d]}
    BY <1>4 DEF FinishDrain, DropDrainOutcome, TypeOK
  <2>2. taken'[x][d] = 0
    BY <2>1 DEF NoFailures
  <2> QED
    BY <1>1, <2>1, <2>2 DEF Held
<1> QED
  BY <1>2, <1>3, <1>4 DEF DrainStep

\* An error is retained for drains when its caller never waited or gave up.
LEMMA AwaitedFirstStep ==
    ASSUME TypeOK, JobAssigned, JobInv, ExactlyOnce, AwaitedFirst, [Next]_vars
    PROVE  AwaitedFirst'
<1>1. ASSUME UNCHANGED <<sequence, mode, oneshot>>,
             \A d \in Database : (failures[d] > 0 \/ Held(d))' => failures[d] > 0 \/ Held(d)
      PROVE  AwaitedFirst'
  BY <1>1 DEF AwaitedFirst
<1>2. CASE ApplicationStep
  <2>1. \A d \in Database : sequence[d] > 0 => mode'[d] = mode[d]
    BY <1>2, ApplicationMoves DEF JobInv, Sequenced
  <2>2. UNCHANGED <<sequence, oneshot, failures, taken>>
    BY <1>2, ApplicationFrame
  <2>3. ASSUME NEW d \in Database, (failures[d] > 0 \/ Held(d))'
        PROVE  (mode[d] # "awaited" \/ oneshot[d] = "cancelled")'
    <3>1. failures[d] > 0 \/ Held(d)
      BY <2>2, <2>3 DEF Held
    <3> QED
      BY <2>1, <2>2, <3>1, ErrorsFailed DEF AwaitedFirst
  <2> QED
    BY <2>1, <2>2, <2>3 DEF AwaitedFirst
<1>3. ASSUME NEW d \in Database, SubmitterStep(d) PROVE AwaitedFirst'
  <2>1. UNCHANGED <<mode, failures, taken>>
    BY <1>3, SubmitterFrame
  <2>2. CASE EnqueueAccept(d)
    <3>1. /\ \A e \in Database \ {d} : sequence'[e] = sequence[e] /\ oneshot'[e] = oneshot[e]
          /\ sequence[d] = 0
      BY <2>2, AcceptFacts DEF JobInv
    <3>2. mode[d] = "awaited" => oneshot'[d] # "none"
      BY <2>2 DEF EnqueueAccept, TypeOK
    <3>3. ~(failures[d] > 0 \/ Held(d))
      BY <3>1, ErrorsFailed
    <3>4. \A e \in Database : (failures[e] > 0 \/ Held(e))' <=> failures[e] > 0 \/ Held(e)
      BY <2>1 DEF Held
    <3> QED
      BY <2>1, <3>1, <3>2, <3>3, <3>4 DEF AwaitedFirst
  <2> QED
    BY <1>1, <1>3, <2>1, <2>2, LeaseMoves DEF Held
<1>4. ASSUME NEW d \in Database, ReceiverStep(d) PROVE AwaitedFirst'
  <2>1. UNCHANGED <<sequence, mode, taken>>
    BY <1>4, ReceiverFrame DEF jobVars
  <2>2. \A e \in Database \ {d} : oneshot'[e] = oneshot[e] /\ failures'[e] = failures[e]
    BY <1>4 DEF ReceiverStep, ReceiveOutcome, CancelAwait, DropOutcome, completionVars, TypeOK
  <2>3. \/ oneshot[d] = "sent" /\ oneshot'[d] = "consumed" /\ failures'[d] = failures[d]
        \/ oneshot'[d] = "cancelled"
    BY <1>4 DEF ReceiverStep, ReceiveOutcome, CancelAwait, completionVars, TypeOK
  <2>4. \A e \in Database : Held(e)' <=> Held(e)
    BY <2>1 DEF Held
  <2> QED
    BY <2>1, <2>2, <2>3, <2>4 DEF AwaitedFirst
<1>5. ASSUME NEW w \in Worker, WorkerStep(w) PROVE AwaitedFirst'
  <2>1. UNCHANGED <<sequence, mode, taken>>
    BY <1>5, WorkerFrame
  <2>2. CASE SendOutcome(w)
    <3>1. job[w] \in Database /\ worker[w] = "send"
      BY <2>2, RunningHasJob DEF SendOutcome
    <3>2. PICK d \in Database : d = job[w]
      BY <3>1
    <3>3. mode[d] = "awaited" /\ sequence[d] > 0
      BY <3>1, <3>2, DistinctAssumption DEF JobInv, Outcomes, JobsOnce
    <3>4. oneshot[d] \in {"open", "cancelled"}
      BY <3>1, <3>2, <3>3 DEF JobInv, SentLate, AwaitedFirst, TypeOK, OneshotState
    <3>5. /\ \A e \in Database \ {d} : oneshot'[e] = oneshot[e] /\ failures'[e] = failures[e]
          /\ \/ oneshot[d] = "open" /\ oneshot'[d] = "sent" /\ failures'[d] = failures[d]
             \/ oneshot[d] # "open" /\ oneshot'[d] = oneshot[d]
      BY <2>2, <3>2 DEF SendOutcome, DropOutcome, TypeOK
    <3>6. \A e \in Database : Held(e)' <=> Held(e)
      BY <2>1 DEF Held
    <3> QED
      BY <2>1, <3>4, <3>5, <3>6 DEF AwaitedFirst
  <2>3. CASE Complete(w)
    <3>1. /\ oneshot' = oneshot
          /\ \A e \in Database : failures'[e] = failures[e] \/ mode[e] # "awaited"
      BY <2>3 DEF Complete, leaseVars, TypeOK
    <3>2. \A e \in Database : Held(e)' <=> Held(e)
      BY <2>1 DEF Held
    <3> QED
      BY <2>1, <3>1, <3>2 DEF AwaitedFirst
  <2>4. CASE \/ NextJob(w) \/ NextJobExit(w) \/ NextJobWait(w) \/ RunOperation(w)
             \/ CloseDatabaseAdmission(w) \/ ReleasePermit(w) \/ DropQueueGuard(w)
    <3>1. UNCHANGED <<oneshot, failures>>
      BY <2>4 DEF NextJob, NextJobExit, NextJobWait, RunOperation, CloseDatabaseAdmission,
                  ReleasePermit, DropQueueGuard, leaseVars, completionVars
    <3> QED
      BY <1>1, <2>1, <3>1 DEF Held
  <2> QED
    BY <1>5, <2>2, <2>3, <2>4 DEF WorkerStep
<1>6. ASSUME NEW x \in Waiter, DrainStep(x) PROVE AwaitedFirst'
  <2>1. UNCHANGED <<sequence, mode, oneshot>>
    BY <1>6, DrainFrame DEF jobVars
  <2> QED
    BY <1>1, <1>6, <2>1, DrainKeeps
<1>7. CASE Other
  <2>1. UNCHANGED <<sequence, mode, oneshot, taken>>
    BY <1>7, OtherFrame DEF jobVars
  <2>2. \A d \in Database : failures'[d] \in {failures[d], 0}
    BY <1>7, OtherFrame DEF DropTake, NoFailures
  <2> QED
    BY <1>1, <2>1, <2>2 DEF Held
<1> QED
  BY <1>2, <1>3, <1>4, <1>5, <1>6, <1>7, Threads

\* Nothing opens the queue again, and its destructor begins by closing it.
LEMMA ClosedFirstStep ==
    ASSUME TypeOK, ClosedFirst, [Next]_vars
    PROVE  ClosedFirst' /\ (closed => closed')
<1>1. ASSUME UNCHANGED <<closed, drop_stage>> PROVE ClosedFirst' /\ (closed => closed')
  BY <1>1 DEF ClosedFirst
<1>2. CASE ApplicationStep
  BY <1>1, <1>2 DEF ApplicationStep, Acquire, BeginPrewarm, BeginSubmit, BeginDrain,
                    BeginShutdown, ReleaseHandle, submissionVars
<1>3. ASSUME NEW d \in Database, SubmitterStep(d) PROVE UNCHANGED <<closed, drop_stage>>
  BY <1>3 DEF SubmitterStep, EnsureOpen, CreateDatabase, EnqueueWait, EnqueueClosed,
              EnqueueAccept, ReleaseDeferredPermit, submissionVars
<1>4. ASSUME NEW d \in Database, ReceiverStep(d) PROVE UNCHANGED <<closed, drop_stage>>
  BY <1>4 DEF ReceiverStep, ReceiveOutcome, CancelAwait, submissionVars
<1>5. ASSUME NEW w \in Worker, WorkerStep(w) PROVE UNCHANGED <<closed, drop_stage>>
  BY <1>5 DEF WorkerStep, NextJob, NextJobExit, NextJobWait, RunOperation, SendOutcome,
              CloseDatabaseAdmission, ReleasePermit, Complete, DropQueueGuard, submissionVars
<1>6. ASSUME NEW x \in Waiter, DrainStep(x) PROVE drop_stage' = drop_stage /\ (closed => closed')
  <2>1. CASE FixTarget(x)
    <3>1. CASE x \in Closer
      BY <2>1, <3>1 DEF FixTarget
    <3>2. CASE x \notin Closer
      BY <2>1, <3>2 DEF FixTarget
    <3> QED
      BY <3>1, <3>2
  <2>2. CASE \/ WaitForBarrier(x) \/ WaitAndTake(x) \/ JoinWorkers(x) \/ FinishDrain(x)
             \/ DropDrainOutcome(x)
    <3>1. UNCHANGED <<closed, drop_stage>>
      BY <2>2 DEF WaitForBarrier, WaitAndTake, JoinWorkers, FinishDrain, DropDrainOutcome,
                  submissionVars
    <3> QED
      BY <3>1
  <2> QED
    BY <1>6, <2>1, <2>2 DEF DrainStep
<1>7. CASE Other
  BY <1>7 DEF Other, DropStep, DropClose, DropTake, DropJoin, SpuriousWakeup, Terminated, vars,
              submissionVars, ClosedFirst, TypeOK
<1> QED
  BY <1>1, <1>2, <1>3, <1>4, <1>5, <1>6, <1>7, Threads DEF ClosedFirst

-----------------------------------------------------------------------------
(***************************************************************************)
(* Each step of a thread as a step of the service, or as none.             *)
(***************************************************************************)
ServiceInv == TypeOK /\ JobAssigned /\ DropperInv /\ BarrierInv /\ AwaitedFirst /\ ClosedFirst

\* What is accepted and awaited depends on the numbers, modes and channels.
LEMMA JobsKept ==
    ASSUME UNCHANGED <<sequence, oneshot>>,
           \A d \in Database : sequence[d] > 0 => mode'[d] = mode[d]
    PROVE  UNCHANGED <<Accepted, Awaited>>
BY DEF Accepted, Awaited

LEMMA ErrorsKept ==
    ASSUME UNCHANGED <<outcome, reported, logged>>
    PROVE  UNCHANGED <<UntoldErrors, ToldErrors>>
BY DEF UntoldErrors, ToldErrors, Failed, Told

LEMMA NothingCompletes ==
    ASSUME TypeOK, UNCHANGED worker
    PROVE  ~ \E w \in Worker : Complete(w)
BY DEF Complete, TypeOK

\* Only complete settles a job.
LEMMA SettledKept ==
    ASSUME TypeOK, JobAssigned, JobInv, [Next]_vars, ~ \E w \in Worker : Complete(w)
    PROVE  SettledJobs' = SettledJobs
<1>1. \A d \in Database : Done(d)' <=> Done(d)
  BY DoneStep
<1>2. SettledJobs = {d \in Database : Done(d)} /\ SettledJobs' = {d \in Database : Done(d)'}
  BY DEF SettledJobs, Accepted, Done
<1> QED
  BY <1>1, <1>2

\* The beginning of a drain or of a shutdown is a call of the service; what
\* else the application does, the service does not see.
LEMMA ApplicationServed ==
    ASSUME ServiceInv, [Next]_vars, ApplicationStep
    PROVE  [Service!Next]_(Service!vars)
<1> USE DEF ServiceInv, BarrierInv
<1>1. UNCHANGED <<Accepted, Awaited, SettledJobs, UntoldErrors, ToldErrors, Stopped>>
  <2>1. \A d \in Database : sequence[d] > 0 => mode'[d] = mode[d]
    BY ApplicationMoves DEF JobInv, Sequenced
  <2>2. UNCHANGED <<sequence, oneshot, worker, outcome, reported, logged, drop_stage>>
    BY ApplicationFrame
  <2>3. SettledJobs' = SettledJobs
    BY <2>2, NothingCompletes, SettledKept
  <2> QED
    BY <2>1, <2>2, <2>3, JobsKept, ErrorsKept DEF Stopped
<1>2. closed' = closed
  BY DEF ApplicationStep, Acquire, BeginPrewarm, BeginSubmit, BeginDrain, BeginShutdown,
         ReleaseHandle, submissionVars
<1>3. ASSUME NEW x \in Waiter, BeginDrain(x) \/ BeginShutdown(x)
      PROVE  Service!Next
  <2>1. /\ handle /\ drain[x] = "idle" /\ drain' = [drain EXCEPT ![x] = "lock"]
        /\ before' = [before EXCEPT ![x] = Accepted]
        /\ owed' = [owed EXCEPT ![x] = {d \in Accepted :
                        mode[d] # "awaited" \/ oneshot[d] = "cancelled"}]
    BY <1>3 DEF BeginDrain, BeginShutdown, Promise
  <2>2. ~Stopped
    BY <2>1 DEF DropperInv, Retained, LoggedLast, Stopped
  <2>3. Calls[x] = "idle" /\ Calls' = [Calls EXCEPT ![x] = "called"]
    BY <2>1 DEF Calls, CallState, TypeOK
  <2>4. owed' = [owed EXCEPT ![x] = Accepted \ Awaited]
    <3>1. {d \in Accepted : mode[d] # "awaited" \/ oneshot[d] = "cancelled"} = Accepted \ Awaited
      BY DEF Awaited
    <3> QED
      BY <2>1, <3>1
  <2>5. Service!Call(x)
    BY <1>1, <1>2, <2>1, <2>2, <2>3, <2>4 DEF Service!Call
  <2> QED
    BY <2>5 DEF Service!Next
<1>4. CASE (\E d \in Database : Acquire(d) \/ BeginPrewarm(d) \/ BeginSubmit(d)) \/ ReleaseHandle
  <2>1. UNCHANGED <<drain, before, owed>>
    BY <1>4 DEF Acquire, BeginPrewarm, BeginSubmit, ReleaseHandle, drainVars, promiseVars
  <2>2. Calls' = Calls
    BY <2>1 DEF Calls
  <2> QED
    BY <1>1, <1>2, <2>1, <2>2 DEF Service!vars, Service!callVars
<1> QED
  BY <1>3, <1>4 DEF ApplicationStep

\* enqueue accepts.
LEMMA SubmitterServed ==
    ASSUME ServiceInv, [Next]_vars, NEW d \in Database, SubmitterStep(d)
    PROVE  [Service!Next]_(Service!vars)
<1> USE DEF ServiceInv, BarrierInv
<1>1. UNCHANGED <<SettledJobs, UntoldErrors, ToldErrors, Stopped, Calls, before, owed, mode>>
  <2>1. UNCHANGED <<mode, worker, outcome, reported, logged, drop_stage, drain, before, owed>>
    BY SubmitterFrame
  <2>2. SettledJobs' = SettledJobs
    BY <2>1, NothingCompletes, SettledKept
  <2> QED
    BY <2>1, <2>2, ErrorsKept DEF Stopped, Calls
<1>2. closed' = closed
  BY DEF SubmitterStep, EnsureOpen, CreateDatabase, EnqueueWait, EnqueueClosed, EnqueueAccept,
         ReleaseDeferredPermit, submissionVars
<1>3. CASE EnqueueAccept(d)
  <2>1. /\ sequence[d] = 0 /\ sequence'[d] > 0
        /\ \A e \in Database \ {d} : sequence'[e] = sequence[e] /\ oneshot'[e] = oneshot[e]
    <3>1. sequence'[d] = next_sequence + 1 /\ next_sequence \in Nat
      BY <1>3, AcceptFacts DEF JobInv
    <3> QED
      BY <1>3, <3>1, AcceptFacts DEF JobInv
  <2>2. d \notin Accepted /\ Accepted' = Accepted \cup {d}
    BY <2>1 DEF Accepted
  <2>3. Awaited' \in {Awaited, Awaited \cup {d}}
    <3>1. \A e \in Database \ {d} : e \in Awaited' <=> e \in Awaited
      BY <1>1, <2>1 DEF Awaited, Accepted
    <3>2. d \notin Awaited /\ Awaited \subseteq Database /\ Awaited' \subseteq Database
      BY <2>2 DEF Awaited, Accepted
    <3> QED
      BY <3>1, <3>2
  <2>4. Service!Accept(d)
    BY <1>1, <1>2, <1>3, <2>2, <2>3 DEF Service!Accept, Service!callVars, EnqueueAccept
  <2> QED
    BY <2>4 DEF Service!Next
<1>4. CASE ~EnqueueAccept(d)
  <2>1. UNCHANGED <<sequence, oneshot>>
    BY <1>4, LeaseMoves
  <2> QED
    BY <1>1, <1>2, <2>1, JobsKept DEF Service!vars, Service!callVars
<1> QED
  BY <1>3, <1>4

\* A caller gets its outcome, or gives up.
LEMMA ReceiverServed ==
    ASSUME ServiceInv, [Next]_vars, NEW d \in Database, ReceiverStep(d)
    PROVE  [Service!Next]_(Service!vars)
<1> USE DEF ServiceInv, BarrierInv
<1>1. UNCHANGED <<Accepted, SettledJobs, Stopped, Calls, before, owed>>
      /\ UNCHANGED <<sequence, mode, outcome, logged>>
  <2>1. /\ UNCHANGED <<sequence, mode, worker, outcome, logged, drop_stage>>
        /\ UNCHANGED <<drain, before, owed>>
    BY ReceiverFrame DEF jobVars
  <2>2. SettledJobs' = SettledJobs
    BY <2>1, NothingCompletes, SettledKept
  <2> QED
    BY <2>1, <2>2 DEF Stopped, Calls, Accepted
<1>2. closed' = closed
  BY DEF ReceiverStep, ReceiveOutcome, CancelAwait, submissionVars
<1>3. oneshot[d] \in {"open", "sent"} => d \in Awaited
  BY DEF JobInv, Outcomes, Awaited, Accepted
<1>4. CASE ReceiveOutcome(d)
  <2>1. /\ oneshot[d] = "sent" /\ oneshot'[d] = "consumed"
        /\ \A e \in Database \ {d} : oneshot'[e] = oneshot[e] /\ reported'[e] = reported[e]
        /\ reported'[d] = IF Failed(d) THEN reported[d] + 1 ELSE reported[d]
    BY <1>4 DEF ReceiveOutcome, TypeOK
  <2>2. Awaited' = Awaited
    <3>1. \A e \in Database : oneshot'[e] = "cancelled" <=> oneshot[e] = "cancelled"
      BY <2>1
    <3>2. Accepted \subseteq Database
      BY DEF Accepted
    <3> QED
      BY <1>1, <3>1, <3>2 DEF Awaited
  <2>3. CASE Failed(d)
    <3>1. d \in UntoldErrors
      BY <2>1, <2>3, SentUntold DEF UntoldErrors, Sent
    <3>2. Told(d)'
      <4>1. reported[d] \in Nat /\ logged[d] \in Nat
        BY DEF TypeOK
      <4> QED
        BY <1>1, <2>1, <2>3, <4>1 DEF Told
    <3>3. \A e \in Database : (Failed(e)' <=> Failed(e)) /\ (e # d => (Told(e)' <=> Told(e)))
      BY <1>1, <2>1 DEF Failed, Told
    <3>4. UntoldErrors' = UntoldErrors \ {d} /\ ToldErrors' = ToldErrors \cup {d}
      BY <2>3, <3>2, <3>3 DEF UntoldErrors, ToldErrors
    <3>5. Service!Answer(d)
      BY <1>1, <1>2, <1>3, <2>1, <2>2, <3>1, <3>4
      DEF Service!Answer, Service!Tell, Service!callVars
    <3> QED
      BY <3>5 DEF Service!Next
  <2>4. CASE ~Failed(d)
    <3>1. \A e \in Database : (Failed(e)' <=> Failed(e)) /\ (Told(e)' <=> Told(e))
      BY <1>1, <2>1, <2>4 DEF Failed, Told
    <3>2. UNCHANGED <<UntoldErrors, ToldErrors>>
      BY <3>1 DEF UntoldErrors, ToldErrors
    <3> QED
      BY <1>1, <1>2, <2>2, <3>2 DEF Service!vars, Service!callVars
  <2> QED
    BY <2>3, <2>4
<1>5. CASE CancelAwait(d)
  <2>1. /\ oneshot[d] \in {"open", "sent"} /\ oneshot'[d] = "cancelled"
        /\ \A e \in Database \ {d} : oneshot'[e] = oneshot[e]
        /\ reported' = reported
    BY <1>5 DEF CancelAwait, reportVars, TypeOK
  <2>2. Awaited' = Awaited \ {d}
    BY <1>1, <2>1 DEF Awaited, Accepted
  <2>3. Service!GiveUp(d)
    BY <1>1, <1>2, <1>3, <2>1, <2>2, ErrorsKept DEF Service!GiveUp, Service!callVars
  <2> QED
    BY <2>3 DEF Service!Next
<1> QED
  BY <1>4, <1>5 DEF ReceiverStep

\* A worker finds that an operation failed, or records that a job is over.
LEMMA WorkerServed ==
    ASSUME ServiceInv, [Next]_vars, NEW w \in Worker, WorkerStep(w)
    PROVE  [Service!Next]_(Service!vars)
<1> USE DEF ServiceInv, BarrierInv
<1>1. UNCHANGED <<sequence, mode, reported, logged, Stopped, Calls, before, owed, Accepted>>
  BY WorkerFrame DEF Stopped, Calls, Accepted
<1>2. closed' = closed
  BY DEF WorkerStep, NextJob, NextJobExit, NextJobWait, RunOperation, SendOutcome,
         CloseDatabaseAdmission, ReleasePermit, Complete, DropQueueGuard, submissionVars
<1>3. Awaited' = Awaited
  <2>1. CASE SendOutcome(w)
    <3>1. \A e \in Database : oneshot'[e] = "cancelled" <=> oneshot[e] = "cancelled"
      BY <2>1 DEF SendOutcome, TypeOK
    <3>2. Accepted \subseteq Database
      BY DEF Accepted
    <3> QED
      BY <1>1, <3>1, <3>2 DEF Awaited
  <2>2. CASE ~SendOutcome(w)
    <3>1. oneshot' = oneshot
      BY <2>2 DEF WorkerStep, NextJob, NextJobExit, NextJobWait, RunOperation,
                  CloseDatabaseAdmission, ReleasePermit, Complete, DropQueueGuard, leaseVars
    <3> QED
      BY <1>1, <3>1 DEF Awaited
  <2> QED
    BY <2>1, <2>2
<1>4. \A v \in Worker \ {w} : ~Complete(v)
  <2>1. \A v \in Worker \ {w} : worker'[v] = worker[v]
    <3>1. worker' = worker \/ \E s : worker' = [worker EXCEPT ![w] = s]
      BY DEF WorkerStep, NextJob, NextJobExit, NextJobWait, RunOperation, SendOutcome,
             CloseDatabaseAdmission, ReleasePermit, Complete, DropQueueGuard, workerVars
    <3> QED
      BY <3>1 DEF TypeOK
  <2> QED
    BY <2>1 DEF Complete, TypeOK
<1>5. CASE RunOperation(w)
  <2>1. worker[w] = "running" /\ job[w] \in Database
    BY <1>5, RunningHasJob DEF RunOperation
  <2>2. PICK d \in Database : d = job[w]
    BY <2>1
  <2>3. \A e \in Database \ {d} : outcome'[e] = outcome[e]
    BY <1>5, <2>2 DEF RunOperation, TypeOK
  <2>4. outcome[d] = "none" /\ d \in Accepted /\ d \notin SettledJobs
    BY <2>1, <2>2, DistinctAssumption
    DEF JobInv, Outcomes, Running, JobsOnce, Accepted, SettledJobs, Settled
  <2>5. SettledJobs' = SettledJobs
    <3>1. ~Complete(w)
      BY <2>1 DEF Complete
    <3> QED
      BY <1>4, <3>1, SettledKept
  <2>6. ~Failed(d) /\ ~Told(d) /\ ~Told(d)'
    <3>1. ~Failed(d)
      BY <2>4 DEF Failed
    <3>2. ~Told(d)
      BY <3>1, ErrorsFailed
    <3> QED
      BY <1>1, <3>1, <3>2 DEF Told
  <2>7. \A e \in Database \ {d} : (Failed(e)' <=> Failed(e)) /\ (Told(e)' <=> Told(e))
    BY <1>1, <2>3 DEF Failed, Told
  <2>8. ToldErrors' = ToldErrors /\ d \notin ToldErrors \cup UntoldErrors
    BY <2>6, <2>7 DEF ToldErrors, UntoldErrors
  <2>9. CASE Failed(d)'
    <3>1. UntoldErrors' = UntoldErrors \cup {d}
      BY <2>6, <2>7, <2>9 DEF UntoldErrors
    <3>2. Service!Fail(d)
      BY <1>1, <1>2, <1>3, <2>4, <2>5, <2>8, <3>1 DEF Service!Fail, Service!callVars
    <3> QED
      BY <3>2 DEF Service!Next
  <2>10. CASE ~Failed(d)'
    <3>1. UntoldErrors' = UntoldErrors
      BY <2>6, <2>7, <2>10 DEF UntoldErrors
    <3> QED
      BY <1>1, <1>2, <1>3, <2>5, <2>8, <3>1 DEF Service!vars, Service!callVars
  <2> QED
    BY <2>9, <2>10
<1>6. CASE Complete(w)
  <2>1. UNCHANGED <<UntoldErrors, ToldErrors>>
    <3>1. outcome' = outcome
      BY <1>6 DEF Complete
    <3> QED
      BY <1>1, <3>1, ErrorsKept
  <2>2. /\ job[w] \in Database /\ worker[w] = "record" /\ worker'[w] = "guard"
        /\ UNCHANGED <<jobs, job>>
        /\ \A v \in Worker \ {w} : worker'[v] = worker[v]
    BY <1>6, RunningHasJob DEF Complete, submissionVars, TypeOK
  <2>3. PICK d \in Database : d = job[w]
    BY <2>2
  <2>4. d \in Accepted /\ d \notin SettledJobs
    BY <2>2, <2>3, DistinctAssumption DEF JobInv, JobsOnce, Accepted, SettledJobs, Settled
  <2>5. Settled(d)'
    <3>1. ~Queued(d) /\ \A v \in Worker : job[v] = d => v = w
      BY <2>3, DistinctAssumption DEF JobInv, JobsOnce
    <3> QED
      BY <2>2, <3>1 DEF Settled, Queued
  <2>6. \A e \in Database \ {d} : Done(e)' <=> Done(e)
    BY <1>4, <2>3, DoneStep
  <2>7. SettledJobs' = SettledJobs \cup {d}
    <3>1. SettledJobs = {e \in Database : Done(e)} /\ SettledJobs' = {e \in Database : Done(e)'}
      BY DEF SettledJobs, Accepted, Done
    <3>2. Done(d)'
      BY <1>1, <2>4, <2>5 DEF Done, Accepted
    <3> QED
      BY <2>6, <3>1, <3>2
  <2>8. Service!Settle(d)
    BY <1>1, <1>2, <1>3, <2>1, <2>4, <2>7 DEF Service!Settle, Service!callVars
  <2> QED
    BY <2>8 DEF Service!Next
<1>7. CASE ~RunOperation(w) /\ ~Complete(w)
  <2>1. SettledJobs' = SettledJobs
    BY <1>4, <1>7, SettledKept
  <2>2. outcome' = outcome
    BY <1>7 DEF WorkerStep, NextJob, NextJobExit, NextJobWait, SendOutcome,
                CloseDatabaseAdmission, ReleasePermit, DropQueueGuard, workerVars
  <2>3. UNCHANGED <<UntoldErrors, ToldErrors>>
    BY <1>1, <2>2, ErrorsKept
  <2> QED
    BY <1>1, <1>2, <1>3, <2>1, <2>3 DEF Service!vars, Service!callVars
<1> QED
  BY <1>5, <1>6, <1>7

\* A drain returns with the errors it took, or goes without them.
LEMMA DrainServed ==
    ASSUME ServiceInv, ServiceInv', [Next]_vars, NEW x \in Waiter, DrainStep(x)
    PROVE  [Service!Next]_(Service!vars)
<1> USE DEF ServiceInv, BarrierInv
<1>1. /\ UNCHANGED <<Accepted, Awaited, SettledJobs, Stopped, before, owed>>
      /\ UNCHANGED <<outcome, logged>>
  <2>1. /\ UNCHANGED <<sequence, mode, oneshot, worker, outcome, logged, drop_stage>>
        /\ UNCHANGED <<before, owed>>
    BY DrainFrame DEF jobVars
  <2>2. SettledJobs' = SettledJobs
    BY <2>1, NothingCompletes, SettledKept
  <2> QED
    BY <2>1, <2>2, JobsKept DEF Stopped
<1>2. ASSUME NEW errors, errors \subseteq UntoldErrors, errors \cap Awaited = {},
             UntoldErrors' = UntoldErrors \ errors, ToldErrors' = ToldErrors \cup errors,
             drain[x] \in {"wait", "join", "outcome"}, drain' = [drain EXCEPT ![x] = "finished"],
             closed' = closed
      PROVE  Service!Next
  <2>1. Calls[x] = "called" /\ Calls' = [Calls EXCEPT ![x] = "returned"]
    BY <1>2 DEF Calls, CallState, TypeOK
  <2>2. drain'[x] = "finished"
    BY <1>2 DEF TypeOK
  <2>3. before[x] \subseteq SettledJobs
    <3>1. ASSUME NEW d \in before'[x] PROVE d \in SettledJobs'
      BY <2>2, <3>1 DEF DrainCovers, Promised, SettledJobs, Accepted, TypeOK
    <3> QED
      BY <1>1, <3>1
  <2>4. owed[x] \cap UntoldErrors' = {}
    <3>1. ASSUME NEW d \in owed'[x], d \in UntoldErrors' PROVE FALSE
      <4>1. d \in Database /\ Failed(d)' /\ ~Told(d)'
        BY <3>1 DEF UntoldErrors
      <4>2. reported'[d] = 1
        BY <2>2, <3>1, <4>1 DEF OwedTaken
      <4>3. logged'[d] \in Nat
        BY <4>1 DEF TypeOK
      <4> QED
        BY <4>1, <4>2, <4>3 DEF Told
    <3> QED
      BY <1>1, <3>1
  <2>5. Service!Return(x, errors)
    BY <1>1, <1>2, <2>1, <2>3, <2>4 DEF Service!Return, Service!Tell
  <2> QED
    BY <1>2, <2>5 DEF Service!Next
<1>3. ASSUME UNCHANGED <<reported, closed>>, drain'[x] # "finished", drain'[x] # "cancelled",
             drain[x] \in {"lock", "wait", "join"}, drain'[x] \in {"wait", "join", "outcome"},
             drain' = [drain EXCEPT ![x] = drain'[x]]
      PROVE  UNCHANGED Service!vars
  <2>1. Calls' = Calls
    BY <1>3 DEF Calls, CallState, TypeOK
  <2> QED
    BY <1>1, <1>3, <2>1, ErrorsKept DEF Service!vars, Service!callVars
<1>4. CASE FixTarget(x)
  <2>1. Calls' = Calls /\ UNCHANGED <<UntoldErrors, ToldErrors>>
    <3>1. /\ drain[x] = "lock" /\ drain' = [drain EXCEPT ![x] = "wait"]
          /\ UNCHANGED reported
      BY <1>4 DEF FixTarget, reportVars
    <3>2. Calls' = Calls
      BY <3>1 DEF Calls, CallState, TypeOK
    <3> QED
      BY <1>1, <3>1, <3>2, ErrorsKept
  <2>2. CASE x \in Closer
    <3>1. closed' = TRUE
      BY <1>4, <2>2 DEF FixTarget
    <3>2. Service!Close
      BY <1>1, <2>1, <3>1 DEF Service!Close, Service!callVars
    <3> QED
      BY <3>2 DEF Service!Next
  <2>3. CASE x \notin Closer
    <3>1. closed' = closed
      BY <1>4, <2>3 DEF FixTarget
    <3> QED
      BY <1>1, <2>1, <3>1 DEF Service!vars, Service!callVars
  <2> QED
    BY <2>2, <2>3
<1>5. ASSUME UNCHANGED <<reported, closed>>, drain' = [drain EXCEPT ![x] = "finished"],
             drain[x] \in {"wait", "join", "outcome"}
      PROVE  Service!Next
  <2>1. UNCHANGED <<UntoldErrors, ToldErrors>>
    BY <1>1, <1>5, ErrorsKept
  <2>2. /\ {} \subseteq UntoldErrors /\ {} \cap Awaited = {}
        /\ UntoldErrors' = UntoldErrors \ {} /\ ToldErrors' = ToldErrors \cup {}
    BY <2>1
  <2> QED
    BY <1>2, <1>5, <2>2
<1>6. CASE WaitForBarrier(x)
  <2>1. UNCHANGED <<drain, reported, closed>>
    BY <1>6 DEF WaitForBarrier, drainVars, reportVars, submissionVars
  <2> QED
    BY <1>1, <2>1, ErrorsKept DEF Service!vars, Service!callVars, Calls
<1>7. CASE WaitAndTake(x) \/ JoinWorkers(x)
  <2>1. /\ UNCHANGED <<reported, closed>>
        /\ drain[x] \in {"wait", "join"}
        /\ drain' = [drain EXCEPT ![x] = drain'[x]]
        /\ drain'[x] \in {"join", "outcome", "finished"}
    <3>1. AfterTake(x) \in {"outcome", "finished"} /\ AfterTake(x)' \in {"outcome", "finished"}
      BY DEF AfterTake
    <3>2. \E s \in {"join", "outcome", "finished"} : drain' = [drain EXCEPT ![x] = s]
      BY <1>7, <3>1 DEF WaitAndTake, JoinWorkers
    <3>3. UNCHANGED <<reported, closed>> /\ drain[x] \in {"wait", "join"}
      BY <1>7 DEF WaitAndTake, JoinWorkers, reportVars, submissionVars
    <3> QED
      BY <3>2, <3>3 DEF TypeOK
  <2> QED
    BY <1>3, <1>5, <2>1
<1>8. CASE FinishDrain(x)
  <2> DEFINE errors == {d \in Database : taken[x][d] > 0}
  <2>1. /\ drain[x] = "outcome" /\ drain' = [drain EXCEPT ![x] = "finished"]
        /\ closed' = closed
        /\ \A d \in Database : reported'[d] = reported[d] + taken[x][d]
    BY <1>8 DEF FinishDrain, submissionVars
  <2>2. \A d \in Database : taken[x][d] \in Nat /\ reported[d] \in Nat /\ logged[d] \in Nat
    BY DEF TypeOK
  <2>3. ASSUME NEW d \in errors PROVE d \in UntoldErrors /\ d \notin Awaited
    <3>1. Held(d)
      BY <2>3 DEF Held
    <3>2. Failed(d) /\ ~Told(d)
      <4>1. Failed(d)
        BY <3>1, ErrorsFailed
      <4>2. failures[d] \in Nat /\ Balanced(d)
        BY OnceMeans DEF TypeOK
      <4>3. PICK a \in Nat, b \in Nat : a = Count(Working(d)) /\ b = Count(Sent(d))
        BY DEF Count
      <4>4. 1 = a + b + failures[d] + 1 + reported[d] + logged[d]
        BY <3>1, <4>1, <4>2, <4>3 DEF Balanced, Count
      <4> QED
        BY <2>2, <4>1, <4>2, <4>3, <4>4 DEF Told
    <3> QED
      BY <3>1, <3>2 DEF UntoldErrors, Awaited, AwaitedFirst
  <2>4. \A d \in Database : (Failed(d)' <=> Failed(d)) /\ (Told(d)' <=> Told(d) \/ d \in errors)
    BY <1>1, <2>1, <2>2 DEF Failed, Told
  <2>5. UntoldErrors' = UntoldErrors \ errors /\ ToldErrors' = ToldErrors \cup errors
    BY <2>3, <2>4 DEF UntoldErrors, ToldErrors
  <2>6. errors \subseteq UntoldErrors /\ errors \cap Awaited = {}
    BY <2>3
  <2> HIDE DEF errors
  <2> QED
    BY <1>2, <2>1, <2>5, <2>6
<1>9. CASE DropDrainOutcome(x)
  <2>1. /\ UNCHANGED <<reported, closed>> /\ drain[x] = "outcome"
        /\ drain' = [drain EXCEPT ![x] = "cancelled"]
    BY <1>9 DEF DropDrainOutcome, reportVars, submissionVars
  <2>2. Calls[x] = "called" /\ Calls' = [Calls EXCEPT ![x] = "cancelled"]
    BY <2>1 DEF Calls, CallState, TypeOK
  <2>3. Service!Abandon(x)
    BY <1>1, <2>1, <2>2, ErrorsKept DEF Service!Abandon
  <2> QED
    BY <2>3 DEF Service!Next
<1> QED
  BY <1>4, <1>6, <1>7, <1>8, <1>9 DEF DrainStep

\* The destructor stops the service when all is settled and every error told.
LEMMA DestructorServed ==
    ASSUME ServiceInv, [Next]_vars, Other
    PROVE  [Service!Next]_(Service!vars)
<1> USE DEF ServiceInv, BarrierInv
<1>1. /\ UNCHANGED <<Accepted, Awaited, SettledJobs, Calls, before, owed>>
      /\ UNCHANGED <<outcome, reported>>
  <2>1. UNCHANGED <<sequence, mode, oneshot, worker, outcome, reported, drain, before, owed>>
    BY OtherFrame DEF jobVars
  <2>2. SettledJobs' = SettledJobs
    BY <2>1, NothingCompletes, SettledKept
  <2> QED
    BY <2>1, <2>2, JobsKept DEF Calls
<1>2. CASE DropClose
  <2>1. closed' = TRUE /\ Stopped' = Stopped /\ logged' = logged
    BY <1>2 DEF DropClose, Stopped, reportVars
  <2>2. Service!Close
    BY <1>1, <2>1, ErrorsKept DEF Service!Close, Service!callVars
  <2> QED
    BY <2>2 DEF Service!Next
<1>3. CASE DropTake
  <2>1. /\ closed /\ closed' = closed /\ ~Stopped /\ Stopped'
        /\ dropper # Nobody
        /\ \A d \in Database : logged'[d] = logged[d] + failures[d]
    BY <1>3 DEF DropTake, ClosedFirst, LoggedLast, Stopped, submissionVars
  <2>2. /\ jobs = << >> /\ \A w \in Worker : job[w] = NoDatabase
        /\ \A x \in Waiter : drain[x] \notin {"lock", "wait", "join", "outcome"}
        /\ \A d \in Database : ~Sent(d)
    BY <2>1 DEF DropperInv, Retained, RetainedByJob, Sent
  <2>3. Accepted \subseteq SettledJobs
    BY <2>2, DistinctAssumption DEF SettledJobs, Accepted, Settled, Queued
  <2>4. \A x \in Waiter : Calls[x] # "called"
    BY <2>2 DEF Calls, CallState, TypeOK, DrainState
  <2>5. ASSUME NEW d \in UntoldErrors PROVE failures[d] = 1 /\ d \in Database
    <3>1. d \in Database /\ Failed(d) /\ ~Told(d)
      BY <2>5 DEF UntoldErrors
    <3>2. failures[d] \in Nat /\ reported[d] \in Nat /\ logged[d] \in Nat /\ Balanced(d)
      BY <3>1, OnceMeans DEF TypeOK
    <3>3. ~Working(d)
      BY <2>2, <3>1, DistinctAssumption DEF Working, InWorker
    <3>4. ~Held(d)
      BY <2>2, <3>1 DEF Held, Delivery
    <3> QED
      BY <2>2, <3>1, <3>2, <3>3, <3>4 DEF Balanced, Count, Told
  <2>6. UntoldErrors \cap Awaited = {}
    BY <2>5 DEF AwaitedFirst, Awaited
  <2>7. \A d \in Database : /\ (Failed(d)' <=> Failed(d))
                            /\ Told(d) => Told(d)'
                            /\ d \in UntoldErrors => Told(d)'
    <3>1. \A d \in Database : /\ failures[d] \in Nat /\ reported[d] \in Nat
                              /\ logged[d] \in Nat
      BY DEF TypeOK
    <3> QED
      BY <1>1, <2>1, <2>5, <3>1 DEF Failed, Told
  <2>8. UntoldErrors' = {} /\ ToldErrors' = ToldErrors \cup UntoldErrors
    BY <2>7 DEF UntoldErrors, ToldErrors
  <2>9. Service!Stop
    BY <1>1, <2>1, <2>3, <2>4, <2>6, <2>8 DEF Service!Stop, Service!Tell, Service!callVars
  <2> QED
    BY <2>9 DEF Service!Next
<1>4. CASE DropJoin \/ SpuriousWakeup \/ Terminated \/ UNCHANGED vars
  <2>1. UNCHANGED <<closed, logged, Stopped>>
    BY <1>4 DEF DropJoin, SpuriousWakeup, Terminated, vars, submissionVars, reportVars, Stopped
  <2> QED
    BY <1>1, <2>1, ErrorsKept DEF Service!vars, Service!callVars
<1> QED
  BY <1>2, <1>3, <1>4 DEF Other, DropStep

\* Initially nothing is accepted, called or told.
LEMMA ServiceStart ==
    ASSUME Init
    PROVE  AwaitedFirst /\ ClosedFirst /\ Service!Init
<1>1. \A d \in Database : /\ sequence[d] = 0 /\ failures[d] = 0
                          /\ outcome[d] = "none" /\ \A x \in Waiter : taken[x][d] = 0
  BY DEF Init, NoFailures
<1>2. AwaitedFirst /\ ClosedFirst
  BY <1>1 DEF Init, AwaitedFirst, ClosedFirst, Held
<1>3. /\ Accepted = {} /\ Awaited = {} /\ SettledJobs = {}
      /\ UntoldErrors = {} /\ ToldErrors = {}
  BY <1>1 DEF Accepted, Awaited, SettledJobs, UntoldErrors, ToldErrors, Failed
<1>4. Calls = [x \in Waiter |-> "idle"] /\ Stopped = FALSE
  BY DEF Init, Calls, CallState, Stopped
<1> QED
  BY <1>2, <1>3, <1>4 DEF Init, Service!Init

\* For any databases, workers, drains and shutdowns, whatever is cancelled and
\* however the workers interleave: the queue does what CleanupService promises
\* (see ImplementsService).  Accepted cleanups are settled once, every error is
\* told once, to the caller that awaits it or else to a drain, a drain returns
\* when all that was accepted before it is settled and all it owed is told, and
\* the destructor leaves no error untold.
THEOREM QueueImplementsService == Spec => ImplementsService
<1>1. Init => AwaitedFirst /\ ClosedFirst /\ Service!Init
  BY ServiceStart
<1>2. TypeOK /\ JobAssigned /\ BarrierInv /\ AwaitedFirst /\ ClosedFirst /\ [Next]_vars =>
          AwaitedFirst' /\ ClosedFirst'
  BY AwaitedFirstStep, ClosedFirstStep DEF BarrierInv
<1>3. ServiceInv /\ ServiceInv' /\ [Next]_vars => [Service!Next]_(Service!vars)
  BY Threads, ApplicationServed, SubmitterServed, ReceiverServed, WorkerServed, DrainServed,
     DestructorServed
<1>4. TypeOK /\ JobAssigned /\ DropperInv /\ BarrierInv /\ AwaitedFirst /\ ClosedFirst =>
          ServiceInv
  BY DEF ServiceInv
<1>5. ImplementsService <=> Service!Spec
  BY DEF ImplementsService
<1> QED
  BY TypeCorrect, OwnersKept, BarrierInvariant, <1>1, <1>2, <1>3, <1>4, <1>5, PTL
  DEF Spec, Service!Spec

=============================================================================
