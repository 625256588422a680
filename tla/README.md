# A TLA+ model of postgres-test-harness

The library gives Rust tests disposable PostgreSQL databases. It copies them
from template databases that all test processes share, bounds how many exist,
drops them on background threads and, on request, waits for those drops or
removes the whole server. This directory holds TLA+ modules for the parts of
the library in which threads, processes or failures meet, TLC configurations
that check them on small instances, and proofs checked by TLAPS.

`PROJECT.json` lists the components, the runs, the source lines behind each
definition, the hazards and the theorems.

## 1. The system

Paths are below `src/src/`.

| Component | State | Operations | Model |
|---|---|---|---|
| Cleanup queue (`cleanup.rs`) | waiting jobs, next sequence, closed; completed prefix, completions beyond it, retained failures, delivery flag; workers; lifetime of the queue | submit (awaited, deferred, fallback, prewarmer), run a job, record, drain, close and drain, destructor | `CleanupQueue` |
| Admission (`admission.rs`) | connection-budget semaphore, open or closed | acquire, ensure_open, close | `CleanupQueue`, `PrewarmPool` |
| Leases (`harness.rs`) | one database, its permit, its source template | create, `cleanup`, `defer_cleanup`, drop | `CleanupQueue`, `PrewarmPool`, `TemplateCoordination` |
| Templates (`harness.rs`, `admin.rs`, `metadata.rs`) | catalog and comments on the server; shared, exclusive and coordination advisory locks; one connection per handle | `template`, `derive`, finish, abort, drop of the handle | `TemplateCoordination` |
| Stale sweep (`harness.rs`) | list of databases, position, "now" | list, classify, lock, revalidate, drop | `TemplateCoordination` |
| Prewarm pool (`harness.rs`) | ready queue, leased/creating/deleting counters, ready tokens, accepting, cleanup_started | fill, borrow, return, replace, fail, close | `PrewarmPool` |
| Owned shutdown (`server.rs`) | progress through admission, pools, queue, sessions, container | `shutdown` | queue: `CleanupQueue`; admission, pools and queue: `PrewarmPool`; all stages, with cancelled and repeated calls: `OwnedContainer` |
| Template cache (`server.rs`) | entry per fingerprint: flight or weak handle | lookup, publish, cancel, wait, prune | `TemplateCache` |
| Admin session pool (`admin.rs`) | idle sessions, total, closed | check out with a deadline, reset, connect, return, evict, close | `AdminSessionPool`, which implements `SessionSlots` |
| Container owner (`server.rs`) | container, worker thread, two channels, exit registration | start, monitor, readiness, failed start, shutdown, drop, exit handler | `OwnedContainer` |
| Configuration and sizing (`config.rs`, `server.rs`, `admin.rs`) | the builder's fields | setters; leases, sessions, workers, timeouts, image and mount resolved at the start | `HarnessConfig` |
| Names and metadata (`name.rs`, `metadata.rs`, `harness.rs`) | names and comments in the catalog | make, recognise, encode, parse, classify for a sweep | `ResourceIdentity` |
| Fingerprints (`fingerprint.rs`) | bytes fed to the hash | new, add, finish, derive | `TemplateIdentity` |
| Errors, SQL text, performance programs | none, or measurements | | not modelled (section 8) |

How the parts interact:

- A lease takes a permit from **admission**, creates its database through the
  admission gate, and gives both to the **cleanup queue** when it ends. A drop
  that may have left its database behind closes admission.
- A prewarm pool fills itself outside the connection budget, hands a database
  to a caller who brings a permit, and sends the used database to the queue
  with an operation that also creates the replacement.
- Template handles of *different processes* share nothing but the catalog and
  the advisory locks. Leases and derived templates copy from a handle and keep
  it alive until the copy is tagged.
- An owned shutdown closes admission, then the pools, then closes the queue and
  waits for it, then closes the session pool and removes the container.

What is hard: submitters and workers share one condition variable; jobs finish
out of order while several drains wait for different prefixes; awaiting callers
are cancelled at any await point while blocking work goes on; the last
reference to the queue may be dropped by its own worker; advisory locks are
upgraded in two phases against handles that may be kept forever; the sweep acts
on an old list; statements fail with an unknown effect; pools close while
their databases are anywhere between creation and deletion; waits with a
deadline share condition variables with others; a start that times out crosses
the answer of its worker; and a container is removed by whoever comes first of
shutdown, drop, failed start and process exit.

## 2. Modules

| Module | Contents |
|---|---|
| `CleanupService` | what the cleanup of databases promises to those who submit and drain |
| `CleanupQueue` | the queue, admission and the lives of leases |
| `MCCleanupQueue` | symmetry for TLC |
| `CleanupQueueProofs` | theorems about `CleanupQueue`: types, wakeups and owners of databases, then barriers, errors, destructor and storage, then that it implements `CleanupService` |
| `TemplateRegistry` | what templates promise to harnesses that share a server |
| `TemplateCoordination` | templates, advisory locks, copies, sweep |
| `MCTemplateCoordination` | the two template hierarchies, symmetry |
| `TemplateCoordinationProofs` | theorems about `TemplateCoordination`, the last that it implements `TemplateRegistry` |
| `PrewarmPool` | the prewarm pool next to admission and queue |
| `MCPrewarmPool` | symmetry |
| `PrewarmPoolProofs` | theorems about `PrewarmPool` |
| `TemplateCache` | the in-process cache and its flights; run as it is |
| `TemplateCacheProofs` | theorems about `TemplateCache` |
| `SessionSlots` | what the pool of administrative sessions promises |
| `AdminSessionPool` | that pool; run as it is |
| `AdminSessionPoolProofs` | theorems about it, among them that it implements `SessionSlots` |
| `OwnedContainer` | the container, its worker thread and everybody who ends it; run as it is |
| `OwnedContainerProofs` | theorems about `OwnedContainer` |
| `HarnessConfig` | the builder and the sizes computed from it |
| `HarnessConfigProofs` | theorems about `HarnessConfig` |
| `ResourceIdentity` | names, comments, and which of them a sweep trusts |
| `TemplateIdentity` | framing and derivation of fingerprints |
| `IdentityProofs` | theorems about `ResourceIdentity` and `TemplateIdentity` |
| `MCRules` | `HarnessConfig`, `ResourceIdentity` and `TemplateIdentity`, with small inputs, in one run |

An action is one critical section of a mutex, one SQL statement, or one effect
another thread can observe between two of those. In each module the operators
named `X_Something`, in the section on plausible mistakes, are broken variants
of `X`. No specification uses them; replacing `X` by the variant makes the
property named in `PROJECT.json` fail, which shows that the property depends on
that piece of code.

### CleanupQueue

A database is created once and submitted at most once, so it also names the
thread that submits it and the job that drops it.

- `lease[d]`: unused, `admitted` (permit held), `creating` (gate passed),
  `live`, `submit` (inside `enqueue`), `accepted` (deferred, permit still held),
  then `submitted`, `failed` (creation) or `rejected` (queue closed).
- `jobs`, `next_sequence`, `closed`, `waiting`: `SubmissionState` and the
  threads parked on its condition variable. `EnqueueWait`, `EnqueueAccept` and
  `EnqueueClosed` are the three ways through `enqueue`; `NotifyOne` wakes any
  one parked thread and `SpuriousWakeup` wakes one for no reason.
- `worker[w]`: `next` → `running` → `close` → `release` → `send` → `record` →
  `guard` → `next`, the order of effects in `run_cleanup_job`: run the
  operation, close admission if a residual is possible, drop the permit, send
  the outcome, record completion, drop the queue reference.
- `completed_through`, `completed_out_of_order`, `failures`,
  `failure_delivery_in_flight`, `drain_waiting`: `CompletionState`.
- `drain[x]`: a drain or an owned shutdown, which fixes its target under the
  drain mutex, waits, takes the failures up to the target, and reports them or,
  when cancelled, puts them back.
- `handle`, `dropper`, `drop_stage`: references to the `Arc` of the queue.
  `Release(t)` is part of every action that lets a reference go: if none is
  left, thread `t` runs the destructor.
- `before`, `owed`, `reported`, `logged` are history variables; no action reads
  them.

The result of an operation is nondeterministic: success, a failure that leaves
nothing, or one that may leave the database (which then may or may not exist).
A panic is the third of these, as in the code. The admission semaphore is
acquired with `connections_per_database` permits at a time; the model counts
permits in leases.

`CleanupService` says what all this promises: each cleanup accepted, settled
once and its error told once, to the caller that awaits it, to a drain or to the
log, and drains that return after what they were promised. The definitions at
the end of the module say what its variables are here.

### TemplateCoordination

A *session* is the connection of one attempt to get a template. `phase` is the
phase of the loop in `begin_template`. If the attempt succeeds the session
becomes the handle (`pc = "handle"`) and keeps the shared lock. A handle closes
its connection when nothing refers to it (`Referenced`): not the application,
not a derived template being copied, not a lease being created. `Fault(s)` ends
a session's connection at any point of an attempt: a failed statement, a lost
connection, a timed-out lock wait, a killed process. The server then releases
its locks and the database stays as it is. `CreateTemplate` and `TagTemplate`
are separate because `CREATE DATABASE` and `COMMENT` are separate statements; the
comment carries the time from before the first of them (`Retagged`). `CopyFails`
is a failed creation or return of a test database in a harness that lives on: the
database is not there, stays there, or a failed comment had it dropped again.

`catalog[d]` holds what the code can parse from a comment: absent, untagged,
mismatched, initializing, ready or test, with the creation time. A harness `h`
names its one test database and owns it through the owner lock, which ends with
the harness (`HarnessDies`). The sweep reads its list, then the clock, then
visits the candidates in any order.

Shared lock requests may be granted in the model while an exclusive one is
queued; PostgreSQL would put them behind it. The model allows more behaviours,
so its safety results hold for the real queue as well.

`TemplateRegistry` says the same without locks, comments, statements and time:
who has a template for itself, which ones are usable, and which handle each copy
keeps. The definitions at the end of the module say what its variables are here.

Assumption: the connection of a *finished handle* stays up as long as the
handle. The code does not notice its loss; see the hazard at `server.rs:154`.

### PrewarmPool

`db[d]` says where each database is (the comment above `DatabaseState` groups
the states). `NewName` picks the name of a new database; names are
interchangeable, so which unused one it is does not matter. The four counters, the token semaphore and the two flags are the
code's own. `closing[a]` and `held` are the stages of `finish_close` on the
thread `a` that called it: close the semaphores, then queue the idle databases
one by one. Threads that may close the pool are the fill, a cleanup job whose
replacement failed, the owner (shutdown or last handle) and the server.

The cleanup queue appears through its promise: a submission is accepted unless
the queue is closed, and an accepted job runs exactly once at some later time.
`CleanupQueue` is where that promise is checked. `other` counts permits held by
leases outside the pool, so a caller may wait for one for ever.

### TemplateCache

`entries` maps each fingerprint to nothing, a flight that is initializing, or a
weak reference. A flight yields at most one `TemplateInner`, so one name stands
for both; `published` and `completed` are the flight's two fields. A caller is
a task in the loop of `get_or_initialize_template`: it looks up, then holds the
live template, waits for a flight, or starts one. Strong references are counted
from the callers (`Strong`): holders, and waiters through a published flight.
When the last one goes, the weak entry refers to `NoFlight` and the name can be
used again, so runs of any length fit in as many names as there are callers.
Preparation on the server either succeeds (`InstallTemplate`) or ends in an
error, a panic or a cancellation (`AbandonFlight`). In both cases settling the
entry and telling the waiters (`CompleteFlight`) are two steps.

### AdminSessionPool and SessionSlots

A caller is a blocking thread that runs one administrative operation after
another. `acquire`/`asleep` are the loop of `acquire_checkout`, `reset`,
`connect`, `prepare`, `retry` and `fail` the body of `checkout`, and `using`,
`return`, `evict`, `closing` what `AdminSession` does when it is dropped. The
mutex protects `idle`, `total` and `closed`; a connection is opened and closed
outside it, so `open` may for a moment exceed the slots. `notify_one` wakes any
one sleeper, also one whose deadline has passed, and spurious wakeups happen.
`elapsed[c]` is the one deadline that covers all the retries of a checkout.
`tainted` and `open` are the server's side of a session.

`SessionSlots` is the abstract specification: callers request, are granted or
refused, and release; `free` counts slots. The refinement maps callers in
`acquire` or `asleep` to `waiting`, callers with a slot to `holders`, and idle
sessions plus unused capacity to `free`. Resets, connections, wakeups and the
ends of connections are stuttering; giving up a dead session is a release with
a new request.

### OwnedContainer

The worker thread goes `starting` → `resolving` → `monitor` (until `Ready`) →
`parked` → `removing` → `exited`; the channels from and to it are `started` and
`commands`, whose sender may be dropped instead of used. Actors are the starting
thread, shutdown calls (whose callers may be cancelled while the blocking part
goes on), the thread that drops the last handle and the exit handler. All of
them end in `ContainerOwner::shutdown`, which takes the worker out of its slot
under a mutex and joins it with the mutex held: `lock`, then `join`. `refs` are
the strong references; the exit handler upgrades its weak one or finds nothing.
The engine may refuse to start, the container may stop by itself, resolving its
port and removing it may fail, and the startup timeout may pass at any moment.

### HarnessConfig, ResourceIdentity, TemplateIdentity

`HarnessConfig` has one action per setter, each with its validation, and
`Start`, which resolves environment, limits, timeouts, image and tmpfs size.
`MaxU32`, `MaxI32` and `MaxI64` stand for the ends of the integer types and
`PerMilli` for the ticks in a millisecond, so casts, saturation and rounding at
the limits are part of the model. An image reference is a sequence of words and
separators and is split as `ImageReference::parse` does.

`ResourceIdentity` creates test databases and templates of several projects on
one server, lets people edit comments (drop, repeat, add or change a field,
respell a number, copy another database's comment) and runs the classification
of the sweep. Text is a sequence of symbols, so that projects named `a`,
`a_test` and `a_template` produce names that overlap. `TemplateIdentity` feeds
framed bytes to an ideal hash. `MCRules` runs the three side by side: `part`
says whose behaviour it is, so their state spaces add up. It extends all three,
hence `NamesInit`, `PrintsNext` and the like where other modules say `Init` and
`Next`.

## 3. Runs

Bounds are about the smallest at which the cases in question occur. All passing
runs explore their whole state space (within `Scenario`, for `template_sweep`). Deadlock is checked except in
`owned_container` and `rules`, where the process exits or the calls are used
up; in the others `Terminated`, or the application's own steps, keep a system
that has really finished from counting as a deadlock.

| Run | Instance | Shows |
|---|---|---|
| `queue_storage` | 4 leases, 1 permit, 1 worker, capacity 1 | `StorageBound`: the types, and at most L + W + Q databases *exist*, including those that failed drops left behind. The fourth lease is the first that could exceed 3. |
| `queue_barriers` | 1 lease, 1 prewarmed database, 2 workers, 1 drain, 1 shutdown | `NoLostWakeup`: although `enqueue` signals one thread on a condition variable that a submitter and an idle worker may share, no job and no submitter is left asleep (a third submission that wakes the wrong one of them is beyond this instance and covered by the theorem `WakeupsNotLost`); `DrainSound`: completions out of order, a barrier covers what was accepted before it (`CompletedPrefix`, `DrainCovers`) and does not return while another holds an error it owes (`DrainReportsAll`); `ExactlyOnce`: an error is in one place or was reported once, through cancelled callers, cancelled drains and late failures; `OrphanClosesAdmission`; `QueueOutlivesWork`: the destructor, possibly on a worker, has nothing to wait for. |
| `queue_liveness` | 1 lease, 1 prewarmed database, 1 worker, 1 drain, 1 shutdown | `CleanupCompletes`: accepted cleanups complete and a submission blocked by the full queue returns; `ShutdownEnds`: every barrier returns, also one that waits for another drain to deliver its failures or to be cancelled with them, and the workers exit; `ImplementsService`: every step of the queue is one of `CleanupService`. `ScenarioSpec` lets the drain and the prewarmed database take part one at a time; it leaves out only calls of the application, which fairness asks nothing of. Several workers and drains against that specification are covered by the theorem `QueueImplementsService`. |
| `template_sweep` | 3 sessions, parent and child, 1 harness, clock 0..1, 1 fault | `BuildUndisturbed`: a holder, an upgrader and a third waiter, with application connections; `HandleSound`: a handle's template is sealed, and so is every ready one; `SourceProtected`: the parent stays sealed while it is copied, even if its caller is gone; `SweepOnlyAbandoned`, judged at the moment of the drop and not at the listing. The constraint `Scenario` takes the third session, the test database and the child in turn: each of them meets two sessions, the sweep, application connections and a fault; and it has the sweep begin with the names that are not in its list, since skipping those changes nothing. |
| `template_liveness` | 2 sessions, 1 template | `AttemptEnds`: every attempt ends although handles may be kept for ever. |
| `template_retry` | 2 sessions, 1 fault | *violation*, see section 5. |
| `template_cache` | 3 callers, 4 fingerprints | `OneTemplate`: one running initializer per fingerprint, which owns its entry, and live handles that share one allocation; `CacheBounded` (needs more fingerprints than callers); `WaiterGetsWinner`: no waiter starts over while somebody has the template of its flight, and a published template stays for those who wait although every handle is dropped; `EndedFlightWakes` under fairness. Three callers let two waiters compete to take over a failed flight. |
| `prewarm_pool` | 2 slots, 3 names, 2 callers, 2 permits | `SlotsExact`, `TokensBacked`, `LeftoverClosesAdmission`, `ShutdownClosesPool`, and under fairness `ClosedPoolEnds`: a closed pool empties and releases its waiting callers. The third name is a replacement beside a full pool. |
| `prewarm_barrier` | 1 slot, 2 names, 1 caller | *violation*, see section 5. |
| `session_pool` | 3 callers, 2 slots, 5 connections | `SlotsExact`, `NoStrandedWaiter`, `SessionsExclusive`, `ConnectionBound`; under fairness `NothingHangs`: a checkout ends and a closed pool loses its connections; `ImplementsSlots`: every behaviour is one of `SessionSlots`, its fairness included. The third caller is the one that has to wait, next to one that retries and one that returns. |
| `owned_container` | 2 shutdown calls, start, drop and exit handler | `ReturnsAfterRemoval`, `FailedStartRemoves`, `RemovesOnlyOnDemand`, `RemovalErrorReportedOnce`; under fairness `ContainerEnds`: starts, shutdowns and drops do not wait for ever. |
| `rules` | 2 setter calls with arguments around each limit, 10 server sizes; 3 overlapping projects, 4 foreign names, 2 databases, 1 edit; 2 builders with 1 addition and 1 derivation | `SizesFit`: leases, sessions and workers fit budget and server; `ConfigurationPreserved`: timeouts, tmpfs size and image mean on the other side what the caller asked for; `CommentsFaithful`, `NamesDisjoint`, `SweepOwn`; `FingerprintsFaithful`. Two calls suffice for every order of the two setters that constrain each other. |

Each property is broken by the change of one operator that `PROJECT.json` gives
with it. Type invariants are conjuncts of `StorageBound`,
`HandleSound`, `SlotsExact` (of the prewarm pool), `OneTemplate`,
`ReturnsAfterRemoval`, `SizesFit` and `CommentsFaithful`; that of the session
pool is part of a theorem.

Bounds named in the modules: `MaxClock` and `MaxFaults` (TemplateCoordination;
age is measured with a saturating subtraction as in the code), the set
`Database` of names (a name is never used again, so replacements end when names
do), `MaxCalls`, `MaxDatabases`, `MaxEdits`, `MaxTime`, `MaxAdds` and
`MaxDepth` of the rules. Symmetry sets permute databases, workers, drains,
sessions and harnesses; the runs with liveness properties use none.

## 4. Fairness

- Threads that can run do run (WF on each worker, submitter, receiver, drain,
  destructor, fill, closing thread). Statements end because the administrative
  client gives each a timeout, so running operations are weakly fair as well.
- Advisory lock waits are strongly fair: PostgreSQL queues requests. Weak
  fairness would not be enough, since the lock may be taken and released again
  and again.
- In `TemplateCache` lookups, completions and notified waiters are weakly fair.
  An initializer is application code and may run for ever; `EndedFlightWakes`
  speaks only of flights whose initializer has ended.
- In `AdminSessionPool` each caller is weakly fair once it has asked, and its
  deadline passes; a sleeping caller is then awake without a signal, which is
  what `wait_timeout` does. Nobody is made to ask and nobody to close.
- In `OwnedContainer` the worker, the starting thread, blocking shutdowns and
  the exit handler are weakly fair and the startup timeout passes. Engine calls
  end because testcontainers gives each a timeout. A shutdown's caller may
  vanish; the blocking thread goes on.
- Nothing is asked of the application. It need not return a lease, drop a
  handle, cancel or close anything, and spurious wakeups are never required.

## 5. Findings

Two runs state what the repository says and are violated by what it does.

- `template_retry` / `FailedAttemptsRunAgain`. `harness.rs:176`: "Failed or
  cancelled attempts can run again from a fresh parent copy." A connection that
  ends between `CREATE DATABASE` and `COMMENT` leaves an untagged database with
  the template's name. Every later attempt refuses it as inconsistent and the
  sweep skips it as unrecognized.
- `prewarm_barrier` / `IdleQueuedBeforeBarrier`. `server.rs:447`: "Queue every
  idle prewarmed database before fixing the cleanup barrier's target." If
  another thread has just begun to close the pool, the server's own call finds
  nothing to do and goes on to close the queue; the other thread's submissions
  are then refused. The databases go with the owned container;
  `LeftoverClosesAdmission` still holds.

An observation without a run: the exit handler keeps weak references. When the
process exits while the last handle is just being dropped, the upgrade fails
(`server.rs:1153`) and the handler does not wait for the removal that the
dropping thread has begun. `ReturnsAfterRemoval` therefore speaks of process
exit only while somebody still refers to the owner.

## 6. Theorems

`CleanupQueueProofs`, for every value of the constants, from `SizesAssumption`
(at least one permit and one queue slot), `FiniteAssumption` (finitely many
databases and workers, at least one worker) and `DistinctAssumption` (the
kinds of names do not overlap).

- `TypeCorrect`: `Spec => [](TypeOK /\ JobAssigned)`. `TypeOK` alone is not
  inductive: a worker uses `job[w]` as an index, so `JobAssigned` says that a
  worker with work to do has a database. The bound on permits in `TypeOK` needs
  the lemmas on cardinality.
- `WakeupsNotLost`: `Spec => []NoLostWakeup`. The invariant is strengthened
  with: a worker exits only when the queue is closed, and sleeps only when it
  is open. A job is then accepted only while no worker has exited; if
  the wakeup goes to a submitter, the full queue that it waited for shows that
  some worker was already awake.
- `OrphansCloseAdmission`: `Spec => []OrphanClosesAdmission`. The strengthening
  ties every database on the server to its creator, the queue or a worker, and
  shows that the destructor's thread holds no job and never gets one: once the
  last reference is released nothing takes a new one.

The second half of the module, from the same assumptions and on top of those
theorems, is about barriers. The inductive invariant `BarrierInv` has a part for
each thing the threads must agree on:

- `Sequenced`: the numbers handed out are `1 .. next_sequence`, each of one job;
  `JobsOnce`: a job is in the queue or with one worker, once; `Outcomes` and
  `SentLate`: an outcome exists once the operation has run, and is in the
  caller's channel only after the worker put it there;
- `CompletedPrefix`, the meaning of `completed_through` and of the set beside
  it. The proof of `complete` follows its loop: the prefix grows through
  what completed out of order up to the first gap;
- `Delivery` and `LoggedLast`: the errors of a delivery in flight are with one
  drain that has not ended, and the log is the destructor's;
- `Promised`, `DrainCovers` and `OwedTaken`: what a drain promised at its call is
  within its target, is settled once the barrier is passed, and its errors are
  then in the hands of that drain or have been reported.

The theorems:

- `DrainsAreSound`: `Spec => []DrainSound`.
- `ErrorsExactlyOnce`: `Spec => []ExactlyOnce`. The count of places of an error
  is kept by every step; a drain takes the list only while no delivery is in
  flight (`Delivery`), so that no error is taken twice and none put back over
  another's.
- `DestructorWaitsForNothing`: `Spec => []QueueOutlivesWork`, from `DropperInv`
  of the first half: the thread that released the last reference saw no job
  and no drain.
- `StorageIsBounded`: `Spec => []StorageBound`. The bound itself is not
  inductive, since a creation in progress may still add a database. `Potential`
  counts those too. While admission is open, `PermitInv` and `OrphanInv` place
  each of them: it has one of the `MaxLeases` permits, is one of at most `Capacity`
  deferred jobs in the queue, or is a worker's. Once admission is closed
  databases without an owner may exist, but then `Potential` only shrinks: only
  `acquire` adds to it, and `acquire` needs open admission.
- `QueueImplementsService`: `Spec => ImplementsService`. A job is *settled* when
  its sequence is within the completed prefix or in the set beside it, an error
  is *pending* until it has been reported or logged, and a call has *returned*
  when it is `finished`. `BarrierInv` gives most of the simulation; two
  facts are new. `AwaitedFirst`: an error comes to the shared list only
  if nobody awaits it, so a drain cannot take what belongs to a waiting caller.
  `ClosedFirst`: the destructor closes the queue before it takes the list. With
  `QueueOutlivesWork` nothing is accepted, and nothing fails, after what it logs,
  so that no error stays untold. The lemmas
  follow the threads: one for the application, one each for submitters,
  receivers, workers, drains and the destructor.

`AdminSessionPoolProofs`, from `PoolAssumption` (finitely many callers and
session names, at least one slot, enough names for every caller and slot).

- `PoolCountsSlots`: `Spec => [](TypeOK /\ SlotsExact)`. The inductive
  invariant `PoolInv` adds `ClientHeld`: a caller that resets, configures, uses
  or returns a session has one in its hands; without it a return would put
  `NoSession` on the stack. `TypeOK` bounds `total` by `max_size`, and the
  decrement on a release is within bounds because the releasing caller is one
  of the holders that `SlotsExact` counts. This is where the cardinality lemmas
  on sets that gain or lose one caller are used.
- `NobodyStranded`: `Spec => []NoStrandedWaiter`, with `PoolInv`. A release adds
  one free slot and wakes one sleeper, if there is one, who is then counted in
  `acquire`. A woken caller looks for a slot before it looks at its deadline,
  so whoever leaves `acquire` empty-handed has found none free.
- `PoolImplementsSlots`: `Spec => Slots!Safety`. The initial state maps to the
  initial state, and under `PoolInv` every action is a `Request`, `Grant`,
  `Refuse`, `Release`, `Close` or a stutter. The fairness part of the
  refinement is checked by TLC in `session_pool`.

- `SessionsNeverShared`: `Spec => []SessionsExclusive`. `SessionInv` adds to
  `PoolInv` where sessions are (`SessionsPlaced`): what is idle or in a caller's
  hands is an open session, and a new connection gets a name that is neither.
- `ConnectionsBounded`: `Spec => []ConnectionBound`, from `SessionInv`: open
  connections are idle, in the hands of a caller with a slot, or of one that
  has given up its slot and is about to close. The first two are what `total`
  counts.

`TemplateCacheProofs`, from `CacheAssumption` (finitely many callers and
fingerprints, at least as many allocations as callers). The inductive invariant
`CacheInv` says that callers of one flight want one fingerprint (`Wanted`), that
a flight has one initializer, which owns its entry (`OneInitializer`), that an
entry has a caller behind it (`EntriesBacked`) and that a published flight is in
the cache as long as anybody refers to it (`PublishedCached`). A new allocation
exists at every lookup by the pigeonhole principle (`NewFlightExists`).

- `OneTemplateEach`: `Spec => []OneTemplate`.
- `CacheStaysSmall`: `Spec => []CacheBounded`: choosing a caller behind each
  entry is an injection.
- `WaitersGetTheWinner`: `Spec => WaiterGetsWinner`, an action property. It rests
  on `PublishedCached`, so a waiter that starts over has nobody with the template
  of its flight next to it, and on `Freed`: what a dropped reference frees is
  nothing that a waiter's own flight keeps alive.

`OwnedContainerProofs`, from `TaskAssumption` (finitely many shutdown calls,
whose names differ from those of the other actors). `OwnerInv` has a part for
each shared thing: how far the start is and who may have a reference then
(`Phases`, `References`), the mutex (`MutexHeld`), the worker, which waits in
its slot, is being joined or is gone (`WorkerOwned`, `WorkerPhases`), the
commands on their way (`CommandOrder`) and the removal error (`ToldOnce`).

- `ReturnAfterRemoval`, `FailedStartCleansUp`, `OnlyOnDemand`,
  `RemovalErrorOnce`: the four invariants of the run `owned_container`. What makes
  them hold is `WorkerOwned` together with `MutexHeld`: whoever finds the slot
  empty under the mutex does so after the join.

`TemplateCoordinationProofs`, from `CoordinationAssumption` (names of different
kinds differ; parents are templates; clock and faults are bounded by any
numbers). Nothing is assumed finite and the parents may form any graph.
`CoordinationInv` says that the locks a session holds are those of its place in
the code (`Locks`), that a builder finds what its own steps did (`Builds`), that
ready means sealed (`Readiness`), that a copy keeps its source (`Sources`) and
that what the sweep has locked is still unowned, and still a candidate once
looked at again (`Sweeps`).

- `HandlesAreSound`, `BuildsAreUndisturbed`, `SourcesAreProtected`: the three
  safety invariants of the template runs.
- `SweepsOnlyAbandoned`: `Spec => SweepOnlyAbandoned`, an action property. The
  list a sweep works from may be arbitrarily old: the second look under the
  lock is what the proof uses.

- `CoordinationImplementsRegistry`: `Spec => ImplementsRegistry`. A database is
  *present* when the catalog has it, a template *usable* when it is sealed, and
  its *builder* is whoever has the exclusive lock. `CoordinationInv` gives the
  guards of `TemplateRegistry`: `Locks` that nobody holds a handle when a builder
  or the sweep enters, `Builds` that only unfinished databases are discarded,
  `Readiness` that what is opened is usable, and `Sources` that a copy has its
  source to the end. One invariant is new, `Tests`: the database of a live harness
  is where the harness left it, so that a lease in use has its database.

The coordination locks play no part in these proofs. They are needed only so
that attempts end (`AttemptEnds`, checked by TLC).

`PrewarmPoolProofs`, from `PoolAssumption` (finitely many databases and callers,
a capacity between one and the number of permits and of databases, names of
different kinds differ). `PoolInv` says, besides types, that

- the queue of ready databases holds exactly the databases in that state, each
  once (`ReadyExact`), so that `begin_cleanup`, which adds the length of the
  queue to `deleting`, moves as many databases; `held`, the leases and the
  replacements are exact in the same way (`HeldExact`, `LeasesExact`,
  `RefillsExact`);
- the pool stops accepting and begins its cleanup at once (`CleanupOnce`), and the
  server closes admission first and the queue last (`GateOrder`, `PoolClosed`);
- the counters are right *while the pool exists* (`Counted`, `CountersNatural`):
  a lease that outlives its pool does not touch them. `NotBegun` covers the
  time before the pool is registered;
- tokens are counted where they are: free, reserved by a caller, or about to be
  added by the fill or by a job (`Tokens`).

An action moves one or two databases between states; the lemmas `CountOne` and
`CountQueue` say what that does to the cardinalities the counters are compared
with. The theorems are `SlotsAreExact`, `TokensAreBacked`,
`LeftoversCloseAdmission` and `ShutdownReachesPool`, one for each safety
invariant of the run `prewarm_pool`.

`HarnessConfigProofs`, from `ConfigAssumption` (arguments and limits are numbers,
the defaults are within the limits, the fixed timeouts are at least a
millisecond, images are sequences of strings). The number of setter calls, the
durations, the integer limits and the settings of the server are arbitrary.
`ConfigInv` says what the setters let through (`Accepted`).

- `SizesAlwaysFit`: `Spec => []SizesFit`. The lemmas follow the computation:
  `LimitsKnown` and `LeasesKnown` for `connection_limits`, `SlotsKnown` and
  `SizesKnown` for the pool and its workers.
- `ConfigurationArrives`: `Spec => []ConfigurationPreserved`. Rounding to
  milliseconds is monotonic (`MillisMonotonic`), so that the lock timeout, the
  smaller of two deadlines, is neither zero nor above the statement timeout.
  For images (`ImageKept`) no induction is needed: the first `@` and the last
  colon exist as the least and the greatest of a set of positions, and the rest
  is cutting and joining sequences there. `ImageSymbol` names the literals that
  the code uses because the prover does not know that a literal is a string.

`IdentityProofs` is about `ResourceIdentity` and `TemplateIdentity`. Its first
three theorems are from `IdentityAssumption`, which TLC evaluates for the
constants of the run `rules`:

- the suffixes of tests and templates have fixed, different lengths and consist
  of digits, and `"_"` is none; projects are valid (`ProjectName::new`);
- strangers do not use a name that a harness could have given (`NameOf`). Without
  this the code itself cannot tell them apart;
- distinct times are printed distinctly, and no printed value looks like the mark
  `"alt"`, with which the model writes another spelling of the same value.

`IdentityInv` says that the name of a database fits what it really is
(`Describes`), that the parts of every comment are ones that harnesses or others
may write (`Part`; a respelled project is marked, and no creation time is in the
future), and `SweepOwn`.

- `NamesOfOneProject`: `NamesSpec => []NamesDisjoint`. A suffix holds no `"_"`, so the
  last `"_"` of a name is where its prefix ends (`LastMark`); the length of the
  suffix and the word before that mark then give the kind, and what is left is
  the project (`NameUnique`). It does not matter that projects may contain
  `"_"`, `"test"` or the whole prefix of another project.
- `SweepsOfOneProject`: `NamesSpec => []SweepOwn`. A candidate's name was recognised,
  so it is the sweeping project's own (`Candidate`), and the comment, whoever
  wrote it, repeats project and kind. For a template the name also repeats the
  fingerprint, up to what `short_hex` keeps of it (`SameShortHex`).
- `CommentsReadBack`: `NamesSpec => []CommentsFaithful`. What `Encode` writes has every
  key once, so that `Fields` returns the record (`TestRecord`, `RootRecord`,
  `DerivedRecord`) and `Parse` the metadata (`ReadBack`). Conversely what `Parse`
  accepts has exactly the keys of what it returns, each value as it would be
  written or marked as another spelling of it (`Rewritten`), and as many parts as
  there are keys (`KeyCount`): `ReadIsWritten`.

`FingerprintsTellTemplates`: `PrintsSpec => []FingerprintsFaithful` is about
`TemplateIdentity`, from `HashAssumption`: inputs are finite
sequences over some set `Byte`, which also holds the two tags, every printed
length and every digest; different sequences have different digests and
different lengths are printed differently. This is SHA-256 without collisions,
with the digest and the length abbreviated to one byte each. Numbers of
callers, additions and derivations and the lengths of all inputs are arbitrary.
`PrintsInv` says that a builder holds the frames of its inputs one after the
other (`Framing`) and that an identity is the end of a chain of fingerprints
over a lineage (`Chain`).

- Where a frame begins follows from the lengths before it, so bytes fed in two
  ways have the same frames (`SameOffsets`) and neither can end where the other
  goes on (`FramesDecode`). Without the lengths this fails, which is the mutant
  `Frame_Unframed`.
- A chain is read from its end: equal fingerprints of derived templates have
  equal parents and steps (`DerivesBack`), and the tags keep a root from being
  taken for a derived template (`RootNotDerived`), so both chains end together
  (`NoShorterChain`).

Where these proofs go through sequences of any length they use a least
counterexample (`LeastExists`, `Stepwise`) in place of induction, which the
library states for operators only and the provers cannot apply.

The parts of the inductive invariants were checked by TLC on the
instances of the runs before they were proved (except `NotBegun`, which the
proof of `Counted` turned out to need, and `PrintsInv`, whose quantifiers range
over all functions).

`ImplementsRegistry` was checked by TLC on the instance of `template_sweep` before
it was proved, and `ImplementsService` also on that of `queue_barriers`; as
parts of these runs they would double or triple their time, so there the theorems
stand for them.

Every safety property that a passing run checks is thus also a theorem. Only
model-checked: liveness (`CleanupCompletes`, `ShutdownEnds`, `AttemptEnds`,
`EndedFlightWakes`, `ClosedPoolEnds`, `NothingHangs`, `ContainerEnds`), and with it
the fairness part of the refinement of `SessionSlots`: fairness and ENABLED are
outside the prover.

## 7. Plan

`PrewarmPool` hands its databases to a cleanup queue that it models by a few
states of each database. These could be the states of `CleanupService`, so that
what is proved of the queue carries over to the pool. `OwnedContainer` has no
abstract specification yet; it would promise one removal and one report of its
error.

## 8. Not modelled

- Error types, their messages and the evidence gathered for them (container
  logs and status), logging, and the counts in reports: no state depends on
  them. Which errors a call combines is in `OwnedContainer`.
- URL handling, TLS, quoting and SQL text are I/O; each statement appears as the
  effects it may have, and the session settings as their effective values.
- SHA-256 is an ideal hash, so `advisory_key`, a part of a digest, is a given
  name; PostgreSQL's limit of 63 bytes for identifiers is not reached by the
  names the code makes, since the project's length is validated.
- Poisoned mutexes (the code recovers or returns an error) and failure to start
  threads.
- The error return of `ContainerOwner::start` when the admin URL does not parse
  (src/server.rs 783-786), which leaves the worker unjoined: the host is a parsed
  `url::Host` by then and the other parts are fixed, so the URL parses.
- `examples/performance*`: measurement and report output around the public
  interface.
