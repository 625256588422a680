----------------------------- MODULE PrewarmPool -----------------------------
(***************************************************************************)
(* The bounded pool of prewarmed databases (PrewarmedDatabasePool in       *)
(* src/harness.rs): the call that fills it, the callers that lease from    *)
(* it, the cleanup jobs that replace what was leased, and everything that  *)
(* may close it - a failed or cancelled fill, a failed replacement, its    *)
(* own shutdown, the last handle, the server's shutdown.                   *)
(*                                                                         *)
(* The cleanup queue of CleanupQueue appears here through its promise: a   *)
(* submission is accepted unless the queue is closed, and an accepted job  *)
(* runs once, at any later time, on some worker.  A database names the     *)
(* thread or job that handles it.  Each action is one critical section of  *)
(* the pool's mutex or one effect that others can see between two.         *)
(***************************************************************************)
EXTENDS Integers, Sequences, FiniteSets

CONSTANTS
    Database,     \* bound: names the pool may use; none is used twice
    Borrower,     \* calls of database() that may be in flight at once
    Capacity,     \* slots of the pool
    MaxLeases,    \* permits of the admission semaphore, one per lease
    Filler, User, Server,   \* threads that may close the pool: prewarm(),
                            \* the pool's owner, the owned-server shutdown
    NoDatabase

Agent == Database \cup {Filler, User, Server}

ASSUME PoolAssumption ==
    /\ IsFiniteSet(Database) /\ IsFiniteSet(Borrower)
    /\ Capacity \in Nat \ {0} /\ MaxLeases \in Nat /\ Capacity <= MaxLeases
    /\ Capacity <= Cardinality(Database)
    /\ NoDatabase \notin Database
    /\ {Filler, User, Server} \cap Database = {}
    /\ Cardinality({Filler, User, Server}) = 3

VARIABLES
    \* PrewarmPoolState
    ready, leased, creating, deleting, accepting, cleanup_started,
    \* the semaphores of the pool
    tokens,            \* free permits of ready_admission
    semaphores_closed, \* ready_admission and closed
    \* the server
    admission_closed,
    permits,           \* databases of the pool whose permit is held
    other,             \* permits held by leases that are not of this pool
    queue_closed, registered, server,
    \* where every database is
    db,
    refill,            \* the replacement a cleanup job is creating
    \* threads
    filler, filler_db, filled,
    borrower, lease_of,
    handle, user,
    closing, held      \* finish_close: its stage, and what it must queue

stateVars == <<ready, leased, creating, deleting, accepting, cleanup_started>>
serverVars == <<admission_closed, permits, other, queue_closed, registered,
                server>>
databaseVars == <<db, refill>>
fillerVars == <<filler, filler_db, filled>>
borrowerVars == <<borrower, lease_of>>
closeVars == <<closing, held>>
vars == <<stateVars, tokens, semaphores_closed, serverVars, databaseVars,
          fillerVars, borrowerVars, handle, user, closeVars>>

\* In the hands of a creation: admit, create, created.  In the pool: ready.
\* With a caller: leased, returning.  In a job that drops it and replaces it:
\* return, refill (checks the gate), recreate, token, extra, finish,
\* residual.  On the way to a job that only drops it: held, requeue,
\* detached.  In such a job: queued (its slot is counted), plain.
\* A replacement: fresh, until its job has published it.
DatabaseState ==
    {"unused", "admit", "create", "created", "ready", "leased", "returning",
     "return", "refill", "recreate", "token", "extra", "finish", "residual",
     "held", "requeue", "detached", "queued", "plain", "fresh", "gone",
     "left"}

Init ==
    /\ ready = << >> /\ leased = 0 /\ creating = 0 /\ deleting = 0
    /\ accepting = TRUE /\ cleanup_started = FALSE
    /\ tokens = 0 /\ semaphores_closed = FALSE
    /\ admission_closed = FALSE /\ permits = {} /\ other = 0
    /\ queue_closed = FALSE
    /\ registered = FALSE /\ server = "up"
    /\ db = [d \in Database |-> "unused"]
    /\ refill = [d \in Database |-> NoDatabase]
    /\ filler = "register" /\ filler_db = NoDatabase /\ filled = 0
    /\ borrower = [b \in Borrower |-> "idle"]
    /\ lease_of = [b \in Borrower |-> NoDatabase]
    /\ handle = FALSE /\ user = "holding"
    /\ closing = [a \in Agent |-> "no"] /\ held = {}

-----------------------------------------------------------------------------
(***************************************************************************)
(* Mistakes the code could plausibly contain, each replacing the operator  *)
(* whose name it starts with.                                              *)
(***************************************************************************)
ReturnToken_Forgotten == UNCHANGED tokens
Residual_Ignored == UNCHANGED admission_closed
Uncount_Forgotten == deleting
MayRegister_Always == TRUE
WakeBorrowers_Forgotten == UNCHANGED semaphores_closed

-----------------------------------------------------------------------------
Occupied == Len(ready) + leased + creating + deleting

InFlight == {b \in Borrower : borrower[b] \in {"permit", "take"}}

\* Something still holds an Arc of PrewarmPoolInner; leases hold a Weak.
Alive ==
    \/ handle \/ filler \in {"begin", "create", "token", "requeue"}
    \/ \E a \in Agent : closing[a] # "no"
    \/ \E d \in Database : db[d] \in
          {"returning", "return", "refill", "recreate", "token", "extra",
           "held", "queued"}

\* begin_cleanup, with deleting counting n before it, run by thread a, which
\* goes on to finish_close.
BeginCleanup(a, n) ==
    /\ accepting' = FALSE /\ cleanup_started' = TRUE
    /\ IF cleanup_started
       THEN /\ closing' = [closing EXCEPT ![a] = "wake"]
            /\ deleting' = n
            /\ UNCHANGED <<ready, held>>
       ELSE /\ closing' = [closing EXCEPT ![a] = "wake_and_queue"]
            /\ deleting' = n + Len(ready)
            /\ held' = {ready[i] : i \in 1 .. Len(ready)}
            /\ ready' = << >>

\* db after begin_cleanup moved what was ready to the thread that closes.
HoldReady(f) ==
    [d \in Database |-> IF \E i \in 1 .. Len(ready) : ready[i] = d
                        THEN "held" ELSE f[d]]

Open == accepting /\ ~cleanup_started

ReturnToken == tokens' = tokens + 1

\* Closing the semaphores wakes every caller of database() that waits.
WakeBorrowers == semaphores_closed' = TRUE

\* register_prewarm_pool reads the gate under the lock of the pool list.
MayRegister == ~admission_closed

Residual == admission_closed' = TRUE

\* deleting once a counted deletion is over.
Uncount == deleting - 1

-----------------------------------------------------------------------------
(***************************************************************************)
(* finish_close: both semaphores first, then the idle databases one by one.*)
(* A thread that found the cleanup started has none to queue.              *)
(***************************************************************************)
CloseSemaphores(a) ==
    /\ closing[a] \in {"wake", "wake_and_queue"}
    /\ WakeBorrowers
    /\ closing' = [closing EXCEPT ![a] =
          IF closing[a] = "wake" \/ held = {} THEN "no" ELSE "queue"]
    /\ UNCHANGED <<stateVars, tokens, serverVars, databaseVars, fillerVars,
                   borrowerVars, handle, user, held>>

\* submit_prewarmer; a refused closure is dropped and gives the slot back.
QueueHeld(a, d) ==
    /\ closing[a] = "queue" /\ d \in held
    /\ held' = held \ {d}
    /\ closing' = [closing EXCEPT ![a] = IF held = {d} THEN "no" ELSE "queue"]
    /\ IF queue_closed
       THEN db' = [db EXCEPT ![d] = "left"] /\ deleting' = Uncount
       ELSE db' = [db EXCEPT ![d] = "queued"] /\ UNCHANGED deleting
    /\ UNCHANGED <<ready, leased, creating, accepting, cleanup_started, tokens,
                   semaphores_closed, serverVars, refill, fillerVars,
                   borrowerVars, handle, user>>

-----------------------------------------------------------------------------
(***************************************************************************)
(* prewarm(): register, then create and publish one database per slot.     *)
(***************************************************************************)
Register ==
    /\ filler = "register"
    /\ IF MayRegister THEN registered' = TRUE /\ filler' = "begin"
                      ELSE filler' = "failed" /\ UNCHANGED registered
    /\ UNCHANGED <<stateVars, tokens, semaphores_closed, admission_closed,
                   permits, other, queue_closed, server, databaseVars,
                   filler_db, filled, borrowerVars, handle, user, closeVars>>

\* DatabaseName::test makes a name nobody has used; which one does not matter.
NewName(d) == db[d] = "unused" /\ d = CHOOSE e \in Database : db[e] = "unused"

BeginCreation(d) ==
    /\ filler = "begin" /\ filled < Capacity
    /\ accepting /\ Occupied < Capacity
    /\ NewName(d)
    /\ creating' = creating + 1
    /\ db' = [db EXCEPT ![d] = "admit"]
    /\ filler' = "create" /\ filler_db' = d
    /\ UNCHANGED <<ready, leased, deleting, accepting, cleanup_started, tokens,
                   semaphores_closed, serverVars, refill, filled, borrowerVars,
                   handle, user, closeVars>>

\* begin_creation refuses; prewarm returns and drops its pool.
BeginCreationRefused ==
    /\ filler = "begin" /\ filled < Capacity
    /\ ~accepting \/ Occupied >= Capacity
    /\ BeginCleanup(Filler, deleting)
    /\ db' = HoldReady(db)
    /\ filler' = "failed"
    /\ UNCHANGED <<leased, creating, tokens, semaphores_closed, serverVars,
                   refill, filler_db, filled, borrowerVars, handle, user>>

\* attempt_managed_creation in the blocking task, for the fill.  The task
\* goes on when the fill is cancelled; its result is then dropped.
AdmitInitial(d) ==
    /\ db[d] = "admit"
    /\ db' = [db EXCEPT ![d] = IF admission_closed THEN "gone" ELSE "create"]
    /\ UNCHANGED <<stateVars, tokens, semaphores_closed, serverVars, refill,
                   fillerVars, borrowerVars, handle, user, closeVars>>

CreateInitial(d) ==
    /\ db[d] = "create"
    /\ \/ /\ db' = [db EXCEPT ![d] =
                 IF filler_db = d THEN "created" ELSE "detached"]
          /\ UNCHANGED admission_closed
       \/ db' = [db EXCEPT ![d] = "gone"] /\ UNCHANGED admission_closed
       \/ db' = [db EXCEPT ![d] = "left"] /\ Residual
    /\ UNCHANGED <<stateVars, tokens, semaphores_closed, permits, other,
                   queue_closed, registered, server, refill, fillerVars,
                   borrowerVars, handle, user, closeVars>>

\* PrewarmCreation::publish and finish_creation.
PublishInitial ==
    /\ filler = "create" /\ db[filler_db] = "created"
    /\ creating' = creating - 1
    /\ IF Open
       THEN /\ ready' = Append(ready, filler_db)
            /\ db' = [db EXCEPT ![filler_db] = "ready"]
            /\ filler' = "token"
            /\ UNCHANGED deleting
       ELSE /\ deleting' = deleting + 1
            /\ db' = [db EXCEPT ![filler_db] = "requeue"]
            /\ filler' = "requeue"
            /\ UNCHANGED ready
    /\ UNCHANGED <<leased, accepting, cleanup_started, tokens,
                   semaphores_closed, serverVars, refill, filler_db, filled,
                   borrowerVars, handle, user, closeVars>>

\* The token is added after the mutex is released.
AddTokenInitial ==
    /\ filler = "token"
    /\ tokens' = tokens + 1
    /\ filled' = filled + 1 /\ filler' = "begin" /\ filler_db' = NoDatabase
    /\ UNCHANGED <<stateVars, semaphores_closed, serverVars, databaseVars,
                   borrowerVars, handle, user, closeVars>>

\* queue_counted_prepared_database: the pool closed under the creation.
RequeueInitial ==
    /\ filler = "requeue"
    /\ IF queue_closed
       THEN db' = [db EXCEPT ![filler_db] = "left"] /\ deleting' = Uncount
       ELSE db' = [db EXCEPT ![filler_db] = "queued"] /\ UNCHANGED deleting
    /\ filled' = filled + 1 /\ filler' = "begin" /\ filler_db' = NoDatabase
    /\ UNCHANGED <<ready, leased, creating, accepting, cleanup_started, tokens,
                   semaphores_closed, serverVars, refill, borrowerVars, handle,
                   user, closeVars>>

\* The creation failed, or the caller dropped the prewarm() future: the
\* PrewarmCreation guard fails its phase and the pool is dropped.
AbandonFill ==
    /\ filler = "create"
    /\ creating' = creating - 1
    /\ BeginCleanup(Filler, deleting)
    /\ db' = HoldReady([db EXCEPT ![filler_db] =
                IF @ = "created" THEN "detached" ELSE @])
    /\ filler' = "failed" /\ filler_db' = NoDatabase
    /\ UNCHANGED <<leased, tokens, semaphores_closed, serverVars, refill,
                   filled, borrowerVars, handle, user>>

FinishFill ==
    /\ filler = "begin" /\ filled = Capacity
    /\ filler' = "done" /\ handle' = TRUE
    /\ UNCHANGED <<stateVars, tokens, semaphores_closed, serverVars,
                   databaseVars, filler_db, filled, borrowerVars, user,
                   closeVars>>

-----------------------------------------------------------------------------
(***************************************************************************)
(* database(): a ready token, then a connection permit, then a database.   *)
(***************************************************************************)
ReserveToken(b) ==
    /\ handle /\ borrower[b] = "idle" /\ ~semaphores_closed /\ tokens > 0
    /\ tokens' = tokens - 1
    /\ borrower' = [borrower EXCEPT ![b] = "permit"]
    /\ UNCHANGED <<stateVars, semaphores_closed, serverVars, databaseVars,
                   fillerVars, lease_of, handle, user, closeVars>>

PermitFree ==
    Cardinality(permits) + Cardinality({b \in Borrower : borrower[b] = "take"})
        + other < MaxLeases

\* Leases taken directly from a template compete for the permits.
AcquireOther ==
    /\ ~admission_closed /\ PermitFree
    /\ other' = other + 1
    /\ UNCHANGED <<stateVars, tokens, semaphores_closed, admission_closed,
                   permits, queue_closed, registered, server, databaseVars,
                   fillerVars, borrowerVars, handle, user, closeVars>>

ReleaseOther ==
    /\ other > 0
    /\ other' = other - 1
    /\ UNCHANGED <<stateVars, tokens, semaphores_closed, admission_closed,
                   permits, queue_closed, registered, server, databaseVars,
                   fillerVars, borrowerVars, handle, user, closeVars>>

AcquirePermit(b) ==
    /\ borrower[b] = "permit" /\ ~admission_closed /\ PermitFree
    /\ borrower' = [borrower EXCEPT ![b] = "take"]
    /\ UNCHANGED <<stateVars, tokens, semaphores_closed, serverVars,
                   databaseVars, fillerVars, lease_of, handle, user,
                   closeVars>>

\* Admission is closed, or none is free and the pool closes: dropping the
\* reservation returns its token.
AcquireRefused(b) ==
    /\ borrower[b] = "permit"
    /\ admission_closed \/ (semaphores_closed /\ ~PermitFree)
    /\ borrower' = [borrower EXCEPT ![b] = "idle"]
    /\ ReturnToken
    /\ UNCHANGED <<stateVars, semaphores_closed, serverVars, databaseVars,
                   fillerVars, lease_of, handle, user, closeVars>>

\* The caller drops the future while it waits.
CancelBorrow(b) ==
    /\ borrower[b] = "permit"
    /\ borrower' = [borrower EXCEPT ![b] = "idle"]
    /\ ReturnToken
    /\ UNCHANGED <<stateVars, semaphores_closed, serverVars, databaseVars,
                   fillerVars, lease_of, handle, user, closeVars>>

TakeReady(b) ==
    /\ borrower[b] = "take"
    /\ IF accepting /\ ready # << >>
       THEN /\ ready' = Tail(ready) /\ leased' = leased + 1
            /\ db' = [db EXCEPT ![Head(ready)] = "leased"]
            /\ permits' = permits \cup {Head(ready)}
            /\ lease_of' = [lease_of EXCEPT ![b] = Head(ready)]
            /\ borrower' = [borrower EXCEPT ![b] = "lease"]
            /\ UNCHANGED tokens
       ELSE /\ borrower' = [borrower EXCEPT ![b] = "idle"]
            /\ ReturnToken
            /\ UNCHANGED <<ready, leased, db, permits, lease_of>>
    /\ UNCHANGED <<creating, deleting, accepting, cleanup_started,
                   semaphores_closed, admission_closed, other, queue_closed,
                   registered, server, refill, fillerVars, handle, user,
                   closeVars>>

\* The lease ends.  While the pool exists begin_return moves its slot to
\* deleting; afterwards the database is dropped like any other.
BeginReturn(b) ==
    /\ borrower[b] = "lease"
    /\ LET d == lease_of[b] IN
       IF Alive
       THEN /\ leased' = leased - 1 /\ deleting' = deleting + 1
            /\ db' = [db EXCEPT ![d] = "returning"]
       ELSE /\ db' = [db EXCEPT ![d] = "detached"]
            /\ UNCHANGED <<leased, deleting>>
    /\ borrower' = [borrower EXCEPT ![b] = "idle"]
    /\ lease_of' = [lease_of EXCEPT ![b] = NoDatabase]
    /\ UNCHANGED <<ready, creating, accepting, cleanup_started, tokens,
                   semaphores_closed, serverVars, refill, fillerVars, handle,
                   user, closeVars>>

\* submit_*_outcome with a PrewarmReturn.  A deferred submission gives up its
\* permit when it is accepted; a refused one drops the PrewarmReturn.
SubmitReturn(d) ==
    /\ db[d] = "returning"
    /\ \/ /\ ~queue_closed
          /\ db' = [db EXCEPT ![d] = "return"]
          /\ permits' \in {permits, permits \ {d}}
          /\ UNCHANGED <<ready, deleting, accepting, cleanup_started,
                         closeVars>>
       \/ /\ queue_closed
          /\ BeginCleanup(d, Uncount)
          /\ db' = HoldReady([db EXCEPT ![d] = "left"])
          /\ permits' = permits \ {d}
    /\ UNCHANGED <<leased, creating, tokens, semaphores_closed,
                   admission_closed, other, queue_closed, registered, server,
                   refill, fillerVars, borrowerVars, handle, user>>

\* A database without a slot: unpublished when the fill was cancelled, or
\* leased from a pool that is gone.
SubmitDetached(d) ==
    /\ db[d] = "detached"
    /\ \/ /\ ~queue_closed
          /\ db' = [db EXCEPT ![d] = "plain"]
          /\ permits' \in {permits, permits \ {d}}
       \/ /\ queue_closed
          /\ db' = [db EXCEPT ![d] = "left"]
          /\ permits' = permits \ {d}
    /\ UNCHANGED <<stateVars, tokens, semaphores_closed, admission_closed,
                   other, queue_closed, registered, server, refill, fillerVars,
                   borrowerVars, handle, user, closeVars>>

-----------------------------------------------------------------------------
(***************************************************************************)
(* database_cleanup_operation, run by a cleanup worker.                    *)
(***************************************************************************)

\* DROP DATABASE, then after_drop; a failure drops the PrewarmReturn.
DropDirty(d) ==
    /\ db[d] = "return"
    /\ \/ /\ Open
          /\ deleting' = Uncount /\ creating' = creating + 1
          /\ db' = [db EXCEPT ![d] = "refill"]
          /\ UNCHANGED <<ready, accepting, cleanup_started, closeVars>>
       \/ /\ ~Open
          /\ deleting' = Uncount
          /\ db' = [db EXCEPT ![d] = "finish"]
          /\ UNCHANGED <<ready, creating, accepting, cleanup_started,
                         closeVars>>
       \/ /\ BeginCleanup(d, Uncount)
          /\ db' = HoldReady([db EXCEPT ![d] = "residual"])
          /\ UNCHANGED creating
    /\ UNCHANGED <<leased, tokens, semaphores_closed, serverVars, refill,
                   fillerVars, borrowerVars, handle, user>>

AdmitRefill(d) ==
    /\ db[d] = "refill" /\ ~admission_closed
    /\ db' = [db EXCEPT ![d] = "recreate"]
    /\ UNCHANGED <<stateVars, tokens, semaphores_closed, serverVars, refill,
                   fillerVars, borrowerVars, handle, user, closeVars>>

\* The replacement is refused or fails; the phase is Creating by now.
RefillFails(d) ==
    /\ \/ db[d] = "refill" /\ admission_closed /\ UNCHANGED admission_closed
       \/ db[d] = "recreate" /\ UNCHANGED admission_closed
       \/ db[d] = "recreate" /\ Residual
    /\ creating' = creating - 1
    /\ BeginCleanup(d, deleting)
    /\ db' = HoldReady([db EXCEPT ![d] = "finish"])
    /\ UNCHANGED <<leased, tokens, semaphores_closed, permits, other,
                   queue_closed, registered, server, refill, fillerVars,
                   borrowerVars, handle, user>>

\* The replacement exists; publish and finish_creation.
PublishRefill(d, e) ==
    /\ db[d] = "recreate" /\ NewName(e)
    /\ creating' = creating - 1
    /\ IF Open
       THEN /\ ready' = Append(ready, e)
            /\ db' = [db EXCEPT ![d] = "token", ![e] = "ready"]
            /\ UNCHANGED <<deleting, refill>>
       ELSE /\ deleting' = deleting + 1
            /\ db' = [db EXCEPT ![d] = "extra", ![e] = "fresh"]
            /\ refill' = [refill EXCEPT ![d] = e]
            /\ UNCHANGED ready
    /\ UNCHANGED <<leased, accepting, cleanup_started, tokens,
                   semaphores_closed, serverVars, fillerVars, borrowerVars,
                   handle, user, closeVars>>

AddTokenRefill(d) ==
    /\ db[d] = "token"
    /\ tokens' = tokens + 1
    /\ db' = [db EXCEPT ![d] = "finish"]
    /\ UNCHANGED <<stateVars, semaphores_closed, serverVars, refill,
                   fillerVars, borrowerVars, handle, user, closeVars>>

\* The pool closed meanwhile: the same session drops the replacement again.
DropExtra(d) ==
    /\ db[d] = "extra"
    /\ deleting' = Uncount
    /\ \/ /\ db' = [db EXCEPT ![d] = "finish", ![refill[d]] = "gone"]
          /\ refill' = [refill EXCEPT ![d] = NoDatabase]
       \/ /\ db' = [db EXCEPT ![d] = "residual"]
          /\ UNCHANGED refill
    /\ UNCHANGED <<ready, leased, creating, accepting, cleanup_started, tokens,
                   semaphores_closed, serverVars, fillerVars, borrowerVars,
                   handle, user, closeVars>>

\* run_cleanup_job acts on the outcome: gate first, permit second.  What may
\* be left is the database, or the replacement that could not be dropped.
FinishJob(d) ==
    /\ db[d] \in {"finish", "residual"} /\ closing[d] = "no"
    /\ IF db[d] = "residual"
       THEN LET e == IF refill[d] = NoDatabase THEN d ELSE refill[d] IN
            /\ Residual
            /\ db' = [db EXCEPT ![d] = "gone", ![e] = "left"]
       ELSE /\ db' = [db EXCEPT ![d] = "gone"]
            /\ UNCHANGED admission_closed
    /\ refill' = [refill EXCEPT ![d] = NoDatabase]
    /\ permits' = permits \ {d}
    /\ UNCHANGED <<stateVars, tokens, semaphores_closed, other, queue_closed,
                   registered, server, fillerVars, borrowerVars, handle, user,
                   closeVars>>

\* A job that only drops; ClosedPrewarmDeletion::finish gives the slot back.
RunDeletion(d) ==
    /\ db[d] \in {"queued", "plain"}
    /\ deleting' = IF db[d] = "queued" THEN Uncount ELSE deleting
    /\ \/ db' = [db EXCEPT ![d] = "gone"] /\ UNCHANGED admission_closed
       \/ db' = [db EXCEPT ![d] = "left"] /\ Residual
    /\ permits' = permits \ {d}
    /\ UNCHANGED <<ready, leased, creating, accepting, cleanup_started, tokens,
                   semaphores_closed, other, queue_closed, registered, server,
                   refill, fillerVars, borrowerVars, handle, user, closeVars>>

-----------------------------------------------------------------------------
(***************************************************************************)
(* The owner of the pool, and the shutdown of an owned server.             *)
(***************************************************************************)

\* shutdown() of the pool, or the drop of its last handle.
ClosePool ==
    /\ handle /\ user = "holding"
    /\ BeginCleanup(User, deleting)
    /\ db' = HoldReady(db)
    /\ user' = "closed"
    /\ UNCHANGED <<leased, creating, tokens, semaphores_closed, serverVars,
                   refill, fillerVars, borrowerVars, handle>>

\* The last handle is gone; no call of database() borrows it any more.
ReleaseHandle ==
    /\ handle /\ user = "closed" /\ closing[User] = "no" /\ InFlight = {}
    /\ handle' = FALSE
    /\ UNCHANGED <<stateVars, tokens, semaphores_closed, serverVars,
                   databaseVars, fillerVars, borrowerVars, user, closeVars>>

\* shutdown_container: the gate, the registered pools, the queue.
CloseAdmission ==
    /\ server = "up"
    /\ admission_closed' = TRUE /\ server' = "pools"
    /\ UNCHANGED <<stateVars, tokens, semaphores_closed, permits, other,
                   queue_closed, registered, databaseVars, fillerVars,
                   borrowerVars, handle, user, closeVars>>

ClosePrewarmPools ==
    /\ server = "pools"
    /\ server' = "queue"
    /\ IF registered /\ Alive
       THEN BeginCleanup(Server, deleting) /\ db' = HoldReady(db)
       ELSE UNCHANGED <<ready, deleting, accepting, cleanup_started, db,
                        closeVars>>
    /\ UNCHANGED <<leased, creating, tokens, semaphores_closed,
                   admission_closed, permits, other, queue_closed, registered,
                   refill, fillerVars, borrowerVars, handle, user>>

CloseQueue ==
    /\ server = "queue" /\ closing[Server] = "no"
    /\ queue_closed' = TRUE /\ server' = "down"
    /\ UNCHANGED <<stateVars, tokens, semaphores_closed, admission_closed,
                   permits, other, registered, databaseVars, fillerVars,
                   borrowerVars, handle, user, closeVars>>

-----------------------------------------------------------------------------
\* The pool and its server are gone and nothing is under way.
Terminated ==
    /\ filler \in {"done", "failed"} /\ ~handle /\ server = "down"
    /\ \A d \in Database : db[d] \in {"unused", "gone", "left"}
    /\ \A a \in Agent : closing[a] = "no"
    /\ UNCHANGED vars

CloseStep(a) ==
    CloseSemaphores(a) \/ \E d \in Database : QueueHeld(a, d)

FillStep ==
    \/ Register \/ \E d \in Database : BeginCreation(d)
    \/ BeginCreationRefused \/ PublishInitial \/ AddTokenInitial
    \/ RequeueInitial \/ FinishFill

BorrowStep(b) == AcquirePermit(b) \/ AcquireRefused(b) \/ TakeReady(b)

JobStep(d) ==
    \/ AdmitInitial(d) \/ CreateInitial(d)
    \/ SubmitReturn(d) \/ SubmitDetached(d)
    \/ DropDirty(d) \/ AdmitRefill(d) \/ RefillFails(d) \/ AddTokenRefill(d)
    \/ \E e \in Database : PublishRefill(d, e)
    \/ DropExtra(d) \/ FinishJob(d) \/ RunDeletion(d)

\* What the application decides to do.
ApplicationStep ==
    \/ AbandonFill
    \/ \E b \in Borrower : ReserveToken(b) \/ CancelBorrow(b) \/ BeginReturn(b)
    \/ AcquireOther \/ ReleaseOther
    \/ ClosePool \/ ReleaseHandle
    \/ CloseAdmission

ShutdownStep == ClosePrewarmPools \/ CloseQueue

Next ==
    \/ \E a \in Agent : CloseStep(a)
    \/ FillStep
    \/ \E b \in Borrower : BorrowStep(b)
    \/ \E d \in Database : JobStep(d)
    \/ ApplicationStep
    \/ ShutdownStep
    \/ Terminated

Spec == Init /\ [][Next]_vars

\* A failed creation is reported to the fill, which then gives up.
FailFill == AbandonFill /\ db[filler_db] \in {"gone", "left"}

(***************************************************************************)
(* Threads that can run do run, accepted jobs run and their statements end *)
(* (the admin client puts a timeout on each).  Nothing makes the           *)
(* application borrow, return, cancel or close.                            *)
(***************************************************************************)
Fairness ==
    /\ \A a \in Agent : WF_vars(CloseStep(a))
    /\ WF_vars(FillStep) /\ WF_vars(FailFill)
    /\ \A b \in Borrower : WF_vars(BorrowStep(b))
    /\ \A d \in Database : WF_vars(JobStep(d))
    /\ WF_vars(ShutdownStep)

FairSpec == Spec /\ Fairness

-----------------------------------------------------------------------------
(***************************************************************************)
(* Properties.                                                             *)
(***************************************************************************)

\* Every variable has its type; in particular no counter is ever decremented
\* below zero, which the saturating subtractions of the code would hide.
TypeOK ==
    /\ ready \in Seq(Database) /\ accepting \in BOOLEAN
    /\ leased \in Nat /\ creating \in Nat /\ deleting \in Nat
    /\ cleanup_started \in BOOLEAN
    /\ tokens \in Nat /\ semaphores_closed \in BOOLEAN
    /\ admission_closed \in BOOLEAN /\ permits \subseteq Database
    /\ other \in 0 .. MaxLeases
    /\ queue_closed \in BOOLEAN /\ registered \in BOOLEAN
    /\ server \in {"up", "pools", "queue", "down"}
    /\ db \in [Database -> DatabaseState]
    /\ refill \in [Database -> Database \cup {NoDatabase}]
    /\ filler \in {"register", "begin", "create", "token", "requeue", "done",
                   "failed"}
    /\ filler_db \in Database \cup {NoDatabase} /\ filled \in 0 .. Capacity
    /\ borrower \in [Borrower -> {"idle", "permit", "take", "lease"}]
    /\ lease_of \in [Borrower -> Database \cup {NoDatabase}]
    /\ handle \in BOOLEAN /\ user \in {"holding", "closed"}
    /\ closing \in [Agent -> {"no", "wake", "wake_and_queue", "queue"}]
    /\ held \subseteq Database

Number(states) == Cardinality({d \in Database : db[d] \in states})

\* The counters of PrewarmPoolState are the truth: each counts exactly the
\* databases in its phase, on every path of success, failure, cancellation
\* and closure, and together they never exceed the slots of the pool.  This
\* is what the debug_assert!s of the code claim.
SlotsExact ==
    /\ TypeOK
    /\ Alive =>
        /\ leased = Number({"leased"})
        /\ creating = Number({"refill", "recreate"})
                      + (IF filler = "create" THEN 1 ELSE 0)
        /\ deleting = Number({"returning", "return", "extra", "held",
                              "requeue", "queued"})
        /\ Occupied <= Capacity

\* Every ready database of an open pool has exactly one token, free, reserved
\* by a caller or about to be added: a caller with a token and a permit always
\* finds a database, and no cancelled caller makes one unreachable.
TokensBacked ==
    accepting =>
        tokens + Cardinality(InFlight) + Number({"token"})
            + (IF filler = "token" THEN 1 ELSE 0) = Len(ready)

\* A database of the pool that nobody will drop (the drop failed, the answer
\* to its creation was lost, the queue refused it) exists only once admission
\* is closed.
LeftoverClosesAdmission ==
    (\E d \in Database : db[d] = "left") => admission_closed

\* However prewarm() races the shutdown of the server, a pool is either
\* refused or closed before the cleanup queue is.
ShutdownClosesPool == queue_closed /\ registered /\ Alive => ~accepting

\* A closed pool gets rid of everything it holds except what is leased.
ClosedPoolEmpties ==
    ~accepting ~> ready = << >> /\ creating = 0 /\ deleting = 0

\* Closing the pool ends every wait for a connection permit inside
\* database(), even if no permit ever becomes free.
ClosedPoolReleasesBorrowers ==
    \A b \in Borrower :
        borrower[b] = "permit" /\ ~accepting ~> borrower[b] # "permit"

\* Closing a pool comes to an end on both sides: what it holds is handed over
\* and dropped, and nobody goes on waiting for it.
ClosedPoolEnds == ClosedPoolEmpties /\ ClosedPoolReleasesBorrowers

\* The comment in shutdown_container: "Queue every idle prewarmed database
\* before fixing the cleanup barrier's target."  States that when the queue
\* closes and the target is fixed, no idle database is still to be queued.
IdleQueuedBeforeBarrier == queue_closed => held = {}

=============================================================================
