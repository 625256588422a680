--------------------------- MODULE AdminSessionPool ---------------------------
(***************************************************************************)
(* The lazy, bounded pool of administrative sessions (AdminSessionPool in  *)
(* src/admin.rs).  Callers are the blocking threads that create and drop   *)
(* databases.  A critical section of the pool's mutex is one action; so is *)
(* each exchange with the server between two of them, and the end of a     *)
(* connection, which the code puts before or after the release of a slot.  *)
(*                                                                         *)
(* What an operation does with its session belongs to the modules of the   *)
(* operations: here it ends well or not.  Time is one flag per checkout:   *)
(* its deadline has passed or has not.                                     *)
(***************************************************************************)
EXTENDS Integers, FiniteSets, Sequences

CONSTANTS
    Caller,     \* threads that run administrative operations
    MaxSize,    \* max_size: slots of the pool
    Session,    \* names for connections; one that is closed is used again
    NoSession

ASSUME PoolAssumption ==
    /\ IsFiniteSet(Caller) /\ IsFiniteSet(Session) /\ NoSession \notin Session
    /\ MaxSize \in Nat \ {0}
    \* Enough names: a caller keeps one, an idle one occupies a slot.
    /\ Cardinality(Session) >= Cardinality(Caller) + MaxSize

VARIABLES
    idle,       \* AdminSessionPoolState.idle, a stack
    total,      \* AdminSessionPoolState.total
    closed,     \* AdminSessionPoolState.closed
    pc,         \* where each caller is
    client,     \* the session a caller has in its hands
    elapsed,    \* the deadline of the caller's checkout has passed
    open,       \* sessions whose connection exists
    tainted,    \* sessions whose last operation failed or panicked
    discarded   \* idle sessions that close has taken and not dropped yet

poolVars == <<idle, total, closed>>
vars == <<poolVars, pc, client, elapsed, open, tainted, discarded>>

(***************************************************************************)
(* acquire    in acquire_checkout, with or before the mutex                *)
(* asleep     in Condvar::wait_timeout                                     *)
(* reset      has a pooled session, resets and configures it               *)
(* connect    has a slot and opens a connection for it                     *)
(* prepare    configures the new connection                                *)
(* retry      about to release the slot of a dead pooled session           *)
(* fail       about to release the slot of a connection that failed        *)
(* using      runs its operation                                           *)
(* return     drops an AdminSession that is reusable                       *)
(* evict      drops an AdminSession that is not                            *)
(* closing    has released the slot and drops the client                   *)
(***************************************************************************)
CallerState == {"idle", "acquire", "asleep", "reset", "connect", "prepare",
                "retry", "fail", "using", "return", "evict", "closing"}
HoldsSlot == {"reset", "connect", "prepare", "retry", "fail", "using",
              "return", "evict"}

In(states) == {c \in Caller : pc[c] \in states}
Holders == In(HoldsSlot)
Elems(s) == {s[i] : i \in DOMAIN s}

Init ==
    /\ idle = <<>> /\ total = 0 /\ closed = FALSE
    /\ pc = [c \in Caller |-> "idle"]
    /\ client = [c \in Caller |-> NoSession]
    /\ elapsed = [c \in Caller |-> FALSE]
    /\ open = {} /\ tainted = {} /\ discarded = {}

-----------------------------------------------------------------------------
Go(c, state) == pc' = [pc EXCEPT ![c] = state]

(***************************************************************************)
(* Mistakes the code could plausibly contain, each replacing the operator  *)
(* whose name it starts with.                                              *)
(***************************************************************************)
GoAndNotifyOne_Forgotten(c, state) == Go(c, state)
HasSlot_OffByOne == total <= MaxSize
Recyclable_Always(c) == ~closed
Recyclable_WhenClosed(c) == pc[c] = "return"
LeaveIdle_Counted == UNCHANGED total
AfterFailedReset_KeepsClient(c) ==
    /\ Go(c, "retry")
    /\ UNCHANGED open
    /\ client' = [client EXCEPT ![c] = NoSession]

\* notify_one: the caller goes on and one thread that waits, if any, looks
\* at the pool again.
GoAndNotifyOne(c, state) ==
    IF In({"asleep"}) = {}
    THEN Go(c, state)
    ELSE \E w \in In({"asleep"}) : pc' = [pc EXCEPT ![c] = state, ![w] = "acquire"]

\* notify_all
NotifyAll == pc' = [c \in Caller |-> IF pc[c] = "asleep" THEN "acquire" ELSE pc[c]]

BeginCheckout(c) ==
    /\ pc[c] = "idle"
    /\ Go(c, "acquire")
    /\ elapsed' = [elapsed EXCEPT ![c] = FALSE]
    /\ UNCHANGED <<poolVars, client, open, tainted, discarded>>

DeadlineElapses(c) ==
    /\ pc[c] \in {"acquire", "asleep", "reset", "retry"} /\ ~elapsed[c]
    /\ elapsed' = [elapsed EXCEPT ![c] = TRUE]
    /\ UNCHANGED <<poolVars, pc, client, open, tainted, discarded>>

HasSlot == total < MaxSize

AcquireClosed(c) ==
    /\ pc[c] = "acquire" /\ closed
    /\ Go(c, "idle")
    /\ UNCHANGED <<poolVars, client, elapsed, open, tainted, discarded>>

AcquireIdle(c) ==
    /\ pc[c] = "acquire" /\ ~closed /\ idle # <<>>
    /\ client' = [client EXCEPT ![c] = idle[Len(idle)]]
    /\ idle' = SubSeq(idle, 1, Len(idle) - 1)
    /\ Go(c, "reset")
    /\ UNCHANGED <<total, closed, elapsed, open, tainted, discarded>>

AcquireSlot(c) ==
    /\ pc[c] = "acquire" /\ ~closed /\ idle = <<>> /\ HasSlot
    /\ total' = total + 1
    /\ Go(c, "connect")
    /\ UNCHANGED <<idle, closed, client, elapsed, open, tainted, discarded>>

\* The deadline counts only when there is nothing to have.
AcquireTimeout(c) ==
    /\ pc[c] = "acquire" /\ ~closed /\ idle = <<>> /\ ~HasSlot /\ elapsed[c]
    /\ Go(c, "idle")
    /\ UNCHANGED <<poolVars, client, elapsed, open, tainted, discarded>>

AcquireWait(c) ==
    /\ pc[c] = "acquire" /\ ~closed /\ idle = <<>> /\ ~HasSlot /\ ~elapsed[c]
    /\ Go(c, "asleep")
    /\ UNCHANGED <<poolVars, client, elapsed, open, tainted, discarded>>

WaitTimeout(c) ==
    /\ pc[c] = "asleep" /\ elapsed[c]
    /\ Go(c, "acquire")
    /\ UNCHANGED <<poolVars, client, elapsed, open, tainted, discarded>>

SpuriousWakeup(c) ==
    /\ pc[c] = "asleep"
    /\ Go(c, "acquire")
    /\ UNCHANGED <<poolVars, client, elapsed, open, tainted, discarded>>

-----------------------------------------------------------------------------
(* A pooled session. *)

DropClient(c) ==
    /\ open' = open \ {client[c]}
    /\ client' = [client EXCEPT ![c] = NoSession]

\* DISCARD ALL and the session settings, each within what is left of the
\* checkout's deadline.
ResetSession(c) ==
    /\ pc[c] = "reset" /\ ~elapsed[c]
    /\ Go(c, "using")
    /\ UNCHANGED <<poolVars, client, elapsed, open, tainted, discarded>>

AfterFailedReset(c) ==
    /\ Go(c, "retry")
    /\ DropClient(c)

ResetFails(c) ==
    /\ pc[c] = "reset"
    /\ AfterFailedReset(c)
    /\ UNCHANGED <<poolVars, elapsed, tainted, discarded>>

Uncounted == total - 1

AfterRelease(c) == IF elapsed[c] THEN "idle" ELSE "acquire"

ReleaseAfterReset(c) ==
    /\ pc[c] = "retry"
    /\ total' = Uncounted
    /\ GoAndNotifyOne(c, AfterRelease(c))
    /\ UNCHANGED <<idle, closed, client, elapsed, open, tainted, discarded>>

-----------------------------------------------------------------------------
(* A new connection: CONNECT_TIMEOUT and the request timeout end these     *)
(* steps, not the checkout's deadline.                                     *)

Connect(c) ==
    /\ pc[c] = "connect" /\ Session \ open # {}
    /\ LET s == CHOOSE s \in Session \ open : TRUE
       IN  /\ client' = [client EXCEPT ![c] = s]
           /\ open' = open \cup {s}
           /\ tainted' = tainted \ {s}
    /\ Go(c, "prepare")
    /\ UNCHANGED <<poolVars, elapsed, discarded>>

ConnectFails(c) ==
    /\ pc[c] = "connect"
    /\ Go(c, "fail")
    /\ UNCHANGED <<poolVars, client, elapsed, open, tainted, discarded>>

PrepareSession(c) ==
    /\ pc[c] = "prepare"
    /\ Go(c, "using")
    /\ UNCHANGED <<poolVars, client, elapsed, open, tainted, discarded>>

PrepareFails(c) ==
    /\ pc[c] = "prepare"
    /\ DropClient(c)
    /\ Go(c, "fail")
    /\ UNCHANGED <<poolVars, elapsed, tainted, discarded>>

ReleaseAfterConnect(c) ==
    /\ pc[c] = "fail"
    /\ total' = Uncounted
    /\ GoAndNotifyOne(c, "idle")
    /\ UNCHANGED <<idle, closed, client, elapsed, open, tainted, discarded>>

-----------------------------------------------------------------------------
(* The operation and the return of the session. *)

\* AdminSessionDisposition::Reuse
OperationReuses(c) ==
    /\ pc[c] = "using"
    /\ Go(c, "return")
    /\ UNCHANGED <<poolVars, client, elapsed, open, tainted, discarded>>

\* AdminSessionDisposition::Evict, or a panic
OperationEvicts(c) ==
    /\ pc[c] = "using"
    /\ Go(c, "evict")
    /\ tainted' = tainted \cup {client[c]}
    /\ UNCHANGED <<poolVars, client, elapsed, open, discarded>>

Recyclable(c) == pc[c] = "return" /\ ~closed

DropIntoPool(c) ==
    /\ pc[c] \in {"return", "evict"} /\ Recyclable(c)
    /\ idle' = Append(idle, client[c])
    /\ client' = [client EXCEPT ![c] = NoSession]
    /\ GoAndNotifyOne(c, "idle")
    /\ UNCHANGED <<total, closed, elapsed, open, tainted, discarded>>

DropEvicts(c) ==
    /\ pc[c] \in {"return", "evict"} /\ ~Recyclable(c)
    /\ total' = Uncounted
    /\ GoAndNotifyOne(c, "closing")
    /\ UNCHANGED <<idle, closed, client, elapsed, open, tainted, discarded>>

CloseConnection(c) ==
    /\ pc[c] = "closing"
    /\ DropClient(c)
    /\ Go(c, "idle")
    /\ UNCHANGED <<poolVars, elapsed, tainted, discarded>>

-----------------------------------------------------------------------------
(* close, at the shutdown of an owned server.  A second call finds nothing *)
(* idle and nobody asleep.                                                 *)

LeaveIdle == total' = total - Len(idle)

Close ==
    /\ ~closed
    /\ closed' = TRUE
    /\ LeaveIdle
    /\ discarded' = Elems(idle)
    /\ idle' = <<>>
    /\ NotifyAll
    /\ UNCHANGED <<client, elapsed, open, tainted>>

DropDiscarded ==
    /\ discarded # {}
    /\ open' = open \ discarded
    /\ discarded' = {}
    /\ UNCHANGED <<poolVars, pc, client, elapsed, tainted>>

Checkout(c) ==
    \/ AcquireClosed(c) \/ AcquireIdle(c) \/ AcquireSlot(c)
    \/ AcquireTimeout(c) \/ AcquireWait(c) \/ WaitTimeout(c)

Setup(c) ==
    \/ ResetSession(c) \/ ResetFails(c) \/ ReleaseAfterReset(c)
    \/ Connect(c) \/ ConnectFails(c) \/ PrepareSession(c) \/ PrepareFails(c)
    \/ ReleaseAfterConnect(c)

Operate(c) ==
    \/ OperationReuses(c) \/ OperationEvicts(c)
    \/ DropIntoPool(c) \/ DropEvicts(c) \/ CloseConnection(c)

Next ==
    \/ Close \/ DropDiscarded
    \/ \E c \in Caller :
          \/ BeginCheckout(c) \/ DeadlineElapses(c) \/ SpuriousWakeup(c)
          \/ Checkout(c) \/ Setup(c) \/ Operate(c)

(***************************************************************************)
(* Threads run, deadlines pass, and statements and operations end because  *)
(* each has a client-side timeout.  Nothing makes a caller ask again or    *)
(* the server shut down.                                                   *)
(***************************************************************************)
Fairness ==
    /\ WF_vars(DropDiscarded)
    /\ \A c \in Caller : /\ WF_vars(DeadlineElapses(c))
                         /\ WF_vars(Checkout(c) \/ Setup(c) \/ Operate(c))

Spec == Init /\ [][Next]_vars /\ Fairness

-----------------------------------------------------------------------------
TypeOK ==
    /\ idle \in Seq(Session) /\ total \in 0..MaxSize /\ closed \in BOOLEAN
    /\ pc \in [Caller -> CallerState]
    /\ client \in [Caller -> Session \cup {NoSession}]
    /\ elapsed \in [Caller -> BOOLEAN]
    /\ open \subseteq Session /\ tainted \subseteq Session /\ discarded \subseteq Session

\* `total` counts exactly the idle sessions and the callers that occupy a
\* slot, whatever fails on the way: the three checked_sub calls never panic,
\* and no slot is lost to a failed reset, connect or operation.
SlotsExact == total = Len(idle) + Cardinality(Holders)

\* A caller sleeps only while every slot is taken, up to the callers that are
\* already awake to take what became free: one notify_one per release is
\* enough although a signal may reach a caller whose deadline has passed.
NoStrandedWaiter ==
    In({"asleep"}) # {} =>
        /\ ~closed
        /\ Len(idle) + (MaxSize - total) <= Cardinality(In({"acquire"}))

\* A session is in one place only, and one whose operation failed or panicked
\* is neither pooled nor given to an operation again.
SessionsExclusive ==
    /\ \A i, j \in DOMAIN idle : i # j => idle[i] # idle[j]
    /\ \A c \in Caller : /\ client[c] \notin Elems(idle) \cup discarded
                         /\ pc[c] \in {"reset", "using", "return"} => client[c] \in open \ tainted
    /\ \A c, d \in Caller : c # d /\ client[c] = client[d] => client[c] = NoSession
    /\ Elems(idle) \subseteq open \ tainted

\* Connections beyond the slots are only those that a caller, or close, is
\* about to drop after it has released their slots.
ConnectionBound ==
    Cardinality(open) <= MaxSize + Cardinality(In({"closing"})) + Cardinality(discarded)

\* A checkout does not wait or retry for ever: its one deadline covers the
\* wait for a slot and every dead pooled session it tries.
CheckoutEnds ==
    \A c \in Caller : pc[c] = "acquire" ~> pc[c] \in {"idle", "using"}

\* Once the pool is closed every connection is closed, also one whose
\* operation was still running at that moment.
ClosedPoolDisconnects == closed ~> open = {}

\* No caller and no connection hangs: checkouts are answered, and a closed
\* pool loses what it had.
NothingHangs == CheckoutEnds /\ ClosedPoolDisconnects

\* The pool does what SessionSlots promises.
Slots == INSTANCE SessionSlots WITH waiting <- In({"acquire", "asleep"}),
                                    holders <- Holders,
                                    free <- Len(idle) + (MaxSize - total)

\* With a slot's grant, retry and release seen as SessionSlots' steps, the
\* pool grants no more than max_size slots, none after close, and answers
\* every request.
ImplementsSlots == Slots!Spec

=============================================================================
