-------------------------- MODULE PrewarmPoolProofs --------------------------
(***************************************************************************)
(* Proofs about PrewarmPool for any finite sets of databases and callers,  *)
(* any capacity and any number of permits.                                 *)
(***************************************************************************)
EXTENDS PrewarmPool, FiniteSetTheorems, SequenceTheorems, TLAPS

(***************************************************************************)
(* The inductive invariant.                                                *)
(***************************************************************************)

\* The types of everything but the counters, which are numbers here; that
\* they are natural needs Counted.
Shape ==
    /\ ready \in Seq(Database) /\ leased \in Int /\ creating \in Int /\ deleting \in Int
    /\ tokens \in Nat /\ permits \subseteq Database /\ other \in 0 .. MaxLeases
    /\ server \in {"up", "pools", "queue", "down"}
    /\ db \in [Database -> DatabaseState]
    /\ refill \in [Database -> Database \cup {NoDatabase}]
    /\ filler \in {"register", "begin", "create", "token", "requeue", "done", "failed"}
    /\ filler_db \in Database \cup {NoDatabase} /\ filled \in 0 .. Capacity
    /\ borrower \in [Borrower -> {"idle", "permit", "take", "lease"}]
    /\ lease_of \in [Borrower -> Database \cup {NoDatabase}]
    /\ user \in {"holding", "closed"}
    /\ closing \in [Agent -> {"no", "wake", "wake_and_queue", "queue"}]
    /\ held \subseteq Database

Flags ==
    /\ accepting \in BOOLEAN /\ cleanup_started \in BOOLEAN
    /\ semaphores_closed \in BOOLEAN /\ admission_closed \in BOOLEAN
    /\ queue_closed \in BOOLEAN /\ registered \in BOOLEAN /\ handle \in BOOLEAN

\* The pool stops accepting and starts its cleanup in one critical section,
\* and has nothing ready from then on.
CleanupOnce ==
    /\ accepting <=> ~cleanup_started
    /\ cleanup_started => ready = << >>
    /\ ~cleanup_started => held = {}

\* The fill works on one slot at a time, on a database of its own.
FillerWorks ==
    /\ filler \in {"create", "token", "requeue"} => filler_db \in Database /\ filled < Capacity
    /\ filler = "requeue" => db[filler_db] = "requeue"

\* The databases in the queue of ready ones are the ready ones, each once.
InReady(d) == \E i \in 1 .. Len(ready) : ready[i] = d

ReadyExact ==
    /\ \A i, j \in 1 .. Len(ready) : ready[i] = ready[j] => i = j
    /\ \A d \in Database : InReady(d) <=> db[d] = "ready"

\* So are those that the closing thread still has to queue, those that
\* callers lease, and the replacements of jobs that found the pool closed.
HeldExact == \A d \in Database : d \in held <=> db[d] = "held"

LeasesExact ==
    /\ \A b \in Borrower : borrower[b] = "lease" =>
          lease_of[b] \in Database /\ db[lease_of[b]] = "leased"
    /\ \A b, c \in Borrower :
          borrower[b] = "lease" /\ borrower[c] = "lease" /\ lease_of[b] = lease_of[c] => b = c

RefillsExact ==
    /\ \A d \in Database : db[d] = "extra" => refill[d] # NoDatabase
    /\ \A d \in Database : refill[d] # NoDatabase =>
          db[d] \in {"extra", "residual"} /\ db[refill[d]] = "fresh"
    /\ \A d, e \in Database : refill[d] = refill[e] /\ refill[d] # NoDatabase => d = e

\* The server closes admission first and the queue last.
GateOrder ==
    /\ server # "up" => admission_closed
    /\ queue_closed => server = "down"

\* A pool that is registered is closed before the queue, or is no more.
PoolClosed ==
    /\ registered => filler # "register"
    /\ server \in {"queue", "down"} /\ registered /\ Alive => ~accepting

\* Before prewarm() has registered its pool there is nothing.
NotBegun == filler = "register" => ~handle /\ \A d \in Database : db[d] = "unused"

\* The pool exists, or is still to be made.
Exists == Alive \/ filler = "register"

One(p) == IF p THEN 1 ELSE 0

Leased == {"leased"}
Creating == {"refill", "recreate"}
Deleting == {"returning", "return", "extra", "held", "requeue", "queued"}
Tokened == {"token"}

Tally ==
    /\ leased = Number(Leased)
    /\ creating = Number(Creating) + One(filler = "create")
    /\ deleting = Number(Deleting)
    /\ Occupied <= Capacity

Counted == Exists => Tally

Tokens ==
    accepting =>
        tokens + Cardinality(InFlight) + Number(Tokened) + One(filler = "token") = Len(ready)

\* Once the pool is gone its counters are not touched.
CountersNatural == leased \in Nat /\ creating \in Nat /\ deleting \in Nat

PoolInv ==
    /\ Shape /\ Flags /\ CleanupOnce /\ FillerWorks /\ ReadyExact /\ HeldExact /\ LeasesExact
    /\ RefillsExact /\ GateOrder /\ LeftoverClosesAdmission /\ PoolClosed /\ NotBegun /\ Counted
    /\ Tokens /\ CountersNatural

-----------------------------------------------------------------------------
\* States in which something else refers to the database.
Bound == {"ready", "held", "leased", "fresh", "requeue", "extra", "residual"}

\* f is db after changes that nothing else refers to.
Simple(f) ==
    /\ f \in [Database -> DatabaseState]
    /\ \A e \in Database : f[e] # db[e] =>
          db[e] \notin Bound /\ f[e] \notin {"ready", "held", "extra"}

Related == ReadyExact /\ HeldExact /\ LeasesExact /\ RefillsExact

\* Such changes leave every relation between databases as it is.
LEMMA SimpleMove ==
    ASSUME PoolInv, Simple(db'), UNCHANGED <<ready, held, borrower, lease_of, refill>>
    PROVE  Related'
<1> USE PoolAssumption DEF PoolInv, Shape, Simple, Bound
<1>1. ReadyExact' /\ HeldExact'
  BY DEF ReadyExact, InReady, HeldExact
<1>2. LeasesExact'
  BY DEF LeasesExact
<1>3. RefillsExact'
  BY DEF RefillsExact
<1> QED
  BY <1>1, <1>2, <1>3 DEF Related

\* begin_cleanup hands what is ready to the closing thread, once.
LEMMA CleanupMove ==
    ASSUME PoolInv, NEW f, Simple(f), db' = HoldReady(f), NEW a, NEW n, BeginCleanup(a, n),
           UNCHANGED <<borrower, lease_of, refill>>
    PROVE  Related'
<1>1. \A e \in Database : db'[e] = IF db[e] = "ready" THEN "held" ELSE f[e]
  BY DEF HoldReady, PoolInv, ReadyExact, InReady
<1>2. ready' = << >> /\ \A e \in Database : ~InReady(e)'
  <2>1. ready' = << >>
    BY DEF BeginCleanup, PoolInv, CleanupOnce
  <2> QED
    BY <2>1 DEF InReady
<1>3. \A e \in Database : e \in held' <=> e \in held \/ db[e] = "ready"
  <2>1. CASE cleanup_started
    BY <2>1 DEF BeginCleanup, PoolInv, CleanupOnce, ReadyExact, InReady
  <2>2. CASE ~cleanup_started
    BY <2>2 DEF BeginCleanup, PoolInv, CleanupOnce, ReadyExact, InReady
  <2> QED
    BY <2>1, <2>2
<1>4. ReadyExact'
  BY <1>1, <1>2 DEF PoolInv, Shape, Simple, Bound, ReadyExact
<1>5. HeldExact'
  BY <1>1, <1>3 DEF PoolInv, Simple, Bound, HeldExact
<1>6. LeasesExact'
  BY <1>1 DEF PoolInv, Shape, Simple, Bound, LeasesExact
<1>7. RefillsExact'
  BY <1>1, PoolAssumption DEF PoolInv, Shape, Simple, Bound, RefillsExact
<1> QED
  BY <1>4, <1>5, <1>6, <1>7 DEF Related

\* QueueHeld, and RequeueInitial for the fill, let go of one database.
LEMMA QueueHeldRelated ==
    ASSUME PoolInv, NEW a \in Agent, NEW d \in Database, QueueHeld(a, d)
    PROVE  Related'
<1>1. /\ db[d] = "held" /\ held' = held \ {d} /\ UNCHANGED <<ready, borrower, lease_of, refill>>
      /\ db' \in [Database -> DatabaseState]
      /\ db'[d] \in {"left", "queued"} /\ \A e \in Database \ {d} : db'[e] = db[e]
  BY DEF QueueHeld, PoolInv, Shape, HeldExact, DatabaseState, borrowerVars
<1>2. ReadyExact' /\ HeldExact'
  BY <1>1 DEF PoolInv, Shape, ReadyExact, InReady, HeldExact
<1>3. LeasesExact' /\ RefillsExact'
  BY <1>1, PoolAssumption DEF PoolInv, Shape, LeasesExact, RefillsExact
<1> QED
  BY <1>2, <1>3 DEF Related

LEMMA RequeueRelated ==
    ASSUME PoolInv, RequeueInitial
    PROVE  Related'
<1> DEFINE d == filler_db
<1>1. d \in Database /\ db[d] = "requeue"
  BY DEF RequeueInitial, PoolInv, FillerWorks
<1>2. /\ UNCHANGED <<ready, held, borrower, lease_of, refill>>
      /\ db' \in [Database -> DatabaseState]
      /\ db'[d] \in {"left", "queued"} /\ \A e \in Database \ {d} : db'[e] = db[e]
  BY <1>1 DEF RequeueInitial, PoolInv, Shape, DatabaseState, borrowerVars, closeVars
<1> HIDE DEF d
<1>3. ReadyExact' /\ HeldExact'
  BY <1>1, <1>2 DEF PoolInv, Shape, ReadyExact, InReady, HeldExact
<1>4. LeasesExact' /\ RefillsExact'
  BY <1>1, <1>2, PoolAssumption DEF PoolInv, Shape, LeasesExact, RefillsExact
<1> QED
  BY <1>3, <1>4 DEF Related

\* A database that was not ready joins the queue of ready ones at its end.
LEMMA ReadyJoins ==
    ASSUME PoolInv, NEW d \in Database, db[d] # "ready", ready' = Append(ready, d),
           db'[d] = "ready", \A e \in Database \ {d} : db'[e] = "ready" <=> db[e] = "ready"
    PROVE  ReadyExact'
<1>1. /\ Len(ready) \in Nat /\ Len(ready') = Len(ready) + 1
      /\ \A i \in 1 .. Len(ready) : ready'[i] = ready[i]
      /\ ready'[Len(ready) + 1] = d
  BY DEF PoolInv, Shape
<1>2. \A i \in 1 .. Len(ready) : ready[i] # d
  BY DEF PoolInv, ReadyExact, InReady
<1>3. \A e \in Database : InReady(e)' <=> InReady(e) \/ e = d
  BY <1>1 DEF InReady
<1>4. \A i, j \in 1 .. Len(ready') : ready'[i] = ready'[j] => i = j
  <2> SUFFICES ASSUME NEW i \in 1 .. Len(ready'), NEW j \in 1 .. Len(ready'), ready'[i] = ready'[j]
               PROVE  i = j
    OBVIOUS
  <2>1. CASE i \in 1 .. Len(ready) /\ j \in 1 .. Len(ready)
    BY <1>1, <2>1 DEF PoolInv, ReadyExact
  <2>2. CASE i = Len(ready) + 1 \/ j = Len(ready) + 1
    BY <1>1, <1>2, <2>2
  <2> QED
    BY <1>1, <2>1, <2>2
<1> QED
  BY <1>3, <1>4 DEF PoolInv, ReadyExact

\* The first of the ready ones leaves the queue.
LEMMA ReadyLeaves ==
    ASSUME PoolInv, ready # << >>, ready' = Tail(ready), db'[Head(ready)] # "ready",
           \A e \in Database \ {Head(ready)} : db'[e] = db[e]
    PROVE  ReadyExact' /\ Head(ready) \in Database /\ db[Head(ready)] = "ready"
<1>1. /\ Len(ready) \in Nat \ {0} /\ Len(ready') = Len(ready) - 1
      /\ \A i \in 1 .. Len(ready') : ready'[i] = ready[i + 1]
      /\ Head(ready) = ready[1] /\ Head(ready) \in Database
  BY DEF PoolInv, Shape
<1>2. db[Head(ready)] = "ready"
  BY <1>1 DEF PoolInv, ReadyExact, InReady
<1>3. \A e \in Database : InReady(e)' <=> InReady(e) /\ e # Head(ready)
  <2> SUFFICES ASSUME NEW e \in Database
               PROVE  InReady(e)' <=> InReady(e) /\ e # Head(ready)
    OBVIOUS
  <2>1. ASSUME InReady(e)' PROVE InReady(e) /\ e # Head(ready)
    <3>1. PICK i \in 1 .. Len(ready') : ready'[i] = e
      BY <2>1 DEF InReady
    <3>2. i + 1 \in 1 .. Len(ready) /\ ready[i + 1] = e /\ i + 1 # 1 /\ 1 \in 1 .. Len(ready)
      BY <1>1, <3>1
    <3> QED
      BY <1>1, <3>2 DEF InReady, PoolInv, ReadyExact
  <2>2. ASSUME InReady(e), e # Head(ready) PROVE InReady(e)'
    <3>1. PICK i \in 1 .. Len(ready) : ready[i] = e
      BY <2>2 DEF InReady
    <3>2. i - 1 \in 1 .. Len(ready') /\ (i - 1) + 1 = i
      BY <1>1, <2>2, <3>1
    <3> QED
      BY <1>1, <3>1, <3>2 DEF InReady
  <2> QED
    BY <2>1, <2>2
<1>4. \A i, j \in 1 .. Len(ready') : ready'[i] = ready'[j] => i = j
  <2> SUFFICES ASSUME NEW i \in 1 .. Len(ready'), NEW j \in 1 .. Len(ready'), ready'[i] = ready'[j]
               PROVE  i = j
    OBVIOUS
  <2>1. i + 1 \in 1 .. Len(ready) /\ j + 1 \in 1 .. Len(ready) /\ ready[i + 1] = ready[j + 1]
    BY <1>1
  <2>2. i + 1 = j + 1
    BY <2>1 DEF PoolInv, ReadyExact
  <2> QED
    BY <1>1, <2>2
<1> QED
  BY <1>1, <1>2, <1>3, <1>4 DEF PoolInv, ReadyExact

\* A step that moves no database into or out of the two queues.
LEMMA QueuesUntouched ==
    ASSUME PoolInv, UNCHANGED <<ready, held>>,
           \A e \in Database : /\ db'[e] = "ready" <=> db[e] = "ready"
                               /\ db'[e] = "held" <=> db[e] = "held"
    PROVE  ReadyExact' /\ HeldExact'
BY DEF PoolInv, ReadyExact, InReady, HeldExact

\* A caller that has no lease before or after the step.
LEMMA CallerMoves ==
    ASSUME PoolInv, UNCHANGED <<ready, held, db, refill, lease_of>>, NEW b \in Borrower,
           NEW y \in {"idle", "permit", "take"}, borrower' = [borrower EXCEPT ![b] = y]
    PROVE  Related'
<1>1. \A c \in Borrower : borrower'[c] = "lease" => borrower[c] = "lease"
  BY DEF PoolInv, Shape
<1> QED
  BY <1>1 DEF Related, PoolInv, ReadyExact, InReady, HeldExact, LeasesExact, RefillsExact

\* The six steps that change the queue of ready databases, a lease or a
\* replacement along with db.
LEMMA PublishInitialRelated ==
    ASSUME PoolInv, PublishInitial
    PROVE  Related'
<1> DEFINE d == filler_db
<1>1. d \in Database /\ db[d] = "created" /\ UNCHANGED <<held, borrower, lease_of, refill>>
  BY DEF PublishInitial, PoolInv, FillerWorks, borrowerVars, closeVars
<1>2. CASE Open
  <2>1. /\ ready' = Append(ready, d)
        /\ db'[d] = "ready" /\ \A e \in Database \ {d} : db'[e] = db[e]
    BY <1>1, <1>2 DEF PublishInitial, PoolInv, Shape
  <2> HIDE DEF d
  <2>2. ReadyExact'
    BY <1>1, <2>1, ReadyJoins
  <2>3. HeldExact'
    BY <1>1, <2>1 DEF PoolInv, HeldExact
  <2>4. LeasesExact' /\ RefillsExact'
    BY <1>1, <2>1, PoolAssumption DEF PoolInv, Shape, LeasesExact, RefillsExact
  <2> QED
    BY <2>2, <2>3, <2>4 DEF Related
<1>3. CASE ~Open
  <2>1. Simple(db') /\ UNCHANGED ready
    BY <1>1, <1>3 DEF PublishInitial, PoolInv, Shape, Simple, Bound, DatabaseState
  <2> QED
    BY <1>1, <2>1, SimpleMove
<1> QED
  BY <1>2, <1>3

LEMMA TakeReadyRelated ==
    ASSUME PoolInv, NEW b \in Borrower, TakeReady(b)
    PROVE  Related'
<1> DEFINE d == Head(ready)
<1>1. borrower[b] = "take" /\ UNCHANGED <<held, refill>>
  BY DEF TakeReady, closeVars
<1>2. CASE accepting /\ ready # << >>
  <2>1. d \in Database
    BY <1>2 DEF PoolInv, Shape
  <2>2. /\ ready' = Tail(ready) /\ db'[d] = "leased" /\ \A e \in Database \ {d} : db'[e] = db[e]
        /\ borrower' = [borrower EXCEPT ![b] = "lease"]
        /\ lease_of' = [lease_of EXCEPT ![b] = d]
    BY <1>2, <2>1 DEF TakeReady, PoolInv, Shape
  <2>3. ReadyExact' /\ db[d] = "ready"
    BY <1>2, <2>2, ReadyLeaves
  <2> HIDE DEF d
  <2>4. HeldExact'
    BY <1>1, <2>1, <2>2, <2>3 DEF PoolInv, HeldExact
  <2>5. RefillsExact'
    BY <1>1, <2>1, <2>2, <2>3, PoolAssumption DEF PoolInv, Shape, RefillsExact
  <2>6. \A c \in Borrower : borrower'[c] = "lease" <=> borrower[c] = "lease" \/ c = b
    BY <2>2 DEF PoolInv, Shape
  <2>7. lease_of'[b] = d /\ \A c \in Borrower \ {b} : lease_of'[c] = lease_of[c]
    BY <2>2 DEF PoolInv, Shape
  <2>8. \A c \in Borrower : borrower[c] = "lease" => lease_of[c] # d
    BY <2>3 DEF PoolInv, LeasesExact
  <2>9. LeasesExact'
    BY <1>1, <2>1, <2>2, <2>3, <2>6, <2>7, <2>8 DEF PoolInv, LeasesExact
  <2> QED
    BY <2>3, <2>4, <2>5, <2>9 DEF Related
<1>3. CASE ~(accepting /\ ready # << >>)
  <2>1. UNCHANGED <<ready, db, lease_of>> /\ borrower' = [borrower EXCEPT ![b] = "idle"]
    BY <1>3 DEF TakeReady
  <2> QED
    BY <1>1, <2>1, CallerMoves
<1> QED
  BY <1>2, <1>3

LEMMA BeginReturnRelated ==
    ASSUME PoolInv, NEW b \in Borrower, BeginReturn(b)
    PROVE  Related'
<1> DEFINE d == lease_of[b]
<1>1. d \in Database /\ db[d] = "leased" /\ borrower[b] = "lease"
  BY DEF BeginReturn, PoolInv, LeasesExact
<1>2. /\ UNCHANGED <<ready, held, refill>>
      /\ db'[d] \in {"returning", "detached"} /\ \A e \in Database \ {d} : db'[e] = db[e]
      /\ borrower' = [borrower EXCEPT ![b] = "idle"]
      /\ lease_of' = [lease_of EXCEPT ![b] = NoDatabase]
  BY <1>1 DEF BeginReturn, PoolInv, Shape, closeVars
<1>3. \A c \in Borrower : borrower'[c] = "lease" =>
         borrower[c] = "lease" /\ c # b /\ lease_of'[c] = lease_of[c] /\ lease_of[c] # d
  BY <1>1, <1>2 DEF PoolInv, Shape, LeasesExact
<1> HIDE DEF d
<1>4. ReadyExact' /\ HeldExact'
  BY <1>1, <1>2 DEF PoolInv, Shape, ReadyExact, InReady, HeldExact
<1>5. RefillsExact'
  BY <1>1, <1>2, PoolAssumption DEF PoolInv, Shape, RefillsExact
<1>6. LeasesExact'
  BY <1>1, <1>2, <1>3 DEF PoolInv, LeasesExact
<1> QED
  BY <1>4, <1>5, <1>6 DEF Related

LEMMA PublishRefillRelated ==
    ASSUME PoolInv, NEW d \in Database, NEW e \in Database, PublishRefill(d, e)
    PROVE  Related'
<1>1. /\ db[d] = "recreate" /\ db[e] = "unused" /\ d # e
      /\ UNCHANGED <<held, borrower, lease_of>>
  BY DEF PublishRefill, NewName, borrowerVars, closeVars
<1>2. CASE Open
  <2>1. /\ ready' = Append(ready, e) /\ refill' = refill
        /\ db'[d] = "token" /\ db'[e] = "ready" /\ \A x \in Database \ {d, e} : db'[x] = db[x]
    BY <1>1, <1>2 DEF PublishRefill, PoolInv, Shape
  <2>2. ReadyExact'
    BY <1>1, <2>1, ReadyJoins
  <2>3. HeldExact'
    BY <1>1, <2>1 DEF PoolInv, HeldExact
  <2>4. LeasesExact' /\ RefillsExact'
    BY <1>1, <2>1, PoolAssumption DEF PoolInv, Shape, LeasesExact, RefillsExact
  <2> QED
    BY <2>2, <2>3, <2>4 DEF Related
<1>3. CASE ~Open
  <2>1. /\ ready' = ready /\ refill' = [refill EXCEPT ![d] = e]
        /\ db'[d] = "extra" /\ db'[e] = "fresh" /\ \A x \in Database \ {d, e} : db'[x] = db[x]
    BY <1>1, <1>3 DEF PublishRefill, PoolInv, Shape
  <2>2. refill'[d] = e /\ \A x \in Database \ {d} : refill'[x] = refill[x] /\ refill[x] # e
    BY <1>1, <2>1, PoolAssumption DEF PoolInv, Shape, RefillsExact
  <2>3. ReadyExact' /\ HeldExact'
    BY <1>1, <2>1, QueuesUntouched
  <2>4. LeasesExact'
    BY <1>1, <2>1 DEF PoolInv, Shape, LeasesExact
  <2>5. RefillsExact'
    BY <1>1, <2>1, <2>2, PoolAssumption DEF PoolInv, Shape, RefillsExact
  <2> QED
    BY <2>3, <2>4, <2>5 DEF Related
<1> QED
  BY <1>2, <1>3

\* The end of a job lets go of its replacement, if it still has one.
LEMMA DropExtraRelated ==
    ASSUME PoolInv, NEW d \in Database, DropExtra(d)
    PROVE  Related'
<1> DEFINE e == refill[d]
<1>1. /\ db[d] = "extra" /\ e \in Database /\ db[e] = "fresh" /\ d # e
      /\ UNCHANGED <<ready, held, borrower, lease_of>>
  BY PoolAssumption DEF DropExtra, PoolInv, Shape, RefillsExact, borrowerVars, closeVars
<1>2. \A x \in Database \ {d} : refill[x] # e
  BY <1>1, PoolAssumption DEF PoolInv, RefillsExact
<1>3. /\ db'[d] \in {"finish", "residual"}
      /\ \A x \in Database \ {d, e} : db'[x] = db[x]
      /\ \A x \in Database \ {d} : refill'[x] = refill[x]
      /\ \/ refill'[d] = NoDatabase /\ db'[e] = "gone"
         \/ refill'[d] = e /\ db'[e] = db[e] /\ db'[d] = "residual"
  BY <1>1 DEF DropExtra, PoolInv, Shape
<1> HIDE DEF e
<1>4. ReadyExact' /\ HeldExact'
  BY <1>1, <1>3, QueuesUntouched
<1>5. LeasesExact'
  BY <1>1, <1>3 DEF PoolInv, Shape, LeasesExact
<1>6. RefillsExact'
  <2>1. \A x \in Database : refill'[x] # NoDatabase =>
           refill'[x] = refill[x] /\ db'[x] \in {"extra", "residual"}
    BY <1>1, <1>3 DEF PoolInv, RefillsExact, e
  <2>2. \A x \in Database : refill[x] # NoDatabase => refill[x] \in Database /\ refill[x] # d
    BY <1>1 DEF PoolInv, Shape, RefillsExact
  <2>3. \A x \in Database : refill'[x] # NoDatabase => db'[refill[x]] = db[refill[x]]
    BY <1>1, <1>2, <1>3, <2>1, <2>2 DEF e
  <2>4. \A x \in Database : db'[x] = "extra" => refill'[x] # NoDatabase
    BY <1>1, <1>3 DEF PoolInv, RefillsExact
  <2> QED
    BY <2>1, <2>3, <2>4 DEF PoolInv, RefillsExact
<1> QED
  BY <1>4, <1>5, <1>6 DEF Related

LEMMA FinishJobRelated ==
    ASSUME PoolInv, NEW d \in Database, FinishJob(d)
    PROVE  Related'
<1> DEFINE e == IF refill[d] = NoDatabase THEN d ELSE refill[d]
<1>1. /\ db[d] \in {"finish", "residual"} /\ e \in Database /\ (e # d => db[e] = "fresh")
      /\ UNCHANGED <<ready, held, borrower, lease_of>>
      /\ (db[d] = "finish" => refill[d] = NoDatabase)
  BY PoolAssumption DEF FinishJob, PoolInv, Shape, RefillsExact, stateVars, borrowerVars, closeVars
<1>2. /\ refill'[d] = NoDatabase
      /\ \A x \in Database \ {d} : refill'[x] = refill[x] /\ refill[x] # d
            /\ (refill[x] = e => refill[x] = NoDatabase)
  BY <1>1, PoolAssumption DEF FinishJob, PoolInv, Shape, RefillsExact
<1>3. /\ db'[d] \in {"gone", "left"} /\ db'[e] \in {"gone", "left"}
      /\ \A x \in Database \ {d, e} : db'[x] = db[x]
  <2>1. CASE db[d] = "residual"
    BY <1>1, <2>1 DEF FinishJob, PoolInv, Shape
  <2>2. CASE db[d] = "finish"
    BY <1>1, <2>2 DEF FinishJob, PoolInv, Shape
  <2> QED
    BY <1>1, <2>1, <2>2
<1> HIDE DEF e
<1>4. ReadyExact' /\ HeldExact'
  BY <1>1, <1>3, QueuesUntouched
<1>5. LeasesExact'
  BY <1>1, <1>3 DEF PoolInv, Shape, LeasesExact
<1>6. RefillsExact'
  BY <1>1, <1>2, <1>3, PoolAssumption DEF PoolInv, Shape, RefillsExact
<1> QED
  BY <1>4, <1>5, <1>6 DEF Related

\* The rest change db where nothing refers to it, or close the pool as well.
LEMMA RelatedStep ==
    ASSUME PoolInv, [Next]_vars
    PROVE  Related'
<1> USE PoolAssumption DEF PoolInv, Shape, Simple, Bound, DatabaseState, stateVars, serverVars,
        databaseVars, fillerVars, borrowerVars, closeVars
<1>1. CASE \E a \in Agent : CloseSemaphores(a)
  BY <1>1, SimpleMove DEF CloseSemaphores
<1>2. CASE \E a \in Agent, d \in Database : QueueHeld(a, d)
  BY <1>2, QueueHeldRelated
<1>3. CASE Register \/ FinishFill \/ AddTokenInitial
  BY <1>3, SimpleMove DEF Register, FinishFill, AddTokenInitial
<1>4. CASE \E d \in Database : BeginCreation(d)
  BY <1>4, SimpleMove DEF BeginCreation, NewName
<1>5. CASE BeginCreationRefused
  BY <1>5, CleanupMove DEF BeginCreationRefused
<1>6. CASE PublishInitial \/ RequeueInitial
  BY <1>6, PublishInitialRelated, RequeueRelated
<1>7. CASE \E b \in Borrower : AcquirePermit(b) \/ AcquireRefused(b)
  BY <1>7, CallerMoves DEF AcquirePermit, AcquireRefused
<1>8. CASE \E b \in Borrower : TakeReady(b)
  BY <1>8, TakeReadyRelated
<1>9. CASE \E d \in Database : AdmitInitial(d) \/ CreateInitial(d)
  BY <1>9, SimpleMove DEF AdmitInitial, CreateInitial
<1>10. ASSUME NEW d \in Database, SubmitReturn(d) PROVE Related'
  <2>1. CASE ~queue_closed
    BY <1>10, <2>1, SimpleMove DEF SubmitReturn
  <2>2. CASE queue_closed
    <3>1. Simple([db EXCEPT ![d] = "left"]) /\ UNCHANGED <<borrower, lease_of, refill>>
      BY <1>10 DEF SubmitReturn
    <3> QED
      BY <1>10, <2>2, <3>1, CleanupMove DEF SubmitReturn
  <2> QED
    BY <2>1, <2>2
<1>11. CASE \E d \in Database : SubmitDetached(d)
  BY <1>11, SimpleMove DEF SubmitDetached
<1>12. ASSUME NEW d \in Database, DropDirty(d) PROVE Related'
  <2>1. db[d] = "return" /\ UNCHANGED <<borrower, lease_of, refill>>
    BY <1>12 DEF DropDirty
  <2>2. CASE /\ UNCHANGED <<ready, held>>
             /\ db' = [db EXCEPT ![d] = "refill"] \/ db' = [db EXCEPT ![d] = "finish"]
    BY <2>1, <2>2, SimpleMove
  <2>3. CASE BeginCleanup(d, Uncount) /\ db' = HoldReady([db EXCEPT ![d] = "residual"])
    <3>1. Simple([db EXCEPT ![d] = "residual"])
      BY <2>1
    <3> QED
      BY <2>1, <2>3, <3>1, CleanupMove
  <2> QED
    BY <1>12, <2>2, <2>3 DEF DropDirty
<1>13. CASE \E d \in Database : AdmitRefill(d)
  BY <1>13, SimpleMove DEF AdmitRefill
<1>14. ASSUME NEW d \in Database, RefillFails(d) PROVE Related'
  <2>1. Simple([db EXCEPT ![d] = "finish"]) /\ UNCHANGED <<borrower, lease_of, refill>>
    BY <1>14 DEF RefillFails
  <2> QED
    BY <1>14, <2>1, CleanupMove DEF RefillFails
<1>15. CASE \E d, e \in Database : PublishRefill(d, e)
  BY <1>15, PublishRefillRelated
<1>16. CASE \E d \in Database : AddTokenRefill(d)
  BY <1>16, SimpleMove DEF AddTokenRefill
<1>17. CASE \E d \in Database : DropExtra(d) \/ FinishJob(d)
  BY <1>17, DropExtraRelated, FinishJobRelated
<1>18. CASE \E d \in Database : RunDeletion(d)
  BY <1>18, SimpleMove DEF RunDeletion
<1>19. CASE AbandonFill
  <2> DEFINE f == [db EXCEPT ![filler_db] = IF @ = "created" THEN "detached" ELSE @]
  <2>1. Simple(f) /\ UNCHANGED <<borrower, lease_of, refill>>
    BY <1>19 DEF AbandonFill
  <2>2. db' = HoldReady(f) /\ BeginCleanup(Filler, deleting)
    BY <1>19 DEF AbandonFill
  <2> HIDE DEF f
  <2> QED
    BY <2>1, <2>2, CleanupMove
<1>20. CASE \E b \in Borrower : ReserveToken(b) \/ CancelBorrow(b)
  BY <1>20, CallerMoves DEF ReserveToken, CancelBorrow
<1>21. CASE \E b \in Borrower : BeginReturn(b)
  BY <1>21, BeginReturnRelated
<1>22. CASE AcquireOther \/ ReleaseOther \/ ReleaseHandle \/ CloseAdmission \/ CloseQueue
  BY <1>22, SimpleMove DEF AcquireOther, ReleaseOther, ReleaseHandle, CloseAdmission, CloseQueue
<1>23. CASE ClosePool
  BY <1>23, CleanupMove DEF ClosePool
<1>24. CASE ClosePrewarmPools
  BY <1>24, CleanupMove, SimpleMove DEF ClosePrewarmPools
<1>25. CASE UNCHANGED vars
  BY <1>25, SimpleMove DEF vars
<1> QED
  BY <1>1, <1>2, <1>3, <1>4, <1>5, <1>6, <1>7, <1>8, <1>9, <1>10, <1>11, <1>12, <1>13, <1>14,
     <1>15, <1>16, <1>17, <1>18, <1>19, <1>20, <1>21, <1>22, <1>23, <1>24, <1>25
  DEF Next, CloseStep, FillStep, BorrowStep, JobStep, ApplicationStep, ShutdownStep, Terminated

\* The parts of Shape, one kind of value each.
Numbers ==
    /\ leased \in Int /\ creating \in Int /\ deleting \in Int
    /\ tokens \in Nat /\ other \in 0 .. MaxLeases /\ filled \in 0 .. Capacity

Stages ==
    /\ server \in {"up", "pools", "queue", "down"}
    /\ filler \in {"register", "begin", "create", "token", "requeue", "done", "failed"}
    /\ user \in {"holding", "closed"}
    /\ closing \in [Agent -> {"no", "wake", "wake_and_queue", "queue"}]
    /\ borrower \in [Borrower -> {"idle", "permit", "take", "lease"}]

Databases ==
    /\ ready \in Seq(Database) /\ db \in [Database -> DatabaseState]
    /\ permits \subseteq Database /\ held \subseteq Database

Links ==
    /\ refill \in [Database -> Database \cup {NoDatabase}]
    /\ filler_db \in Database \cup {NoDatabase}
    /\ lease_of \in [Borrower -> Database \cup {NoDatabase}]

\* The types of what begin_cleanup changes.
LEMMA CleanupShape ==
    ASSUME PoolInv, NEW a, NEW n, BeginCleanup(a, n), permits' \subseteq Database,
           NEW f \in [Database -> DatabaseState], db' = HoldReady(f)
    PROVE  Databases'
<1>1. ready' \in Seq(Database)
  <2>1. << >> \in Seq(Database)
    OBVIOUS
  <2>2. ready' = ready \/ ready' = << >>
    BY DEF BeginCleanup
  <2> QED
    BY <2>1, <2>2 DEF PoolInv, Shape
<1>2. \A i \in 1 .. Len(ready) : ready[i] \in Database
  BY DEF PoolInv, Shape
<1>3. held' \subseteq Database
  BY <1>2 DEF PoolInv, Shape, BeginCleanup
<1>4. db' \in [Database -> DatabaseState]
  BY DEF HoldReady, DatabaseState
<1> QED
  BY <1>1, <1>3, <1>4 DEF Databases

\* The flags are Booleans.
LEMMA FlagsStep ==
    ASSUME PoolInv, [Next]_vars
    PROVE  Flags'
<1> USE PoolAssumption DEF PoolInv, Flags, stateVars, serverVars, databaseVars, fillerVars,
      borrowerVars, closeVars
<1>1. CASE \E a \in Agent : CloseSemaphores(a)
  BY <1>1 DEF CloseSemaphores, WakeBorrowers
<1>2. CASE \E a \in Agent, d \in Database : QueueHeld(a, d)
  BY <1>2 DEF QueueHeld
<1>3. CASE Register \/ \E d \in Database : BeginCreation(d)
  BY <1>3 DEF Register, BeginCreation, MayRegister, NewName
<1>4. CASE BeginCreationRefused
  BY <1>4 DEF BeginCreationRefused, BeginCleanup, HoldReady
<1>5. CASE PublishInitial \/ AddTokenInitial
  BY <1>5 DEF PublishInitial, AddTokenInitial, Open
<1>6. CASE RequeueInitial \/ FinishFill
  BY <1>6 DEF RequeueInitial, FinishFill
<1>7. CASE \E b \in Borrower : BorrowStep(b)
  BY <1>7 DEF BorrowStep, AcquirePermit, AcquireRefused, ReturnToken, TakeReady
<1>8. CASE \E d \in Database : AdmitInitial(d) \/ CreateInitial(d)
  BY <1>8 DEF AdmitInitial, CreateInitial, Residual
<1>9. CASE \E d \in Database : SubmitReturn(d) \/ SubmitDetached(d)
  BY <1>9 DEF SubmitReturn, SubmitDetached, BeginCleanup, HoldReady
<1>10. CASE \E d \in Database : DropDirty(d)
  BY <1>10 DEF DropDirty, Open, BeginCleanup, HoldReady
<1>11. CASE \E d \in Database : AdmitRefill(d) \/ RefillFails(d)
  BY <1>11 DEF AdmitRefill, RefillFails, Residual, BeginCleanup, HoldReady
<1>12. CASE \E d, e \in Database : PublishRefill(d, e)
  BY <1>12 DEF PublishRefill, NewName, Open
<1>13. CASE \E d \in Database : AddTokenRefill(d) \/ DropExtra(d)
  BY <1>13 DEF AddTokenRefill, DropExtra
<1>14. CASE \E d \in Database : FinishJob(d) \/ RunDeletion(d)
  BY <1>14 DEF FinishJob, RunDeletion, Residual
<1>15. CASE AbandonFill
  BY <1>15 DEF AbandonFill, BeginCleanup, HoldReady
<1>16. CASE \E b \in Borrower : ReserveToken(b) \/ CancelBorrow(b) \/ BeginReturn(b)
  BY <1>16 DEF ReserveToken, CancelBorrow, ReturnToken, BeginReturn
<1>17. CASE AcquireOther \/ ReleaseOther
  BY <1>17 DEF AcquireOther, ReleaseOther
<1>18. CASE ClosePool \/ ReleaseHandle
  BY <1>18 DEF ClosePool, ReleaseHandle, BeginCleanup, HoldReady
<1>19. CASE CloseAdmission \/ ClosePrewarmPools \/ CloseQueue
  BY <1>19 DEF CloseAdmission, ClosePrewarmPools, CloseQueue, BeginCleanup, HoldReady
<1>20. CASE UNCHANGED vars
  BY <1>20 DEF vars
<1> QED
  BY <1>1, <1>2, <1>3, <1>4, <1>5, <1>6, <1>7, <1>8, <1>9, <1>10, <1>11, <1>12, <1>13, <1>14,
     <1>15, <1>16, <1>17, <1>18, <1>19, <1>20
  DEF Next, CloseStep, FillStep, JobStep, ApplicationStep, ShutdownStep, Terminated

\* The numbers stay in their ranges.
LEMMA NumbersStep ==
    ASSUME PoolInv, [Next]_vars
    PROVE  Numbers'
<1> USE DEF PoolInv, Numbers, Uncount, stateVars, serverVars, databaseVars, fillerVars,
      borrowerVars, closeVars
<1>0. /\ Numbers /\ Capacity \in Nat /\ MaxLeases \in Nat /\ Len(ready) \in Nat
      /\ (filler \in {"token", "requeue"} => filled < Capacity)
  BY PoolAssumption DEF Shape, FillerWorks
<1> USE <1>0
<1>1. CASE \E a \in Agent : CloseSemaphores(a)
  BY <1>1 DEF CloseSemaphores, WakeBorrowers
<1>2. CASE \E a \in Agent, d \in Database : QueueHeld(a, d)
  BY <1>2 DEF QueueHeld
<1>3. CASE Register \/ \E d \in Database : BeginCreation(d)
  <2>1. CASE Register
    BY <2>1 DEF Register
  <2>2. CASE \E d \in Database : BeginCreation(d)
    BY <2>2 DEF BeginCreation
  <2> QED
    BY <1>3, <2>1, <2>2
<1>4. CASE BeginCreationRefused
  BY <1>4 DEF BeginCreationRefused, BeginCleanup, HoldReady
<1>5. CASE PublishInitial \/ AddTokenInitial
  <2>1. CASE PublishInitial
    BY <2>1 DEF PublishInitial
  <2>2. CASE AddTokenInitial
    BY <2>2 DEF AddTokenInitial
  <2> QED
    BY <1>5, <2>1, <2>2
<1>6. CASE RequeueInitial \/ FinishFill
  <2>1. CASE RequeueInitial
    BY <2>1 DEF RequeueInitial
  <2>2. CASE FinishFill
    BY <2>2 DEF FinishFill
  <2> QED
    BY <1>6, <2>1, <2>2
<1>7. CASE \E b \in Borrower : BorrowStep(b)
  BY <1>7 DEF BorrowStep, AcquirePermit, AcquireRefused, ReturnToken, TakeReady
<1>8. CASE \E d \in Database : AdmitInitial(d) \/ CreateInitial(d)
  BY <1>8 DEF AdmitInitial, CreateInitial, Residual
<1>9. CASE \E d \in Database : SubmitReturn(d) \/ SubmitDetached(d)
  BY <1>9 DEF SubmitReturn, SubmitDetached, BeginCleanup, HoldReady
<1>10. CASE \E d \in Database : DropDirty(d)
  BY <1>10 DEF DropDirty, Open, BeginCleanup, HoldReady
<1>11. CASE \E d \in Database : AdmitRefill(d) \/ RefillFails(d)
  BY <1>11 DEF AdmitRefill, RefillFails, Residual, BeginCleanup, HoldReady
<1>12. CASE \E d, e \in Database : PublishRefill(d, e)
  BY <1>12 DEF PublishRefill, NewName, Open
<1>13. CASE \E d \in Database : AddTokenRefill(d) \/ DropExtra(d)
  BY <1>13 DEF AddTokenRefill, DropExtra
<1>14. CASE \E d \in Database : FinishJob(d) \/ RunDeletion(d)
  BY <1>14 DEF FinishJob, RunDeletion, Residual
<1>15. CASE AbandonFill
  BY <1>15 DEF AbandonFill, BeginCleanup, HoldReady
<1>16. CASE \E b \in Borrower : ReserveToken(b) \/ CancelBorrow(b) \/ BeginReturn(b)
  BY <1>16 DEF ReserveToken, CancelBorrow, ReturnToken, BeginReturn
<1>17. CASE AcquireOther \/ ReleaseOther
  <2>1. Cardinality(permits) \in Nat
    BY FS_Subset, FS_CardinalityType, PoolAssumption DEF Shape
  <2>2. Cardinality({b \in Borrower : borrower[b] = "take"}) \in Nat
    BY FS_Subset, FS_CardinalityType, PoolAssumption
  <2>3. CASE AcquireOther
    BY <2>1, <2>2, <2>3 DEF AcquireOther, PermitFree
  <2>4. CASE ReleaseOther
    BY <2>4 DEF ReleaseOther
  <2> QED
    BY <1>17, <2>3, <2>4
<1>18. CASE ClosePool \/ ReleaseHandle
  BY <1>18 DEF ClosePool, ReleaseHandle, BeginCleanup, HoldReady
<1>19. CASE CloseAdmission \/ ClosePrewarmPools \/ CloseQueue
  BY <1>19 DEF CloseAdmission, ClosePrewarmPools, CloseQueue, BeginCleanup, HoldReady
<1>20. CASE UNCHANGED vars
  BY <1>20 DEF vars
<1> QED
  BY <1>1, <1>2, <1>3, <1>4, <1>5, <1>6, <1>7, <1>8, <1>9, <1>10, <1>11, <1>12, <1>13, <1>14,
     <1>15, <1>16, <1>17, <1>18, <1>19, <1>20
  DEF Next, CloseStep, FillStep, JobStep, ApplicationStep, ShutdownStep, Terminated

\* The stages of the threads.
LEMMA StagesStep ==
    ASSUME PoolInv, [Next]_vars
    PROVE  Stages'
<1> USE PoolAssumption DEF PoolInv, Shape, Stages, Agent, stateVars, serverVars, databaseVars,
      fillerVars, borrowerVars, closeVars
<1>1. CASE \E a \in Agent : CloseSemaphores(a)
  BY <1>1 DEF CloseSemaphores, WakeBorrowers
<1>2. CASE \E a \in Agent, d \in Database : QueueHeld(a, d)
  BY <1>2 DEF QueueHeld
<1>3. CASE Register \/ \E d \in Database : BeginCreation(d)
  BY <1>3 DEF Register, BeginCreation, MayRegister, NewName
<1>4. CASE BeginCreationRefused
  BY <1>4 DEF BeginCreationRefused, BeginCleanup, HoldReady
<1>5. CASE PublishInitial \/ AddTokenInitial
  BY <1>5 DEF PublishInitial, AddTokenInitial, Open
<1>6. CASE RequeueInitial \/ FinishFill
  BY <1>6 DEF RequeueInitial, FinishFill
<1>7. CASE \E b \in Borrower : BorrowStep(b)
  BY <1>7 DEF BorrowStep, AcquirePermit, AcquireRefused, ReturnToken, TakeReady
<1>8. CASE \E d \in Database : AdmitInitial(d) \/ CreateInitial(d)
  BY <1>8 DEF AdmitInitial, CreateInitial, Residual
<1>9. CASE \E d \in Database : SubmitReturn(d) \/ SubmitDetached(d)
  BY <1>9 DEF SubmitReturn, SubmitDetached, BeginCleanup, HoldReady
<1>10. CASE \E d \in Database : DropDirty(d)
  BY <1>10 DEF DropDirty, Open, BeginCleanup, HoldReady
<1>11. CASE \E d \in Database : AdmitRefill(d) \/ RefillFails(d)
  BY <1>11 DEF AdmitRefill, RefillFails, Residual, BeginCleanup, HoldReady
<1>12. CASE \E d, e \in Database : PublishRefill(d, e)
  BY <1>12 DEF PublishRefill, NewName, Open
<1>13. CASE \E d \in Database : AddTokenRefill(d) \/ DropExtra(d)
  BY <1>13 DEF AddTokenRefill, DropExtra
<1>14. CASE \E d \in Database : FinishJob(d) \/ RunDeletion(d)
  BY <1>14 DEF FinishJob, RunDeletion, Residual
<1>15. CASE AbandonFill
  BY <1>15 DEF AbandonFill, BeginCleanup, HoldReady
<1>16. CASE \E b \in Borrower : ReserveToken(b) \/ CancelBorrow(b) \/ BeginReturn(b)
  BY <1>16 DEF ReserveToken, CancelBorrow, ReturnToken, BeginReturn
<1>17. CASE AcquireOther \/ ReleaseOther
  BY <1>17 DEF AcquireOther, ReleaseOther
<1>18. CASE ClosePool \/ ReleaseHandle
  BY <1>18 DEF ClosePool, ReleaseHandle, BeginCleanup, HoldReady
<1>19. CASE CloseAdmission \/ ClosePrewarmPools \/ CloseQueue
  BY <1>19 DEF CloseAdmission, ClosePrewarmPools, CloseQueue, BeginCleanup, HoldReady
<1>20. CASE UNCHANGED vars
  BY <1>20 DEF vars
<1> QED
  BY <1>1, <1>2, <1>3, <1>4, <1>5, <1>6, <1>7, <1>8, <1>9, <1>10, <1>11, <1>12, <1>13, <1>14,
     <1>15, <1>16, <1>17, <1>18, <1>19, <1>20
  DEF Next, CloseStep, FillStep, JobStep, ApplicationStep, ShutdownStep, Terminated

\* Where the databases are.
LEMMA DatabasesStep ==
    ASSUME PoolInv, [Next]_vars
    PROVE  Databases'
<1> USE PoolAssumption DEF PoolInv, Shape, Databases, FillerWorks, LeasesExact, DatabaseState,
      stateVars, serverVars, databaseVars, fillerVars, borrowerVars, closeVars
<1>1. CASE \E a \in Agent : CloseSemaphores(a)
  BY <1>1 DEF CloseSemaphores, WakeBorrowers
<1>2. CASE \E a \in Agent, d \in Database : QueueHeld(a, d)
  BY <1>2 DEF QueueHeld
<1>3. CASE Register \/ \E d \in Database : BeginCreation(d)
  BY <1>3 DEF Register, BeginCreation, MayRegister, NewName
<1>4. CASE BeginCreationRefused
  BY <1>4, CleanupShape DEF BeginCreationRefused
<1>5. CASE PublishInitial \/ AddTokenInitial
  <2>1. CASE PublishInitial
    <3>1. filler_db \in Database /\ (ready' = ready \/ ready' = Append(ready, filler_db))
      BY <2>1 DEF PublishInitial
    <3>2. ready' \in Seq(Database)
      <4>1. Append(ready, filler_db) \in Seq(Database)
        BY <3>1
      <4> QED
        BY <3>1, <4>1
    <3>3. db' \in [Database -> DatabaseState] /\ UNCHANGED <<permits, held>>
      BY <2>1, <3>1 DEF PublishInitial
    <3> QED
      BY <3>2, <3>3
  <2>2. CASE AddTokenInitial
    BY <2>2 DEF AddTokenInitial
  <2> QED
    BY <1>5, <2>1, <2>2
<1>6. CASE RequeueInitial \/ FinishFill
  BY <1>6 DEF RequeueInitial, FinishFill
<1>7. CASE \E b \in Borrower : BorrowStep(b)
  <2>1. CASE \E b \in Borrower : AcquirePermit(b) \/ AcquireRefused(b)
    BY <2>1 DEF AcquirePermit, AcquireRefused
  <2>2. CASE \E b \in Borrower : TakeReady(b)
    <3>1. CASE ready = << >>
      BY <2>2, <3>1 DEF TakeReady
    <3>2. CASE ready # << >>
      <4>1. Head(ready) \in Database /\ Tail(ready) \in Seq(Database)
        BY <3>2
      <4>2. ready' \in Seq(Database)
        BY <2>2, <4>1 DEF TakeReady
      <4>3. db' \in [Database -> DatabaseState]
        BY <2>2, <4>1 DEF TakeReady
      <4>4. permits' \subseteq Database /\ UNCHANGED held
        BY <2>2, <4>1 DEF TakeReady
      <4> QED
        BY <4>2, <4>3, <4>4
    <3> QED
      BY <3>1, <3>2
  <2> QED
    BY <1>7, <2>1, <2>2 DEF BorrowStep
<1>8. CASE \E d \in Database : AdmitInitial(d) \/ CreateInitial(d)
  BY <1>8 DEF AdmitInitial, CreateInitial, Residual
<1>9. CASE \E d \in Database : SubmitReturn(d) \/ SubmitDetached(d)
  <2>1. ASSUME NEW d \in Database, SubmitReturn(d) PROVE Databases'
    <3>1. permits' \subseteq Database
      BY <2>1 DEF SubmitReturn
    <3>2. [db EXCEPT ![d] = "left"] \in [Database -> DatabaseState]
      OBVIOUS
    <3> QED
      BY <2>1, <3>1, <3>2, CleanupShape DEF SubmitReturn
  <2>2. CASE \E d \in Database : SubmitDetached(d)
    BY <2>2 DEF SubmitDetached
  <2> QED
    BY <1>9, <2>1, <2>2
<1>10. CASE \E d \in Database : DropDirty(d)
  <2> SUFFICES ASSUME NEW d \in Database, DropDirty(d) PROVE Databases'
    BY <1>10
  <2>1. [db EXCEPT ![d] = "residual"] \in [Database -> DatabaseState]
    OBVIOUS
  <2>2. CASE BeginCleanup(d, Uncount) /\ db' = HoldReady([db EXCEPT ![d] = "residual"])
    <3>1. permits' \subseteq Database
      BY DEF DropDirty
    <3> QED
      BY <2>1, <2>2, <3>1, CleanupShape
  <2>3. CASE UNCHANGED <<ready, held>>
             /\ db' \in {[db EXCEPT ![d] = "refill"], [db EXCEPT ![d] = "finish"]}
    BY <2>3 DEF DropDirty
  <2> QED
    BY <2>2, <2>3 DEF DropDirty
<1>11. CASE \E d \in Database : AdmitRefill(d) \/ RefillFails(d)
  <2>1. CASE \E d \in Database : AdmitRefill(d)
    BY <2>1 DEF AdmitRefill
  <2>2. ASSUME NEW d \in Database, RefillFails(d) PROVE Databases'
    <3>1. [db EXCEPT ![d] = "finish"] \in [Database -> DatabaseState]
      OBVIOUS
    <3> QED
      BY <2>2, <3>1, CleanupShape DEF RefillFails
  <2> QED
    BY <1>11, <2>1, <2>2
<1>12. CASE \E d, e \in Database : PublishRefill(d, e)
  <2> SUFFICES ASSUME NEW d \in Database, NEW e \in Database, PublishRefill(d, e)
               PROVE  Databases'
    BY <1>12
  <2>1. ready' = ready \/ ready' = Append(ready, e)
    BY DEF PublishRefill
  <2>2. ready' \in Seq(Database)
    <3>1. Append(ready, e) \in Seq(Database)
      OBVIOUS
    <3> QED
      BY <2>1, <3>1
  <2>3. db' \in [Database -> DatabaseState] /\ UNCHANGED <<permits, held>>
    BY DEF PublishRefill
  <2> QED
    BY <2>2, <2>3
<1>13. CASE \E d \in Database : AddTokenRefill(d) \/ DropExtra(d)
  BY <1>13 DEF AddTokenRefill, DropExtra
<1>14. CASE \E d \in Database : FinishJob(d) \/ RunDeletion(d)
  BY <1>14 DEF FinishJob, RunDeletion, Residual
<1>15. CASE AbandonFill
  <2> DEFINE f == [db EXCEPT ![filler_db] = IF @ = "created" THEN "detached" ELSE @]
  <2>1. f \in [Database -> DatabaseState] /\ db' = HoldReady(f)
    BY <1>15 DEF AbandonFill
  <2> QED
    BY <1>15, <2>1, CleanupShape DEF AbandonFill
<1>16. CASE \E b \in Borrower : ReserveToken(b) \/ CancelBorrow(b) \/ BeginReturn(b)
  <2>1. CASE \E b \in Borrower : ReserveToken(b) \/ CancelBorrow(b)
    BY <2>1 DEF ReserveToken, CancelBorrow
  <2>2. CASE \E b \in Borrower : BeginReturn(b)
    BY <2>2 DEF BeginReturn
  <2> QED
    BY <1>16, <2>1, <2>2
<1>17. CASE AcquireOther \/ ReleaseOther
  BY <1>17 DEF AcquireOther, ReleaseOther
<1>18. CASE ClosePool \/ ReleaseHandle
  BY <1>18, CleanupShape DEF ClosePool, ReleaseHandle
<1>19. CASE CloseAdmission \/ ClosePrewarmPools \/ CloseQueue
  BY <1>19, CleanupShape DEF CloseAdmission, ClosePrewarmPools, CloseQueue
<1>20. CASE UNCHANGED vars
  BY <1>20 DEF vars
<1> QED
  BY <1>1, <1>2, <1>3, <1>4, <1>5, <1>6, <1>7, <1>8, <1>9, <1>10, <1>11, <1>12, <1>13, <1>14,
     <1>15, <1>16, <1>17, <1>18, <1>19, <1>20
  DEF Next, CloseStep, FillStep, JobStep, ApplicationStep, ShutdownStep, Terminated

\* Which database belongs to which thread or job.
LEMMA LinksStep ==
    ASSUME PoolInv, [Next]_vars
    PROVE  Links'
<1> USE PoolAssumption DEF PoolInv, Shape, Links, stateVars, serverVars, databaseVars,
      fillerVars, borrowerVars, closeVars
<1>1. CASE \E a \in Agent : CloseSemaphores(a)
  BY <1>1 DEF CloseSemaphores, WakeBorrowers
<1>2. CASE \E a \in Agent, d \in Database : QueueHeld(a, d)
  BY <1>2 DEF QueueHeld
<1>3. CASE Register \/ \E d \in Database : BeginCreation(d)
  BY <1>3 DEF Register, BeginCreation, MayRegister, NewName
<1>4. CASE BeginCreationRefused
  BY <1>4 DEF BeginCreationRefused, BeginCleanup, HoldReady
<1>5. CASE PublishInitial \/ AddTokenInitial
  BY <1>5 DEF PublishInitial, AddTokenInitial, Open
<1>6. CASE RequeueInitial \/ FinishFill
  BY <1>6 DEF RequeueInitial, FinishFill
<1>7. CASE \E b \in Borrower : BorrowStep(b)
  BY <1>7 DEF BorrowStep, AcquirePermit, AcquireRefused, ReturnToken, TakeReady
<1>8. CASE \E d \in Database : AdmitInitial(d) \/ CreateInitial(d)
  BY <1>8 DEF AdmitInitial, CreateInitial, Residual
<1>9. CASE \E d \in Database : SubmitReturn(d) \/ SubmitDetached(d)
  BY <1>9 DEF SubmitReturn, SubmitDetached, BeginCleanup, HoldReady
<1>10. CASE \E d \in Database : DropDirty(d)
  BY <1>10 DEF DropDirty, Open, BeginCleanup, HoldReady
<1>11. CASE \E d \in Database : AdmitRefill(d) \/ RefillFails(d)
  BY <1>11 DEF AdmitRefill, RefillFails, Residual, BeginCleanup, HoldReady
<1>12. CASE \E d, e \in Database : PublishRefill(d, e)
  BY <1>12 DEF PublishRefill, NewName, Open
<1>13. CASE \E d \in Database : AddTokenRefill(d) \/ DropExtra(d)
  BY <1>13 DEF AddTokenRefill, DropExtra
<1>14. CASE \E d \in Database : FinishJob(d) \/ RunDeletion(d)
  BY <1>14 DEF FinishJob, RunDeletion, Residual
<1>15. CASE AbandonFill
  BY <1>15 DEF AbandonFill, BeginCleanup, HoldReady
<1>16. CASE \E b \in Borrower : ReserveToken(b) \/ CancelBorrow(b) \/ BeginReturn(b)
  BY <1>16 DEF ReserveToken, CancelBorrow, ReturnToken, BeginReturn
<1>17. CASE AcquireOther \/ ReleaseOther
  BY <1>17 DEF AcquireOther, ReleaseOther
<1>18. CASE ClosePool \/ ReleaseHandle
  BY <1>18 DEF ClosePool, ReleaseHandle, BeginCleanup, HoldReady
<1>19. CASE CloseAdmission \/ ClosePrewarmPools \/ CloseQueue
  BY <1>19 DEF CloseAdmission, ClosePrewarmPools, CloseQueue, BeginCleanup, HoldReady
<1>20. CASE UNCHANGED vars
  BY <1>20 DEF vars
<1> QED
  BY <1>1, <1>2, <1>3, <1>4, <1>5, <1>6, <1>7, <1>8, <1>9, <1>10, <1>11, <1>12, <1>13, <1>14,
     <1>15, <1>16, <1>17, <1>18, <1>19, <1>20
  DEF Next, CloseStep, FillStep, JobStep, ApplicationStep, ShutdownStep, Terminated

\* The pool closes in one step, and once.
LEMMA CleanupOnceStep ==
    ASSUME PoolInv, [Next]_vars
    PROVE  CleanupOnce'
<1> USE PoolAssumption DEF PoolInv, CleanupOnce, Shape, stateVars, serverVars, databaseVars,
      fillerVars, borrowerVars, closeVars
<1>1. CASE \E a \in Agent : CloseSemaphores(a)
  BY <1>1 DEF CloseSemaphores, WakeBorrowers
<1>2. CASE \E a \in Agent, d \in Database : QueueHeld(a, d)
  BY <1>2 DEF QueueHeld
<1>3. CASE Register \/ \E d \in Database : BeginCreation(d)
  BY <1>3 DEF Register, BeginCreation, MayRegister, NewName
<1>4. CASE BeginCreationRefused
  BY <1>4 DEF BeginCreationRefused, BeginCleanup, HoldReady
<1>5. CASE PublishInitial \/ AddTokenInitial
  BY <1>5 DEF PublishInitial, AddTokenInitial, Open
<1>6. CASE RequeueInitial \/ FinishFill
  BY <1>6 DEF RequeueInitial, FinishFill
<1>7. CASE \E b \in Borrower : BorrowStep(b)
  BY <1>7 DEF BorrowStep, AcquirePermit, AcquireRefused, ReturnToken, TakeReady
<1>8. CASE \E d \in Database : AdmitInitial(d) \/ CreateInitial(d)
  BY <1>8 DEF AdmitInitial, CreateInitial, Residual
<1>9. CASE \E d \in Database : SubmitReturn(d) \/ SubmitDetached(d)
  BY <1>9 DEF SubmitReturn, SubmitDetached, BeginCleanup, HoldReady
<1>10. CASE \E d \in Database : DropDirty(d)
  BY <1>10 DEF DropDirty, Open, BeginCleanup, HoldReady
<1>11. CASE \E d \in Database : AdmitRefill(d) \/ RefillFails(d)
  BY <1>11 DEF AdmitRefill, RefillFails, Residual, BeginCleanup, HoldReady
<1>12. CASE \E d, e \in Database : PublishRefill(d, e)
  BY <1>12 DEF PublishRefill, NewName, Open
<1>13. CASE \E d \in Database : AddTokenRefill(d) \/ DropExtra(d)
  BY <1>13 DEF AddTokenRefill, DropExtra
<1>14. CASE \E d \in Database : FinishJob(d) \/ RunDeletion(d)
  BY <1>14 DEF FinishJob, RunDeletion, Residual
<1>15. CASE AbandonFill
  BY <1>15 DEF AbandonFill, BeginCleanup, HoldReady
<1>16. CASE \E b \in Borrower : ReserveToken(b) \/ CancelBorrow(b) \/ BeginReturn(b)
  BY <1>16 DEF ReserveToken, CancelBorrow, ReturnToken, BeginReturn
<1>17. CASE AcquireOther \/ ReleaseOther
  BY <1>17 DEF AcquireOther, ReleaseOther
<1>18. CASE ClosePool \/ ReleaseHandle
  BY <1>18 DEF ClosePool, ReleaseHandle, BeginCleanup, HoldReady
<1>19. CASE CloseAdmission \/ ClosePrewarmPools \/ CloseQueue
  BY <1>19 DEF CloseAdmission, ClosePrewarmPools, CloseQueue, BeginCleanup, HoldReady
<1>20. CASE UNCHANGED vars
  BY <1>20 DEF vars
<1> QED
  BY <1>1, <1>2, <1>3, <1>4, <1>5, <1>6, <1>7, <1>8, <1>9, <1>10, <1>11, <1>12, <1>13, <1>14,
     <1>15, <1>16, <1>17, <1>18, <1>19, <1>20
  DEF Next, CloseStep, FillStep, JobStep, ApplicationStep, ShutdownStep, Terminated

\* The fill keeps to its slot.
LEMMA FillerWorksStep ==
    ASSUME PoolInv, [Next]_vars
    PROVE  FillerWorks'
<1> USE PoolAssumption DEF PoolInv, FillerWorks, Shape, ReadyExact, HeldExact, InReady,
      LeasesExact, RefillsExact, stateVars, serverVars, databaseVars, fillerVars,
      borrowerVars, closeVars
<1>1. CASE \E a \in Agent : CloseSemaphores(a)
  BY <1>1 DEF CloseSemaphores, WakeBorrowers
<1>2. CASE \E a \in Agent, d \in Database : QueueHeld(a, d)
  BY <1>2 DEF QueueHeld
<1>3. CASE Register \/ \E d \in Database : BeginCreation(d)
  BY <1>3 DEF Register, BeginCreation, MayRegister, NewName
<1>4. CASE BeginCreationRefused
  BY <1>4 DEF BeginCreationRefused, BeginCleanup, HoldReady
<1>5. CASE PublishInitial \/ AddTokenInitial
  BY <1>5 DEF PublishInitial, AddTokenInitial, Open
<1>6. CASE RequeueInitial \/ FinishFill
  BY <1>6 DEF RequeueInitial, FinishFill
<1>7. CASE \E b \in Borrower : BorrowStep(b)
  <2>1. CASE \E b \in Borrower : AcquirePermit(b) \/ AcquireRefused(b)
    BY <2>1 DEF AcquirePermit, AcquireRefused
  <2>2. ASSUME NEW b \in Borrower, TakeReady(b) PROVE FillerWorks'
    <3>1. CASE ready = << >>
      BY <2>2, <3>1 DEF TakeReady
    <3>2. CASE ready # << >>
      <4>1. Head(ready) \in Database /\ Head(ready) = ready[1] /\ 1 \in 1 .. Len(ready)
        BY <3>2
      <4>2. db[Head(ready)] = "ready"
        BY <4>1
      <4>3. UNCHANGED fillerVars /\ \A e \in Database : db'[e] # db[e] => db[e] = "ready"
        BY <2>2, <4>1, <4>2 DEF TakeReady
      <4> QED
        BY <4>3
    <3> QED
      BY <3>1, <3>2
  <2> QED
    BY <1>7, <2>1, <2>2 DEF BorrowStep
<1>8. CASE \E d \in Database : AdmitInitial(d) \/ CreateInitial(d)
  BY <1>8 DEF AdmitInitial, CreateInitial, Residual
<1>9. CASE \E d \in Database : SubmitReturn(d) \/ SubmitDetached(d)
  BY <1>9 DEF SubmitReturn, SubmitDetached, BeginCleanup, HoldReady
<1>10. CASE \E d \in Database : DropDirty(d)
  BY <1>10 DEF DropDirty, Open, BeginCleanup, HoldReady
<1>11. CASE \E d \in Database : AdmitRefill(d) \/ RefillFails(d)
  BY <1>11 DEF AdmitRefill, RefillFails, Residual, BeginCleanup, HoldReady
<1>12. CASE \E d, e \in Database : PublishRefill(d, e)
  BY <1>12 DEF PublishRefill, NewName, Open
<1>13. CASE \E d \in Database : AddTokenRefill(d) \/ DropExtra(d)
  BY <1>13 DEF AddTokenRefill, DropExtra
<1>14. CASE \E d \in Database : FinishJob(d) \/ RunDeletion(d)
  BY <1>14 DEF FinishJob, RunDeletion, Residual
<1>15. CASE AbandonFill
  BY <1>15 DEF AbandonFill, BeginCleanup, HoldReady
<1>16. CASE \E b \in Borrower : ReserveToken(b) \/ CancelBorrow(b) \/ BeginReturn(b)
  BY <1>16 DEF ReserveToken, CancelBorrow, ReturnToken, BeginReturn
<1>17. CASE AcquireOther \/ ReleaseOther
  BY <1>17 DEF AcquireOther, ReleaseOther
<1>18. CASE ClosePool \/ ReleaseHandle
  BY <1>18 DEF ClosePool, ReleaseHandle, BeginCleanup, HoldReady
<1>19. CASE CloseAdmission \/ ClosePrewarmPools \/ CloseQueue
  <2>1. UNCHANGED fillerVars /\ \A e \in Database : db'[e] # db[e] => db[e] = "ready"
    BY <1>19 DEF CloseAdmission, ClosePrewarmPools, CloseQueue, HoldReady
  <2> QED
    BY <2>1
<1>20. CASE UNCHANGED vars
  BY <1>20 DEF vars
<1> QED
  BY <1>1, <1>2, <1>3, <1>4, <1>5, <1>6, <1>7, <1>8, <1>9, <1>10, <1>11, <1>12, <1>13, <1>14,
     <1>15, <1>16, <1>17, <1>18, <1>19, <1>20
  DEF Next, CloseStep, FillStep, JobStep, ApplicationStep, ShutdownStep, Terminated

\* The order of the shutdown.
LEMMA GateOrderStep ==
    ASSUME PoolInv, [Next]_vars
    PROVE  GateOrder'
<1> USE PoolAssumption DEF PoolInv, GateOrder, stateVars, serverVars, databaseVars,
      fillerVars, borrowerVars, closeVars
<1>1. CASE \E a \in Agent : CloseSemaphores(a)
  BY <1>1 DEF CloseSemaphores, WakeBorrowers
<1>2. CASE \E a \in Agent, d \in Database : QueueHeld(a, d)
  BY <1>2 DEF QueueHeld
<1>3. CASE Register \/ \E d \in Database : BeginCreation(d)
  BY <1>3 DEF Register, BeginCreation, MayRegister, NewName
<1>4. CASE BeginCreationRefused
  BY <1>4 DEF BeginCreationRefused, BeginCleanup, HoldReady
<1>5. CASE PublishInitial \/ AddTokenInitial
  BY <1>5 DEF PublishInitial, AddTokenInitial, Open
<1>6. CASE RequeueInitial \/ FinishFill
  BY <1>6 DEF RequeueInitial, FinishFill
<1>7. CASE \E b \in Borrower : BorrowStep(b)
  BY <1>7 DEF BorrowStep, AcquirePermit, AcquireRefused, ReturnToken, TakeReady
<1>8. CASE \E d \in Database : AdmitInitial(d) \/ CreateInitial(d)
  BY <1>8 DEF AdmitInitial, CreateInitial, Residual
<1>9. CASE \E d \in Database : SubmitReturn(d) \/ SubmitDetached(d)
  BY <1>9 DEF SubmitReturn, SubmitDetached, BeginCleanup, HoldReady
<1>10. CASE \E d \in Database : DropDirty(d)
  BY <1>10 DEF DropDirty, Open, BeginCleanup, HoldReady
<1>11. CASE \E d \in Database : AdmitRefill(d) \/ RefillFails(d)
  BY <1>11 DEF AdmitRefill, RefillFails, Residual, BeginCleanup, HoldReady
<1>12. CASE \E d, e \in Database : PublishRefill(d, e)
  BY <1>12 DEF PublishRefill, NewName, Open
<1>13. CASE \E d \in Database : AddTokenRefill(d) \/ DropExtra(d)
  BY <1>13 DEF AddTokenRefill, DropExtra
<1>14. CASE \E d \in Database : FinishJob(d) \/ RunDeletion(d)
  BY <1>14 DEF FinishJob, RunDeletion, Residual
<1>15. CASE AbandonFill
  BY <1>15 DEF AbandonFill, BeginCleanup, HoldReady
<1>16. CASE \E b \in Borrower : ReserveToken(b) \/ CancelBorrow(b) \/ BeginReturn(b)
  BY <1>16 DEF ReserveToken, CancelBorrow, ReturnToken, BeginReturn
<1>17. CASE AcquireOther \/ ReleaseOther
  BY <1>17 DEF AcquireOther, ReleaseOther
<1>18. CASE ClosePool \/ ReleaseHandle
  BY <1>18 DEF ClosePool, ReleaseHandle, BeginCleanup, HoldReady
<1>19. CASE CloseAdmission \/ ClosePrewarmPools \/ CloseQueue
  BY <1>19 DEF CloseAdmission, ClosePrewarmPools, CloseQueue, BeginCleanup, HoldReady
<1>20. CASE UNCHANGED vars
  BY <1>20 DEF vars
<1> QED
  BY <1>1, <1>2, <1>3, <1>4, <1>5, <1>6, <1>7, <1>8, <1>9, <1>10, <1>11, <1>12, <1>13, <1>14,
     <1>15, <1>16, <1>17, <1>18, <1>19, <1>20
  DEF Next, CloseStep, FillStep, JobStep, ApplicationStep, ShutdownStep, Terminated

\* Whatever is left over closes admission, or was refused by a closed queue.
LEMMA LeftoverStep ==
    ASSUME PoolInv, [Next]_vars
    PROVE  LeftoverClosesAdmission'
<1> USE PoolAssumption DEF PoolInv, GateOrder, LeftoverClosesAdmission, Shape, FillerWorks,
      stateVars, serverVars, databaseVars, fillerVars, borrowerVars, closeVars
<1>1. CASE \E a \in Agent : CloseSemaphores(a)
  BY <1>1 DEF CloseSemaphores, WakeBorrowers
<1>2. CASE \E a \in Agent, d \in Database : QueueHeld(a, d)
  BY <1>2 DEF QueueHeld
<1>3. CASE Register \/ \E d \in Database : BeginCreation(d)
  BY <1>3 DEF Register, BeginCreation, MayRegister, NewName
<1>4. CASE BeginCreationRefused
  BY <1>4 DEF BeginCreationRefused, BeginCleanup, HoldReady
<1>5. CASE PublishInitial \/ AddTokenInitial
  BY <1>5 DEF PublishInitial, AddTokenInitial, Open
<1>6. CASE RequeueInitial \/ FinishFill
  BY <1>6 DEF RequeueInitial, FinishFill
<1>7. CASE \E b \in Borrower : BorrowStep(b)
  BY <1>7 DEF BorrowStep, AcquirePermit, AcquireRefused, ReturnToken, TakeReady
<1>8. CASE \E d \in Database : AdmitInitial(d) \/ CreateInitial(d)
  BY <1>8 DEF AdmitInitial, CreateInitial, Residual
<1>9. CASE \E d \in Database : SubmitReturn(d) \/ SubmitDetached(d)
  BY <1>9 DEF SubmitReturn, SubmitDetached, BeginCleanup, HoldReady
<1>10. CASE \E d \in Database : DropDirty(d)
  BY <1>10 DEF DropDirty, Open, BeginCleanup, HoldReady
<1>11. CASE \E d \in Database : AdmitRefill(d) \/ RefillFails(d)
  BY <1>11 DEF AdmitRefill, RefillFails, Residual, BeginCleanup, HoldReady
<1>12. CASE \E d, e \in Database : PublishRefill(d, e)
  <2> SUFFICES ASSUME NEW d \in Database, NEW e \in Database, PublishRefill(d, e)
               PROVE  LeftoverClosesAdmission'
    BY <1>12
  <2>1. /\ d # e /\ UNCHANGED <<admission_closed>>
        /\ db'[d] # "left" /\ db'[e] # "left" /\ \A x \in Database \ {d, e} : db'[x] = db[x]
    BY DEF PublishRefill, NewName
  <2> QED
    BY <2>1
<1>13. CASE \E d \in Database : AddTokenRefill(d) \/ DropExtra(d)
  BY <1>13 DEF AddTokenRefill, DropExtra
<1>14. CASE \E d \in Database : FinishJob(d) \/ RunDeletion(d)
  BY <1>14 DEF FinishJob, RunDeletion, Residual
<1>15. CASE AbandonFill
  BY <1>15 DEF AbandonFill, BeginCleanup, HoldReady
<1>16. CASE \E b \in Borrower : ReserveToken(b) \/ CancelBorrow(b) \/ BeginReturn(b)
  BY <1>16 DEF ReserveToken, CancelBorrow, ReturnToken, BeginReturn
<1>17. CASE AcquireOther \/ ReleaseOther
  BY <1>17 DEF AcquireOther, ReleaseOther
<1>18. CASE ClosePool \/ ReleaseHandle
  BY <1>18 DEF ClosePool, ReleaseHandle, BeginCleanup, HoldReady
<1>19. CASE CloseAdmission \/ ClosePrewarmPools \/ CloseQueue
  BY <1>19 DEF CloseAdmission, ClosePrewarmPools, CloseQueue, BeginCleanup, HoldReady
<1>20. CASE UNCHANGED vars
  BY <1>20 DEF vars
<1> QED
  BY <1>1, <1>2, <1>3, <1>4, <1>5, <1>6, <1>7, <1>8, <1>9, <1>10, <1>11, <1>12, <1>13, <1>14,
     <1>15, <1>16, <1>17, <1>18, <1>19, <1>20
  DEF Next, CloseStep, FillStep, JobStep, ApplicationStep, ShutdownStep, Terminated

\* The shutdown of the server does not miss the pool.
LEMMA PoolClosedStep ==
    ASSUME PoolInv, [Next]_vars
    PROVE  PoolClosed'
<1> USE PoolAssumption DEF PoolInv, PoolClosed, Shape, GateOrder, Alive, stateVars,
      serverVars, databaseVars, fillerVars, borrowerVars, closeVars
<1>1. CASE \E a \in Agent : CloseSemaphores(a)
  BY <1>1 DEF CloseSemaphores, WakeBorrowers
<1>2. CASE \E a \in Agent, d \in Database : QueueHeld(a, d)
  BY <1>2 DEF QueueHeld
<1>3. CASE Register \/ \E d \in Database : BeginCreation(d)
  BY <1>3 DEF Register, BeginCreation, MayRegister, NewName
<1>4. CASE BeginCreationRefused
  BY <1>4 DEF BeginCreationRefused, BeginCleanup, HoldReady
<1>5. CASE PublishInitial \/ AddTokenInitial
  BY <1>5 DEF PublishInitial, AddTokenInitial, Open
<1>6. CASE RequeueInitial \/ FinishFill
  BY <1>6 DEF RequeueInitial, FinishFill
<1>7. CASE \E b \in Borrower : BorrowStep(b)
  BY <1>7 DEF BorrowStep, AcquirePermit, AcquireRefused, ReturnToken, TakeReady
<1>8. CASE \E d \in Database : AdmitInitial(d) \/ CreateInitial(d)
  BY <1>8 DEF AdmitInitial, CreateInitial, Residual
<1>9. CASE \E d \in Database : SubmitReturn(d) \/ SubmitDetached(d)
  BY <1>9 DEF SubmitReturn, SubmitDetached, BeginCleanup, HoldReady
<1>10. CASE \E d \in Database : DropDirty(d)
  BY <1>10 DEF DropDirty, Open, BeginCleanup, HoldReady
<1>11. CASE \E d \in Database : AdmitRefill(d) \/ RefillFails(d)
  BY <1>11 DEF AdmitRefill, RefillFails, Residual, BeginCleanup, HoldReady
<1>12. CASE \E d, e \in Database : PublishRefill(d, e)
  BY <1>12 DEF PublishRefill, NewName, Open
<1>13. CASE \E d \in Database : AddTokenRefill(d) \/ DropExtra(d)
  BY <1>13 DEF AddTokenRefill, DropExtra
<1>14. CASE \E d \in Database : FinishJob(d) \/ RunDeletion(d)
  BY <1>14 DEF FinishJob, RunDeletion, Residual
<1>15. CASE AbandonFill
  BY <1>15 DEF AbandonFill, BeginCleanup, HoldReady
<1>16. CASE \E b \in Borrower : ReserveToken(b) \/ CancelBorrow(b) \/ BeginReturn(b)
  BY <1>16 DEF ReserveToken, CancelBorrow, ReturnToken, BeginReturn
<1>17. CASE AcquireOther \/ ReleaseOther
  BY <1>17 DEF AcquireOther, ReleaseOther
<1>18. CASE ClosePool \/ ReleaseHandle
  BY <1>18 DEF ClosePool, ReleaseHandle, BeginCleanup, HoldReady
<1>19. CASE CloseAdmission \/ ClosePrewarmPools \/ CloseQueue
  BY <1>19 DEF CloseAdmission, ClosePrewarmPools, CloseQueue, BeginCleanup, HoldReady
<1>20. CASE UNCHANGED vars
  BY <1>20 DEF vars
<1> QED
  BY <1>1, <1>2, <1>3, <1>4, <1>5, <1>6, <1>7, <1>8, <1>9, <1>10, <1>11, <1>12, <1>13, <1>14,
     <1>15, <1>16, <1>17, <1>18, <1>19, <1>20
  DEF Next, CloseStep, FillStep, JobStep, ApplicationStep, ShutdownStep, Terminated

\* Nothing happens before the pool is registered.
LEMMA NotBegunStep ==
    ASSUME PoolInv, [Next]_vars
    PROVE  NotBegun'
<1> USE PoolAssumption DEF PoolInv, NotBegun, Shape, PoolClosed, ReadyExact, InReady,
      LeasesExact, HeldExact, stateVars, serverVars, databaseVars, fillerVars, borrowerVars,
      closeVars
<1>1. CASE \E a \in Agent : CloseSemaphores(a)
  BY <1>1 DEF CloseSemaphores, WakeBorrowers
<1>2. CASE \E a \in Agent, d \in Database : QueueHeld(a, d)
  BY <1>2 DEF QueueHeld
<1>3. CASE Register \/ \E d \in Database : BeginCreation(d)
  BY <1>3 DEF Register, BeginCreation, MayRegister, NewName
<1>4. CASE BeginCreationRefused
  BY <1>4 DEF BeginCreationRefused, BeginCleanup, HoldReady
<1>5. CASE PublishInitial \/ AddTokenInitial
  BY <1>5 DEF PublishInitial, AddTokenInitial, Open
<1>6. CASE RequeueInitial \/ FinishFill
  BY <1>6 DEF RequeueInitial, FinishFill
<1>7. CASE \E b \in Borrower : BorrowStep(b)
  BY <1>7 DEF BorrowStep, AcquirePermit, AcquireRefused, ReturnToken, TakeReady
<1>8. CASE \E d \in Database : AdmitInitial(d) \/ CreateInitial(d)
  BY <1>8 DEF AdmitInitial, CreateInitial, Residual
<1>9. CASE \E d \in Database : SubmitReturn(d) \/ SubmitDetached(d)
  BY <1>9 DEF SubmitReturn, SubmitDetached, BeginCleanup, HoldReady
<1>10. CASE \E d \in Database : DropDirty(d)
  BY <1>10 DEF DropDirty, Open, BeginCleanup, HoldReady
<1>11. CASE \E d \in Database : AdmitRefill(d) \/ RefillFails(d)
  BY <1>11 DEF AdmitRefill, RefillFails, Residual, BeginCleanup, HoldReady
<1>12. CASE \E d, e \in Database : PublishRefill(d, e)
  BY <1>12 DEF PublishRefill, NewName, Open
<1>13. CASE \E d \in Database : AddTokenRefill(d) \/ DropExtra(d)
  BY <1>13 DEF AddTokenRefill, DropExtra
<1>14. CASE \E d \in Database : FinishJob(d) \/ RunDeletion(d)
  BY <1>14 DEF FinishJob, RunDeletion, Residual
<1>15. CASE AbandonFill
  BY <1>15 DEF AbandonFill, BeginCleanup, HoldReady
<1>16. CASE \E b \in Borrower : ReserveToken(b) \/ CancelBorrow(b) \/ BeginReturn(b)
  BY <1>16 DEF ReserveToken, CancelBorrow, ReturnToken, BeginReturn
<1>17. CASE AcquireOther \/ ReleaseOther
  BY <1>17 DEF AcquireOther, ReleaseOther
<1>18. CASE ClosePool \/ ReleaseHandle
  BY <1>18 DEF ClosePool, ReleaseHandle, BeginCleanup, HoldReady
<1>19. CASE CloseAdmission \/ ClosePrewarmPools \/ CloseQueue
  BY <1>19 DEF CloseAdmission, ClosePrewarmPools, CloseQueue, BeginCleanup, HoldReady
<1>20. CASE UNCHANGED vars
  BY <1>20 DEF vars
<1> QED
  BY <1>1, <1>2, <1>3, <1>4, <1>5, <1>6, <1>7, <1>8, <1>9, <1>10, <1>11, <1>12, <1>13, <1>14,
     <1>15, <1>16, <1>17, <1>18, <1>19, <1>20
  DEF Next, CloseStep, FillStep, JobStep, ApplicationStep, ShutdownStep, Terminated

-----------------------------------------------------------------------------
(***************************************************************************)
(* Counting.  Count is Number and InFlight over any finite set: it changes *)
(* by at most one when one element changes, and by the length of a queue   *)
(* when all its elements join.                                             *)
(***************************************************************************)
Count(D, f, S) == Cardinality({x \in D : f[x] \in S})

LEMMA CountNat ==
    ASSUME NEW D, IsFiniteSet(D), NEW f, NEW S
    PROVE  Count(D, f, S) \in Nat
BY FS_Subset, FS_CardinalityType DEF Count

LEMMA CountOne ==
    ASSUME NEW D, IsFiniteSet(D), NEW f, NEW g, NEW S, NEW d \in D,
           \A x \in D \ {d} : g[x] = f[x]
    PROVE  Count(D, g, S) = Count(D, f, S) + One(g[d] \in S) - One(f[d] \in S)
<1> DEFINE A == {x \in D \ {d} : f[x] \in S}
<1>1. IsFiniteSet(A) /\ d \notin A
  BY FS_Subset
<1>2. Cardinality(A) \in Nat /\ Cardinality(A \cup {d}) = Cardinality(A) + 1
  BY <1>1, FS_AddElement, FS_CardinalityType
<1>3. {x \in D : f[x] \in S} = IF f[d] \in S THEN A \cup {d} ELSE A
  OBVIOUS
<1>4. {x \in D : g[x] \in S} = IF g[d] \in S THEN A \cup {d} ELSE A
  OBVIOUS
<1> HIDE DEF A
<1>5. Count(D, f, S) = Cardinality(A) + One(f[d] \in S)
  BY <1>2, <1>3 DEF Count, One
<1>6. Count(D, g, S) = Cardinality(A) + One(g[d] \in S)
  <2>1. CASE g[d] \in S
    BY <1>2, <1>4, <2>1 DEF Count, One
  <2>2. CASE g[d] \notin S
    <3>1. Count(D, g, S) = Cardinality(A) /\ One(g[d] \in S) = 0
      BY <1>4, <2>2 DEF Count, One
    <3> QED
      BY <1>2, <3>1
  <2> QED
    BY <2>1, <2>2
<1> QED
  BY <1>2, <1>5, <1>6 DEF One

LEMMA CountQueue ==
    ASSUME NEW D, IsFiniteSet(D), NEW f, NEW g, NEW S, NEW s \in Seq(D),
           \A i, j \in 1 .. Len(s) : s[i] = s[j] => i = j,
           \A i \in 1 .. Len(s) : f[s[i]] \notin S,
           \A x \in D : g[x] \in S <=> f[x] \in S \/ \E i \in 1 .. Len(s) : s[i] = x
    PROVE  Count(D, g, S) = Count(D, f, S) + Len(s)
<1> DEFINE A == {x \in D : f[x] \in S}
           B == {x \in D : \E i \in 1 .. Len(s) : s[i] = x}
<1>1. IsFiniteSet(A) /\ IsFiniteSet(B)
  BY FS_Subset
<1>2. Len(s) \in Nat
  OBVIOUS
<1>3. Cardinality(B) = Len(s)
  <2>1. s \in Bijection(1 .. Len(s), B)
    BY <1>2 DEF Bijection, Injection, Surjection, IsInjective
  <2> QED
    BY <1>2, <2>1, FS_CountingElements DEF ExistsBijection
<1>4. A \cap B = {}
  OBVIOUS
<1>5. {x \in D : g[x] \in S} = A \cup B
  OBVIOUS
<1>6. Cardinality(A) \in Nat
  BY <1>1, FS_CardinalityType
<1> HIDE DEF A, B
<1>7. Cardinality(A \cup B) = Cardinality(A) + Len(s)
  <2>1. Cardinality(A \cup B) = Cardinality(A) + Cardinality(B) - Cardinality(A \cap B)
    BY <1>1, FS_Union
  <2>2. Cardinality(A \cap B) = 0
    BY <1>4, FS_EmptySet
  <2> QED
    BY <1>2, <1>3, <1>6, <2>1, <2>2
<1> QED
  BY <1>5, <1>7 DEF Count, A

\* What a number gains when a database goes from x to y.
Effect(x, y, S) == One(y \in S) - One(x \in S)

LEMMA NumberNat == ASSUME NEW S PROVE Number(S) \in Nat
BY FS_Subset, FS_CardinalityType, PoolAssumption DEF Number

LEMMA NumberNatNext == ASSUME NEW S PROVE Number(S)' \in Nat
BY FS_Subset, FS_CardinalityType, PoolAssumption DEF Number

LEMMA OneMoves ==
    ASSUME NEW d \in Database, \A e \in Database \ {d} : db'[e] = db[e], NEW S
    PROVE  Number(S)' = Number(S) + Effect(db[d], db'[d], S)
<1>1. Count(Database, db', S) = Count(Database, db, S) + One(db'[d] \in S) - One(db[d] \in S)
  BY CountOne, PoolAssumption
<1>2. Number(S) = Count(Database, db, S) /\ Number(S)' = Count(Database, db', S)
  BY DEF Number, Count
<1> QED
  BY <1>1, <1>2, CountNat, PoolAssumption DEF Effect, One

LEMMA CallerCounts ==
    ASSUME NEW b \in Borrower, \A c \in Borrower \ {b} : borrower'[c] = borrower[c]
    PROVE  Cardinality(InFlight)' =
              Cardinality(InFlight) + Effect(borrower[b], borrower'[b], {"permit", "take"})
<1> DEFINE S == {"permit", "take"}
<1>1. Count(Borrower, borrower', S) =
         Count(Borrower, borrower, S) + One(borrower'[b] \in S) - One(borrower[b] \in S)
  BY CountOne, PoolAssumption
<1>2. /\ Cardinality(InFlight) = Count(Borrower, borrower, S)
      /\ Cardinality(InFlight)' = Count(Borrower, borrower', S)
  BY DEF InFlight, Count
<1> QED
  BY <1>1, <1>2, CountNat, PoolAssumption DEF Effect, One

LEMMA InFlightNat == Cardinality(InFlight) \in Nat
BY FS_Subset, FS_CardinalityType, PoolAssumption DEF InFlight

\* begin_cleanup counts what was ready as being deleted, and nothing else.
LEMMA CleanupCounts ==
    ASSUME PoolInv, NEW f, Simple(f), db' = HoldReady(f), NEW a, NEW n \in Int, BeginCleanup(a, n),
           NEW d \in Database, \A e \in Database \ {d} : f[e] = db[e]
    PROVE  /\ Number(Leased)' = Number(Leased) + Effect(db[d], f[d], Leased)
           /\ Number(Creating)' = Number(Creating) + Effect(db[d], f[d], Creating)
           /\ Number(Deleting)' = Number(Deleting) + Effect(db[d], f[d], Deleting) + Len(ready)
           /\ deleting' = n + Len(ready) /\ Len(ready') = 0 /\ Len(ready) \in Nat
<1>1. \A e \in Database : db'[e] = IF InReady(e) THEN "held" ELSE f[e]
  BY DEF HoldReady, InReady
<1>2. \A e \in Database : InReady(e) => f[e] = "ready"
  BY DEF PoolInv, ReadyExact, Simple, Bound
<1>3. \A S : Count(Database, f, S) = Number(S) + Effect(db[d], f[d], S)
  BY CountOne, CountNat, PoolAssumption DEF Number, Count, Effect, One
<1>4. \A S : "ready" \notin S /\ "held" \notin S => Number(S)' = Count(Database, f, S)
  BY <1>1, <1>2 DEF Number, Count
<1>5. Number(Deleting)' = Count(Database, f, Deleting) + Len(ready)
  <2>1. \A x \in Database : db'[x] \in Deleting <=> f[x] \in Deleting \/ InReady(x)
    BY <1>1, <1>2 DEF Deleting
  <2>2. \A i \in 1 .. Len(ready) : f[ready[i]] \notin Deleting
    <3>1. \A i \in 1 .. Len(ready) : ready[i] \in Database /\ InReady(ready[i])
      BY DEF PoolInv, Shape, InReady
    <3> QED
      BY <1>2, <3>1 DEF Deleting
  <2>3. Count(Database, db', Deleting) = Count(Database, f, Deleting) + Len(ready)
    BY <2>1, <2>2, CountQueue, PoolAssumption DEF PoolInv, Shape, ReadyExact, InReady
  <2> QED
    BY <2>3 DEF Number, Count
<1>6. deleting' = n + Len(ready) /\ Len(ready') = 0 /\ Len(ready) \in Nat
  BY DEF BeginCleanup, PoolInv, CleanupOnce, Shape
<1> QED
  BY <1>3, <1>4, <1>5, <1>6 DEF Leased, Creating

\* The counters stay true when each changes as the databases of its phase do.
LEMMA TallyKept ==
    ASSUME PoolInv, Tally, NEW d \in Database, \A e \in Database \ {d} : db'[e] = db[e],
           leased' = leased + Effect(db[d], db'[d], Leased),
           creating' = creating + Effect(db[d], db'[d], Creating)
                          + One(filler' = "create") - One(filler = "create"),
           deleting' = deleting + Effect(db[d], db'[d], Deleting),
           Occupied' <= Capacity
    PROVE  Tally'
<1>1. \A S : Number(S) \in Nat /\ Number(S)' = Number(S) + Effect(db[d], db'[d], S)
  BY NumberNat, OneMoves
<1>2. Number(Leased)' = Number(Leased) + Effect(db[d], db'[d], Leased) /\ Number(Leased) \in Nat
  BY <1>1
<1>3. /\ Number(Creating)' = Number(Creating) + Effect(db[d], db'[d], Creating)
      /\ Number(Creating) \in Nat
  BY <1>1
<1>4. /\ Number(Deleting)' = Number(Deleting) + Effect(db[d], db'[d], Deleting)
      /\ Number(Deleting) \in Nat
  BY <1>1
<1>5. leased' = Number(Leased)'
  BY <1>2 DEF Tally
<1>6. deleting' = Number(Deleting)'
  BY <1>4 DEF Tally
<1>7. creating' = Number(Creating)' + One(filler' = "create")
  BY <1>3 DEF Tally, Effect, One
<1> QED
  BY <1>5, <1>6, <1>7 DEF Tally

LEMMA TallySame ==
    ASSUME Tally, UNCHANGED <<stateVars, db>>, (filler' = "create") <=> (filler = "create")
    PROVE  Tally'
<1>1. \A S : Number(S)' = Number(S)
  BY DEF Number
<1>2. One(filler' = "create") = One(filler = "create")
  BY DEF One
<1> QED
  BY <1>1, <1>2 DEF Tally, Occupied, stateVars

\* What was ready takes as many slots as before once it is being deleted.
LEMMA SlotsTaken ==
    ASSUME NEW l \in Int, NEW c \in Int, NEW k \in Int, NEW c1 \in Int, NEW r \in Nat, NEW n \in Int,
           NEW m \in Nat, r + l + c + k <= m, c1 + n <= c + k
    PROVE  0 + l + c1 + (n + r) <= m
OBVIOUS

LEMMA ClosedOccupies ==
    ASSUME leased \in Int, creating \in Int, deleting \in Int, creating' \in Int, Capacity \in Nat,
           Len(ready) \in Nat, Len(ready) + leased + creating + deleting <= Capacity, NEW n \in Int,
           creating' + n <= creating + deleting
    PROVE  0 + leased + creating' + (n + Len(ready)) <= Capacity
<1> DEFINE r == Len(ready)
           c == creating'
<1>1. /\ r \in Nat /\ c \in Int
      /\ r + leased + creating + deleting <= Capacity /\ c + n <= creating + deleting
  OBVIOUS
<1> HIDE DEF r, c
<1>2. 0 + leased + c + (n + r) <= Capacity
  BY <1>1, SlotsTaken
<1> QED
  BY <1>2 DEF r, c

\* Closing the pool keeps them true too, and occupies no more slots.
LEMMA TallyClosed ==
    ASSUME PoolInv, Tally, NEW f, Simple(f), db' = HoldReady(f), NEW a, NEW n \in Int,
           BeginCleanup(a, n), NEW d \in Database, \A e \in Database \ {d} : f[e] = db[e],
           leased' = leased,
           creating' = creating - One(filler = "create") + One(filler' = "create")
                          + Effect(db[d], f[d], Creating),
           n = deleting + Effect(db[d], f[d], Deleting),
           Effect(db[d], f[d], Leased) = 0, creating' + n <= creating + deleting
    PROVE  Tally'
<1>1. /\ Number(Creating) \in Nat /\ Number(Deleting) \in Nat /\ Number(Leased) \in Nat
      /\ Effect(db[d], f[d], Creating) \in Int /\ Effect(db[d], f[d], Deleting) \in Int
  BY NumberNat DEF Effect, One
<1>2. /\ Number(Leased)' = Number(Leased)
      /\ Number(Creating)' = Number(Creating) + Effect(db[d], f[d], Creating)
      /\ Number(Deleting)' = Number(Deleting) + Effect(db[d], f[d], Deleting) + Len(ready)
      /\ deleting' = n + Len(ready) /\ Len(ready') = 0 /\ Len(ready) \in Nat
  BY <1>1, CleanupCounts
<1>3. leased' = Number(Leased)'
  BY <1>2 DEF Tally
<1>4. deleting' = Number(Deleting)'
  BY <1>1, <1>2 DEF Tally
<1>5. creating' = Number(Creating)' + One(filler' = "create")
  <2> DEFINE o == One(filler = "create")
             p == One(filler' = "create")
             x == Effect(db[d], f[d], Creating)
  <2>1. creating = Number(Creating) + o /\ creating' = creating - o + p + x
    BY DEF Tally
  <2>2. o \in Int /\ p \in Int /\ x \in Int
    BY <1>1 DEF One
  <2>3. Number(Creating)' = Number(Creating) + x
    BY <1>2
  <2> HIDE DEF o, p, x
  <2>4. creating' = Number(Creating)' + p
    BY <1>1, <2>1, <2>2, <2>3
  <2> QED
    BY <2>4 DEF p
<1>6. Occupied' <= Capacity
  <2>1. /\ leased \in Int /\ creating \in Int /\ deleting \in Int /\ creating' \in Int
        /\ Len(ready) + leased + creating + deleting <= Capacity /\ Capacity \in Nat
    <3>1. creating' \in Int
      BY <1>1 DEF PoolInv, Shape, One
    <3> QED
      BY <3>1, PoolAssumption DEF Occupied, Tally, PoolInv, Shape
  <2>2. /\ leased' = leased /\ creating' + n <= creating + deleting
        /\ deleting' = n + Len(ready) /\ Len(ready') = 0 /\ Len(ready) \in Nat
    BY <1>2
  <2>3. 0 + leased + creating' + (n + Len(ready)) <= Capacity
    BY <2>1, <2>2, ClosedOccupies
  <2> QED
    BY <2>2, <2>3 DEF Occupied
<1> QED
  BY <1>3, <1>4, <1>5, <1>6 DEF Tally

\* The steps that change two databases at once.
LEMMA RefillMoves ==
    ASSUME PoolInv, NEW d \in Database, NEW e \in Database, PublishRefill(d, e)
    PROVE  /\ db[d] = "recreate" /\ db[e] = "unused" /\ d # e /\ UNCHANGED <<leased, filler>>
           /\ creating' = creating - 1 /\ \A x \in Database \ {d, e} : db'[x] = db[x]
           /\ \/ /\ db'[d] = "token" /\ db'[e] = "ready" /\ ready' = Append(ready, e)
                 /\ deleting' = deleting /\ Open
              \/ /\ db'[d] = "extra" /\ db'[e] = "fresh" /\ ready' = ready
                 /\ deleting' = deleting + 1 /\ ~Open
BY DEF PublishRefill, NewName, PoolInv, Shape, fillerVars

LEMMA RefillCounts ==
    ASSUME PoolInv, NEW d \in Database, NEW e \in Database, PublishRefill(d, e), NEW S
    PROVE  /\ Number(S) \in Nat
           /\ Number(S)' = Number(S) + One(db'[d] \in S) - One("recreate" \in S)
                              + One(db'[e] \in S) - One("unused" \in S)
<1> DEFINE f == [db EXCEPT ![d] = db'[d]]
<1>1. /\ db[d] = "recreate" /\ db[e] = "unused" /\ d # e
      /\ \A x \in Database \ {d, e} : db'[x] = db[x]
  BY RefillMoves
<1>2. /\ f[d] = db'[d] /\ f[e] = "unused"
      /\ \A x \in Database \ {d} : f[x] = db[x]
      /\ \A x \in Database \ {e} : db'[x] = f[x]
  BY <1>1 DEF PoolInv, Shape
<1> HIDE DEF f
<1>3. Count(Database, f, S) = Count(Database, db, S) + One(f[d] \in S) - One(db[d] \in S)
  <2>1. IsFiniteSet(Database) /\ \A x \in Database \ {d} : f[x] = db[x]
    BY <1>2, PoolAssumption
  <2> QED
    BY <2>1, CountOne
<1>4. Count(Database, db', S) = Count(Database, f, S) + One(db'[e] \in S) - One(f[e] \in S)
  <2>1. IsFiniteSet(Database) /\ \A x \in Database \ {e} : db'[x] = f[x]
    BY <1>2, PoolAssumption
  <2> QED
    BY <2>1, CountOne
<1>5. /\ Count(Database, db, S) \in Nat
      /\ Number(S) = Count(Database, db, S) /\ Number(S)' = Count(Database, db', S)
  BY CountNat, PoolAssumption DEF Number, Count
<1> QED
  BY <1>1, <1>2, <1>3, <1>4, <1>5 DEF One

LEMMA TallyRefilled ==
    ASSUME PoolInv, Tally, NEW d \in Database, NEW e \in Database, PublishRefill(d, e)
    PROVE  Tally'
<1>1. /\ db[d] = "recreate" /\ db[e] = "unused" /\ d # e /\ UNCHANGED <<leased, filler>>
      /\ creating' = creating - 1 /\ \A x \in Database \ {d, e} : db'[x] = db[x]
      /\ \/ /\ db'[d] = "token" /\ db'[e] = "ready" /\ ready' = Append(ready, e)
            /\ deleting' = deleting
         \/ /\ db'[d] = "extra" /\ db'[e] = "fresh" /\ ready' = ready
            /\ deleting' = deleting + 1
  BY RefillMoves
<1>3. ASSUME NEW S
      PROVE  /\ Number(S) \in Nat
             /\ Number(S)' = Number(S) + One(db'[d] \in S) - One("recreate" \in S)
                                + One(db'[e] \in S) - One("unused" \in S)
  BY RefillCounts
<1>4. /\ Number(Leased)' = Number(Leased) /\ Number(Leased) \in Nat
      /\ Number(Creating)' = Number(Creating) - 1 /\ Number(Creating) \in Nat
  <2>1. Number(Leased)' = Number(Leased) /\ Number(Leased) \in Nat
    <3>1. /\ One(db'[d] \in Leased) = 0 /\ One("recreate" \in Leased) = 0
          /\ One(db'[e] \in Leased) = 0 /\ One("unused" \in Leased) = 0
      BY <1>1 DEF One, Leased
    <3> QED
      BY <1>3, <3>1
  <2>2. Number(Creating)' = Number(Creating) - 1 /\ Number(Creating) \in Nat
    <3>1. /\ One(db'[d] \in Creating) = 0 /\ One("recreate" \in Creating) = 1
          /\ One(db'[e] \in Creating) = 0 /\ One("unused" \in Creating) = 0
      BY <1>1 DEF One, Creating
    <3> QED
      BY <1>3, <3>1
  <2> QED
    BY <2>1, <2>2
<1>5. Number(Deleting)' = Number(Deleting) + (deleting' - deleting) /\ Number(Deleting) \in Nat
  <2>1. /\ One(db'[d] \in Deleting) = deleting' - deleting /\ One("recreate" \in Deleting) = 0
        /\ One(db'[e] \in Deleting) = 0 /\ One("unused" \in Deleting) = 0
        /\ deleting' - deleting \in Int
    BY <1>1 DEF One, Deleting, PoolInv, Shape
  <2> QED
    BY <1>3, <2>1
<1>6. Len(ready') + deleting' = Len(ready) + deleting + 1
  BY <1>1 DEF PoolInv, Shape
<1>7. creating' = Number(Creating)' + One(filler' = "create")
  BY <1>1, <1>4 DEF Tally, One
<1>8. leased' = Number(Leased)' /\ deleting' = Number(Deleting)'
  BY <1>1, <1>4, <1>5 DEF Tally
<1>9. Occupied' <= Capacity
  <2>1. /\ Len(ready) + leased + creating + deleting <= Capacity /\ Capacity \in Nat
        /\ Len(ready) \in Nat /\ leased \in Int /\ creating \in Int /\ deleting \in Int
    BY PoolAssumption DEF Tally, Occupied, PoolInv, Shape
  <2>2. Len(ready') \in Nat /\ deleting' \in Int
    BY <1>1 DEF PoolInv, Shape
  <2> QED
    BY <1>1, <1>6, <2>1, <2>2 DEF Occupied
<1> QED
  BY <1>7, <1>8, <1>9 DEF Tally

LEMMA TallyJobEnds ==
    ASSUME PoolInv, Tally, NEW d \in Database, DropExtra(d) \/ FinishJob(d)
    PROVE  Tally'
<1> DEFINE f == [db EXCEPT ![d] = db'[d]]
<1>1. ASSUME NEW S, {"fresh", "gone", "left"} \cap S = {}
      PROVE  /\ Number(S) \in Nat /\ Number(S)' = Number(S) + Effect(db[d], db'[d], S)
  <2>1. \A x \in Database \ {d} : 
           db'[x] = db[x] \/ (db[x] = "fresh" /\ db'[x] \in {"gone", "left"})
    <3>1. refill[d] \in Database => db[refill[d]] = "fresh" /\ refill[d] # d
      BY PoolAssumption DEF PoolInv, Shape, RefillsExact, DropExtra, FinishJob
    <3>2. db[d] = "extra" => refill[d] \in Database
      BY DEF PoolInv, Shape, RefillsExact
    <3>3. refill[d] = NoDatabase \/ refill[d] \in Database
      BY DEF PoolInv, Shape
    <3>4. CASE DropExtra(d)
      <4>1. /\ refill[d] \in Database /\ db[refill[d]] = "fresh" /\ refill[d] # d
        BY <3>1, <3>2, <3>4 DEF DropExtra
      <4> DEFINE e == refill[d]
      <4>2. /\ db \in [Database -> DatabaseState]
            /\ \/ db' = [db EXCEPT ![d] = "finish", ![e] = "gone"]
               \/ db' = [db EXCEPT ![d] = "residual"]
        BY <3>4 DEF DropExtra, PoolInv, Shape
      <4> HIDE DEF e
      <4> QED
        BY <4>1, <4>2 DEF e
    <3>5. CASE FinishJob(d)
      <4>1. CASE refill[d] = NoDatabase
        <5>1. /\ db \in [Database -> DatabaseState]
              /\ \/ db' = [db EXCEPT ![d] = "gone", ![d] = "left"]
                 \/ db' = [db EXCEPT ![d] = "gone"]
          BY <3>5, <4>1 DEF FinishJob, PoolInv, Shape
        <5> QED
          BY <5>1
      <4>2. CASE refill[d] \in Database
        <5>1. refill[d] # NoDatabase /\ db[refill[d]] = "fresh" /\ refill[d] # d
          BY <3>1, <4>2, PoolAssumption
        <5>2. /\ db \in [Database -> DatabaseState]
              /\ \/ db' = [db EXCEPT ![d] = "gone", ![refill[d]] = "left"]
                 \/ db' = [db EXCEPT ![d] = "gone"]
          BY <3>5, <5>1 DEF FinishJob, PoolInv, Shape
        <5> QED
          BY <4>2, <5>1, <5>2
      <4> QED
        BY <3>3, <4>1, <4>2
    <3> QED
      BY <3>4, <3>5
  <2>2. Count(Database, f, S) = Count(Database, db, S) + One(f[d] \in S) - One(db[d] \in S)
    <3>1. IsFiniteSet(Database) /\ \A x \in Database \ {d} : f[x] = db[x]
      BY PoolAssumption DEF PoolInv, Shape
    <3> HIDE DEF f
    <3> QED
      BY <3>1, CountOne
  <2>3. f[d] = db'[d] /\ {x \in Database : f[x] \in S} = {x \in Database : db'[x] \in S}
    BY <1>1, <2>1 DEF PoolInv, Shape
  <2>4. /\ Count(Database, db, S) \in Nat
        /\ Number(S) = Count(Database, db, S) /\ Number(S)' = Count(Database, f, S)
    <3> HIDE DEF f
    <3>1. Count(Database, db, S) \in Nat
      BY CountNat, PoolAssumption
    <3> QED
      BY <2>3, <3>1 DEF Number, Count
  <2> HIDE DEF f
  <2> QED
    BY <2>2, <2>3, <2>4 DEF Effect, One
<1>2. /\ Number(Leased) \in Nat /\ Number(Leased)' = Number(Leased) + Effect(db[d], db'[d], Leased)
      /\ Number(Creating) \in Nat
      /\ Number(Creating)' = Number(Creating) + Effect(db[d], db'[d], Creating)
      /\ Number(Deleting) \in Nat
      /\ Number(Deleting)' = Number(Deleting) + Effect(db[d], db'[d], Deleting)
  BY <1>1 DEF Leased, Creating, Deleting
<1>3. /\ UNCHANGED <<ready, leased, creating, filler>>
      /\ db'[d] \in {"finish", "residual", "gone", "left"}
      /\ \/ db[d] = "extra" /\ deleting' = deleting - 1
         \/ db[d] \in {"finish", "residual"} /\ deleting' = deleting
  <2>1. refill[d] \in Database \cup {NoDatabase}
    BY DEF PoolInv, Shape
  <2>2. db[d] = "extra" => refill[d] # d
    BY DEF PoolInv, Shape, RefillsExact
  <2> QED
    BY <2>1, <2>2 DEF DropExtra, FinishJob, Uncount, PoolInv, Shape, stateVars, fillerVars
<1>4. leased' = Number(Leased)' /\ creating' = Number(Creating)' + One(filler' = "create")
  BY <1>2, <1>3 DEF Tally, Effect, One, Leased, Creating
<1>5. deleting' = Number(Deleting)'
  BY <1>2, <1>3 DEF Tally, Effect, One, Deleting
<1>6. Occupied' <= Capacity
  <2>1. /\ Len(ready) + leased + creating + deleting <= Capacity /\ Capacity \in Nat
        /\ Len(ready) \in Nat /\ leased \in Int /\ creating \in Int /\ deleting \in Int
    BY PoolAssumption DEF Tally, Occupied, PoolInv, Shape
  <2> QED
    BY <1>3, <2>1 DEF Occupied
<1> QED
  BY <1>4, <1>5, <1>6 DEF Tally

\* Some database exists, so that a step that changes none is a step at one.
LEMMA SomeDatabase == \E d \in Database : TRUE
BY PoolAssumption, FS_EmptySet

\* Every step of a pool that exists keeps its counters true.
LEMMA TallyStep ==
    ASSUME PoolInv, [Next]_vars, Exists
    PROVE  Tally'
<1> USE DEF PoolInv, Shape, Uncount, stateVars, databaseVars, fillerVars
<1>0. /\ Tally /\ Capacity \in Nat /\ Len(ready) \in Nat
      /\ leased \in Int /\ creating \in Int /\ deleting \in Int /\ Occupied <= Capacity
  BY PoolAssumption DEF Counted, Tally
<1>1. CASE \E a \in Agent : CloseSemaphores(a)
  BY <1>0, <1>1, TallySame DEF CloseSemaphores
<1>2. ASSUME NEW a \in Agent, NEW d \in Database, QueueHeld(a, d) PROVE Tally'
  <2>1. /\ d \in Database /\ db[d] = "held"
        /\ \A e \in Database \ {d} : db'[e] = db[e]
        /\ UNCHANGED filler
    BY <1>2 DEF QueueHeld, HeldExact, closeVars
  <2>2. CASE queue_closed
    <3>1. /\ db'[d] = "left" /\ leased' = leased /\ creating' = creating
          /\ deleting' = deleting - 1 /\ Len(ready') = Len(ready)
      BY <1>0, <1>2, <2>1, <2>2 DEF QueueHeld, HeldExact, Open
    <3>2. Occupied' <= Capacity
      BY <1>0, <1>2, <3>1 DEF QueueHeld, HeldExact, Occupied
    <3> QED
      BY <1>0, <2>1, <3>1, <3>2, TallyKept DEF Effect, One, Leased, Creating, Deleting
  <2>3. CASE ~queue_closed
    <3>1. /\ db'[d] = "queued" /\ leased' = leased /\ creating' = creating
          /\ deleting' = deleting /\ Len(ready') = Len(ready)
      BY <1>0, <1>2, <2>1, <2>3 DEF QueueHeld, HeldExact, Open
    <3>2. Occupied' <= Capacity
      BY <1>0, <1>2, <3>1 DEF QueueHeld, HeldExact, Occupied
    <3> QED
      BY <1>0, <2>1, <3>1, <3>2, TallyKept DEF Effect, One, Leased, Creating, Deleting
  <2> QED
    BY <2>2, <2>3, <1>2 DEF QueueHeld, HeldExact
<1>3. CASE Register \/ AddTokenInitial \/ FinishFill
  BY <1>0, <1>3, TallySame DEF Register, AddTokenInitial, FinishFill
<1>4. ASSUME NEW d \in Database, BeginCreation(d) PROVE Tally'
  <2>1. /\ d \in Database /\ db[d] = "unused"
        /\ \A e \in Database \ {d} : db'[e] = db[e]
        /\ filler = "begin" /\ filler' = "create"
    BY <1>4 DEF BeginCreation, NewName, closeVars
  <2>2. /\ db'[d] = "admit" /\ leased' = leased /\ creating' = creating + 1
        /\ deleting' = deleting /\ Len(ready') = Len(ready)
    BY <1>0, <1>4, <2>1 DEF BeginCreation, NewName, Open
  <2>3. Occupied' <= Capacity
    BY <1>0, <1>4, <2>2 DEF BeginCreation, NewName, Occupied
  <2> QED
    BY <1>0, <2>1, <2>2, <2>3, TallyKept DEF Effect, One, Leased, Creating, Deleting
<1>5. ASSUME BeginCreationRefused PROVE Tally'
  <2> DEFINE f == db
  <2>0. PICK d \in Database : TRUE
    BY SomeDatabase
  <2>1. /\ d \in Database /\ Simple(f) /\ \A e \in Database \ {d} : f[e] = db[e]
        /\ f[d] = db[d]
    BY <1>5, <2>0 DEF BeginCreationRefused, Simple, Bound, DatabaseState
  <2>2. /\ db' = HoldReady(f) /\ BeginCleanup(Filler, deleting)
        /\ leased' = leased /\ creating' = creating /\ filler = "begin" /\ filler' = "failed"
    BY <1>5, <2>0 DEF BeginCreationRefused
  <2> HIDE DEF f
  <2> QED
    BY <1>0, <2>1, <2>2, TallyClosed DEF Effect, One, Leased, Creating, Deleting
<1>6. ASSUME PublishInitial PROVE Tally'
  <2>1. /\ filler_db \in Database /\ db[filler_db] = "created"
        /\ \A e \in Database \ {filler_db} : db'[e] = db[e]
        /\ filler = "create" /\ filler' # "create"
    BY <1>6 DEF PublishInitial, FillerWorks, closeVars
  <2>2. CASE Open
    <3>1. /\ db'[filler_db] = "ready" /\ leased' = leased /\ creating' = creating - 1
          /\ deleting' = deleting /\ Len(ready') = Len(ready) + 1
      BY <1>0, <1>6, <2>1, <2>2 DEF PublishInitial, FillerWorks, Open
    <3>2. Occupied' <= Capacity
      BY <1>0, <1>6, <3>1 DEF PublishInitial, FillerWorks, Occupied
    <3> QED
      BY <1>0, <2>1, <3>1, <3>2, TallyKept DEF Effect, One, Leased, Creating, Deleting
  <2>3. CASE ~Open
    <3>1. /\ db'[filler_db] = "requeue" /\ leased' = leased /\ creating' = creating - 1
          /\ deleting' = deleting + 1 /\ Len(ready') = Len(ready)
      BY <1>0, <1>6, <2>1, <2>3 DEF PublishInitial, FillerWorks, Open
    <3>2. Occupied' <= Capacity
      BY <1>0, <1>6, <3>1 DEF PublishInitial, FillerWorks, Occupied
    <3> QED
      BY <1>0, <2>1, <3>1, <3>2, TallyKept DEF Effect, One, Leased, Creating, Deleting
  <2> QED
    BY <2>2, <2>3, <1>6 DEF PublishInitial, FillerWorks
<1>7. ASSUME RequeueInitial PROVE Tally'
  <2>1. /\ filler_db \in Database /\ db[filler_db] = "requeue"
        /\ \A e \in Database \ {filler_db} : db'[e] = db[e]
        /\ filler = "requeue" /\ filler' = "begin"
    BY <1>7 DEF RequeueInitial, FillerWorks, closeVars
  <2>2. CASE queue_closed
    <3>1. /\ db'[filler_db] = "left" /\ leased' = leased /\ creating' = creating
          /\ deleting' = deleting - 1 /\ Len(ready') = Len(ready)
      BY <1>0, <1>7, <2>1, <2>2 DEF RequeueInitial, FillerWorks, Open
    <3>2. Occupied' <= Capacity
      BY <1>0, <1>7, <3>1 DEF RequeueInitial, FillerWorks, Occupied
    <3> QED
      BY <1>0, <2>1, <3>1, <3>2, TallyKept DEF Effect, One, Leased, Creating, Deleting
  <2>3. CASE ~queue_closed
    <3>1. /\ db'[filler_db] = "queued" /\ leased' = leased /\ creating' = creating
          /\ deleting' = deleting /\ Len(ready') = Len(ready)
      BY <1>0, <1>7, <2>1, <2>3 DEF RequeueInitial, FillerWorks, Open
    <3>2. Occupied' <= Capacity
      BY <1>0, <1>7, <3>1 DEF RequeueInitial, FillerWorks, Occupied
    <3> QED
      BY <1>0, <2>1, <3>1, <3>2, TallyKept DEF Effect, One, Leased, Creating, Deleting
  <2> QED
    BY <2>2, <2>3, <1>7 DEF RequeueInitial, FillerWorks
<1>8. CASE \E b \in Borrower : AcquirePermit(b) \/ AcquireRefused(b)
  BY <1>0, <1>8, TallySame DEF AcquirePermit, AcquireRefused
<1>9. ASSUME NEW b \in Borrower, TakeReady(b) PROVE Tally'
  <2>1. CASE accepting /\ ready # << >>
    <3>1. /\ Head(ready) \in Database /\ Head(ready) = ready[1] /\ 1 \in 1 .. Len(ready)
          /\ Len(Tail(ready)) = Len(ready) - 1
      BY <2>1
    <3>2. db[Head(ready)] = "ready"
      BY <3>1 DEF ReadyExact, InReady
    <3>3. /\ db'[Head(ready)] = "leased" /\ \A e \in Database \ {Head(ready)} : db'[e] = db[e]
          /\ leased' = leased + 1 /\ Len(ready') = Len(ready) - 1
          /\ UNCHANGED <<creating, deleting, filler>>
      BY <1>9, <2>1, <3>1 DEF TakeReady, fillerVars
    <3>4. Occupied' <= Capacity
      BY <1>0, <3>3 DEF Occupied
    <3> QED
      BY <1>0, <3>1, <3>2, <3>3, <3>4, TallyKept DEF Effect, One, Leased, Creating, Deleting
  <2>2. CASE ~(accepting /\ ready # << >>)
    BY <1>0, <1>9, <2>2, TallySame DEF TakeReady
  <2> QED
    BY <2>1, <2>2
<1>10. ASSUME NEW d \in Database, AdmitInitial(d) PROVE Tally'
  <2>1. /\ d \in Database /\ db[d] = "admit"
        /\ \A e \in Database \ {d} : db'[e] = db[e]
        /\ UNCHANGED filler
    BY <1>10 DEF AdmitInitial, closeVars
  <2>2. CASE admission_closed
    <3>1. /\ db'[d] = "gone" /\ leased' = leased /\ creating' = creating
          /\ deleting' = deleting /\ Len(ready') = Len(ready)
      BY <1>0, <1>10, <2>1, <2>2 DEF AdmitInitial, Open
    <3>2. Occupied' <= Capacity
      BY <1>0, <1>10, <3>1 DEF AdmitInitial, Occupied
    <3> QED
      BY <1>0, <2>1, <3>1, <3>2, TallyKept DEF Effect, One, Leased, Creating, Deleting
  <2>3. CASE ~admission_closed
    <3>1. /\ db'[d] = "create" /\ leased' = leased /\ creating' = creating
          /\ deleting' = deleting /\ Len(ready') = Len(ready)
      BY <1>0, <1>10, <2>1, <2>3 DEF AdmitInitial, Open
    <3>2. Occupied' <= Capacity
      BY <1>0, <1>10, <3>1 DEF AdmitInitial, Occupied
    <3> QED
      BY <1>0, <2>1, <3>1, <3>2, TallyKept DEF Effect, One, Leased, Creating, Deleting
  <2> QED
    BY <2>2, <2>3, <1>10 DEF AdmitInitial
<1>11. ASSUME NEW d \in Database, CreateInitial(d) PROVE Tally'
  <2>1. /\ d \in Database /\ db[d] = "create"
        /\ \A e \in Database \ {d} : db'[e] = db[e]
        /\ UNCHANGED filler
    BY <1>11 DEF CreateInitial, closeVars
  <2>2. CASE db'[d] = "created"
    <3>1. /\ db'[d] = "created" /\ leased' = leased /\ creating' = creating
          /\ deleting' = deleting /\ Len(ready') = Len(ready)
      BY <1>0, <1>11, <2>1, <2>2 DEF CreateInitial, Open
    <3>2. Occupied' <= Capacity
      BY <1>0, <1>11, <3>1 DEF CreateInitial, Occupied
    <3> QED
      BY <1>0, <2>1, <3>1, <3>2, TallyKept DEF Effect, One, Leased, Creating, Deleting
  <2>3. CASE db'[d] = "detached"
    <3>1. /\ db'[d] = "detached" /\ leased' = leased /\ creating' = creating
          /\ deleting' = deleting /\ Len(ready') = Len(ready)
      BY <1>0, <1>11, <2>1, <2>3 DEF CreateInitial, Open
    <3>2. Occupied' <= Capacity
      BY <1>0, <1>11, <3>1 DEF CreateInitial, Occupied
    <3> QED
      BY <1>0, <2>1, <3>1, <3>2, TallyKept DEF Effect, One, Leased, Creating, Deleting
  <2>4. CASE db'[d] = "gone"
    <3>1. /\ db'[d] = "gone" /\ leased' = leased /\ creating' = creating
          /\ deleting' = deleting /\ Len(ready') = Len(ready)
      BY <1>0, <1>11, <2>1, <2>4 DEF CreateInitial, Open
    <3>2. Occupied' <= Capacity
      BY <1>0, <1>11, <3>1 DEF CreateInitial, Occupied
    <3> QED
      BY <1>0, <2>1, <3>1, <3>2, TallyKept DEF Effect, One, Leased, Creating, Deleting
  <2>5. CASE db'[d] = "left"
    <3>1. /\ db'[d] = "left" /\ leased' = leased /\ creating' = creating
          /\ deleting' = deleting /\ Len(ready') = Len(ready)
      BY <1>0, <1>11, <2>1, <2>5 DEF CreateInitial, Open
    <3>2. Occupied' <= Capacity
      BY <1>0, <1>11, <3>1 DEF CreateInitial, Occupied
    <3> QED
      BY <1>0, <2>1, <3>1, <3>2, TallyKept DEF Effect, One, Leased, Creating, Deleting
  <2> QED
    BY <2>2, <2>3, <2>4, <2>5, <1>11 DEF CreateInitial
<1>12. ASSUME NEW d \in Database, SubmitReturn(d), ~queue_closed PROVE Tally'
  <2>1. /\ d \in Database /\ db[d] = "returning"
        /\ \A e \in Database \ {d} : db'[e] = db[e]
        /\ UNCHANGED filler
    BY <1>12 DEF SubmitReturn, closeVars
  <2>2. /\ db'[d] = "return" /\ leased' = leased /\ creating' = creating
        /\ deleting' = deleting /\ Len(ready') = Len(ready)
    BY <1>0, <1>12, <2>1 DEF SubmitReturn, Open
  <2>3. Occupied' <= Capacity
    BY <1>0, <1>12, <2>2 DEF SubmitReturn, Occupied
  <2> QED
    BY <1>0, <2>1, <2>2, <2>3, TallyKept DEF Effect, One, Leased, Creating, Deleting
<1>13. ASSUME NEW d \in Database, SubmitReturn(d), queue_closed PROVE Tally'
  <2> DEFINE f == [db EXCEPT ![d] = "left"]
  <2>1. /\ d \in Database /\ Simple(f) /\ \A e \in Database \ {d} : f[e] = db[e]
        /\ db[d] = "returning" /\ f[d] = "left"
    BY <1>13 DEF SubmitReturn, Simple, Bound, DatabaseState
  <2>2. /\ db' = HoldReady(f) /\ BeginCleanup(d, deleting - 1)
        /\ leased' = leased /\ creating' = creating /\ UNCHANGED filler
    BY <1>13 DEF SubmitReturn
  <2> HIDE DEF f
  <2> QED
    BY <1>0, <2>1, <2>2, TallyClosed DEF Effect, One, Leased, Creating, Deleting
<1>14. ASSUME NEW d \in Database, SubmitDetached(d) PROVE Tally'
  <2>1. /\ d \in Database /\ db[d] = "detached"
        /\ \A e \in Database \ {d} : db'[e] = db[e]
        /\ UNCHANGED filler
    BY <1>14 DEF SubmitDetached, closeVars
  <2>2. CASE queue_closed
    <3>1. /\ db'[d] = "left" /\ leased' = leased /\ creating' = creating
          /\ deleting' = deleting /\ Len(ready') = Len(ready)
      BY <1>0, <1>14, <2>1, <2>2 DEF SubmitDetached, Open
    <3>2. Occupied' <= Capacity
      BY <1>0, <1>14, <3>1 DEF SubmitDetached, Occupied
    <3> QED
      BY <1>0, <2>1, <3>1, <3>2, TallyKept DEF Effect, One, Leased, Creating, Deleting
  <2>3. CASE ~queue_closed
    <3>1. /\ db'[d] = "plain" /\ leased' = leased /\ creating' = creating
          /\ deleting' = deleting /\ Len(ready') = Len(ready)
      BY <1>0, <1>14, <2>1, <2>3 DEF SubmitDetached, Open
    <3>2. Occupied' <= Capacity
      BY <1>0, <1>14, <3>1 DEF SubmitDetached, Occupied
    <3> QED
      BY <1>0, <2>1, <3>1, <3>2, TallyKept DEF Effect, One, Leased, Creating, Deleting
  <2> QED
    BY <2>2, <2>3, <1>14 DEF SubmitDetached
<1>15. ASSUME NEW d \in Database, DropDirty(d), db' = [db EXCEPT ![d] = "refill"], UNCHANGED ready,
               deleting' = Uncount, creating' = creating + 1 PROVE Tally'
  <2>1. /\ d \in Database /\ db[d] = "return"
        /\ \A e \in Database \ {d} : db'[e] = db[e]
        /\ UNCHANGED filler
    BY <1>15 DEF DropDirty, closeVars
  <2>2. /\ db'[d] = "refill" /\ leased' = leased /\ creating' = creating + 1
        /\ deleting' = deleting - 1 /\ Len(ready') = Len(ready)
    BY <1>0, <1>15, <2>1 DEF DropDirty, Open
  <2>3. Occupied' <= Capacity
    BY <1>0, <1>15, <2>2 DEF DropDirty, Occupied
  <2> QED
    BY <1>0, <2>1, <2>2, <2>3, TallyKept DEF Effect, One, Leased, Creating, Deleting
<1>16. ASSUME NEW d \in Database, DropDirty(d), db' = [db EXCEPT ![d] = "finish"], UNCHANGED ready,
               deleting' = Uncount, UNCHANGED creating PROVE Tally'
  <2>1. /\ d \in Database /\ db[d] = "return"
        /\ \A e \in Database \ {d} : db'[e] = db[e]
        /\ UNCHANGED filler
    BY <1>16 DEF DropDirty, closeVars
  <2>2. /\ db'[d] = "finish" /\ leased' = leased /\ creating' = creating
        /\ deleting' = deleting - 1 /\ Len(ready') = Len(ready)
    BY <1>0, <1>16, <2>1 DEF DropDirty, Open
  <2>3. Occupied' <= Capacity
    BY <1>0, <1>16, <2>2 DEF DropDirty, Occupied
  <2> QED
    BY <1>0, <2>1, <2>2, <2>3, TallyKept DEF Effect, One, Leased, Creating, Deleting
<1>17. ASSUME NEW d \in Database, DropDirty(d), BeginCleanup(d, Uncount),
               db' = HoldReady([db EXCEPT ![d] = "residual"]), UNCHANGED creating PROVE Tally'
  <2> DEFINE f == [db EXCEPT ![d] = "residual"]
  <2>1. /\ d \in Database /\ Simple(f) /\ \A e \in Database \ {d} : f[e] = db[e]
        /\ db[d] = "return" /\ f[d] = "residual"
    BY <1>17 DEF DropDirty, Simple, Bound, DatabaseState
  <2>2. /\ db' = HoldReady(f) /\ BeginCleanup(d, deleting - 1)
        /\ leased' = leased /\ creating' = creating /\ UNCHANGED filler
    BY <1>17 DEF DropDirty
  <2> HIDE DEF f
  <2> QED
    BY <1>0, <2>1, <2>2, TallyClosed DEF Effect, One, Leased, Creating, Deleting
<1>18. ASSUME NEW d \in Database, AdmitRefill(d) PROVE Tally'
  <2>1. /\ d \in Database /\ db[d] = "refill"
        /\ \A e \in Database \ {d} : db'[e] = db[e]
        /\ UNCHANGED filler
    BY <1>18 DEF AdmitRefill, closeVars
  <2>2. /\ db'[d] = "recreate" /\ leased' = leased /\ creating' = creating
        /\ deleting' = deleting /\ Len(ready') = Len(ready)
    BY <1>0, <1>18, <2>1 DEF AdmitRefill, Open
  <2>3. Occupied' <= Capacity
    BY <1>0, <1>18, <2>2 DEF AdmitRefill, Occupied
  <2> QED
    BY <1>0, <2>1, <2>2, <2>3, TallyKept DEF Effect, One, Leased, Creating, Deleting
<1>19. ASSUME NEW d \in Database, RefillFails(d) PROVE Tally'
  <2> DEFINE f == [db EXCEPT ![d] = "finish"]
  <2>1. /\ d \in Database /\ Simple(f) /\ \A e \in Database \ {d} : f[e] = db[e]
        /\ db[d] \in {"refill", "recreate"} /\ f[d] = "finish"
    BY <1>19 DEF RefillFails, Simple, Bound, DatabaseState
  <2>2. /\ db' = HoldReady(f) /\ BeginCleanup(d, deleting)
        /\ leased' = leased /\ creating' = creating - 1 /\ UNCHANGED filler
    BY <1>19 DEF RefillFails
  <2> HIDE DEF f
  <2> QED
    BY <1>0, <2>1, <2>2, TallyClosed DEF Effect, One, Leased, Creating, Deleting
<1>20. ASSUME NEW d \in Database, NEW e \in Database, PublishRefill(d, e) PROVE Tally'
  BY <1>0, <1>20, TallyRefilled
<1>21. ASSUME NEW d \in Database, AddTokenRefill(d) PROVE Tally'
  <2>1. /\ d \in Database /\ db[d] = "token"
        /\ \A e \in Database \ {d} : db'[e] = db[e]
        /\ UNCHANGED filler
    BY <1>21 DEF AddTokenRefill, closeVars
  <2>2. /\ db'[d] = "finish" /\ leased' = leased /\ creating' = creating
        /\ deleting' = deleting /\ Len(ready') = Len(ready)
    BY <1>0, <1>21, <2>1 DEF AddTokenRefill, Open
  <2>3. Occupied' <= Capacity
    BY <1>0, <1>21, <2>2 DEF AddTokenRefill, Occupied
  <2> QED
    BY <1>0, <2>1, <2>2, <2>3, TallyKept DEF Effect, One, Leased, Creating, Deleting
<1>22. ASSUME NEW d \in Database, DropExtra(d) \/ FinishJob(d) PROVE Tally'
  BY <1>0, <1>22, TallyJobEnds
<1>23. ASSUME NEW d \in Database, RunDeletion(d), db[d] = "queued" PROVE Tally'
  <2>1. /\ d \in Database /\ db[d] = "queued"
        /\ \A e \in Database \ {d} : db'[e] = db[e]
        /\ UNCHANGED filler
    BY <1>23 DEF RunDeletion, closeVars
  <2>2. CASE db'[d] = "gone"
    <3>1. /\ db'[d] = "gone" /\ leased' = leased /\ creating' = creating
          /\ deleting' = deleting - 1 /\ Len(ready') = Len(ready)
      BY <1>0, <1>23, <2>1, <2>2 DEF RunDeletion, Open
    <3>2. Occupied' <= Capacity
      BY <1>0, <1>23, <3>1 DEF RunDeletion, Occupied
    <3> QED
      BY <1>0, <2>1, <3>1, <3>2, TallyKept DEF Effect, One, Leased, Creating, Deleting
  <2>3. CASE db'[d] = "left"
    <3>1. /\ db'[d] = "left" /\ leased' = leased /\ creating' = creating
          /\ deleting' = deleting - 1 /\ Len(ready') = Len(ready)
      BY <1>0, <1>23, <2>1, <2>3 DEF RunDeletion, Open
    <3>2. Occupied' <= Capacity
      BY <1>0, <1>23, <3>1 DEF RunDeletion, Occupied
    <3> QED
      BY <1>0, <2>1, <3>1, <3>2, TallyKept DEF Effect, One, Leased, Creating, Deleting
  <2> QED
    BY <2>2, <2>3, <1>23 DEF RunDeletion
<1>24. ASSUME NEW d \in Database, RunDeletion(d), db[d] = "plain" PROVE Tally'
  <2>1. /\ d \in Database /\ db[d] = "plain"
        /\ \A e \in Database \ {d} : db'[e] = db[e]
        /\ UNCHANGED filler
    BY <1>24 DEF RunDeletion, closeVars
  <2>2. CASE db'[d] = "gone"
    <3>1. /\ db'[d] = "gone" /\ leased' = leased /\ creating' = creating
          /\ deleting' = deleting /\ Len(ready') = Len(ready)
      BY <1>0, <1>24, <2>1, <2>2 DEF RunDeletion, Open
    <3>2. Occupied' <= Capacity
      BY <1>0, <1>24, <3>1 DEF RunDeletion, Occupied
    <3> QED
      BY <1>0, <2>1, <3>1, <3>2, TallyKept DEF Effect, One, Leased, Creating, Deleting
  <2>3. CASE db'[d] = "left"
    <3>1. /\ db'[d] = "left" /\ leased' = leased /\ creating' = creating
          /\ deleting' = deleting /\ Len(ready') = Len(ready)
      BY <1>0, <1>24, <2>1, <2>3 DEF RunDeletion, Open
    <3>2. Occupied' <= Capacity
      BY <1>0, <1>24, <3>1 DEF RunDeletion, Occupied
    <3> QED
      BY <1>0, <2>1, <3>1, <3>2, TallyKept DEF Effect, One, Leased, Creating, Deleting
  <2> QED
    BY <2>2, <2>3, <1>24 DEF RunDeletion
<1>25. ASSUME AbandonFill PROVE Tally'
  <2> DEFINE f == [db EXCEPT ![filler_db] = IF @ = "created" THEN "detached" ELSE @]
  <2>1. /\ filler_db \in Database /\ Simple(f) /\ \A e \in Database \ {filler_db} : f[e] = db[e]
        /\ \/ f[filler_db] = db[filler_db]
           \/ db[filler_db] = "created" /\ f[filler_db] = "detached"
    BY <1>25 DEF AbandonFill, FillerWorks, Simple, Bound, DatabaseState
  <2>2. /\ db' = HoldReady(f) /\ BeginCleanup(Filler, deleting)
        /\ leased' = leased /\ creating' = creating - 1 /\ filler = "create" /\ filler' = "failed"
    BY <1>25 DEF AbandonFill, FillerWorks
  <2> HIDE DEF f
  <2> QED
    BY <1>0, <2>1, <2>2, TallyClosed DEF Effect, One, Leased, Creating, Deleting
<1>26. CASE \E b \in Borrower : ReserveToken(b) \/ CancelBorrow(b)
  BY <1>0, <1>26, TallySame DEF ReserveToken, CancelBorrow
<1>27. ASSUME NEW b \in Borrower, BeginReturn(b) PROVE Tally'
  <2>1. lease_of[b] \in Database /\ db[lease_of[b]] = "leased"
    BY <1>27 DEF BeginReturn, LeasesExact
  <2>2. Alive
    BY <2>1 DEF Exists, NotBegun
  <2>3. /\ db'[lease_of[b]] = "returning"
        /\ \A e \in Database \ {lease_of[b]} : db'[e] = db[e]
        /\ leased' = leased - 1 /\ deleting' = deleting + 1
        /\ UNCHANGED <<creating, ready, filler>>
    BY <1>27, <2>1, <2>2 DEF BeginReturn, fillerVars
  <2>4. Occupied' <= Capacity
    BY <1>0, <2>3 DEF Occupied
  <2> QED
    BY <1>0, <2>1, <2>3, <2>4, TallyKept DEF Effect, One, Leased, Creating, Deleting
<1>28. CASE AcquireOther \/ ReleaseOther \/ ReleaseHandle \/ CloseAdmission \/ CloseQueue
  BY <1>0, <1>28, TallySame
  DEF AcquireOther, ReleaseOther, ReleaseHandle, CloseAdmission, CloseQueue
<1>29. ASSUME ClosePool PROVE Tally'
  <2> DEFINE f == db
  <2>0. PICK d \in Database : TRUE
    BY SomeDatabase
  <2>1. /\ d \in Database /\ Simple(f) /\ \A e \in Database \ {d} : f[e] = db[e]
        /\ f[d] = db[d]
    BY <1>29, <2>0 DEF ClosePool, Simple, Bound, DatabaseState
  <2>2. /\ db' = HoldReady(f) /\ BeginCleanup(User, deleting)
        /\ leased' = leased /\ creating' = creating /\ UNCHANGED filler
    BY <1>29, <2>0 DEF ClosePool
  <2> HIDE DEF f
  <2> QED
    BY <1>0, <2>1, <2>2, TallyClosed DEF Effect, One, Leased, Creating, Deleting
<1>30. ASSUME ClosePrewarmPools, registered /\ Alive PROVE Tally'
  <2> DEFINE f == db
  <2>0. PICK d \in Database : TRUE
    BY SomeDatabase
  <2>1. /\ d \in Database /\ Simple(f) /\ \A e \in Database \ {d} : f[e] = db[e]
        /\ f[d] = db[d]
    BY <1>30, <2>0 DEF ClosePrewarmPools, Simple, Bound, DatabaseState
  <2>2. /\ db' = HoldReady(f) /\ BeginCleanup(Server, deleting)
        /\ leased' = leased /\ creating' = creating /\ UNCHANGED filler
    BY <1>30, <2>0 DEF ClosePrewarmPools
  <2> HIDE DEF f
  <2> QED
    BY <1>0, <2>1, <2>2, TallyClosed DEF Effect, One, Leased, Creating, Deleting
<1>31. CASE ClosePrewarmPools /\ ~(registered /\ Alive)
  BY <1>0, <1>31, TallySame DEF ClosePrewarmPools
<1>32. CASE UNCHANGED vars
  BY <1>0, <1>32, TallySame DEF vars
<1> QED
  BY <1>1, <1>2, <1>3, <1>4, <1>5, <1>6, <1>7, <1>8, <1>9, <1>10, <1>11, <1>12, <1>13, <1>14,
     <1>15, <1>16, <1>17, <1>18, <1>19, <1>20, <1>21, <1>22, <1>23, <1>24, <1>25, <1>26,
     <1>27, <1>28, <1>29, <1>30, <1>31, <1>32
  DEF Next, CloseStep, FillStep, BorrowStep, JobStep, ApplicationStep, ShutdownStep, Terminated,
      DropDirty, RunDeletion

-----------------------------------------------------------------------------
(***************************************************************************)
(* Tokens.                                                                 *)
(***************************************************************************)

\* A step that moves no token, no caller and no ready database.
LEMMA TokensSame ==
    ASSUME PoolInv, accepting' => accepting, UNCHANGED <<tokens, borrower, ready>>,
           filler' = "token" <=> filler = "token",
           \A e \in Database : db'[e] = "token" <=> db[e] = "token"
    PROVE  Tokens'
<1>1. {d \in Database : db'[d] \in Tokened} = {d \in Database : db[d] \in Tokened}
  BY DEF Tokened
<1>2. Number(Tokened)' = Number(Tokened)
  BY <1>1 DEF Number, Tokened
<1>3. Cardinality(InFlight)' = Cardinality(InFlight)
  BY DEF InFlight
<1>4. One(filler' = "token") = One(filler = "token")
  BY DEF One
<1> QED
  BY <1>2, <1>3, <1>4 DEF PoolInv, Tokens

\* A step of one caller, which moves no token of a job or of the fill.
LEMMA TokensCaller ==
    ASSUME PoolInv, accepting' => accepting, UNCHANGED filler, NEW b \in Borrower,
           \A c \in Borrower \ {b} : borrower'[c] = borrower[c],
           \A e \in Database : db'[e] = "token" <=> db[e] = "token",
           tokens' \in Nat, Len(ready') \in Nat,
           tokens' + Effect(borrower[b], borrower'[b], {"permit", "take"}) - Len(ready')
              = tokens - Len(ready)
    PROVE  Tokens'
<1>1. {d \in Database : db'[d] \in Tokened} = {d \in Database : db[d] \in Tokened}
  BY DEF Tokened
<1>2. Number(Tokened)' = Number(Tokened) /\ Number(Tokened) \in Nat
  BY <1>1, NumberNat DEF Number, Tokened
<1> DEFINE x == Effect(borrower[b], borrower'[b], {"permit", "take"})
           o == One(filler = "token")
<1>3. Cardinality(InFlight)' = Cardinality(InFlight) + x /\ Cardinality(InFlight) \in Nat
  BY CallerCounts, InFlightNat
<1>4. o \in Int /\ x \in Int /\ tokens \in Nat /\ Len(ready) \in Nat
  BY DEF One, Effect, PoolInv, Shape
<1> SUFFICES ASSUME accepting'
             PROVE  tokens' + Cardinality(InFlight)' + Number(Tokened)' + o = Len(ready')
  BY DEF Tokens
<1>5. tokens + Cardinality(InFlight) + Number(Tokened) + o = Len(ready)
  BY DEF PoolInv, Tokens
<1>6. tokens' + x - Len(ready') = tokens - Len(ready)
  OBVIOUS
<1> HIDE DEF x, o
<1> QED
  <2> DEFINE c == Cardinality(InFlight)
             n == Number(Tokened)
             l == Len(ready)
             m == Len(ready')
             u == tokens'
             v == tokens
  <2>0. /\ c \in Nat /\ n \in Nat /\ l \in Nat /\ m \in Nat /\ u \in Nat /\ v \in Nat
        /\ o \in Int /\ x \in Int /\ v + c + n + o = l /\ u + x - m = v - l
    BY <1>2, <1>3, <1>4, <1>5, <1>6
  <2> HIDE DEF c, n, l, m, u, v
  <2>1. u + (c + x) + n + o = m
    BY <2>0
  <2> QED
    BY <1>2, <1>3, <2>1 DEF c, n, m, u

\* A step that publishes a database or adds the token of one.
LEMMA TokensMoved ==
    ASSUME PoolInv, accepting' => accepting, UNCHANGED borrower,
           tokens' \in Nat, Len(ready') \in Nat,
           Number(Tokened)' + One(filler' = "token") + tokens' - Len(ready')
              = Number(Tokened) + One(filler = "token") + tokens - Len(ready)
    PROVE  Tokens'
<1> DEFINE o == One(filler = "token")
           p == One(filler' = "token")
<1>1. Number(Tokened) \in Nat /\ Number(Tokened)' \in Nat
  BY NumberNat, NumberNatNext
<1>2. Cardinality(InFlight)' = Cardinality(InFlight) /\ Cardinality(InFlight) \in Nat
  BY InFlightNat DEF InFlight
<1>3. o \in Int /\ p \in Int /\ tokens \in Nat /\ Len(ready) \in Nat
  BY DEF One, PoolInv, Shape
<1> SUFFICES ASSUME accepting'
             PROVE  tokens' + Cardinality(InFlight)' + Number(Tokened)' + p = Len(ready')
  BY DEF Tokens
<1>4. tokens + Cardinality(InFlight) + Number(Tokened) + o = Len(ready)
  BY DEF PoolInv, Tokens
<1>5. Number(Tokened)' + p + tokens' - Len(ready') = Number(Tokened) + o + tokens - Len(ready)
  OBVIOUS
<1> HIDE DEF o, p
<1> QED
  <2> DEFINE c == Cardinality(InFlight)
             n == Number(Tokened)
             q == Number(Tokened)'
             l == Len(ready)
             m == Len(ready')
             u == tokens'
             v == tokens
  <2>0. /\ c \in Nat /\ n \in Nat /\ q \in Nat /\ l \in Nat /\ m \in Nat /\ u \in Nat /\ v \in Nat
        /\ o \in Int /\ p \in Int /\ v + c + n + o = l /\ q + p + u - m = n + o + v - l
    BY <1>1, <1>2, <1>3, <1>4, <1>5
  <2> HIDE DEF c, n, q, l, m, u, v
  <2>1. u + c + q + p = m
    BY <2>0
  <2> QED
    BY <1>2, <2>1 DEF c, q, m, u

\* Every ready database of an open pool keeps its token.
LEMMA TokensStep ==
    ASSUME PoolInv, [Next]_vars
    PROVE  Tokens'
<1> USE DEF PoolInv, Shape, stateVars, serverVars, databaseVars, fillerVars, borrowerVars, closeVars
<1>0. Len(ready) \in Nat
  OBVIOUS
<1>1. CASE \E a \in Agent : CloseSemaphores(a) \/ \E d \in Database : QueueHeld(a, d)
  BY <1>1, TokensSame DEF CloseSemaphores, QueueHeld, HeldExact
<1>2. CASE Register \/ FinishFill \/ \E d \in Database : BeginCreation(d)
  BY <1>2, TokensSame DEF Register, FinishFill, BeginCreation, NewName
<1>3. CASE BeginCreationRefused \/ AbandonFill \/ ClosePool
  BY <1>3 DEF BeginCreationRefused, AbandonFill, ClosePool, BeginCleanup, Tokens
<1>4. CASE PublishInitial
  <2>1. /\ filler_db \in Database /\ db[filler_db] = "created" /\ filler = "create"
        /\ UNCHANGED <<accepting, tokens, borrower>>
    BY <1>4 DEF PublishInitial, FillerWorks
  <2>2. CASE Open
    <3>1. /\ db'[filler_db] = "ready" /\ \A e \in Database \ {filler_db} : db'[e] = db[e]
          /\ filler' = "token" /\ Len(ready') = Len(ready) + 1
      BY <1>4, <2>1, <2>2 DEF PublishInitial
    <3>2. Number(Tokened)' = Number(Tokened) /\ Number(Tokened) \in Nat
      <4>1. Effect(db[filler_db], db'[filler_db], Tokened) = 0
        BY <2>1, <3>1 DEF Effect, One, Tokened
      <4>2. Number(Tokened)' = Number(Tokened) + Effect(db[filler_db], db'[filler_db], Tokened)
        BY <2>1, <3>1, OneMoves
      <4> QED
        BY <4>1, <4>2, NumberNat
    <3>3. Number(Tokened)' + One(filler' = "token") + tokens' - Len(ready')
             = Number(Tokened) + One(filler = "token") + tokens - Len(ready)
      <4>1. One(filler' = "token") = 1 /\ One(filler = "token") = 0 /\ tokens' = tokens
        BY <2>1, <3>1 DEF One
      <4> QED
        BY <1>0, <3>1, <3>2, <4>1
    <3> QED
      BY <1>0, <2>1, <3>1, <3>3, TokensMoved
  <2>3. CASE ~Open
    BY <2>1, <2>3 DEF Open, CleanupOnce, Tokens
  <2> QED
    BY <2>2, <2>3
<1>5. CASE AddTokenInitial
  <2>1. /\ filler = "token" /\ filler' = "begin" /\ tokens' = tokens + 1
        /\ UNCHANGED <<accepting, borrower, db, ready>>
    BY <1>5 DEF AddTokenInitial
  <2>2. Number(Tokened)' = Number(Tokened) /\ Number(Tokened) \in Nat
    BY <2>1, NumberNat DEF Number, Tokened
  <2>3. Number(Tokened)' + One(filler' = "token") + tokens' - Len(ready')
           = Number(Tokened) + One(filler = "token") + tokens - Len(ready)
    <3>1. One(filler' = "token") = 0 /\ One(filler = "token") = 1
      BY <2>1 DEF One
    <3>2. tokens \in Nat
      OBVIOUS
    <3> QED
      BY <1>0, <2>1, <2>2, <3>1, <3>2
  <2> QED
    BY <1>0, <2>1, <2>3, TokensMoved
<1>6. CASE RequeueInitial
  <2>1. /\ UNCHANGED <<accepting, tokens, borrower, ready>>
        /\ filler = "requeue" /\ filler' = "begin"
        /\ \A e \in Database : db'[e] = "token" <=> db[e] = "token"
    BY <1>6 DEF RequeueInitial, FillerWorks
  <2> QED
    BY <2>1, TokensSame
<1>7. ASSUME NEW b \in Borrower, AcquirePermit(b) \/ AcquireRefused(b) \/ ReserveToken(b)
                                    \/ CancelBorrow(b)
      PROVE  Tokens'
  <2>1. /\ UNCHANGED <<accepting, filler, db, ready>> /\ tokens' \in Nat
        /\ \A c \in Borrower \ {b} : borrower'[c] = borrower[c]
        /\ \/ borrower[b] = "permit" /\ borrower'[b] = "take" /\ tokens' = tokens
           \/ borrower[b] = "permit" /\ borrower'[b] = "idle" /\ tokens' = tokens + 1
           \/ borrower[b] = "idle" /\ borrower'[b] = "permit" /\ tokens' = tokens - 1
    BY <1>7 DEF AcquirePermit, AcquireRefused, ReserveToken, CancelBorrow, ReturnToken
  <2>2. tokens' + Effect(borrower[b], borrower'[b], {"permit", "take"}) - Len(ready')
           = tokens - Len(ready)
    <3>1. Effect(borrower[b], borrower'[b], {"permit", "take"}) = tokens - tokens'
      <4>1. CASE borrower[b] = "permit" /\ borrower'[b] = "take" /\ tokens' = tokens
        BY <4>1 DEF Effect, One
      <4>2. CASE borrower[b] = "permit" /\ borrower'[b] = "idle" /\ tokens' = tokens + 1
        BY <4>2 DEF Effect, One
      <4>3. CASE borrower[b] = "idle" /\ borrower'[b] = "permit" /\ tokens' = tokens - 1
        BY <4>3 DEF Effect, One
      <4> QED
        BY <2>1, <4>1, <4>2, <4>3
    <3> QED
      BY <1>0, <2>1, <3>1
  <2> QED
    BY <1>0, <2>1, <2>2, TokensCaller
<1>8. ASSUME NEW b \in Borrower, TakeReady(b) PROVE Tokens'
  <2>1. /\ UNCHANGED <<accepting, filler>> /\ borrower[b] = "take"
        /\ borrower'[b] \in {"lease", "idle"}
        /\ \A c \in Borrower \ {b} : borrower'[c] = borrower[c]
    BY <1>8 DEF TakeReady
  <2>2. Effect(borrower[b], borrower'[b], {"permit", "take"}) = -1
    BY <2>1 DEF Effect, One
  <2>3. CASE accepting /\ ready # << >>
    <3>1. /\ Head(ready) \in Database /\ Head(ready) = ready[1] /\ 1 \in 1 .. Len(ready)
          /\ Len(Tail(ready)) = Len(ready) - 1 /\ Len(ready) - 1 \in Nat
      BY <2>3
    <3>2. db[Head(ready)] = "ready"
      BY <3>1 DEF ReadyExact, InReady
    <3>3. /\ \A e \in Database : db'[e] = "token" <=> db[e] = "token"
          /\ tokens' = tokens /\ Len(ready') = Len(ready) - 1
      BY <1>8, <2>3, <3>1, <3>2 DEF TakeReady
    <3>4. tokens' + Effect(borrower[b], borrower'[b], {"permit", "take"}) - Len(ready')
             = tokens - Len(ready)
      BY <1>0, <2>2, <3>3
    <3> QED
      BY <2>1, <3>1, <3>3, <3>4, TokensCaller
  <2>4. CASE ~(accepting /\ ready # << >>)
    <3>1. UNCHANGED <<ready, db>> /\ tokens' = tokens + 1
      BY <1>8, <2>4 DEF TakeReady, ReturnToken
    <3>2. tokens' + Effect(borrower[b], borrower'[b], {"permit", "take"}) - Len(ready')
             = tokens - Len(ready)
      BY <1>0, <2>2, <3>1
    <3> QED
      BY <1>0, <2>1, <3>1, <3>2, TokensCaller
  <2> QED
    BY <2>3, <2>4
<1>9. ASSUME NEW b \in Borrower, BeginReturn(b) PROVE Tokens'
  <2>1. lease_of[b] \in Database /\ db[lease_of[b]] = "leased"
    BY <1>9 DEF BeginReturn, LeasesExact
  <2>2. /\ UNCHANGED <<accepting, tokens, filler, ready>>
        /\ borrower[b] = "lease" /\ borrower'[b] = "idle"
        /\ \A c \in Borrower \ {b} : borrower'[c] = borrower[c]
        /\ \A e \in Database : db'[e] = "token" <=> db[e] = "token"
    BY <1>9, <2>1 DEF BeginReturn
  <2>3. tokens' + Effect(borrower[b], borrower'[b], {"permit", "take"}) - Len(ready')
           = tokens - Len(ready)
    BY <1>0, <2>2 DEF Effect, One
  <2> QED
    BY <1>0, <2>2, <2>3, TokensCaller
<1>10. CASE \E d \in Database : AdmitInitial(d) \/ CreateInitial(d) \/ SubmitDetached(d)
                                   \/ AdmitRefill(d) \/ RunDeletion(d)
  BY <1>10, TokensSame DEF AdmitInitial, CreateInitial, SubmitDetached, AdmitRefill, RunDeletion
<1>11. CASE \E d \in Database : SubmitReturn(d) \/ DropDirty(d) \/ RefillFails(d)
  <2>1. CASE accepting'
    <3>1. \E d \in Database : /\ db[d] \in {"returning", "return"}
                              /\ db' \in {[db EXCEPT ![d] = "return"], [db EXCEPT ![d] = "refill"],
                                          [db EXCEPT ![d] = "finish"]}
                              /\ UNCHANGED <<accepting, tokens, borrower, ready, filler>>
      BY <1>11, <2>1 DEF SubmitReturn, DropDirty, RefillFails, BeginCleanup
    <3> QED
      BY <3>1, TokensSame
  <2>2. CASE ~accepting'
    BY <2>2 DEF Tokens
  <2> QED
    BY <2>1, <2>2
<1>12. ASSUME NEW d \in Database, NEW e \in Database, PublishRefill(d, e) PROVE Tokens'
  <2>1. /\ db[d] = "recreate" /\ db[e] = "unused" /\ d # e
        /\ UNCHANGED <<accepting, tokens, borrower, filler>>
    BY <1>12 DEF PublishRefill, NewName
  <2>2. CASE Open
    <3>1. db'[d] = "token" /\ db'[e] = "ready" /\ Len(ready') = Len(ready) + 1
      BY <1>12, <2>2, RefillMoves
    <3>2. /\ One(db'[d] \in Tokened) = 1 /\ One("recreate" \in Tokened) = 0
          /\ One(db'[e] \in Tokened) = 0 /\ One("unused" \in Tokened) = 0
      BY <3>1 DEF One, Tokened
    <3>3. /\ Number(Tokened) \in Nat
          /\ Number(Tokened)' = Number(Tokened) + One(db'[d] \in Tokened)
                - One("recreate" \in Tokened) + One(db'[e] \in Tokened) - One("unused" \in Tokened)
      BY <1>12, RefillCounts
    <3>4. Number(Tokened)' = Number(Tokened) + 1
      BY <3>2, <3>3
    <3>5. Number(Tokened)' + One(filler' = "token") + tokens' - Len(ready')
             = Number(Tokened) + One(filler = "token") + tokens - Len(ready)
      <4>1. One(filler' = "token") = One(filler = "token") /\ One(filler = "token") \in Int
        BY <2>1 DEF One
      <4> QED
        BY <1>0, <2>1, <3>1, <3>3, <3>4, <4>1
    <3> QED
      BY <1>0, <2>1, <3>1, <3>5, TokensMoved
  <2>3. CASE ~Open
    BY <2>1, <2>3 DEF Open, CleanupOnce, Tokens
  <2> QED
    BY <2>2, <2>3
<1>13. ASSUME NEW d \in Database, AddTokenRefill(d) PROVE Tokens'
  <2>1. /\ db[d] = "token" /\ db'[d] = "finish" /\ \A e \in Database \ {d} : db'[e] = db[e]
        /\ tokens' = tokens + 1 /\ UNCHANGED <<accepting, borrower, filler, ready>>
    BY <1>13 DEF AddTokenRefill
  <2>2. Number(Tokened)' = Number(Tokened) - 1 /\ Number(Tokened) \in Nat
    <3>1. Effect(db[d], db'[d], Tokened) = -1
      BY <2>1 DEF Effect, One, Tokened
    <3>2. Number(Tokened)' = Number(Tokened) + Effect(db[d], db'[d], Tokened)
      BY <2>1, OneMoves
    <3> QED
      BY <3>1, <3>2, NumberNat
  <2>3. Number(Tokened)' + One(filler' = "token") + tokens' - Len(ready')
           = Number(Tokened) + One(filler = "token") + tokens - Len(ready)
    <3>1. One(filler' = "token") = One(filler = "token") /\ One(filler = "token") \in Int
      BY <2>1 DEF One
    <3>2. tokens \in Nat
      OBVIOUS
    <3> QED
      BY <1>0, <2>1, <2>2, <3>1, <3>2
  <2> QED
    BY <1>0, <2>1, <2>3, TokensMoved
<1>14. ASSUME NEW d \in Database, DropExtra(d) \/ FinishJob(d) PROVE Tokens'
  <2>1. /\ db[d] \in {"extra", "finish", "residual"}
        /\ UNCHANGED <<accepting, tokens, borrower, filler, ready>>
    BY <1>14 DEF DropExtra, FinishJob
  <2>2. refill[d] # NoDatabase => refill[d] \in Database /\ db[refill[d]] = "fresh"
    BY DEF RefillsExact
  <2>3. db[d] = "extra" => refill[d] # NoDatabase
    BY DEF RefillsExact
  <2>4. \A e \in Database : db'[e] = "token" <=> db[e] = "token"
    <3>1. CASE DropExtra(d)
      BY <2>2, <2>3, <3>1 DEF DropExtra
    <3>2. CASE FinishJob(d)
      BY <2>2, <3>2 DEF FinishJob
    <3> QED
      BY <1>14, <3>1, <3>2
  <2> QED
    BY <2>1, <2>4, TokensSame
<1>15. CASE AcquireOther \/ ReleaseOther \/ ReleaseHandle \/ CloseAdmission \/ CloseQueue
  BY <1>15, TokensSame DEF AcquireOther, ReleaseOther, ReleaseHandle, CloseAdmission, CloseQueue
<1>16. CASE ClosePrewarmPools
  <2>1. CASE registered /\ Alive
    BY <1>16, <2>1 DEF ClosePrewarmPools, BeginCleanup, Tokens
  <2>2. CASE ~(registered /\ Alive)
    BY <1>16, <2>2, TokensSame DEF ClosePrewarmPools
  <2> QED
    BY <2>1, <2>2
<1>17. CASE UNCHANGED vars
  BY <1>17, TokensSame DEF vars
<1> QED
  BY <1>1, <1>2, <1>3, <1>4, <1>5, <1>6, <1>7, <1>8, <1>9, <1>10, <1>11, <1>12, <1>13, <1>14,
     <1>15, <1>16, <1>17
  DEF Next, CloseStep, FillStep, BorrowStep, JobStep, ApplicationStep, ShutdownStep, Terminated

-----------------------------------------------------------------------------

\* A pool that is gone does not come back.
LEMMA AliveStays ==
    ASSUME PoolInv, [Next]_vars, Exists'
    PROVE  Exists
<1> USE PoolAssumption DEF PoolInv, Exists, Alive, Shape, Flags, stateVars, serverVars,
      databaseVars, fillerVars, borrowerVars, closeVars
<1>1. CASE \E a \in Agent : CloseSemaphores(a)
  BY <1>1 DEF CloseSemaphores, WakeBorrowers
<1>2. CASE \E a \in Agent, d \in Database : QueueHeld(a, d)
  BY <1>2 DEF QueueHeld
<1>3. CASE Register \/ \E d \in Database : BeginCreation(d)
  BY <1>3 DEF Register, BeginCreation, MayRegister, NewName
<1>4. CASE BeginCreationRefused
  BY <1>4 DEF BeginCreationRefused, BeginCleanup, HoldReady
<1>5. CASE PublishInitial \/ AddTokenInitial
  BY <1>5 DEF PublishInitial, AddTokenInitial, Open
<1>6. CASE RequeueInitial \/ FinishFill
  BY <1>6 DEF RequeueInitial, FinishFill
<1>7. CASE \E b \in Borrower : BorrowStep(b)
  BY <1>7 DEF BorrowStep, AcquirePermit, AcquireRefused, ReturnToken, TakeReady
<1>8. CASE \E d \in Database : AdmitInitial(d) \/ CreateInitial(d)
  BY <1>8 DEF AdmitInitial, CreateInitial, Residual
<1>9. CASE \E d \in Database : SubmitReturn(d) \/ SubmitDetached(d)
  BY <1>9 DEF SubmitReturn, SubmitDetached, BeginCleanup, HoldReady
<1>10. CASE \E d \in Database : DropDirty(d)
  BY <1>10 DEF DropDirty, Open, BeginCleanup, HoldReady
<1>11. CASE \E d \in Database : AdmitRefill(d) \/ RefillFails(d)
  BY <1>11 DEF AdmitRefill, RefillFails, Residual, BeginCleanup, HoldReady
<1>12. CASE \E d, e \in Database : PublishRefill(d, e)
  BY <1>12 DEF PublishRefill, NewName, Open
<1>13. CASE \E d \in Database : AddTokenRefill(d) \/ DropExtra(d)
  BY <1>13 DEF AddTokenRefill, DropExtra
<1>14. CASE \E d \in Database : FinishJob(d) \/ RunDeletion(d)
  BY <1>14 DEF FinishJob, RunDeletion, Residual
<1>15. CASE AbandonFill
  BY <1>15 DEF AbandonFill, BeginCleanup, HoldReady
<1>16. CASE \E b \in Borrower : ReserveToken(b) \/ CancelBorrow(b) \/ BeginReturn(b)
  BY <1>16 DEF ReserveToken, CancelBorrow, ReturnToken, BeginReturn
<1>17. CASE AcquireOther \/ ReleaseOther
  BY <1>17 DEF AcquireOther, ReleaseOther
<1>18. CASE ClosePool \/ ReleaseHandle
  BY <1>18 DEF ClosePool, ReleaseHandle, BeginCleanup, HoldReady
<1>19. CASE CloseAdmission \/ ClosePrewarmPools \/ CloseQueue
  BY <1>19 DEF CloseAdmission, ClosePrewarmPools, CloseQueue, BeginCleanup, HoldReady
<1>20. CASE UNCHANGED vars
  BY <1>20 DEF vars
<1> QED
  BY <1>1, <1>2, <1>3, <1>4, <1>5, <1>6, <1>7, <1>8, <1>9, <1>10, <1>11, <1>12, <1>13, <1>14,
     <1>15, <1>16, <1>17, <1>18, <1>19, <1>20
  DEF Next, CloseStep, FillStep, JobStep, ApplicationStep, ShutdownStep, Terminated

\* Nobody decrements the counters of a pool that is gone.
LEMMA GoneCounters ==
    ASSUME PoolInv, [Next]_vars, ~Exists
    PROVE  CountersNatural'
<1> USE PoolAssumption DEF PoolInv, Exists, Alive, Shape, CountersNatural, stateVars,
      serverVars, databaseVars, fillerVars, borrowerVars, closeVars
<1>1. CASE \E a \in Agent : CloseSemaphores(a)
  BY <1>1 DEF CloseSemaphores, WakeBorrowers
<1>2. CASE \E a \in Agent, d \in Database : QueueHeld(a, d)
  BY <1>2 DEF QueueHeld
<1>3. CASE Register \/ \E d \in Database : BeginCreation(d)
  BY <1>3 DEF Register, BeginCreation, MayRegister, NewName
<1>4. CASE BeginCreationRefused
  BY <1>4 DEF BeginCreationRefused, BeginCleanup, HoldReady
<1>5. CASE PublishInitial \/ AddTokenInitial
  BY <1>5 DEF PublishInitial, AddTokenInitial, Open
<1>6. CASE RequeueInitial \/ FinishFill
  BY <1>6 DEF RequeueInitial, FinishFill
<1>7. CASE \E b \in Borrower : BorrowStep(b)
  BY <1>7 DEF BorrowStep, AcquirePermit, AcquireRefused, ReturnToken, TakeReady
<1>8. CASE \E d \in Database : AdmitInitial(d) \/ CreateInitial(d)
  BY <1>8 DEF AdmitInitial, CreateInitial, Residual
<1>9. CASE \E d \in Database : SubmitReturn(d) \/ SubmitDetached(d)
  BY <1>9 DEF SubmitReturn, SubmitDetached, BeginCleanup, HoldReady
<1>10. CASE \E d \in Database : DropDirty(d)
  BY <1>10 DEF DropDirty, Open, BeginCleanup, HoldReady
<1>11. CASE \E d \in Database : AdmitRefill(d) \/ RefillFails(d)
  BY <1>11 DEF AdmitRefill, RefillFails, Residual, BeginCleanup, HoldReady
<1>12. CASE \E d, e \in Database : PublishRefill(d, e)
  BY <1>12 DEF PublishRefill, NewName, Open
<1>13. CASE \E d \in Database : AddTokenRefill(d) \/ DropExtra(d)
  BY <1>13 DEF AddTokenRefill, DropExtra
<1>14. CASE \E d \in Database : FinishJob(d) \/ RunDeletion(d)
  BY <1>14 DEF FinishJob, RunDeletion, Residual
<1>15. CASE AbandonFill
  BY <1>15 DEF AbandonFill, BeginCleanup, HoldReady
<1>16. CASE \E b \in Borrower : ReserveToken(b) \/ CancelBorrow(b) \/ BeginReturn(b)
  BY <1>16 DEF ReserveToken, CancelBorrow, ReturnToken, BeginReturn
<1>17. CASE AcquireOther \/ ReleaseOther
  BY <1>17 DEF AcquireOther, ReleaseOther
<1>18. CASE ClosePool \/ ReleaseHandle
  BY <1>18 DEF ClosePool, ReleaseHandle, BeginCleanup, HoldReady
<1>19. CASE CloseAdmission \/ ClosePrewarmPools \/ CloseQueue
  BY <1>19 DEF CloseAdmission, ClosePrewarmPools, CloseQueue, BeginCleanup, HoldReady
<1>20. CASE UNCHANGED vars
  BY <1>20 DEF vars
<1> QED
  BY <1>1, <1>2, <1>3, <1>4, <1>5, <1>6, <1>7, <1>8, <1>9, <1>10, <1>11, <1>12, <1>13, <1>14,
     <1>15, <1>16, <1>17, <1>18, <1>19, <1>20
  DEF Next, CloseStep, FillStep, JobStep, ApplicationStep, ShutdownStep, Terminated

LEMMA CountedStep ==
    ASSUME PoolInv, [Next]_vars
    PROVE  Counted' /\ CountersNatural'
<1>1. CASE Exists
  <2>1. Tally'
    BY <1>1, TallyStep
  <2>2. leased' = Number(Leased)' /\ deleting' = Number(Deleting)'
        /\ creating' = Number(Creating)' + One(filler' = "create")
    BY <2>1 DEF Tally
  <2>3. Number(Leased)' \in Nat /\ Number(Creating)' \in Nat /\ Number(Deleting)' \in Nat
    BY NumberNatNext
  <2>4. CountersNatural'
    BY <2>2, <2>3 DEF CountersNatural, One
  <2> QED
    BY <2>1, <2>4 DEF Counted
<1>2. CASE ~Exists
  <2>1. ~Exists'
    BY <1>2, AliveStays
  <2> QED
    BY <1>2, <2>1, GoneCounters DEF Counted
<1> QED
  BY <1>1, <1>2

LEMMA PoolInvInit == Init => PoolInv
<1> SUFFICES ASSUME Init PROVE PoolInv
  OBVIOUS
<1> USE PoolAssumption DEF Init
<1>1. Shape
  <2>1. ready \in Seq(Database) /\ permits \subseteq Database /\ held \subseteq Database
    OBVIOUS
  <2>2. db \in [Database -> DatabaseState]
    BY DEF DatabaseState
  <2> QED
    BY <2>1, <2>2 DEF Shape
<1>2. Flags /\ CleanupOnce /\ FillerWorks /\ GateOrder /\ NotBegun
  BY DEF Flags, CleanupOnce, FillerWorks, GateOrder, NotBegun
<1>3. ReadyExact /\ HeldExact
  BY DEF ReadyExact, InReady, HeldExact
<1>4. LeasesExact /\ RefillsExact
  BY DEF LeasesExact, RefillsExact
<1>5. LeftoverClosesAdmission /\ PoolClosed
  BY DEF LeftoverClosesAdmission, PoolClosed
<1>6. CountersNatural
  BY DEF CountersNatural
<1>7. ASSUME NEW S, "unused" \notin S PROVE Number(S) = 0
  <2>1. {d \in Database : db[d] \in S} = {}
    BY <1>7
  <2> QED
    BY <2>1, FS_EmptySet DEF Number
<1>8. /\ Number(Leased) = 0 /\ Number(Creating) = 0 /\ Number(Deleting) = 0
      /\ Number(Tokened) = 0 /\ Len(ready) = 0
  BY <1>7 DEF Leased, Creating, Deleting, Tokened
<1>9. Counted
  BY <1>8 DEF Counted, Tally, Occupied, One
<1>10. Cardinality(InFlight) = 0
  <2>1. InFlight = {}
    BY DEF InFlight
  <2> QED
    BY <2>1, FS_EmptySet
<1>11. Tokens
  BY <1>8, <1>10 DEF Tokens, One
<1> QED
  BY <1>1, <1>2, <1>3, <1>4, <1>5, <1>6, <1>9, <1>11 DEF PoolInv

LEMMA PoolInvNext == PoolInv /\ [Next]_vars => PoolInv'
<1> SUFFICES ASSUME PoolInv, [Next]_vars PROVE PoolInv'
  OBVIOUS
<1>1. Shape'
  BY NumbersStep, StagesStep, DatabasesStep, LinksStep
  DEF Shape, Numbers, Stages, Databases, Links
<1>2. Flags' /\ CleanupOnce' /\ FillerWorks'
  BY FlagsStep, CleanupOnceStep, FillerWorksStep
<1>3. ReadyExact' /\ HeldExact' /\ LeasesExact' /\ RefillsExact'
  BY RelatedStep DEF Related
<1>4. GateOrder' /\ LeftoverClosesAdmission' /\ PoolClosed' /\ NotBegun'
  BY GateOrderStep, LeftoverStep, PoolClosedStep, NotBegunStep
<1>5. Counted' /\ CountersNatural' /\ Tokens'
  BY CountedStep, TokensStep
<1> QED
  BY <1>1, <1>2, <1>3, <1>4, <1>5 DEF PoolInv

\* The invariant holds in every state of every execution.
THEOREM PoolInvariant == Spec => []PoolInv
<1>1. Init => PoolInv
  BY PoolInvInit
<1>2. PoolInv /\ [Next]_vars => PoolInv'
  BY PoolInvNext
<1> QED
  BY <1>1, <1>2, PTL DEF Spec

\* The counters of PrewarmPoolState count exactly the databases in each
\* phase, never fall below zero and never exceed the capacity, whatever
\* mixture of fills, leases, replacements, failures and closures there is.
THEOREM SlotsAreExact == Spec => []SlotsExact
<1>1. PoolInv => SlotsExact
  <2> SUFFICES ASSUME PoolInv PROVE SlotsExact
    OBVIOUS
  <2>1. TypeOK
    <3>1. Shape /\ CountersNatural
      BY DEF PoolInv
    <3>2. Flags
      BY DEF PoolInv
    <3> QED
      BY <3>1, <3>2 DEF TypeOK, Shape, CountersNatural, Flags
  <2>2. Alive => Tally
    BY DEF PoolInv, Counted, Exists
  <2> QED
    BY <2>1, <2>2 DEF SlotsExact, Tally, Leased, Creating, Deleting, One
<1> QED
  BY <1>1, PoolInvariant, PTL

\* While the pool accepts, each ready database has one token and each token
\* one ready database: a caller of database() that holds a token finds one.
THEOREM TokensAreBacked == Spec => []TokensBacked
<1>1. PoolInv => TokensBacked
  BY DEF PoolInv, Tokens, TokensBacked, Tokened, One
<1> QED
  BY <1>1, PoolInvariant, PTL

\* A database of the pool is left on the server only once the admission gate
\* is closed, on every failure path.
THEOREM LeftoversCloseAdmission == Spec => []LeftoverClosesAdmission
<1>1. PoolInv => LeftoverClosesAdmission
  BY DEF PoolInv
<1> QED
  BY <1>1, PoolInvariant, PTL

\* However prewarm() and the shutdown of the server interleave, no pool that
\* still accepts survives the closure of the cleanup queue.
THEOREM ShutdownReachesPool == Spec => []ShutdownClosesPool
<1>1. PoolInv => ShutdownClosesPool
  BY DEF PoolInv, GateOrder, PoolClosed, ShutdownClosesPool
<1> QED
  BY <1>1, PoolInvariant, PTL

=============================================================================
