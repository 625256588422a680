------------------------ MODULE AdminSessionPoolProofs ------------------------
(***************************************************************************)
(* Proofs about AdminSessionPool for any finite set of callers and any     *)
(* number of slots and connections.                                        *)
(***************************************************************************)
EXTENDS AdminSessionPool, FiniteSetTheorems, SequenceTheorems, TLAPS

\* A caller that is past the connection of its session has one.
ClientHeld ==
    \A c \in Caller :
        pc[c] \in {"reset", "prepare", "using", "return", "evict", "closing"} =>
            client[c] \in Session

PoolInv == TypeOK /\ ClientHeld /\ SlotsExact

\* Sets of callers are finite and have a size.
LEMMA CallersFinite ==
    ASSUME NEW S, S \subseteq Caller
    PROVE  IsFiniteSet(S) /\ Cardinality(S) \in Nat
BY PoolAssumption, FS_Subset, FS_CardinalityType

\* One caller more or less changes the size of a set by one.
LEMMA OneMore ==
    ASSUME NEW S, S \subseteq Caller, NEW c \in Caller, c \notin S
    PROVE  Cardinality(S \cup {c}) = Cardinality(S) + 1
BY CallersFinite, FS_AddElement

LEMMA OneLess ==
    ASSUME NEW S, S \subseteq Caller, NEW c \in S
    PROVE  Cardinality(S \ {c}) = Cardinality(S) - 1
BY CallersFinite, FS_RemoveElement

\* What Go does to the sets of callers: c leaves the sets of its old state and
\* enters those of its new one.
LEMMA GoMoves ==
    ASSUME pc \in [Caller -> CallerState], NEW c \in Caller,
           NEW state \in CallerState, Go(c, state),
           NEW states
    PROVE  /\ pc' \in [Caller -> CallerState]
           /\ pc'[c] = state /\ \A d \in Caller \ {c} : pc'[d] = pc[d]
           /\ In(states)' = IF state \in states THEN In(states) \cup {c}
                            ELSE In(states) \ {c}
BY DEF Go, In

\* What a notification adds to that: one sleeper, if there is any, is awake.
LEMMA NotifyMoves ==
    ASSUME pc \in [Caller -> CallerState], NEW c \in Caller, pc[c] # "asleep",
           NEW state \in CallerState, state # "asleep", GoAndNotifyOne(c, state)
    PROVE  /\ pc' \in [Caller -> CallerState]
           /\ pc'[c] = state
           /\ \A d \in Caller \ {c} :
                 pc'[d] = pc[d] \/ (pc[d] = "asleep" /\ pc'[d] = "acquire")
           /\ In({"asleep"})' # {} =>
                 \E w \in Caller \ {c} : /\ w \in In({"asleep"}) /\ pc'[w] = "acquire"
                                         /\ \A d \in Caller \ {c, w} : pc'[d] = pc[d]
<1>1. CASE In({"asleep"}) = {}
  BY <1>1 DEF GoAndNotifyOne, Go, In
<1>2. CASE In({"asleep"}) # {}
  <2>1. PICK w \in In({"asleep"}) : pc' = [pc EXCEPT ![c] = state, ![w] = "acquire"]
    BY <1>2 DEF GoAndNotifyOne
  <2>2. w \in Caller \ {c} /\ pc[w] = "asleep"
    BY DEF In
  <2>3. pc' \in [Caller -> CallerState]
    BY <2>1, <2>2 DEF CallerState
  <2>4. pc'[c] = state /\ pc'[w] = "acquire" /\ \A d \in Caller \ {c, w} : pc'[d] = pc[d]
    BY <2>1, <2>2
  <2> QED
    BY <2>2, <2>3, <2>4
<1> QED
  BY <1>1, <1>2

\* Those who hold slots after a step in which only c's claim to one changes.
LEMMA HoldersMove ==
    ASSUME NEW c \in Caller,
           \A d \in Caller \ {c} : pc'[d] \in HoldsSlot <=> pc[d] \in HoldsSlot
    PROVE  Holders' = IF pc'[c] \in HoldsSlot THEN Holders \cup {c} ELSE Holders \ {c}
BY DEF Holders, In

LEMMA HoldersAreCallers == Holders \subseteq Caller
BY DEF Holders, In

\* A slot that c holds is counted.
LEMMA CountedSlot ==
    ASSUME TypeOK, SlotsExact, NEW c \in Holders
    PROVE  total - 1 \in 0..MaxSize
<1>1. Cardinality(Holders) \in Nat /\ Cardinality(Holders \ {c}) \in Nat
  BY CallersFinite, HoldersAreCallers
<1>2. Cardinality(Holders \ {c}) = Cardinality(Holders) - 1
  BY OneLess, HoldersAreCallers
<1>3. Len(idle) \in Nat
  BY LenProperties DEF TypeOK
<1> QED
  BY <1>1, <1>2, <1>3, PoolAssumption DEF TypeOK, SlotsExact

\* The steps between two critical sections: no slot changes hands, and nobody
\* begins or ends to wait.
Quiet(c) ==
    \/ DeadlineElapses(c) \/ ResetSession(c) \/ ResetFails(c)
    \/ Connect(c) \/ ConnectFails(c) \/ PrepareSession(c) \/ PrepareFails(c)
    \/ OperationReuses(c) \/ OperationEvicts(c) \/ CloseConnection(c)

LEMMA QuietSteps ==
    ASSUME PoolInv, NEW c \in Caller, Quiet(c)
    PROVE  /\ TypeOK' /\ ClientHeld'
           /\ UNCHANGED <<idle, total, closed, Holders, In({"acquire"}), In({"asleep"})>>
<1> USE DEF PoolInv, TypeOK, ClientHeld, CallerState, poolVars, Go, In, Holders, HoldsSlot
<1>1. CASE DeadlineElapses(c)
  BY <1>1 DEF DeadlineElapses
<1>2. CASE ResetSession(c)
  BY <1>2 DEF ResetSession
<1>3. CASE ResetFails(c)
  BY <1>3 DEF ResetFails, AfterFailedReset, DropClient
<1>4. CASE Connect(c)
  <2>1. PICK s \in Session : /\ client' = [client EXCEPT ![c] = s]
                             /\ open' = open \cup {s} /\ tainted' = tainted \ {s}
    BY <1>4 DEF Connect
  <2> QED
    BY <1>4, <2>1 DEF Connect
<1>5. CASE ConnectFails(c)
  BY <1>5 DEF ConnectFails
<1>6. CASE PrepareSession(c)
  BY <1>6 DEF PrepareSession
<1>7. CASE PrepareFails(c)
  BY <1>7 DEF PrepareFails, DropClient
<1>8. CASE OperationReuses(c)
  BY <1>8 DEF OperationReuses
<1>9. CASE OperationEvicts(c)
  BY <1>9 DEF OperationEvicts
<1>10. CASE CloseConnection(c)
  BY <1>10 DEF CloseConnection, DropClient
<1> QED
  BY <1>1, <1>2, <1>3, <1>4, <1>5, <1>6, <1>7, <1>8, <1>9, <1>10 DEF Quiet

\* The steps with which a caller enters, leaves or waits in acquire_checkout
\* without a slot.
Waits(c) ==
    \/ BeginCheckout(c) \/ AcquireClosed(c) \/ AcquireTimeout(c)
    \/ AcquireWait(c) \/ WaitTimeout(c) \/ SpuriousWakeup(c)

LEMMA WaitSteps ==
    ASSUME PoolInv, NEW c \in Caller, Waits(c)
    PROVE  TypeOK' /\ ClientHeld' /\ UNCHANGED <<idle, total, closed, Holders>>
BY DEF PoolInv, TypeOK, ClientHeld, CallerState, poolVars, Go, In, Holders, HoldsSlot,
       Waits, BeginCheckout, AcquireClosed, AcquireTimeout, AcquireWait, WaitTimeout,
       SpuriousWakeup

\* A slot, with or without a session, becomes c's.
LEMMA GrantSteps ==
    ASSUME PoolInv, NEW c \in Caller, AcquireIdle(c) \/ AcquireSlot(c)
    PROVE  /\ TypeOK' /\ ClientHeld' /\ SlotsExact'
           /\ c \notin Holders /\ Holders' = Holders \cup {c}
           /\ Cardinality(Holders) < MaxSize
<1> USE DEF PoolInv
<1>1. c \notin Holders /\ Holders' = Holders \cup {c}
  BY DEF AcquireIdle, AcquireSlot, Go, TypeOK, Holders, In, HoldsSlot
<1>2. Cardinality(Holders') = Cardinality(Holders) + 1 /\ Cardinality(Holders) \in Nat
  BY <1>1, OneMore, CallersFinite, HoldersAreCallers
<1>3. Len(idle) \in Nat
  BY LenProperties DEF TypeOK
<1>4. pc' \in [Caller -> CallerState]
  BY DEF AcquireIdle, AcquireSlot, Go, TypeOK, CallerState
<1>5. CASE AcquireIdle(c)
  <2>1. Len(idle) >= 1 /\ idle[Len(idle)] \in Session
    <3>1. idle \in Seq(Session) /\ idle # <<>>
      BY <1>5 DEF AcquireIdle, TypeOK
    <3>2. Len(idle) \in Nat \ {0}
      BY <3>1, EmptySeq
    <3>3. Len(idle) \in 1..Len(idle)
      BY <3>2
    <3> QED
      BY <3>1, <3>2, <3>3, ElementOfSeq
  <2>2. idle' \in Seq(Session) /\ Len(idle') = Len(idle) - 1
    <3>1. idle \in Seq(Session) /\ idle' = SubSeq(idle, 1, Len(idle) - 1)
      BY <1>5 DEF AcquireIdle, TypeOK
    <3>2. \A i \in 1..(Len(idle) - 1) : idle[i] \in Session
      BY <1>3, <3>1, ElementOfSeq
    <3>3. 1 \in Int /\ Len(idle) - 1 \in Int
      BY <1>3
    <3> DEFINE rest == SubSeq(idle, 1, Len(idle) - 1)
    <3>4. /\ rest \in Seq(Session)
          /\ Len(rest) = IF 1 <= Len(idle) - 1 THEN (Len(idle) - 1) - 1 + 1 ELSE 0
      BY <3>2, <3>3, SubSeqProperties
    <3>5. idle' = rest
      BY <3>1
    <3> HIDE DEF rest
    <3>6. Len(rest) = Len(idle) - 1
      <4>1. \A n \in Nat : n >= 1 => (IF 1 <= n - 1 THEN (n - 1) - 1 + 1 ELSE 0) = n - 1
        OBVIOUS
      <4>2. Len(idle) >= 1
        BY <2>1
      <4> QED
        BY <1>3, <3>4, <4>1, <4>2, Zenon
    <3>7. idle' \in Seq(Session)
      BY <3>4, <3>5, Zenon
    <3>8. Len(idle') = Len(rest)
      BY <3>5, Zenon
    <3> QED
      BY <3>6, <3>7, <3>8, Zenon
  <2>3. TypeOK' /\ ClientHeld'
    BY <1>4, <1>5, <2>1, <2>2 DEF AcquireIdle, TypeOK, ClientHeld, Go
  <2>4. SlotsExact' /\ Cardinality(Holders) < MaxSize
    <3>1. UNCHANGED total /\ total \in 0..MaxSize /\ MaxSize \in Nat
      BY <1>5, PoolAssumption DEF AcquireIdle, TypeOK
    <3> QED
      BY <1>2, <1>3, <2>1, <2>2, <3>1 DEF SlotsExact
  <2> QED
    BY <1>1, <2>3, <2>4
<1>6. CASE AcquireSlot(c)
  <2>1. total' = total + 1 /\ total < MaxSize /\ UNCHANGED idle
    BY <1>6 DEF AcquireSlot, HasSlot
  <2>2. TypeOK' /\ ClientHeld'
    BY <1>4, <1>6, <2>1, PoolAssumption DEF AcquireSlot, TypeOK, ClientHeld, Go
  <2>3. SlotsExact' /\ Cardinality(Holders) < MaxSize
    BY <1>2, <1>3, <2>1, PoolAssumption DEF SlotsExact, TypeOK
  <2> QED
    BY <1>1, <2>2, <2>3
<1> QED
  BY <1>5, <1>6

\* c's slot becomes free, or its session idle, and a sleeper is told.
Frees(c) ==
    \/ ReleaseAfterReset(c) \/ ReleaseAfterConnect(c)
    \/ DropIntoPool(c) \/ DropEvicts(c)

\* Where c goes then.
Freed(c) ==
    /\ c \in Holders /\ pc[c] # "asleep" /\ pc[c] # "acquire"
    /\ \E state \in CallerState \ (HoldsSlot \cup {"asleep"}) : GoAndNotifyOne(c, state)

LEMMA FreesNotifies ==
    ASSUME TypeOK, NEW c \in Caller, Frees(c)
    PROVE  Freed(c)
<1> USE DEF CallerState, HoldsSlot, Holders, In, Freed
<1>1. CASE ReleaseAfterReset(c)
  <2>1. AfterRelease(c) \in {"idle", "acquire"}
    BY DEF AfterRelease
  <2> QED
    BY <1>1, <2>1 DEF ReleaseAfterReset
<1>2. CASE ReleaseAfterConnect(c)
  BY <1>2 DEF ReleaseAfterConnect
<1>3. CASE DropIntoPool(c)
  BY <1>3 DEF DropIntoPool
<1>4. CASE DropEvicts(c)
  BY <1>4 DEF DropEvicts
<1> QED
  BY <1>1, <1>2, <1>3, <1>4 DEF Frees

\* What the callers' states become: only c loses a slot.
LEMMA FreedHolders ==
    ASSUME TypeOK, NEW c \in Caller, Freed(c)
    PROVE  /\ pc' \in [Caller -> CallerState]
           /\ Holders' = Holders \ {c}
           /\ Cardinality(Holders') = Cardinality(Holders) - 1
           /\ Cardinality(Holders') \in Nat /\ Cardinality(Holders) \in Nat
<1>1. PICK state \in CallerState \ (HoldsSlot \cup {"asleep"}) : GoAndNotifyOne(c, state)
  BY DEF Freed
<1>2. pc \in [Caller -> CallerState] /\ pc[c] # "asleep" /\ state # "asleep"
  BY DEF TypeOK, Freed
<1>3. /\ pc' \in [Caller -> CallerState] /\ pc'[c] = state
      /\ \A d \in Caller \ {c} :
            pc'[d] = pc[d] \/ (pc[d] = "asleep" /\ pc'[d] = "acquire")
  BY <1>1, <1>2, NotifyMoves
<1>4. \A d \in Caller \ {c} : pc'[d] \in HoldsSlot <=> pc[d] \in HoldsSlot
  BY <1>3 DEF HoldsSlot
<1>5. pc'[c] \notin HoldsSlot
  BY <1>3
<1>6. Holders' = Holders \ {c}
  BY <1>4, <1>5, HoldersMove
<1>7. c \in Holders
  BY DEF Freed
<1>8. Cardinality(Holders \ {c}) = Cardinality(Holders) - 1
  BY <1>7, OneLess, HoldersAreCallers
<1>9. Cardinality(Holders \ {c}) \in Nat /\ Cardinality(Holders) \in Nat
  BY CallersFinite, HoldersAreCallers
<1> QED
  BY <1>3, <1>6, <1>8, <1>9

LEMMA FreeSteps ==
    ASSUME PoolInv, NEW c \in Caller, Frees(c)
    PROVE  TypeOK' /\ ClientHeld' /\ SlotsExact'
<1> USE DEF PoolInv
<1>1. Freed(c)
  BY FreesNotifies
<1>2. /\ pc' \in [Caller -> CallerState] /\ c \in Holders
      /\ Cardinality(Holders') = Cardinality(Holders) - 1
      /\ Cardinality(Holders') \in Nat /\ Cardinality(Holders) \in Nat
  BY <1>1, FreedHolders DEF Freed
<1>3. Len(idle) \in Nat /\ total - 1 \in 0..MaxSize /\ total \in 0..MaxSize
  BY <1>2, CountedSlot, LenProperties DEF TypeOK
<1>4. CASE ReleaseAfterReset(c) \/ ReleaseAfterConnect(c) \/ DropEvicts(c)
  <2>1. /\ total' = total - 1
        /\ UNCHANGED <<idle, closed, client, elapsed, open, tainted, discarded>>
    BY <1>4 DEF ReleaseAfterReset, ReleaseAfterConnect, DropEvicts, Uncounted
  <2>2. TypeOK'
    BY <1>2, <1>3, <2>1 DEF TypeOK
  <2>3. SlotsExact'
    BY <1>2, <1>3, <2>1, PoolAssumption DEF SlotsExact
  <2>4. ClientHeld'
    <3>1. SUFFICES ASSUME NEW d \in Caller,
                          pc'[d] \in {"reset", "prepare", "using", "return", "evict", "closing"}
                   PROVE  client[d] \in Session
      BY <2>1 DEF ClientHeld
    <3>2. PICK state \in CallerState : /\ GoAndNotifyOne(c, state) /\ state # "asleep"
                                       /\ state = "closing" => DropEvicts(c)
                                       /\ state \in {"closing", "idle", "acquire"}
      BY <1>4 DEF ReleaseAfterReset, ReleaseAfterConnect, DropEvicts, AfterRelease, CallerState
    <3>3. pc \in [Caller -> CallerState] /\ pc[c] # "asleep"
      BY <1>1 DEF TypeOK, Freed
    <3>4. /\ pc'[c] = state
          /\ \A e \in Caller \ {c} :
                pc'[e] = pc[e] \/ (pc[e] = "asleep" /\ pc'[e] = "acquire")
      BY <3>2, <3>3, NotifyMoves
    <3>5. CASE d = c
      BY <3>1, <3>2, <3>4, <3>5 DEF ClientHeld, DropEvicts
    <3>6. CASE d # c
      BY <3>1, <3>4, <3>6 DEF ClientHeld
    <3> QED
      BY <3>5, <3>6
  <2> QED
    BY <2>2, <2>3, <2>4
<1>5. CASE DropIntoPool(c)
  <2>1. /\ idle' = Append(idle, client[c])
        /\ client' = [client EXCEPT ![c] = NoSession]
        /\ GoAndNotifyOne(c, "idle") /\ pc[c] \in {"return", "evict"}
        /\ UNCHANGED <<total, closed, elapsed, open, tainted, discarded>>
    BY <1>5 DEF DropIntoPool
  <2>2. client[c] \in Session
    BY <2>1 DEF ClientHeld
  <2>3. idle' \in Seq(Session) /\ Len(idle') = Len(idle) + 1
    BY <2>1, <2>2, AppendProperties DEF TypeOK
  <2>4. TypeOK'
    BY <1>2, <2>1, <2>3 DEF TypeOK
  <2>5. SlotsExact'
    BY <1>2, <1>3, <2>1, <2>3, PoolAssumption DEF SlotsExact
  <2>6. ClientHeld'
    <3>1. pc \in [Caller -> CallerState] /\ "idle" \in CallerState
      BY DEF TypeOK, CallerState
    <3>2. /\ pc'[c] = "idle"
          /\ \A e \in Caller \ {c} :
                pc'[e] = pc[e] \/ (pc[e] = "asleep" /\ pc'[e] = "acquire")
      BY <2>1, <3>1, NotifyMoves
    <3> QED
      BY <2>1, <3>2 DEF ClientHeld, TypeOK
  <2> QED
    BY <2>4, <2>5, <2>6
<1> QED
  BY <1>4, <1>5 DEF Frees

\* close takes the idle sessions out of the count; DropDiscarded ends them.
LEMMA CloseStep ==
    ASSUME PoolInv, Close
    PROVE  TypeOK' /\ ClientHeld' /\ SlotsExact' /\ UNCHANGED Holders
<1> USE DEF PoolInv
<1>1. UNCHANGED Holders /\ pc' \in [Caller -> CallerState]
  BY DEF Close, NotifyAll, Holders, In, HoldsSlot, TypeOK, CallerState
<1>2. Len(idle) \in Nat /\ Cardinality(Holders) \in Nat
  BY LenProperties, CallersFinite, HoldersAreCallers DEF TypeOK
<1>3. total' = Cardinality(Holders) /\ total' \in 0..MaxSize
  BY <1>2, PoolAssumption DEF Close, LeaveIdle, SlotsExact, TypeOK
<1>4. idle' = <<>> /\ idle' \in Seq(Session) /\ Len(idle') = 0
  BY EmptySeq DEF Close
<1>5. discarded' \subseteq Session
  BY LenProperties DEF Close, Elems, TypeOK
<1>6. TypeOK'
  BY <1>1, <1>3, <1>4, <1>5 DEF Close, TypeOK
<1>7. SlotsExact'
  BY <1>1, <1>2, <1>3, <1>4 DEF SlotsExact
<1>8. ClientHeld'
  BY DEF Close, NotifyAll, ClientHeld, TypeOK
<1> QED
  BY <1>1, <1>6, <1>7, <1>8

\* The steps of a caller, by what they do with slots.
LEMMA CallerSteps ==
    ASSUME NEW c \in Caller,
           BeginCheckout(c) \/ DeadlineElapses(c) \/ SpuriousWakeup(c)
              \/ Checkout(c) \/ Setup(c) \/ Operate(c)
    PROVE  Quiet(c) \/ Waits(c) \/ AcquireIdle(c) \/ AcquireSlot(c) \/ Frees(c)
BY DEF Checkout, Setup, Operate, Quiet, Waits, Frees

LEMMA PoolInvStep ==
    ASSUME PoolInv, [Next]_vars
    PROVE  PoolInv'
<1>1. CASE Close
  BY <1>1, CloseStep DEF PoolInv
<1>2. CASE DropDiscarded
  BY <1>2 DEF DropDiscarded, PoolInv, TypeOK, ClientHeld, SlotsExact, Holders, In, poolVars
<1>3. ASSUME NEW c \in Caller, Quiet(c) PROVE PoolInv'
  BY <1>3, QuietSteps DEF PoolInv, SlotsExact
<1>4. ASSUME NEW c \in Caller, Waits(c) PROVE PoolInv'
  BY <1>4, WaitSteps DEF PoolInv, SlotsExact
<1>5. ASSUME NEW c \in Caller, AcquireIdle(c) \/ AcquireSlot(c) PROVE PoolInv'
  BY <1>5, GrantSteps DEF PoolInv
<1>6. ASSUME NEW c \in Caller, Frees(c) PROVE PoolInv'
  BY <1>6, FreeSteps DEF PoolInv
<1>7. CASE UNCHANGED vars
  BY <1>7 DEF vars, poolVars, PoolInv, TypeOK, ClientHeld, SlotsExact, Holders, In
<1> QED
  BY <1>1, <1>2, <1>3, <1>4, <1>5, <1>6, <1>7, CallerSteps DEF Next

LEMMA PoolInvInit ==
    ASSUME Init PROVE PoolInv
<1>1. TypeOK
  <2>1. idle \in Seq(Session)
    BY EmptySeq DEF Init
  <2>2. total \in 0..MaxSize
    BY PoolAssumption DEF Init
  <2> QED
    BY <2>1, <2>2 DEF Init, TypeOK, CallerState
<1>2. ClientHeld
  BY DEF Init, ClientHeld
<1>3. SlotsExact
  <2>1. Holders = {}
    BY DEF Init, Holders, In, HoldsSlot
  <2> QED
    BY <2>1, EmptySeq, FS_EmptySet DEF Init, SlotsExact
<1> QED
  BY <1>1, <1>2, <1>3 DEF PoolInv

\* For any number of callers and slots, `total` is at every moment the number
\* of idle sessions and of callers that occupy a slot, so that it stays within
\* 0..max_size and no checked_sub of admin.rs panics.
THEOREM PoolCountsSlots == Spec => [](TypeOK /\ SlotsExact)
<1>1. Init => PoolInv
  BY PoolInvInit
<1>2. PoolInv /\ [Next]_vars => PoolInv'
  BY PoolInvStep
<1>3. PoolInv => TypeOK /\ SlotsExact
  BY DEF PoolInv
<1> QED
  BY <1>1, <1>2, <1>3, PTL DEF Spec

-----------------------------------------------------------------------------
(* Nobody sleeps next to a free slot. *)

\* What is to be had in the pool, counted by idle sessions and by the slots
\* not yet in use: a grant takes one of them, a release gives one back.
LEMMA GrantTakesFree ==
    ASSUME PoolInv, NEW c \in Caller, AcquireIdle(c) \/ AcquireSlot(c)
    PROVE  /\ Len(idle)' + (MaxSize - total') = (Len(idle) + (MaxSize - total)) - 1
           /\ Len(idle) + (MaxSize - total) > 0
<1> USE DEF PoolInv
<1>1. /\ Cardinality(Holders') = Cardinality(Holders) + 1
      /\ Cardinality(Holders) \in Nat /\ Cardinality(Holders) < MaxSize
  BY GrantSteps, OneMore, CallersFinite, HoldersAreCallers
<1>2. Len(idle) \in Nat /\ Len(idle)' \in Nat /\ MaxSize \in Nat
  BY GrantSteps, LenProperties, PoolAssumption DEF TypeOK
<1>3. total = Len(idle) + Cardinality(Holders)
  BY DEF SlotsExact
<1>4. total' = Len(idle)' + Cardinality(Holders')
  BY GrantSteps DEF SlotsExact
<1> HIDE DEF PoolInv
<1> QED
  BY <1>1, <1>2, <1>3, <1>4

LEMMA FreeGivesBack ==
    ASSUME PoolInv, NEW c \in Caller, Frees(c)
    PROVE  Len(idle)' + (MaxSize - total') = Len(idle) + (MaxSize - total) + 1
<1> USE DEF PoolInv
<1>1. /\ Cardinality(Holders') = Cardinality(Holders) - 1 /\ Cardinality(Holders) \in Nat
  BY FreesNotifies, FreedHolders
<1>2. Len(idle) \in Nat /\ Len(idle)' \in Nat /\ MaxSize \in Nat
  BY FreeSteps, LenProperties, PoolAssumption DEF TypeOK
<1>3. total = Len(idle) + Cardinality(Holders)
  BY DEF SlotsExact
<1>4. total' = Len(idle)' + Cardinality(Holders')
  BY FreeSteps DEF SlotsExact
<1> HIDE DEF PoolInv
<1> QED
  BY <1>1, <1>2, <1>3, <1>4

\* The steps that leave the pool and the sleepers alone, and lose no awake
\* caller, keep what was promised to the sleepers.
LEMMA MoreAwake ==
    ASSUME TypeOK, NoStrandedWaiter, UNCHANGED <<idle, total, closed>>,
           In({"asleep"})' \subseteq In({"asleep"}),
           In({"acquire"}) \subseteq In({"acquire"})'
    PROVE  NoStrandedWaiter'
<1>1. SUFFICES ASSUME In({"asleep"})' # {}
               PROVE  /\ ~closed'
                      /\ Len(idle)' + (MaxSize - total') <= Cardinality(In({"acquire"})')
  BY DEF NoStrandedWaiter
<1>2. ~closed /\ Len(idle) + (MaxSize - total) <= Cardinality(In({"acquire"}))
  BY <1>1 DEF NoStrandedWaiter
<1>3. In({"acquire"})' \subseteq Caller
  BY DEF In
<1>4. /\ Cardinality(In({"acquire"})) <= Cardinality(In({"acquire"})')
      /\ Cardinality(In({"acquire"})) \in Nat /\ Cardinality(In({"acquire"})') \in Nat
  BY <1>3, CallersFinite, FS_Subset
<1>5. Len(idle) \in Nat /\ Len(idle)' = Len(idle)
  BY LenProperties DEF TypeOK
<1> QED
  BY <1>2, <1>4, <1>5, PoolAssumption DEF TypeOK

LEMMA WaitsStrandNobody ==
    ASSUME PoolInv, NoStrandedWaiter, NEW c \in Caller, Waits(c)
    PROVE  NoStrandedWaiter'
<1> USE DEF PoolInv
<1>1. pc \in [Caller -> CallerState] /\ UNCHANGED <<idle, total, closed>>
  BY WaitSteps DEF TypeOK
<1>2. CASE BeginCheckout(c) \/ WaitTimeout(c) \/ SpuriousWakeup(c)
  <2>1. /\ In({"asleep"})' \subseteq In({"asleep"})
        /\ In({"acquire"}) \subseteq In({"acquire"})'
    BY <1>1, <1>2 DEF BeginCheckout, WaitTimeout, SpuriousWakeup, Go, In
  <2> QED
    BY <1>1, <2>1, MoreAwake
<1>3. CASE AcquireClosed(c)
  <2>1. closed /\ In({"asleep"})' \subseteq In({"asleep"})
    BY <1>1, <1>3 DEF AcquireClosed, Go, In
  <2> QED
    BY <2>1 DEF NoStrandedWaiter
<1>4. CASE AcquireTimeout(c) \/ AcquireWait(c)
  <2>1. ~closed /\ idle = <<>> /\ ~(total < MaxSize)
    BY <1>4 DEF AcquireTimeout, AcquireWait, HasSlot
  <2>2. Len(idle) = 0 /\ MaxSize - total = 0
    BY <2>1, EmptySeq, PoolAssumption DEF TypeOK
  <2>3. Len(idle') = 0 /\ MaxSize - total' = 0 /\ ~closed'
    BY <1>1, <2>1, <2>2
  <2>4. Cardinality(In({"acquire"})') \in Nat
    BY CallersFinite DEF In
  <2> QED
    BY <2>3, <2>4 DEF NoStrandedWaiter
<1> QED
  BY <1>2, <1>3, <1>4 DEF Waits

LEMMA GrantsStrandNobody ==
    ASSUME PoolInv, NoStrandedWaiter, NEW c \in Caller, AcquireIdle(c) \/ AcquireSlot(c)
    PROVE  NoStrandedWaiter'
<1> USE DEF PoolInv
<1>1. /\ In({"asleep"})' = In({"asleep"})
      /\ c \in In({"acquire"}) /\ In({"acquire"})' = In({"acquire"}) \ {c}
      /\ UNCHANGED closed
  BY DEF AcquireIdle, AcquireSlot, Go, TypeOK, In
<1>2. In({"acquire"}) \subseteq Caller /\ In({"acquire"}) \ {c} \subseteq Caller
  BY DEF In
<1>3. /\ Cardinality(In({"acquire"})') = Cardinality(In({"acquire"})) - 1
      /\ Cardinality(In({"acquire"})) \in Nat /\ Cardinality(In({"acquire"})') \in Nat
  BY <1>1, <1>2, OneLess, CallersFinite
<1>4. Len(idle) \in Nat /\ Len(idle)' \in Nat /\ total \in Nat /\ total' \in Nat
  BY GrantSteps, LenProperties, PoolAssumption DEF TypeOK
<1>5. Len(idle)' + (MaxSize - total') = (Len(idle) + (MaxSize - total)) - 1
  BY GrantTakesFree
<1>6. In({"asleep"}) # {} =>
        ~closed /\ Len(idle) + (MaxSize - total) <= Cardinality(In({"acquire"}))
  BY DEF NoStrandedWaiter
<1> QED
  BY <1>1, <1>3, <1>4, <1>5, <1>6, PoolAssumption DEF NoStrandedWaiter

\* A release frees one slot and, if somebody goes on sleeping, wakes one caller.
LEMMA FreesStrandNobody ==
    ASSUME PoolInv, NoStrandedWaiter, NEW c \in Caller, Frees(c)
    PROVE  NoStrandedWaiter'
<1> USE DEF PoolInv
<1>1. SUFFICES ASSUME In({"asleep"})' # {}
               PROVE  /\ ~closed'
                      /\ Len(idle)' + (MaxSize - total') <= Cardinality(In({"acquire"})')
  BY DEF NoStrandedWaiter
<1>2. Freed(c) /\ UNCHANGED closed
  BY FreesNotifies DEF Frees, ReleaseAfterReset, ReleaseAfterConnect, DropIntoPool, DropEvicts
<1>3. PICK state \in CallerState \ (HoldsSlot \cup {"asleep"}) : GoAndNotifyOne(c, state)
  BY <1>2 DEF Freed
<1>4. pc \in [Caller -> CallerState] /\ pc[c] # "asleep" /\ pc[c] # "acquire" /\ state # "asleep"
  BY <1>2 DEF TypeOK, Freed
<1>5. PICK w \in Caller \ {c} : /\ w \in In({"asleep"}) /\ pc'[w] = "acquire"
                                /\ \A d \in Caller \ {c, w} : pc'[d] = pc[d]
  BY <1>1, <1>3, <1>4, NotifyMoves
<1>6. In({"acquire"}) \cup {w} \subseteq In({"acquire"})' /\ w \notin In({"acquire"})
  BY <1>4, <1>5 DEF In
<1>7. In({"acquire"}) \subseteq Caller /\ In({"acquire"})' \subseteq Caller
  BY DEF In
<1>8. /\ Cardinality(In({"acquire"})) + 1 <= Cardinality(In({"acquire"})')
      /\ Cardinality(In({"acquire"})) \in Nat /\ Cardinality(In({"acquire"})') \in Nat
  <2>1. Cardinality(In({"acquire"}) \cup {w}) = Cardinality(In({"acquire"})) + 1
    BY <1>6, <1>7, OneMore
  <2>2. Cardinality(In({"acquire"}) \cup {w}) <= Cardinality(In({"acquire"})')
    BY <1>6, <1>7, CallersFinite, FS_Subset
  <2>3. Cardinality(In({"acquire"})) \in Nat /\ Cardinality(In({"acquire"})') \in Nat
    BY <1>7, CallersFinite
  <2> QED
    BY <2>1, <2>2, <2>3
<1>9. ~closed /\ Len(idle) + (MaxSize - total) <= Cardinality(In({"acquire"}))
  BY <1>5 DEF NoStrandedWaiter
<1>10. Len(idle) \in Nat /\ Len(idle)' \in Nat /\ total \in Nat /\ total' \in Nat
  BY FreeSteps, LenProperties, PoolAssumption DEF TypeOK
<1>11. Len(idle)' + (MaxSize - total') = Len(idle) + (MaxSize - total) + 1
  BY FreeGivesBack
<1> QED
  BY <1>2, <1>8, <1>9, <1>10, <1>11, PoolAssumption

LEMMA StrandedStep ==
    ASSUME PoolInv, NoStrandedWaiter, [Next]_vars
    PROVE  NoStrandedWaiter'
<1> USE DEF PoolInv
<1>1. CASE Close
  <2>1. In({"asleep"})' = {}
    BY <1>1 DEF Close, NotifyAll, In, TypeOK
  <2> QED
    BY <2>1 DEF NoStrandedWaiter
<1>2. CASE DropDiscarded
  BY <1>2 DEF DropDiscarded, NoStrandedWaiter, In, poolVars
<1>3. ASSUME NEW c \in Caller, Quiet(c) PROVE NoStrandedWaiter'
  BY <1>3, QuietSteps DEF NoStrandedWaiter
<1>4. ASSUME NEW c \in Caller, Waits(c) PROVE NoStrandedWaiter'
  BY <1>4, WaitsStrandNobody
<1>5. ASSUME NEW c \in Caller, AcquireIdle(c) \/ AcquireSlot(c) PROVE NoStrandedWaiter'
  BY <1>5, GrantsStrandNobody
<1>6. ASSUME NEW c \in Caller, Frees(c) PROVE NoStrandedWaiter'
  BY <1>6, FreesStrandNobody
<1>7. CASE UNCHANGED vars
  BY <1>7 DEF vars, poolVars, NoStrandedWaiter, In
<1> QED
  BY <1>1, <1>2, <1>3, <1>4, <1>5, <1>6, <1>7, CallerSteps DEF Next

\* One notify_one per release is enough for any number of callers and slots,
\* although a signal may wake a caller whose deadline has passed: a caller
\* sleeps in acquire_checkout only while every free slot has a caller awake
\* for it.
THEOREM NobodyStranded == Spec => []NoStrandedWaiter
<1>1. Init => PoolInv /\ NoStrandedWaiter
  <2>1. Init => In({"asleep"}) = {}
    BY DEF Init, In
  <2> QED
    BY <2>1, PoolInvInit DEF NoStrandedWaiter
<1>2. PoolInv /\ NoStrandedWaiter /\ [Next]_vars => (PoolInv /\ NoStrandedWaiter)'
  BY PoolInvStep, StrandedStep
<1> QED
  BY <1>1, <1>2, PTL DEF Spec

-----------------------------------------------------------------------------
(* The pool implements SessionSlots. *)

LEMMA SlotsInit ==
    ASSUME Init PROVE Slots!Init
<1>1. In({"acquire", "asleep"}) = {} /\ Holders = {} /\ closed = FALSE
  BY DEF Init, In, Holders, HoldsSlot
<1>2. Len(idle) = 0 /\ total = 0 /\ MaxSize \in Nat
  BY EmptySeq, PoolAssumption DEF Init
<1> QED
  BY <1>1, <1>2 DEF Slots!Init

LEMMA SlotsStep ==
    ASSUME PoolInv, [Next]_vars
    PROVE  [Slots!Next]_(Slots!vars)
<1> USE DEF PoolInv
<1> DEFINE Requests == In({"acquire", "asleep"})
           Free == Len(idle) + (MaxSize - total)
<1>0. pc \in [Caller -> CallerState] /\ Len(idle) \in Nat /\ total \in Nat /\ MaxSize \in Nat
  BY LenProperties, PoolAssumption DEF TypeOK
<1>1. CASE Close
  <2>1. UNCHANGED <<Holders, Requests>> /\ closed' = TRUE
    BY <1>0, <1>1 DEF Close, NotifyAll, In, Holders, HoldsSlot
  <2>2. total' = total - Len(idle) /\ Len(idle') = 0
    BY <1>1, EmptySeq DEF Close, LeaveIdle
  <2>3. UNCHANGED Free
    BY <1>0, <2>2
  <2> QED
    BY <2>1, <2>3 DEF Slots!Next, Slots!Close
<1>2. CASE DropDiscarded
  BY <1>2 DEF DropDiscarded, Slots!vars, In, Holders, poolVars
<1>3. ASSUME NEW c \in Caller, Quiet(c) PROVE UNCHANGED Slots!vars
  <2>1. UNCHANGED <<idle, total, closed, Holders, In({"acquire"}), In({"asleep"})>>
    BY <1>3, QuietSteps
  <2>2. Requests = In({"acquire"}) \cup In({"asleep"})
    BY DEF In
  <2>3. Requests' = In({"acquire"})' \cup In({"asleep"})'
    BY DEF In
  <2> QED
    BY <2>1, <2>2, <2>3 DEF Slots!vars
<1>4. ASSUME NEW c \in Caller, Waits(c) PROVE [Slots!Next]_(Slots!vars)
  <2>1. UNCHANGED <<idle, total, closed, Holders>>
    BY <1>4, WaitSteps
  <2>2. CASE BeginCheckout(c)
    <3>1. c \notin Requests \cup Holders /\ Requests' = Requests \cup {c}
      BY <1>0, <2>2 DEF BeginCheckout, Go, In, Holders, HoldsSlot
    <3> QED
      BY <2>1, <3>1 DEF Slots!Next, Slots!Request
  <2>3. CASE AcquireClosed(c) \/ AcquireTimeout(c)
    <3>1. c \in Requests /\ Requests' = Requests \ {c}
      BY <1>0, <2>3 DEF AcquireClosed, AcquireTimeout, Go, In
    <3> QED
      BY <2>1, <3>1 DEF Slots!Next, Slots!Refuse
  <2>4. CASE AcquireWait(c) \/ WaitTimeout(c) \/ SpuriousWakeup(c)
    <3>1. UNCHANGED Requests
      BY <1>0, <2>4 DEF AcquireWait, WaitTimeout, SpuriousWakeup, Go, In
    <3> QED
      BY <2>1, <3>1 DEF Slots!vars
  <2> QED
    BY <1>4, <2>2, <2>3, <2>4 DEF Waits
<1>5. ASSUME NEW c \in Caller, AcquireIdle(c) \/ AcquireSlot(c) PROVE Slots!Next
  <2>1. /\ c \in Requests /\ Requests' = Requests \ {c}
        /\ ~closed /\ UNCHANGED closed
    BY <1>0, <1>5 DEF AcquireIdle, AcquireSlot, Go, In
  <2>2. Holders' = Holders \cup {c}
    BY <1>5, GrantSteps
  <2>3. Free' = Free - 1
    BY <1>5, GrantTakesFree
  <2>4. Free > 0
    BY <1>5, GrantTakesFree
  <2>5. Slots!Grant(c)
    BY <2>1, <2>2, <2>3, <2>4 DEF Slots!Grant
  <2> QED
    BY <2>5 DEF Slots!Next
<1>6. ASSUME NEW c \in Caller, Frees(c) PROVE Slots!Next
  <2>1. Freed(c) /\ UNCHANGED closed
    BY <1>6, FreesNotifies DEF Frees, ReleaseAfterReset, ReleaseAfterConnect, DropIntoPool, DropEvicts
  <2>2. c \in Holders /\ Holders' = Holders \ {c}
    BY <2>1, FreedHolders DEF Freed
  <2>3. PICK state \in CallerState \ (HoldsSlot \cup {"asleep"}) : GoAndNotifyOne(c, state)
    BY <2>1 DEF Freed
  <2>4. pc[c] # "asleep" /\ pc[c] # "acquire" /\ state # "asleep"
    BY <2>1 DEF Freed
  <2>5. /\ pc'[c] = state
        /\ \A d \in Caller \ {c} :
              pc'[d] = pc[d] \/ (pc[d] = "asleep" /\ pc'[d] = "acquire")
    BY <1>0, <2>3, <2>4, NotifyMoves
  <2>6. Requests' \in {Requests, Requests \cup {c}}
    BY <2>4, <2>5 DEF In
  <2>7. Free' = Free + 1
    BY <1>6, FreeGivesBack
  <2>8. Slots!Release(c)
    BY <2>1, <2>2, <2>6, <2>7 DEF Slots!Release
  <2> QED
    BY <2>8 DEF Slots!Next
<1>7. CASE UNCHANGED vars
  BY <1>7 DEF vars, poolVars, Slots!vars, In, Holders
<1> QED
  BY <1>1, <1>2, <1>3, <1>4, <1>5, <1>6, <1>7, CallerSteps DEF Next

\* Every behaviour of the pool, seen through who waits and who holds a slot, is
\* one of SessionSlots: no more than max_size grants at a time, none after
\* close, whatever happens to sessions, connections and deadlines.
THEOREM PoolImplementsSlots == Spec => Slots!Safety
<1>1. Init => PoolInv /\ Slots!Init
  BY PoolInvInit, SlotsInit
<1>2. PoolInv /\ [Next]_vars => PoolInv'
  BY PoolInvStep
<1>3. PoolInv /\ [Next]_vars => [Slots!Next]_(Slots!vars)
  BY SlotsStep
<1> QED
  BY <1>1, <1>2, <1>3, PTL DEF Spec, Slots!Safety

-----------------------------------------------------------------------------
(***************************************************************************)
(* Where the sessions are.  SessionsExclusive is not inductive by itself:  *)
(* a new connection takes a name that is not open, so every session in     *)
(* somebody's hands must be open, and a closed pool must have nothing idle *)
(* that could also be among the discarded ones.                            *)
(***************************************************************************)
HasClient == {"reset", "prepare", "using", "return", "evict", "closing"}

SessionsPlaced ==
    /\ closed => idle = <<>>
    /\ ~closed => discarded = {}
    /\ \A c \in Caller : client[c] # NoSession => pc[c] \in HasClient /\ client[c] \in open
    /\ \A c \in Caller : pc[c] = "prepare" => client[c] \notin tainted
    /\ discarded \subseteq open
    /\ \A s \in open : (\E c \in Caller : client[c] = s) \/ s \in Elems(idle) \cup discarded

SessionInv == PoolInv /\ SessionsPlaced /\ SessionsExclusive

\* Taking the top of the stack.
LEMMA PopElems ==
    ASSUME idle \in Seq(Session), idle # <<>>,
           \A i, j \in DOMAIN idle : i # j => idle[i] # idle[j],
           idle' = SubSeq(idle, 1, Len(idle) - 1)
    PROVE  /\ Elems(idle)' = Elems(idle) \ {idle[Len(idle)]}
           /\ idle[Len(idle)] \in Elems(idle)
           /\ (\A i, j \in DOMAIN idle : i # j => idle[i] # idle[j])'
<1>1. Len(idle) \in Nat \ {0} /\ DOMAIN idle = 1..Len(idle)
  BY EmptySeq, LenProperties
<1>2. DOMAIN idle' = 1..(Len(idle) - 1) /\ \A i \in 1..(Len(idle) - 1) : idle'[i] = idle[i]
  BY <1>1
<1>3. \A i \in 1..Len(idle) : i # Len(idle) => i \in 1..(Len(idle) - 1)
  <2>1. \A n \in Nat \ {0} : \A i \in 1..n : i # n => i \in 1..(n - 1)
    OBVIOUS
  <2> QED
    BY <1>1, <2>1
<1>4. 1..(Len(idle) - 1) \subseteq 1..Len(idle) /\ Len(idle) \in 1..Len(idle)
  BY <1>1
<1>5. Len(idle) \notin 1..(Len(idle) - 1)
  BY <1>1
<1>6. idle[Len(idle)] \in Elems(idle)
  BY <1>1, <1>4 DEF Elems
<1>7. (\A i, j \in DOMAIN idle : i # j => idle[i] # idle[j])'
  BY <1>1, <1>2, <1>4
<1>8. ASSUME NEW s PROVE s \in Elems(idle)' <=> s \in Elems(idle) \ {idle[Len(idle)]}
  <2>1. s \in Elems(idle)' <=> \E i \in 1..(Len(idle) - 1) : s = idle[i]
    BY <1>2 DEF Elems
  <2>2. s \in Elems(idle) <=> \E i \in 1..Len(idle) : s = idle[i]
    BY <1>1 DEF Elems
  <2>3. \A i \in 1..(Len(idle) - 1) : idle[i] # idle[Len(idle)]
    BY <1>1, <1>4, <1>5
  <2> QED
    BY <2>1, <2>2, <2>3, <1>3, <1>4
<1> QED
  BY <1>6, <1>7, <1>8

\* Putting a session on it.
LEMMA PushElems ==
    ASSUME idle \in Seq(Session), NEW s \in Session, s \notin Elems(idle),
           \A i, j \in DOMAIN idle : i # j => idle[i] # idle[j],
           idle' = Append(idle, s)
    PROVE  /\ Elems(idle)' = Elems(idle) \cup {s}
           /\ (\A i, j \in DOMAIN idle : i # j => idle[i] # idle[j])'
<1>1. Len(idle) \in Nat /\ DOMAIN idle = 1..Len(idle)
  BY LenProperties
<1>2. /\ DOMAIN idle' = 1..(Len(idle) + 1) /\ idle'[Len(idle) + 1] = s
      /\ \A i \in 1..Len(idle) : idle'[i] = idle[i]
  BY <1>1
<1> QED
  BY <1>1, <1>2 DEF Elems

LEMMA ElemsSame ==
    ASSUME UNCHANGED idle PROVE UNCHANGED Elems(idle)
BY DEF Elems

LEMMA QuietSessions ==
    ASSUME SessionInv, NEW c \in Caller, Quiet(c)
    PROVE  SessionsPlaced' /\ SessionsExclusive'
<1>0. UNCHANGED idle
  BY QuietSteps DEF SessionInv
<1> USE DEF SessionInv, PoolInv, TypeOK, ClientHeld, SessionsPlaced, SessionsExclusive,
            CallerState, HasClient, poolVars, Go
<1>1. CASE DeadlineElapses(c)
  BY <1>0, <1>1, ElemsSame DEF DeadlineElapses
<1>2. CASE ResetSession(c)
  BY <1>0, <1>2, ElemsSame DEF ResetSession
<1>3. CASE ResetFails(c)
  BY <1>0, <1>3, ElemsSame, PoolAssumption DEF ResetFails, AfterFailedReset, DropClient
<1>4. CASE Connect(c)
  <2>1. PICK s \in Session \ open : /\ client' = [client EXCEPT ![c] = s]
                                    /\ open' = open \cup {s} /\ tainted' = tainted \ {s}
    BY <1>4 DEF Connect
  <2> QED
    BY <1>0, <1>4, <2>1, ElemsSame, PoolAssumption DEF Connect
<1>5. CASE ConnectFails(c)
  BY <1>0, <1>5, ElemsSame DEF ConnectFails
<1>6. CASE PrepareSession(c)
  BY <1>0, <1>6, ElemsSame, PoolAssumption DEF PrepareSession
<1>7. CASE PrepareFails(c)
  BY <1>0, <1>7, ElemsSame, PoolAssumption DEF PrepareFails, DropClient
<1>8. CASE OperationReuses(c)
  BY <1>0, <1>8, ElemsSame DEF OperationReuses
<1>9. CASE OperationEvicts(c)
  BY <1>0, <1>9, ElemsSame, PoolAssumption DEF OperationEvicts
<1>10. CASE CloseConnection(c)
  BY <1>0, <1>10, ElemsSame, PoolAssumption DEF CloseConnection, DropClient
<1> QED
  BY <1>1, <1>2, <1>3, <1>4, <1>5, <1>6, <1>7, <1>8, <1>9, <1>10 DEF Quiet

LEMMA WaitSessions ==
    ASSUME SessionInv, NEW c \in Caller, Waits(c) \/ AcquireSlot(c)
    PROVE  SessionsPlaced' /\ SessionsExclusive'
<1>1. /\ UNCHANGED <<idle, closed, client, open, tainted, discarded>>
      /\ \A d \in Caller \ {c} : pc'[d] = pc[d]
      /\ pc[c] \notin HasClient /\ pc'[c] \notin HasClient
  BY DEF SessionInv, PoolInv, TypeOK, HasClient, Waits, BeginCheckout, AcquireClosed,
         AcquireTimeout, AcquireWait, WaitTimeout, SpuriousWakeup, AcquireSlot, poolVars, Go
<1> QED
  BY <1>1, ElemsSame DEF SessionInv, SessionsPlaced, SessionsExclusive, HasClient

LEMMA PopSessions ==
    ASSUME SessionInv, NEW c \in Caller, AcquireIdle(c)
    PROVE  SessionsPlaced' /\ SessionsExclusive'
<1>1. /\ idle' = SubSeq(idle, 1, Len(idle) - 1) /\ idle # <<>> /\ idle \in Seq(Session)
      /\ client' = [client EXCEPT ![c] = idle[Len(idle)]]
      /\ pc' = [pc EXCEPT ![c] = "reset"] /\ pc[c] = "acquire" /\ ~closed
      /\ UNCHANGED <<closed, open, tainted, discarded>>
  BY DEF AcquireIdle, Go, SessionInv, PoolInv, TypeOK
<1>2. \A i, j \in DOMAIN idle : i # j => idle[i] # idle[j]
  BY DEF SessionInv, SessionsExclusive
<1> DEFINE top == idle[Len(idle)]
<1>3. /\ Elems(idle)' = Elems(idle) \ {top} /\ top \in Elems(idle)
      /\ (\A i, j \in DOMAIN idle : i # j => idle[i] # idle[j])'
  BY <1>1, <1>2, PopElems
<1>4. client' = [client EXCEPT ![c] = top]
  BY <1>1
<1> HIDE DEF top
<1>5. client \in [Caller -> Session \cup {NoSession}] /\ pc \in [Caller -> CallerState]
  BY DEF SessionInv, PoolInv, TypeOK
<1>6. top \in open \ tainted /\ top \notin discarded /\ \A d \in Caller : client[d] # top
  BY <1>1, <1>3 DEF SessionInv, SessionsExclusive, SessionsPlaced
<1>7. client[c] = NoSession
  BY <1>1 DEF SessionInv, SessionsPlaced, HasClient
<1>8. /\ client'[c] = top /\ pc'[c] = "reset"
      /\ \A d \in Caller \ {c} : client'[d] = client[d] /\ pc'[d] = pc[d]
  BY <1>1, <1>4, <1>5
<1>9. NoSession \notin open
  BY PoolAssumption DEF SessionInv, PoolInv, TypeOK
<1>10. SessionsPlaced'
  <2>1. (\A s \in open : (\E d \in Caller : client[d] = s) \/ s \in Elems(idle) \cup discarded)'
    BY <1>1, <1>3, <1>7, <1>8, <1>9 DEF SessionInv, SessionsPlaced
  <2> QED
    BY <1>1, <1>6, <1>8, <2>1 DEF SessionInv, SessionsPlaced, HasClient
<1>11. SessionsExclusive'
  <2>1. (\A d \in Caller : /\ client[d] \notin Elems(idle) \cup discarded
                           /\ pc[d] \in {"reset", "using", "return"} => client[d] \in open \ tainted)'
    BY <1>1, <1>3, <1>6, <1>8 DEF SessionInv, SessionsExclusive
  <2>2. (\A d, e \in Caller : d # e /\ client[d] = client[e] => client[d] = NoSession)'
    BY <1>6, <1>8 DEF SessionInv, SessionsExclusive
  <2>3. (Elems(idle) \subseteq open \ tainted)'
    BY <1>1, <1>3 DEF SessionInv, SessionsExclusive
  <2> QED
    BY <1>3, <2>1, <2>2, <2>3 DEF SessionsExclusive
<1> QED
  BY <1>10, <1>11

LEMMA FreeSessions ==
    ASSUME SessionInv, NEW c \in Caller, Frees(c)
    PROVE  SessionsPlaced' /\ SessionsExclusive'
<1> USE DEF SessionInv, PoolInv
<1>1. pc \in [Caller -> CallerState] /\ client \in [Caller -> Session \cup {NoSession}]
  BY DEF TypeOK
<1>2. CASE ReleaseAfterReset(c) \/ ReleaseAfterConnect(c) \/ DropEvicts(c)
  <2>1. UNCHANGED <<idle, closed, client, open, tainted, discarded>>
    BY <1>2 DEF ReleaseAfterReset, ReleaseAfterConnect, DropEvicts
  <2>2. PICK state \in {"closing", "idle", "acquire"} :
           /\ GoAndNotifyOne(c, state) /\ pc[c] # "asleep"
           /\ state # "closing" => pc[c] \in {"retry", "fail"}
    BY <1>2 DEF ReleaseAfterReset, ReleaseAfterConnect, DropEvicts, AfterRelease
  <2>3. /\ pc'[c] = state
        /\ \A d \in Caller \ {c} :
              pc'[d] = pc[d] \/ (pc[d] = "asleep" /\ pc'[d] = "acquire")
    BY <1>1, <2>2, NotifyMoves DEF CallerState
  <2>4. \A d \in Caller : client[d] # NoSession => pc'[d] \in HasClient
    BY <2>2, <2>3 DEF SessionsPlaced, HasClient
  <2>5. \A d \in Caller : pc'[d] \in {"reset", "prepare", "using", "return"} => pc'[d] = pc[d]
    BY <2>2, <2>3
  <2> QED
    BY <2>1, <2>4, <2>5, ElemsSame DEF SessionsPlaced, SessionsExclusive
<1>3. CASE DropIntoPool(c)
  <2>1. /\ idle' = Append(idle, client[c]) /\ idle \in Seq(Session)
        /\ client' = [client EXCEPT ![c] = NoSession]
        /\ GoAndNotifyOne(c, "idle") /\ pc[c] = "return" /\ ~closed
        /\ UNCHANGED <<closed, open, tainted, discarded>>
    BY <1>3 DEF DropIntoPool, Recyclable, TypeOK
  <2>2. /\ client[c] \in Session /\ client[c] \notin Elems(idle)
        /\ \A i, j \in DOMAIN idle : i # j => idle[i] # idle[j]
    BY <2>1 DEF ClientHeld, SessionsExclusive
  <2>3. /\ Elems(idle)' = Elems(idle) \cup {client[c]}
        /\ (\A i, j \in DOMAIN idle : i # j => idle[i] # idle[j])'
    BY <2>1, <2>2, PushElems
  <2>4. /\ pc'[c] = "idle"
        /\ \A d \in Caller \ {c} :
              pc'[d] = pc[d] \/ (pc[d] = "asleep" /\ pc'[d] = "acquire")
    BY <1>1, <2>1, NotifyMoves DEF CallerState
  <2>5. SessionsPlaced'
    BY <1>1, <2>1, <2>2, <2>3, <2>4 DEF SessionsPlaced, HasClient
  <2>6. SessionsExclusive'
    <3>1. \A d \in Caller : /\ client'[d] \notin Elems(idle)' \cup discarded'
                            /\ pc'[d] \in {"reset", "using", "return"} =>
                                  client'[d] \in open' \ tainted'
      BY <1>1, <2>1, <2>2, <2>3, <2>4, PoolAssumption DEF SessionsExclusive, TypeOK, Elems
    <3> QED
      BY <1>1, <2>1, <2>2, <2>3, <3>1 DEF SessionsExclusive
  <2> QED
    BY <2>5, <2>6
<1> QED
  BY <1>2, <1>3 DEF Frees

LEMMA CloseSessions ==
    ASSUME SessionInv, Close
    PROVE  SessionsPlaced' /\ SessionsExclusive'
<1>1. idle' = <<>> /\ Elems(idle)' = {} /\ DOMAIN idle' = {}
  BY DEF Close, Elems
<1>2. \A c \in Caller : /\ pc'[c] = pc[c] \/ (pc[c] = "asleep" /\ pc'[c] = "acquire")
  BY DEF Close, NotifyAll
<1> QED
  BY <1>1, <1>2 DEF Close, SessionInv, SessionsPlaced, SessionsExclusive, HasClient

LEMMA SessionInvStep ==
    ASSUME SessionInv, [Next]_vars
    PROVE  SessionInv'
<1>1. PoolInv'
  BY PoolInvStep DEF SessionInv
<1>2. CASE Close
  BY <1>1, <1>2, CloseSessions DEF SessionInv
<1>3. CASE DropDiscarded
  <2>1. UNCHANGED Elems(idle)
    BY <1>3, ElemsSame DEF DropDiscarded, poolVars
  <2>2. Elems(idle) \cap discarded = {}
    BY DEF SessionInv, SessionsPlaced, Elems
  <2> QED
    BY <1>1, <1>3, <2>1, <2>2
    DEF DropDiscarded, SessionInv, SessionsPlaced, SessionsExclusive, poolVars, HasClient
<1>4. ASSUME NEW c \in Caller, Quiet(c) PROVE SessionInv'
  BY <1>1, <1>4, QuietSessions DEF SessionInv
<1>5. ASSUME NEW c \in Caller, Waits(c) PROVE SessionInv'
  BY <1>1, <1>5, WaitSessions DEF SessionInv
<1>6. ASSUME NEW c \in Caller, AcquireIdle(c) \/ AcquireSlot(c) PROVE SessionInv'
  BY <1>1, <1>6, WaitSessions, PopSessions DEF SessionInv
<1>7. ASSUME NEW c \in Caller, Frees(c) PROVE SessionInv'
  BY <1>1, <1>7, FreeSessions DEF SessionInv
<1>8. CASE UNCHANGED vars
  <2>1. UNCHANGED Elems(idle)
    BY <1>8, ElemsSame DEF vars, poolVars
  <2> QED
    BY <1>1, <1>8, <2>1 DEF vars, poolVars, SessionInv, SessionsPlaced, SessionsExclusive
<1> QED
  BY <1>2, <1>3, <1>4, <1>5, <1>6, <1>7, <1>8, CallerSteps DEF Next

LEMMA SessionInvInit ==
    ASSUME Init PROVE SessionInv
<1>1. Elems(idle) = {} /\ DOMAIN idle = {}
  BY DEF Init, Elems
<1> QED
  BY <1>1, PoolInvInit DEF Init, SessionInv, SessionsPlaced, SessionsExclusive

\* For any number of callers, slots and connections, a session is idle, in one
\* caller's hands or discarded, never in two places, and a session whose
\* operation failed or panicked is not used again.
THEOREM SessionsNeverShared == Spec => []SessionsExclusive
<1>1. Init => SessionInv
  BY SessionInvInit
<1>2. SessionInv /\ [Next]_vars => SessionInv'
  BY SessionInvStep
<1>3. SessionInv => SessionsExclusive
  BY DEF SessionInv
<1> QED
  BY <1>1, <1>2, <1>3, PTL DEF Spec

\* The sessions in the hands of a set of callers are no more than the callers.
LEMMA ClientsCounted ==
    ASSUME NEW S, S \subseteq Caller
    PROVE  /\ IsFiniteSet({client[c] : c \in S})
           /\ Cardinality({client[c] : c \in S}) <= Cardinality(S)
<1> DEFINE hands == [c \in S |-> client[c]]
<1>1. hands \in Surjection(S, {client[c] : c \in S})
  BY DEF Surjection
<1>2. IsFiniteSet(S)
  BY CallersFinite
<1> QED
  BY <1>1, <1>2, FS_Surjection

\* The idle sessions are no more than the stack is high.
LEMMA IdleCounted ==
    ASSUME idle \in Seq(Session)
    PROVE  IsFiniteSet(Elems(idle)) /\ Cardinality(Elems(idle)) <= Len(idle)
<1>1. Len(idle) \in Nat /\ DOMAIN idle = 1..Len(idle)
  BY LenProperties
<1>2. idle \in [1..Len(idle) -> Elems(idle)]
  BY <1>1, LenProperties DEF Elems
<1>3. idle \in Surjection(1..Len(idle), Elems(idle))
  BY <1>1, <1>2 DEF Surjection, Elems
<1>4. IsFiniteSet(1..Len(idle)) /\ Cardinality(1..Len(idle)) = Len(idle)
  BY <1>1, FS_Interval
<1> QED
  BY <1>3, <1>4, FS_Surjection

LEMMA UnionBound ==
    ASSUME NEW S, NEW T, IsFiniteSet(S), IsFiniteSet(T)
    PROVE  /\ IsFiniteSet(S \cup T)
           /\ Cardinality(S \cup T) <= Cardinality(S) + Cardinality(T)
<1>1. IsFiniteSet(S \cap T)
  BY FS_Intersection
<1>2. Cardinality(S \cap T) \in Nat /\ Cardinality(S) \in Nat /\ Cardinality(T) \in Nat
  BY <1>1, FS_CardinalityType
<1>3. /\ IsFiniteSet(S \cup T)
      /\ Cardinality(S \cup T) = Cardinality(S) + Cardinality(T) - Cardinality(S \cap T)
  BY FS_Union
<1> QED
  BY <1>2, <1>3

\* For any number of callers and slots, the connections beyond max_size are
\* those of sessions that a caller or close is about to drop.
THEOREM ConnectionsBounded == Spec => []ConnectionBound
<1>1. SessionInv => ConnectionBound
  <2> SUFFICES ASSUME SessionInv PROVE ConnectionBound
    OBVIOUS
  <2> DEFINE Busy == Holders \cup In({"closing"})
             Clients == {client[c] : c \in Busy}
  <2>1. Busy \subseteq Caller /\ In({"closing"}) \subseteq Caller
    BY DEF Holders, In
  <2>2. /\ IsFiniteSet(Clients) /\ Cardinality(Clients) <= Cardinality(Busy)
        /\ IsFiniteSet(Elems(idle)) /\ Cardinality(Elems(idle)) <= Len(idle)
    BY <2>1, ClientsCounted, IdleCounted DEF SessionInv, PoolInv, TypeOK
  <2>3. IsFiniteSet(discarded)
    BY FS_Subset, PoolAssumption DEF SessionInv, PoolInv, TypeOK
  <2>4. open \subseteq (Clients \cup Elems(idle)) \cup discarded
    <3>1. ASSUME NEW s \in open, NEW c \in Caller, client[c] = s PROVE s \in Clients
      <4>1. s # NoSession
        BY PoolAssumption DEF SessionInv, PoolInv, TypeOK
      <4>2. pc[c] \in HasClient
        BY <3>1, <4>1 DEF SessionInv, SessionsPlaced
      <4>3. c \in Busy
        BY <4>2 DEF HasClient, Holders, In, HoldsSlot
      <4> QED
        BY <3>1, <4>3
    <3> QED
      BY <3>1 DEF SessionInv, SessionsPlaced
  <2> HIDE DEF Clients
  <2>5. /\ IsFiniteSet(Clients \cup Elems(idle))
        /\ Cardinality(Clients \cup Elems(idle)) <= Cardinality(Clients) + Cardinality(Elems(idle))
    BY <2>2, UnionBound
  <2>6. /\ IsFiniteSet((Clients \cup Elems(idle)) \cup discarded)
        /\ Cardinality((Clients \cup Elems(idle)) \cup discarded) <=
              Cardinality(Clients \cup Elems(idle)) + Cardinality(discarded)
    BY <2>3, <2>5, UnionBound
  <2>7. Cardinality(open) <= Cardinality((Clients \cup Elems(idle)) \cup discarded)
    BY <2>4, <2>6, FS_Subset
  <2>8. Cardinality(Busy) <= Cardinality(Holders) + Cardinality(In({"closing"}))
    BY <2>1, CallersFinite, HoldersAreCallers, UnionBound
  <2>9. /\ Cardinality(open) \in Nat /\ Cardinality(Clients) \in Nat
        /\ Cardinality(Elems(idle)) \in Nat /\ Cardinality(discarded) \in Nat
        /\ Cardinality(Busy) \in Nat /\ Cardinality(Holders) \in Nat
        /\ Cardinality(In({"closing"})) \in Nat
        /\ Cardinality(Clients \cup Elems(idle)) \in Nat
        /\ Cardinality((Clients \cup Elems(idle)) \cup discarded) \in Nat
    BY <2>1, <2>2, <2>3, <2>4, <2>5, <2>6, FS_Subset, FS_CardinalityType, CallersFinite,
       HoldersAreCallers
  <2>10. Len(idle) + Cardinality(Holders) <= MaxSize /\ MaxSize \in Nat /\ Len(idle) \in Nat
    BY LenProperties, PoolAssumption DEF SessionInv, PoolInv, TypeOK, SlotsExact
  <2> HIDE DEF Busy
  <2> QED
    BY <2>2, <2>5, <2>6, <2>7, <2>8, <2>9, <2>10 DEF ConnectionBound
<1>2. Init => SessionInv
  BY SessionInvInit
<1>3. SessionInv /\ [Next]_vars => SessionInv'
  BY SessionInvStep
<1> QED
  BY <1>1, <1>2, <1>3, PTL DEF Spec

=============================================================================
