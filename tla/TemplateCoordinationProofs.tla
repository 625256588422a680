---------------------- MODULE TemplateCoordinationProofs ----------------------
(***************************************************************************)
(* Proofs about TemplateCoordination for any sets of sessions, templates   *)
(* and harness runs, any parents, and any bounds of the clock and of the   *)
(* faults.                                                                 *)
(***************************************************************************)
EXTENDS TemplateCoordination, TLAPS

(***************************************************************************)
(* The inductive invariant.  The server's locks say where the sessions and *)
(* the sweep are; who holds a template's exclusive lock is alone with it;  *)
(* what a step has established under a lock is still so at the next.       *)
(***************************************************************************)

\* A session has a template in mind from the beginning of its attempt to the
\* end of its connection.
Goals == \A s \in Session : goal[s] # NoTemplate <=> pc[s] # "idle"

Sweeping == sweep_pc \in {"validate", "drop"}

\* Sessions hold the locks that their place in the code says, the sweep the
\* one of the template it looks at, and an exclusive lock excludes the others.
\* (Coordination locks make attempts end; what follows does not need them.)
Locks ==
    /\ \A s \in Session, t \in Template :
          /\ s \in shared[t] <=> goal[s] = t /\ pc[s] \in {"inspect", "handle"}
          /\ exclusive[t] = s <=> goal[s] = t /\ pc[s] \in Building
    /\ \A t \in Template :
          /\ exclusive[t] = Sweeper <=> Sweeping /\ current = t
          /\ exclusive[t] # NoSession => shared[t] = {}

\* What the catalog says of a template while a session builds it.
BuildTag(state) ==
    CASE state = "check" -> Tag
      [] state = "create" -> {"absent"}
      [] state = "tag" -> {"untagged"}
      [] state = "unlock" -> {"ready"}
      [] OTHER -> {"initializing"}

\* A build finds what its own steps did.
Builds ==
    \A s \in Session :
        /\ pc[s] \in Building => catalog[goal[s]].tag \in BuildTag(pc[s])
        /\ pc[s] \in {"disable", "terminate", "seal", "unlock"} => goal[s] \in built
        /\ pc[s] \in {"terminate", "seal", "unlock"} => goal[s] \in no_connect
        /\ pc[s] \in {"seal", "unlock"} => goal[s] \notin writers

\* Ready means sealed, and a handle's template is ready whether or not
\* anything still refers to the handle.
Readiness ==
    /\ \A t \in Template : IsReady(t) => Sealed(t)
    /\ \A s \in Session : pc[s] = "handle" => IsReady(goal[s])

\* Up to the copy, an attempt to derive keeps the handle of its parent; so
\* does a harness that copies a template.
Deriving(s) ==
    \/ pc[s] \in {"share", "inspect"} /\ phase[s] # 4
    \/ pc[s] \in {"coordinate", "exclude", "check", "drop", "create", "tag"}

Sources ==
    /\ \A s \in Session : Deriving(s) /\ Parent[goal[s]] # NoTemplate =>
          /\ source[s] \in Session /\ pc[source[s]] = "handle"
          /\ goal[source[s]] = Parent[goal[s]]
    /\ \A h \in Harness : alive[h] /\ test_pc[h] \in {"create", "tag"} =>
          test_source[h] \in Session /\ pc[test_source[h]] = "handle"

\* No metadata is from the future, and what the sweep has locked stays
\* unowned and, once looked at again, a candidate.
Sweeps ==
    /\ now <= clock /\ \A d \in Resource : catalog[d].at <= clock
    /\ Sweeping => current \in Resource /\ (current \in Harness => ~alive[current])
    /\ sweep_pc = "drop" => Candidate(catalog[current])

CoordinationInv ==
    TypeOK /\ Goals /\ Locks /\ Builds /\ Readiness /\ Sources /\ Sweeps

-----------------------------------------------------------------------------

\* Whatever is written to the catalog is a record with a time of the clock.
LEMMA RecordFacts ==
    ASSUME TypeOK
    PROVE  /\ Absent \in Record /\ \A tag \in Tag : Tagged(tag) \in Record
           /\ \A d \in Resource, tag \in Tag :
                 /\ Retagged(d, tag) \in Record
                 /\ Retagged(d, tag).tag = tag /\ Retagged(d, tag).at = catalog[d].at
<1>1. Absent \in Record /\ \A tag \in Tag : Tagged(tag) \in Record
  BY CoordinationAssumption DEF TypeOK, Record, Tag, Absent, Tagged
<1>2. ASSUME NEW d \in Resource, NEW tag \in Tag
      PROVE  /\ Retagged(d, tag) \in Record
             /\ Retagged(d, tag).tag = tag /\ Retagged(d, tag).at = catalog[d].at
  <2>1. catalog[d] \in Record
    BY DEF TypeOK
  <2> QED
    BY <2>1 DEF Record, Retagged
<1> QED
  BY <1>1, <1>2

\* The comment on a new database says what it is, and changes no other one.
LEMMA TagWritten ==
    ASSUME TypeOK, NEW d \in Resource, SetMetadata(d, Retagged(d, "initializing"))
    PROVE  /\ catalog'[d].tag = "initializing"
           /\ \A e \in Resource \ {d} : catalog'[e] = catalog[e]
<1>1. Retagged(d, "initializing").tag = "initializing"
  BY RecordFacts DEF Tag
<1> QED
  BY <1>1 DEF TypeOK, SetMetadata

\* An attempt begins with a goal and CloseSession forgets it.
LEMMA GoalsStep ==
    ASSUME CoordinationInv, Next
    PROVE  Goals'
<1> USE CoordinationAssumption DEF CoordinationInv, TypeOK, Goals, Go, serverVars, lockVars,
      sessionVars, harnessVars, sweepVars
<1>1. CASE \E s \in Session : WaitStep(s)
  BY <1>1 DEF WaitStep, LockShared, LockCoordination, LockExclusive, SharedFree, CoordinationFree,
             ExclusiveFree
<1>2. CASE \E s \in Session : InspectReady(s) \/ InspectNotReady(s) \/ CheckExisting(s)
  BY <1>2 DEF InspectReady, InspectNotReady, CheckExisting, CloseSession, ReleaseAll, IsReady
<1>3. CASE \E s \in Session : DropInterrupted(s) \/ CreateTemplate(s) \/ TagTemplate(s)
  BY <1>3 DEF DropInterrupted, CreateTemplate, TagTemplate, DropDatabase, SetMetadata, Tagged,
             CloseSession, ReleaseAll
<1>4. CASE \E s \in Session : RunInitializer(s) \/ Abort(s) \/ DisableConnections(s)
  BY <1>4 DEF RunInitializer, AfterInitializer, Abort, DropDatabase, CloseSession, ReleaseAll,
             DisableConnections
<1>5. CASE \E s \in Session : TerminateConnections(s) \/ SealTemplate(s) \/ UnlockSealed(s)
  BY <1>5 DEF TerminateConnections, SealTemplate, UnlockSealed, SetMetadata, Tagged
<1>6. CASE \E s \in Session : CloseHandle(s) \/ Fault(s) \/ DropHandle(s)
  BY <1>6 DEF CloseHandle, Fault, DropHandle, Referenced, CloseSession, ReleaseAll
<1>7. CASE \E s \in Session, t \in Template : BeginTemplate(s, t)
  BY <1>7 DEF BeginTemplate
<1>8. CASE \E h \in Harness : HarnessStep(h) \/ \E s \in Session : BeginCopy(h, s)
  BY <1>8 DEF HarnessStep, BeginCopy, CreateCopy, TagCopy, DropCopy, CopyFails, HarnessDies,
             DropDatabase, SetMetadata, Tagged
<1>9. CASE SweepList \/ SweepReadClock \/ \E d \in Resource : SweepSkip(d) \/ SweepLock(d)
  BY <1>9 DEF SweepList, SweepReadClock, SweepSkip, SweepLock, TryLock, ExclusiveFree
<1>10. CASE SweepValidate \/ SweepDrop \/ SweepEnd
  BY <1>10 DEF SweepValidate, SweepDrop, SweepEnd, SweepUnlock, DropDatabase, Unchanged
<1>11. CASE Tick \/ \E t \in Template : Connect(t) \/ Disconnect(t)
  BY <1>11 DEF Tick, Connect, Disconnect
<1> QED
  BY <1>1, <1>2, <1>3, <1>4, <1>5, <1>6, <1>7, <1>8, <1>9, <1>10, <1>11
  DEF Next, RunStep, SweepStep

\* Locks are taken only where they are free, and are given up by who has them.
LEMMA LocksStep ==
    ASSUME CoordinationInv, Next
    PROVE  Locks'
<1> USE CoordinationAssumption DEF CoordinationInv, TypeOK, Goals, Locks, Building,
      Sweeping, Resource, Go, serverVars, lockVars, sessionVars, harnessVars, sweepVars
<1>1. CASE \E s \in Session : WaitStep(s)
  <2>0. PICK s \in Session : WaitStep(s)
    BY <1>1
  <2>1. CASE LockShared(s)
    BY <2>1 DEF LockShared, SharedFree
  <2>2. CASE LockCoordination(s)
    BY <2>2 DEF LockCoordination
  <2>3. CASE LockExclusive(s)
    BY <2>3 DEF LockExclusive, ExclusiveFree
  <2> QED
    BY <2>0, <2>1, <2>2, <2>3 DEF WaitStep
<1>2. CASE \E s \in Session : InspectReady(s) \/ InspectNotReady(s) \/ CheckExisting(s)
  <2>0. PICK s \in Session : InspectReady(s) \/ InspectNotReady(s) \/ CheckExisting(s)
    BY <1>2
  <2>1. CASE InspectReady(s)
    BY <2>1 DEF InspectReady, IsReady
  <2>2. CASE InspectNotReady(s)
    BY <2>2 DEF InspectNotReady, CloseSession, ReleaseAll, IsReady
  <2>3. CASE CheckExisting(s)
    BY <2>3 DEF CheckExisting, CloseSession, ReleaseAll
  <2> QED
    BY <2>0, <2>1, <2>2, <2>3
<1>3. CASE \E s \in Session : DropInterrupted(s) \/ CreateTemplate(s) \/ TagTemplate(s)
  <2>0. PICK s \in Session : DropInterrupted(s) \/ CreateTemplate(s) \/ TagTemplate(s)
    BY <1>3
  <2>1. CASE DropInterrupted(s)
    BY <2>1 DEF DropInterrupted
  <2>2. CASE CreateTemplate(s)
    BY <2>2 DEF CreateTemplate
  <2>3. CASE TagTemplate(s)
    BY <2>3 DEF TagTemplate, CloseSession, ReleaseAll
  <2> QED
    BY <2>0, <2>1, <2>2, <2>3
<1>4. CASE \E s \in Session : RunInitializer(s) \/ Abort(s) \/ DisableConnections(s)
  <2>0. PICK s \in Session : RunInitializer(s) \/ Abort(s) \/ DisableConnections(s)
    BY <1>4
  <2>1. CASE RunInitializer(s)
    BY <2>1 DEF RunInitializer, AfterInitializer
  <2>2. CASE Abort(s)
    BY <2>2 DEF Abort, CloseSession, ReleaseAll
  <2>3. CASE DisableConnections(s)
    BY <2>3 DEF DisableConnections
  <2> QED
    BY <2>0, <2>1, <2>2, <2>3
<1>5. CASE \E s \in Session : TerminateConnections(s) \/ SealTemplate(s) \/ UnlockSealed(s)
  BY <1>5 DEF TerminateConnections, SealTemplate, UnlockSealed, SetMetadata, Tagged
<1>6. CASE \E s \in Session : CloseHandle(s) \/ Fault(s) \/ DropHandle(s)
  <2>0. PICK s \in Session : CloseHandle(s) \/ Fault(s) \/ DropHandle(s)
    BY <1>6
  <2>1. CASE CloseHandle(s)
    BY <2>1 DEF CloseHandle, Referenced, CloseSession, ReleaseAll
  <2>2. CASE Fault(s)
    BY <2>2 DEF Fault, CloseSession, ReleaseAll
  <2>3. CASE DropHandle(s)
    BY <2>3 DEF DropHandle
  <2> QED
    BY <2>0, <2>1, <2>2, <2>3
<1>7. CASE \E s \in Session, t \in Template : BeginTemplate(s, t)
  BY <1>7 DEF BeginTemplate
<1>8. CASE \E h \in Harness : HarnessStep(h) \/ \E s \in Session : BeginCopy(h, s)
  BY <1>8 DEF HarnessStep, BeginCopy, CreateCopy, TagCopy, DropCopy, CopyFails, HarnessDies,
             DropDatabase, SetMetadata, Tagged
<1>9. CASE SweepList \/ SweepReadClock \/ \E d \in Resource : SweepSkip(d) \/ SweepLock(d)
  BY <1>9 DEF SweepList, SweepReadClock, SweepSkip, SweepLock, TryLock, ExclusiveFree
<1>10. CASE SweepValidate \/ SweepDrop \/ SweepEnd
  BY <1>10 DEF SweepValidate, SweepDrop, SweepEnd, SweepUnlock, DropDatabase, Unchanged
<1>11. CASE Tick \/ \E t \in Template : Connect(t) \/ Disconnect(t)
  BY <1>11 DEF Tick, Connect, Disconnect
<1> QED
  BY <1>1, <1>2, <1>3, <1>4, <1>5, <1>6, <1>7, <1>8, <1>9, <1>10, <1>11
  DEF Next, RunStep, SweepStep

\* What a build finds is changed by that build alone: every other statement
\* that changes a template is made under its exclusive lock, or on a test
\* database.
LEMMA BuildsStep ==
    ASSUME CoordinationInv, Next
    PROVE  Builds'
<1>0. ASSUME NEW s \in Session, TagTemplate(s),
             SetMetadata(goal[s], Retagged(goal[s], "initializing"))
      PROVE  /\ catalog'[goal[s]].tag = "initializing"
             /\ \A t \in Template \ {goal[s]} : catalog'[t] = catalog[t]
  <2>1. goal[s] \in Template
    BY <1>0 DEF TagTemplate, CoordinationInv, TypeOK, Goals
  <2> QED
    BY <1>0, <2>1, TagWritten DEF CoordinationInv, Resource
<1> USE CoordinationAssumption DEF CoordinationInv, TypeOK, Record, Goals, Locks, Builds,
      BuildTag, Building, Sweeping, Resource, Absent, Go, serverVars, lockVars, sessionVars,
      harnessVars, sweepVars
<1>1. CASE \E s \in Session : WaitStep(s)
  BY <1>1 DEF WaitStep, LockShared, LockCoordination, LockExclusive, SharedFree, CoordinationFree,
             ExclusiveFree
<1>2. CASE \E s \in Session : InspectReady(s) \/ InspectNotReady(s) \/ CheckExisting(s)
  <2>0. PICK s \in Session : InspectReady(s) \/ InspectNotReady(s) \/ CheckExisting(s)
    BY <1>2
  <2>1. CASE InspectReady(s)
    BY <2>1 DEF InspectReady, IsReady
  <2>2. CASE InspectNotReady(s)
    BY <2>2 DEF InspectNotReady, CloseSession, ReleaseAll, IsReady
  <2>3. CASE CheckExisting(s)
    BY <2>3 DEF CheckExisting, CloseSession, ReleaseAll
  <2> QED
    BY <2>0, <2>1, <2>2, <2>3
<1>3. CASE \E s \in Session : DropInterrupted(s) \/ CreateTemplate(s) \/ TagTemplate(s)
  <2>0. PICK s \in Session : DropInterrupted(s) \/ CreateTemplate(s) \/ TagTemplate(s)
    BY <1>3
  <2>1. CASE DropInterrupted(s) \/ CreateTemplate(s)
    BY <2>1 DEF DropInterrupted, CreateTemplate, DropDatabase, Tagged
  <2>2. CASE TagTemplate(s) /\ SetMetadata(goal[s], Retagged(goal[s], "initializing"))
             /\ Go(s, "initialize")
    <3>1. /\ catalog'[goal[s]].tag = "initializing"
          /\ \A t \in Template \ {goal[s]} : catalog'[t] = catalog[t]
      BY <1>0, <2>2
    <3>2. pc[s] = "tag" /\ UNCHANGED <<built, no_connect, writers, goal>>
      BY <2>2 DEF TagTemplate, CloseSession
    <3> QED
      BY <2>2, <3>1, <3>2
  <2>3. CASE TagTemplate(s) /\ DropDatabase(goal[s]) /\ CloseSession(s)
    BY <2>3 DEF TagTemplate, DropDatabase, CloseSession, ReleaseAll
  <2> QED
    BY <2>0, <2>1, <2>2, <2>3 DEF TagTemplate
<1>4. CASE \E s \in Session : RunInitializer(s) \/ Abort(s) \/ DisableConnections(s)
  <2>0. PICK s \in Session : RunInitializer(s) \/ Abort(s) \/ DisableConnections(s)
    BY <1>4
  <2>1. CASE RunInitializer(s)
    BY <2>1 DEF RunInitializer, AfterInitializer
  <2>2. CASE Abort(s)
    BY <2>2 DEF Abort, DropDatabase, CloseSession, ReleaseAll
  <2>3. CASE DisableConnections(s)
    BY <2>3 DEF DisableConnections
  <2> QED
    BY <2>0, <2>1, <2>2, <2>3
<1>5. CASE \E s \in Session : TerminateConnections(s) \/ SealTemplate(s) \/ UnlockSealed(s)
  BY <1>5 DEF TerminateConnections, SealTemplate, UnlockSealed, SetMetadata, Tagged
<1>6. CASE \E s \in Session : CloseHandle(s) \/ Fault(s) \/ DropHandle(s)
  <2>0. PICK s \in Session : CloseHandle(s) \/ Fault(s) \/ DropHandle(s)
    BY <1>6
  <2>1. CASE CloseHandle(s)
    BY <2>1 DEF CloseHandle, Referenced, CloseSession, ReleaseAll
  <2>2. CASE Fault(s)
    BY <2>2 DEF Fault, CloseSession, ReleaseAll
  <2>3. CASE DropHandle(s)
    BY <2>3 DEF DropHandle
  <2> QED
    BY <2>0, <2>1, <2>2, <2>3
<1>7. CASE \E s \in Session, t \in Template : BeginTemplate(s, t)
  BY <1>7 DEF BeginTemplate
<1>8. CASE \E h \in Harness : HarnessStep(h) \/ \E s \in Session : BeginCopy(h, s)
  BY <1>8 DEF HarnessStep, BeginCopy, CreateCopy, TagCopy, DropCopy, CopyFails, HarnessDies,
             DropDatabase, SetMetadata, Tagged
<1>9. CASE SweepList \/ SweepReadClock \/ \E d \in Resource : SweepSkip(d) \/ SweepLock(d)
  BY <1>9 DEF SweepList, SweepReadClock, SweepSkip, SweepLock, TryLock, ExclusiveFree
<1>10. CASE SweepValidate \/ SweepDrop \/ SweepEnd
  BY <1>10 DEF SweepValidate, SweepDrop, SweepEnd, SweepUnlock, DropDatabase, Unchanged
<1>11. CASE Tick \/ \E t \in Template : Connect(t) \/ Disconnect(t)
  BY <1>11 DEF Tick, Connect, Disconnect
<1> QED
  BY <1>1, <1>2, <1>3, <1>4, <1>5, <1>6, <1>7, <1>8, <1>9, <1>10, <1>11
  DEF Next, RunStep, SweepStep

\* The seal comes last; a template that anybody has a shared lock on, as every
\* handle does, is changed by nobody.
LEMMA ReadinessStep ==
    ASSUME CoordinationInv, Next
    PROVE  Readiness'
<1>0. ASSUME NEW s \in Session, TagTemplate(s),
             SetMetadata(goal[s], Retagged(goal[s], "initializing"))
      PROVE  /\ catalog'[goal[s]].tag = "initializing"
             /\ \A t \in Template \ {goal[s]} : catalog'[t] = catalog[t]
  <2>1. goal[s] \in Template
    BY <1>0 DEF TagTemplate, CoordinationInv, TypeOK, Goals
  <2> QED
    BY <1>0, <2>1, TagWritten DEF CoordinationInv, Resource
<1> USE CoordinationAssumption DEF CoordinationInv, TypeOK, Goals, Locks, Builds, BuildTag,
      Readiness, Sealed, IsReady, Building, Sweeping, Resource, Absent, Go, serverVars,
      lockVars, sessionVars, harnessVars, sweepVars
<1>1. CASE \E s \in Session : WaitStep(s)
  BY <1>1 DEF WaitStep, LockShared, LockCoordination, LockExclusive, SharedFree, CoordinationFree,
             ExclusiveFree
<1>2. CASE \E s \in Session : InspectReady(s) \/ InspectNotReady(s) \/ CheckExisting(s)
  BY <1>2 DEF InspectReady, InspectNotReady, CheckExisting, CloseSession, ReleaseAll, IsReady
<1>3. CASE \E s \in Session : DropInterrupted(s) \/ CreateTemplate(s) \/ TagTemplate(s)
  <2>0. PICK s \in Session : DropInterrupted(s) \/ CreateTemplate(s) \/ TagTemplate(s)
    BY <1>3
  <2>1. CASE DropInterrupted(s)
    BY <2>1 DEF DropInterrupted, DropDatabase
  <2>2. CASE CreateTemplate(s)
    BY <2>2 DEF CreateTemplate, Tagged
  <2>3. CASE TagTemplate(s)
    <3>1. CASE SetMetadata(goal[s], Retagged(goal[s], "initializing")) /\ Go(s, "initialize")
      <4>1. /\ catalog'[goal[s]].tag = "initializing"
            /\ \A t \in Template \ {goal[s]} : catalog'[t] = catalog[t]
        BY <1>0, <2>3, <3>1
      <4>2. pc[s] = "tag" /\ UNCHANGED <<built, no_connect, writers, goal>>
        BY <2>3, <3>1 DEF TagTemplate, CloseSession
      <4> QED
        BY <3>1, <4>1, <4>2
    <3>2. CASE DropDatabase(goal[s])
      BY <2>3, <3>2 DEF TagTemplate, DropDatabase, CloseSession
    <3> QED
      BY <2>3, <3>1, <3>2 DEF TagTemplate
  <2> QED
    BY <2>0, <2>1, <2>2, <2>3
<1>4. CASE \E s \in Session : RunInitializer(s) \/ Abort(s) \/ DisableConnections(s)
  <2>0. PICK s \in Session : RunInitializer(s) \/ Abort(s) \/ DisableConnections(s)
    BY <1>4
  <2>1. CASE RunInitializer(s)
    BY <2>1 DEF RunInitializer, AfterInitializer
  <2>2. CASE Abort(s)
    BY <2>2 DEF Abort, DropDatabase, CloseSession
  <2>3. CASE DisableConnections(s)
    BY <2>3 DEF DisableConnections
  <2> QED
    BY <2>0, <2>1, <2>2, <2>3
<1>5. CASE \E s \in Session : TerminateConnections(s) \/ SealTemplate(s) \/ UnlockSealed(s)
  BY <1>5 DEF TerminateConnections, SealTemplate, UnlockSealed, SetMetadata, Tagged
<1>6. CASE \E s \in Session : CloseHandle(s) \/ Fault(s) \/ DropHandle(s)
  <2>0. PICK s \in Session : CloseHandle(s) \/ Fault(s) \/ DropHandle(s)
    BY <1>6
  <2>1. CASE CloseHandle(s)
    BY <2>1 DEF CloseHandle, CloseSession
  <2>2. CASE Fault(s)
    BY <2>2 DEF Fault, CloseSession
  <2>3. CASE DropHandle(s)
    BY <2>3 DEF DropHandle
  <2> QED
    BY <2>0, <2>1, <2>2, <2>3
<1>7. CASE \E s \in Session, t \in Template : BeginTemplate(s, t)
  BY <1>7 DEF BeginTemplate
<1>8. CASE \E h \in Harness : HarnessStep(h) \/ \E s \in Session : BeginCopy(h, s)
  <2>0. PICK h \in Harness : HarnessStep(h) \/ \E s \in Session : BeginCopy(h, s)
    BY <1>8
  <2>1. CASE CreateCopy(h)
    BY <2>1 DEF CreateCopy, Tagged
  <2>2. CASE TagCopy(h)
    BY <2>2 DEF TagCopy, SetMetadata
  <2>3. CASE DropCopy(h)
    BY <2>3 DEF DropCopy, DropDatabase
  <2>4. CASE HarnessDies(h) \/ \E s \in Session : BeginCopy(h, s)
    BY <2>4 DEF HarnessDies, BeginCopy
  <2>5. CASE CopyFails(h)
    <3>1. CASE UNCHANGED serverVars
      BY <2>5, <3>1 DEF CopyFails
    <3>2. CASE DropDatabase(h)
      BY <2>5, <3>2 DEF CopyFails, DropDatabase
    <3> QED
      BY <2>5, <3>1, <3>2 DEF CopyFails
  <2> QED
    BY <2>0, <2>1, <2>2, <2>3, <2>4, <2>5 DEF HarnessStep
<1>9. CASE SweepList \/ SweepReadClock \/ \E d \in Resource : SweepSkip(d) \/ SweepLock(d)
  BY <1>9 DEF SweepList, SweepReadClock, SweepSkip, SweepLock, TryLock, ExclusiveFree
<1>10. CASE SweepValidate \/ SweepDrop \/ SweepEnd
  BY <1>10 DEF SweepValidate, SweepDrop, SweepEnd, SweepUnlock, DropDatabase, Unchanged
<1>11. CASE Tick \/ \E t \in Template : Connect(t) \/ Disconnect(t)
  BY <1>11 DEF Tick, Connect, Disconnect
<1> QED
  BY <1>1, <1>2, <1>3, <1>4, <1>5, <1>6, <1>7, <1>8, <1>9, <1>10, <1>11
  DEF Next, RunStep, SweepStep

\* A handle is closed only when no copy in progress refers to it.
LEMMA SourcesStep ==
    ASSUME CoordinationInv, Next
    PROVE  Sources'
<1> USE CoordinationAssumption DEF CoordinationInv, TypeOK, Goals, Sources, Deriving, Go,
      serverVars, lockVars, sessionVars, harnessVars, sweepVars
<1>1. CASE \E s \in Session : WaitStep(s)
  BY <1>1 DEF WaitStep, LockShared, LockCoordination, LockExclusive, SharedFree, CoordinationFree,
             ExclusiveFree
<1>2. CASE \E s \in Session : InspectReady(s) \/ InspectNotReady(s) \/ CheckExisting(s)
  <2>0. PICK s \in Session : InspectReady(s) \/ InspectNotReady(s) \/ CheckExisting(s)
    BY <1>2
  <2>1. CASE InspectReady(s)
    BY <2>1 DEF InspectReady, IsReady
  <2>2. CASE InspectNotReady(s)
    BY <2>2 DEF InspectNotReady, CloseSession, IsReady
  <2>3. CASE CheckExisting(s)
    BY <2>3 DEF CheckExisting, CloseSession
  <2> QED
    BY <2>0, <2>1, <2>2, <2>3
<1>3. CASE \E s \in Session : DropInterrupted(s) \/ CreateTemplate(s) \/ TagTemplate(s)
  <2>0. PICK s \in Session : DropInterrupted(s) \/ CreateTemplate(s) \/ TagTemplate(s)
    BY <1>3
  <2>1. CASE DropInterrupted(s)
    BY <2>1 DEF DropInterrupted
  <2>2. CASE CreateTemplate(s)
    BY <2>2 DEF CreateTemplate
  <2>3. CASE TagTemplate(s)
    BY <2>3 DEF TagTemplate, CloseSession
  <2> QED
    BY <2>0, <2>1, <2>2, <2>3
<1>4. CASE \E s \in Session : RunInitializer(s) \/ Abort(s) \/ DisableConnections(s)
  <2>0. PICK s \in Session : RunInitializer(s) \/ Abort(s) \/ DisableConnections(s)
    BY <1>4
  <2>1. CASE RunInitializer(s)
    BY <2>1 DEF RunInitializer, AfterInitializer
  <2>2. CASE Abort(s)
    BY <2>2 DEF Abort, CloseSession
  <2>3. CASE DisableConnections(s)
    BY <2>3 DEF DisableConnections
  <2> QED
    BY <2>0, <2>1, <2>2, <2>3
<1>5. CASE \E s \in Session : TerminateConnections(s) \/ SealTemplate(s) \/ UnlockSealed(s)
  BY <1>5 DEF TerminateConnections, SealTemplate, UnlockSealed, SetMetadata, Tagged
<1>6. CASE \E s \in Session : CloseHandle(s) \/ Fault(s) \/ DropHandle(s)
  <2>0. PICK s \in Session : CloseHandle(s) \/ Fault(s) \/ DropHandle(s)
    BY <1>6
  <2>1. CASE CloseHandle(s)
    BY <2>1 DEF CloseHandle, Referenced, CloseSession
  <2>2. CASE Fault(s)
    BY <2>2 DEF Fault, CloseSession
  <2>3. CASE DropHandle(s)
    BY <2>3 DEF DropHandle
  <2> QED
    BY <2>0, <2>1, <2>2, <2>3
<1>7. CASE \E s \in Session, t \in Template : BeginTemplate(s, t)
  BY <1>7 DEF BeginTemplate
<1>8. CASE \E h \in Harness : HarnessStep(h) \/ \E s \in Session : BeginCopy(h, s)
  BY <1>8 DEF HarnessStep, BeginCopy, CreateCopy, TagCopy, DropCopy, CopyFails, HarnessDies,
             DropDatabase, SetMetadata, Tagged
<1>9. CASE SweepList \/ SweepReadClock \/ \E d \in Resource : SweepSkip(d) \/ SweepLock(d)
  BY <1>9 DEF SweepList, SweepReadClock, SweepSkip, SweepLock, TryLock, ExclusiveFree
<1>10. CASE SweepValidate \/ SweepDrop \/ SweepEnd
  BY <1>10 DEF SweepValidate, SweepDrop, SweepEnd, SweepUnlock, DropDatabase, Unchanged
<1>11. CASE Tick \/ \E t \in Template : Connect(t) \/ Disconnect(t)
  BY <1>11 DEF Tick, Connect, Disconnect
<1> QED
  BY <1>1, <1>2, <1>3, <1>4, <1>5, <1>6, <1>7, <1>8, <1>9, <1>10, <1>11
  DEF Next, RunStep, SweepStep

\* Nobody touches what the sweep has locked, nor comes to life again.
LEMMA SweepsStep ==
    ASSUME CoordinationInv, Next
    PROVE  Sweeps'
<1> USE CoordinationAssumption DEF CoordinationInv, TypeOK, Goals, Locks, Sweeps, Candidate,
      Age, Building, Sweeping, Resource, Absent, Record, Go, serverVars, lockVars,
      sessionVars, harnessVars, sweepVars
<1>1. CASE \E s \in Session : WaitStep(s)
  BY <1>1 DEF WaitStep, LockShared, LockCoordination, LockExclusive, SharedFree, CoordinationFree,
             ExclusiveFree
<1>2. CASE \E s \in Session : InspectReady(s) \/ InspectNotReady(s) \/ CheckExisting(s)
  BY <1>2 DEF InspectReady, InspectNotReady, CheckExisting, CloseSession, ReleaseAll, IsReady
<1>3. CASE \E s \in Session : DropInterrupted(s) \/ CreateTemplate(s) \/ TagTemplate(s)
  <2>0. PICK s \in Session : DropInterrupted(s) \/ CreateTemplate(s) \/ TagTemplate(s)
    BY <1>3
  <2>1. CASE DropInterrupted(s)
    BY <2>1 DEF DropInterrupted, DropDatabase
  <2>2. CASE CreateTemplate(s)
    BY <2>2 DEF CreateTemplate, Tagged
  <2>3. CASE TagTemplate(s)
    <3>1. CASE SetMetadata(goal[s], Retagged(goal[s], "initializing"))
      BY <2>3, <3>1, RecordFacts DEF TagTemplate, SetMetadata, Tag
    <3>2. CASE DropDatabase(goal[s])
      BY <2>3, <3>2 DEF TagTemplate, DropDatabase
    <3> QED
      BY <2>3, <3>1, <3>2 DEF TagTemplate
  <2> QED
    BY <2>0, <2>1, <2>2, <2>3
<1>4. CASE \E s \in Session : RunInitializer(s) \/ Abort(s) \/ DisableConnections(s)
  <2>0. PICK s \in Session : RunInitializer(s) \/ Abort(s) \/ DisableConnections(s)
    BY <1>4
  <2>1. CASE RunInitializer(s)
    BY <2>1 DEF RunInitializer, AfterInitializer
  <2>2. CASE Abort(s)
    BY <2>2 DEF Abort, DropDatabase, CloseSession, ReleaseAll
  <2>3. CASE DisableConnections(s)
    BY <2>3 DEF DisableConnections
  <2> QED
    BY <2>0, <2>1, <2>2, <2>3
<1>5. CASE \E s \in Session : TerminateConnections(s) \/ SealTemplate(s) \/ UnlockSealed(s)
  <2>0. PICK s \in Session : TerminateConnections(s) \/ SealTemplate(s) \/ UnlockSealed(s)
    BY <1>5
  <2>1. CASE TerminateConnections(s)
    BY <2>1 DEF TerminateConnections
  <2>2. CASE SealTemplate(s)
    BY <2>2 DEF SealTemplate, SetMetadata, Tagged
  <2>3. CASE UnlockSealed(s)
    BY <2>3 DEF UnlockSealed
  <2> QED
    BY <2>0, <2>1, <2>2, <2>3
<1>6. CASE \E s \in Session : CloseHandle(s) \/ Fault(s) \/ DropHandle(s)
  BY <1>6 DEF CloseHandle, Fault, DropHandle, Referenced, CloseSession, ReleaseAll
<1>7. CASE \E s \in Session, t \in Template : BeginTemplate(s, t)
  BY <1>7 DEF BeginTemplate
<1>8. CASE \E h \in Harness : HarnessStep(h) \/ \E s \in Session : BeginCopy(h, s)
  <2>0. PICK h \in Harness : HarnessStep(h) \/ \E s \in Session : BeginCopy(h, s)
    BY <1>8
  <2>1. CASE CreateCopy(h)
    BY <2>1 DEF CreateCopy, Tagged
  <2>2. CASE TagCopy(h)
    BY <2>2, RecordFacts DEF TagCopy, SetMetadata, Tag
  <2>3. CASE DropCopy(h)
    BY <2>3 DEF DropCopy, DropDatabase
  <2>4. CASE HarnessDies(h)
    BY <2>4 DEF HarnessDies
  <2>5. CASE \E s \in Session : BeginCopy(h, s)
    BY <2>5 DEF BeginCopy
  <2>6. CASE CopyFails(h)
    <3>1. CASE UNCHANGED serverVars
      BY <2>6, <3>1 DEF CopyFails
    <3>2. CASE DropDatabase(h)
      BY <2>6, <3>2 DEF CopyFails, DropDatabase
    <3> QED
      BY <2>6, <3>1, <3>2 DEF CopyFails
  <2> QED
    BY <2>0, <2>1, <2>2, <2>3, <2>4, <2>5, <2>6 DEF HarnessStep
<1>9. CASE SweepList \/ SweepReadClock \/ \E d \in Resource : SweepSkip(d) \/ SweepLock(d)
  BY <1>9 DEF SweepList, SweepReadClock, SweepSkip, SweepLock, TryLock, ExclusiveFree
<1>10. CASE SweepValidate \/ SweepDrop \/ SweepEnd
  BY <1>10 DEF SweepValidate, SweepDrop, SweepEnd, SweepUnlock, DropDatabase, Unchanged
<1>11. CASE Tick \/ \E t \in Template : Connect(t) \/ Disconnect(t)
  BY <1>11 DEF Tick, Connect, Disconnect
<1> QED
  BY <1>1, <1>2, <1>3, <1>4, <1>5, <1>6, <1>7, <1>8, <1>9, <1>10, <1>11
  DEF Next, RunStep, SweepStep

-----------------------------------------------------------------------------
\* The type invariant, in parts.
ServerTyped ==
    /\ catalog \in [Resource -> Record]
    /\ built \subseteq Template /\ no_connect \subseteq Template /\ writers \subseteq Template
LocksTyped ==
    /\ shared \in [Template -> SUBSET Session]
    /\ exclusive \in [Template -> Session \cup {NoSession, Sweeper}]
    /\ coordination \in [Template -> Session \cup {NoSession}]
SessionsTyped ==
    /\ pc \in [Session -> SessionState] /\ phase \in [Session -> 1 .. 4]
    /\ goal \in [Session -> Template \cup {NoTemplate}]
    /\ source \in [Session -> Session \cup {NoSession}]
FlagsTyped == user \in [Session -> BOOLEAN] /\ alive \in [Harness -> BOOLEAN]
HarnessTyped ==
    /\ test_pc \in [Harness -> {"none", "create", "tag", "leased", "done"}]
    /\ test_source \in [Harness -> Session \cup {NoSession}]
SweepTyped ==
    /\ sweep_pc \in {"idle", "listed", "scan", "validate", "drop"}
    /\ snapshot \in [Resource -> Record] /\ todo \subseteq Resource
    /\ current \in Resource \cup {NoTemplate}
    /\ now \in 0 .. MaxClock /\ clock \in 0 .. MaxClock /\ faults \in 0 .. MaxFaults

\* The steps keep the types of what the server stores, ...
LEMMA ServerTypedStep ==
    ASSUME CoordinationInv, Next
    PROVE  ServerTyped'
<1>0. ASSUME NEW d \in Resource, NEW tag \in Tag, SetMetadata(d, Retagged(d, tag))
      PROVE  catalog' \in [Resource -> Record]
  BY <1>0, RecordFacts DEF CoordinationInv, TypeOK, SetMetadata
<1> USE CoordinationAssumption, RecordFacts DEF CoordinationInv, TypeOK, Goals, ServerTyped,
      Resource, Tag, Sweeps, Sweeping, Go, serverVars, lockVars, sessionVars, harnessVars,
      sweepVars
<1>1. CASE \E s \in Session : WaitStep(s)
  BY <1>1 DEF WaitStep, LockShared, LockCoordination, LockExclusive, SharedFree, CoordinationFree,
             ExclusiveFree
<1>2. CASE \E s \in Session : InspectReady(s) \/ InspectNotReady(s) \/ CheckExisting(s)
  BY <1>2 DEF InspectReady, InspectNotReady, CheckExisting, CloseSession, ReleaseAll, IsReady
<1>3. CASE \E s \in Session : DropInterrupted(s) \/ CreateTemplate(s) \/ TagTemplate(s)
  <2>0. PICK s \in Session : DropInterrupted(s) \/ CreateTemplate(s) \/ TagTemplate(s)
    BY <1>3
  <2>1. CASE DropInterrupted(s)
    BY <2>1 DEF DropInterrupted, DropDatabase
  <2>2. CASE CreateTemplate(s)
    BY <2>2 DEF CreateTemplate
  <2>3. CASE TagTemplate(s)
    <3>1. CASE SetMetadata(goal[s], Retagged(goal[s], "initializing"))
      <4>1. catalog' \in [Resource -> Record]
        <5>1. goal[s] \in Resource /\ "initializing" \in Tag
          BY <2>3 DEF TagTemplate
        <5> QED
          BY <1>0, <3>1, <5>1
      <4> QED
        BY <2>3, <4>1 DEF TagTemplate, DropDatabase
    <3>2. CASE DropDatabase(goal[s])
      BY <2>3, <3>2 DEF TagTemplate, DropDatabase
    <3> QED
      BY <2>3, <3>1, <3>2 DEF TagTemplate
  <2> QED
    BY <2>0, <2>1, <2>2, <2>3
<1>4. CASE \E s \in Session : RunInitializer(s) \/ Abort(s) \/ DisableConnections(s)
  <2>0. PICK s \in Session : RunInitializer(s) \/ Abort(s) \/ DisableConnections(s)
    BY <1>4
  <2>1. CASE RunInitializer(s)
    BY <2>1 DEF RunInitializer, AfterInitializer
  <2>2. CASE Abort(s)
    BY <2>2 DEF Abort, DropDatabase, CloseSession
  <2>3. CASE DisableConnections(s)
    BY <2>3 DEF DisableConnections
  <2> QED
    BY <2>0, <2>1, <2>2, <2>3
<1>5. CASE \E s \in Session : TerminateConnections(s) \/ SealTemplate(s) \/ UnlockSealed(s)
  <2>0. PICK s \in Session : TerminateConnections(s) \/ SealTemplate(s) \/ UnlockSealed(s)
    BY <1>5
  <2>1. CASE TerminateConnections(s)
    BY <2>1 DEF TerminateConnections
  <2>2. CASE SealTemplate(s)
    BY <2>2 DEF SealTemplate, SetMetadata
  <2>3. CASE UnlockSealed(s)
    BY <2>3 DEF UnlockSealed
  <2> QED
    BY <2>0, <2>1, <2>2, <2>3
<1>6. CASE \E s \in Session : CloseHandle(s) \/ Fault(s) \/ DropHandle(s)
  BY <1>6 DEF CloseHandle, Fault, DropHandle, Referenced, CloseSession, ReleaseAll
<1>7. CASE \E s \in Session, t \in Template : BeginTemplate(s, t)
  BY <1>7 DEF BeginTemplate
<1>8. CASE \E h \in Harness : HarnessStep(h) \/ \E s \in Session : BeginCopy(h, s)
  <2>0. PICK h \in Harness : HarnessStep(h) \/ \E s \in Session : BeginCopy(h, s)
    BY <1>8
  <2>1. CASE CreateCopy(h)
    BY <2>1 DEF CreateCopy
  <2>2. CASE TagCopy(h)
    BY <2>2 DEF TagCopy, SetMetadata
  <2>3. CASE DropCopy(h)
    BY <2>3 DEF DropCopy, DropDatabase
  <2>4. CASE HarnessDies(h)
    BY <2>4 DEF HarnessDies
  <2>5. CASE \E s \in Session : BeginCopy(h, s)
    BY <2>5 DEF BeginCopy
  <2>6. CASE CopyFails(h)
    <3>1. CASE UNCHANGED serverVars
      BY <2>6, <3>1 DEF CopyFails
    <3>2. CASE DropDatabase(h)
      BY <2>6, <3>2 DEF CopyFails, DropDatabase
    <3> QED
      BY <2>6, <3>1, <3>2 DEF CopyFails
  <2> QED
    BY <2>0, <2>1, <2>2, <2>3, <2>4, <2>5, <2>6 DEF HarnessStep
<1>9. CASE SweepList \/ SweepReadClock \/ \E d \in Resource : SweepSkip(d) \/ SweepLock(d)
  BY <1>9 DEF SweepList, SweepReadClock, SweepSkip, SweepLock, TryLock, ExclusiveFree
<1>10. CASE SweepValidate \/ SweepDrop \/ SweepEnd
  <2>1. CASE SweepDrop
    BY <2>1 DEF SweepDrop, DropDatabase
  <2>2. CASE SweepValidate \/ SweepEnd
    BY <2>2 DEF SweepValidate, SweepEnd, SweepUnlock
  <2> QED
    BY <1>10, <2>1, <2>2
<1>11. CASE Tick \/ \E t \in Template : Connect(t) \/ Disconnect(t)
  BY <1>11 DEF Tick, Connect, Disconnect
<1> QED
  BY <1>1, <1>2, <1>3, <1>4, <1>5, <1>6, <1>7, <1>8, <1>9, <1>10, <1>11
  DEF Next, RunStep, SweepStep

\* ... of its locks, ...
LEMMA LocksTypedStep ==
    ASSUME CoordinationInv, Next
    PROVE  LocksTyped'
<1> USE CoordinationAssumption DEF CoordinationInv, TypeOK, Goals, LocksTyped, Resource, Go,
      serverVars, lockVars, sessionVars, harnessVars, sweepVars
<1>1. CASE \E s \in Session : WaitStep(s)
  BY <1>1 DEF WaitStep, LockShared, LockCoordination, LockExclusive, SharedFree, CoordinationFree,
             ExclusiveFree
<1>2. CASE \E s \in Session : InspectReady(s) \/ InspectNotReady(s) \/ CheckExisting(s)
  BY <1>2 DEF InspectReady, InspectNotReady, CheckExisting, CloseSession, ReleaseAll, IsReady
<1>3. CASE \E s \in Session : DropInterrupted(s) \/ CreateTemplate(s) \/ TagTemplate(s)
  BY <1>3 DEF DropInterrupted, CreateTemplate, TagTemplate, DropDatabase, SetMetadata, Tagged,
             CloseSession, ReleaseAll
<1>4. CASE \E s \in Session : RunInitializer(s) \/ Abort(s) \/ DisableConnections(s)
  BY <1>4 DEF RunInitializer, AfterInitializer, Abort, DropDatabase, CloseSession, ReleaseAll,
             DisableConnections
<1>5. CASE \E s \in Session : TerminateConnections(s) \/ SealTemplate(s) \/ UnlockSealed(s)
  BY <1>5 DEF TerminateConnections, SealTemplate, UnlockSealed, SetMetadata, Tagged
<1>6. CASE \E s \in Session : CloseHandle(s) \/ Fault(s) \/ DropHandle(s)
  BY <1>6 DEF CloseHandle, Fault, DropHandle, Referenced, CloseSession, ReleaseAll
<1>7. CASE \E s \in Session, t \in Template : BeginTemplate(s, t)
  BY <1>7 DEF BeginTemplate
<1>8. CASE \E h \in Harness : HarnessStep(h) \/ \E s \in Session : BeginCopy(h, s)
  BY <1>8 DEF HarnessStep, BeginCopy, CreateCopy, TagCopy, DropCopy, CopyFails, HarnessDies,
             DropDatabase, SetMetadata, Tagged
<1>9. CASE SweepList \/ SweepReadClock \/ \E d \in Resource : SweepSkip(d) \/ SweepLock(d)
  BY <1>9 DEF SweepList, SweepReadClock, SweepSkip, SweepLock, TryLock, ExclusiveFree
<1>10. CASE SweepValidate \/ SweepDrop \/ SweepEnd
  BY <1>10 DEF SweepValidate, SweepDrop, SweepEnd, SweepUnlock, DropDatabase, Unchanged
<1>11. CASE Tick \/ \E t \in Template : Connect(t) \/ Disconnect(t)
  BY <1>11 DEF Tick, Connect, Disconnect
<1> QED
  BY <1>1, <1>2, <1>3, <1>4, <1>5, <1>6, <1>7, <1>8, <1>9, <1>10, <1>11
  DEF Next, RunStep, SweepStep

\* ... of the sessions' state, ...
LEMMA SessionsTypedStep ==
    ASSUME CoordinationInv, Next
    PROVE  SessionsTyped'
<1> USE CoordinationAssumption DEF CoordinationInv, TypeOK, SessionsTyped, SessionState, Go,
      serverVars, lockVars, sessionVars, harnessVars, sweepVars
<1>1. CASE \E s \in Session : WaitStep(s)
  BY <1>1 DEF WaitStep, LockShared, LockCoordination, LockExclusive
<1>2. CASE \E s \in Session : InspectReady(s) \/ InspectNotReady(s) \/ CheckExisting(s)
  BY <1>2 DEF InspectReady, InspectNotReady, CheckExisting, CloseSession
<1>3. CASE \E s \in Session : DropInterrupted(s) \/ CreateTemplate(s) \/ TagTemplate(s)
  <2>0. PICK s \in Session : DropInterrupted(s) \/ CreateTemplate(s) \/ TagTemplate(s)
    BY <1>3
  <2>1. CASE DropInterrupted(s)
    BY <2>1 DEF DropInterrupted
  <2>2. CASE CreateTemplate(s)
    BY <2>2 DEF CreateTemplate
  <2>3. CASE TagTemplate(s)
    BY <2>3 DEF TagTemplate, CloseSession
  <2> QED
    BY <2>0, <2>1, <2>2, <2>3
<1>4. CASE \E s \in Session : RunInitializer(s) \/ Abort(s) \/ DisableConnections(s)
  BY <1>4 DEF RunInitializer, AfterInitializer, Abort, CloseSession, DisableConnections
<1>5. CASE \E s \in Session : TerminateConnections(s) \/ SealTemplate(s) \/ UnlockSealed(s)
  BY <1>5 DEF TerminateConnections, SealTemplate, UnlockSealed
<1>6. CASE \E s \in Session : CloseHandle(s) \/ Fault(s) \/ DropHandle(s)
  <2>0. PICK s \in Session : CloseHandle(s) \/ Fault(s) \/ DropHandle(s)
    BY <1>6
  <2>1. CASE CloseHandle(s)
    BY <2>1 DEF CloseHandle, CloseSession
  <2>2. CASE Fault(s)
    BY <2>2 DEF Fault, CloseSession
  <2>3. CASE DropHandle(s)
    BY <2>3 DEF DropHandle
  <2> QED
    BY <2>0, <2>1, <2>2, <2>3
<1>7. CASE \E s \in Session, t \in Template : BeginTemplate(s, t)
  BY <1>7 DEF BeginTemplate
<1>8. CASE \E h \in Harness : HarnessStep(h) \/ \E s \in Session : BeginCopy(h, s)
  BY <1>8 DEF HarnessStep, BeginCopy, CreateCopy, TagCopy, DropCopy, CopyFails, HarnessDies
<1>9. CASE SweepList \/ SweepReadClock \/ \E d \in Resource : SweepSkip(d) \/ SweepLock(d)
  BY <1>9 DEF SweepList, SweepReadClock, SweepSkip, SweepLock
<1>10. CASE SweepValidate \/ SweepDrop \/ SweepEnd
  BY <1>10 DEF SweepValidate, SweepDrop, SweepEnd, SweepUnlock
<1>11. CASE Tick \/ \E t \in Template : Connect(t) \/ Disconnect(t)
  BY <1>11 DEF Tick, Connect, Disconnect
<1> QED
  BY <1>1, <1>2, <1>3, <1>4, <1>5, <1>6, <1>7, <1>8, <1>9, <1>10, <1>11
  DEF Next, RunStep, SweepStep

\* ... of flags, ...
LEMMA FlagsTypedStep ==
    ASSUME CoordinationInv, Next
    PROVE  FlagsTyped'
<1> USE CoordinationAssumption DEF CoordinationInv, TypeOK, FlagsTyped, Go, serverVars,
      lockVars, sessionVars, harnessVars, sweepVars
<1>1. CASE \E s \in Session : WaitStep(s)
  BY <1>1 DEF WaitStep, LockShared, LockCoordination, LockExclusive
<1>2. CASE \E s \in Session : InspectReady(s) \/ InspectNotReady(s) \/ CheckExisting(s)
  <2>0. PICK s \in Session : InspectReady(s) \/ InspectNotReady(s) \/ CheckExisting(s)
    BY <1>2
  <2>1. CASE InspectReady(s)
    BY <2>1 DEF InspectReady, IsReady
  <2>2. CASE InspectNotReady(s)
    BY <2>2 DEF InspectNotReady, CloseSession, ReleaseAll, IsReady
  <2>3. CASE CheckExisting(s)
    BY <2>3 DEF CheckExisting, CloseSession, ReleaseAll
  <2> QED
    BY <2>0, <2>1, <2>2, <2>3
<1>3. CASE \E s \in Session : DropInterrupted(s) \/ CreateTemplate(s) \/ TagTemplate(s)
  BY <1>3 DEF DropInterrupted, CreateTemplate, TagTemplate, CloseSession
<1>4. CASE \E s \in Session : RunInitializer(s) \/ Abort(s) \/ DisableConnections(s)
  BY <1>4 DEF RunInitializer, AfterInitializer, Abort, CloseSession, DisableConnections
<1>5. CASE \E s \in Session : TerminateConnections(s) \/ SealTemplate(s) \/ UnlockSealed(s)
  BY <1>5 DEF TerminateConnections, SealTemplate, UnlockSealed
<1>6. CASE \E s \in Session : CloseHandle(s) \/ Fault(s) \/ DropHandle(s)
  <2>0. PICK s \in Session : CloseHandle(s) \/ Fault(s) \/ DropHandle(s)
    BY <1>6
  <2>1. CASE CloseHandle(s)
    BY <2>1 DEF CloseHandle, Referenced, CloseSession, ReleaseAll
  <2>2. CASE Fault(s)
    BY <2>2 DEF Fault, CloseSession, ReleaseAll
  <2>3. CASE DropHandle(s)
    BY <2>3 DEF DropHandle
  <2> QED
    BY <2>0, <2>1, <2>2, <2>3
<1>7. CASE \E s \in Session, t \in Template : BeginTemplate(s, t)
  BY <1>7 DEF BeginTemplate
<1>8. CASE \E h \in Harness : HarnessStep(h) \/ \E s \in Session : BeginCopy(h, s)
  <2>1. user' = user /\ (alive' = alive \/ \E h \in Harness : alive' = [alive EXCEPT ![h] = FALSE])
    BY <1>8 DEF HarnessStep, BeginCopy, CreateCopy, TagCopy, DropCopy, CopyFails, HarnessDies
  <2> QED
    BY <2>1
<1>9. CASE SweepList \/ SweepReadClock \/ \E d \in Resource : SweepSkip(d) \/ SweepLock(d)
  BY <1>9 DEF SweepList, SweepReadClock, SweepSkip, SweepLock
<1>10. CASE SweepValidate \/ SweepDrop \/ SweepEnd
  BY <1>10 DEF SweepValidate, SweepDrop, SweepEnd, SweepUnlock
<1>11. CASE Tick \/ \E t \in Template : Connect(t) \/ Disconnect(t)
  BY <1>11 DEF Tick, Connect, Disconnect
<1> QED
  BY <1>1, <1>2, <1>3, <1>4, <1>5, <1>6, <1>7, <1>8, <1>9, <1>10, <1>11
  DEF Next, RunStep, SweepStep

\* ... of test databases ...
LEMMA HarnessTypedStep ==
    ASSUME CoordinationInv, Next
    PROVE  HarnessTyped'
<1> USE CoordinationAssumption DEF CoordinationInv, TypeOK, HarnessTyped, Go, serverVars,
      lockVars, sessionVars, harnessVars, sweepVars
<1>1. CASE \E s \in Session : WaitStep(s)
  BY <1>1 DEF WaitStep, LockShared, LockCoordination, LockExclusive, SharedFree, CoordinationFree,
             ExclusiveFree
<1>2. CASE \E s \in Session : InspectReady(s) \/ InspectNotReady(s) \/ CheckExisting(s)
  BY <1>2 DEF InspectReady, InspectNotReady, CheckExisting, CloseSession, ReleaseAll, IsReady
<1>3. CASE \E s \in Session : DropInterrupted(s) \/ CreateTemplate(s) \/ TagTemplate(s)
  BY <1>3 DEF DropInterrupted, CreateTemplate, TagTemplate, DropDatabase, SetMetadata, Tagged,
             CloseSession, ReleaseAll
<1>4. CASE \E s \in Session : RunInitializer(s) \/ Abort(s) \/ DisableConnections(s)
  BY <1>4 DEF RunInitializer, AfterInitializer, Abort, DropDatabase, CloseSession, ReleaseAll,
             DisableConnections
<1>5. CASE \E s \in Session : TerminateConnections(s) \/ SealTemplate(s) \/ UnlockSealed(s)
  BY <1>5 DEF TerminateConnections, SealTemplate, UnlockSealed, SetMetadata, Tagged
<1>6. CASE \E s \in Session : CloseHandle(s) \/ Fault(s) \/ DropHandle(s)
  BY <1>6 DEF CloseHandle, Fault, DropHandle, Referenced, CloseSession, ReleaseAll
<1>7. CASE \E s \in Session, t \in Template : BeginTemplate(s, t)
  BY <1>7 DEF BeginTemplate
<1>8. CASE \E h \in Harness : HarnessStep(h) \/ \E s \in Session : BeginCopy(h, s)
  BY <1>8 DEF HarnessStep, BeginCopy, CreateCopy, TagCopy, DropCopy, CopyFails, HarnessDies,
             DropDatabase, SetMetadata, Tagged
<1>9. CASE SweepList \/ SweepReadClock \/ \E d \in Resource : SweepSkip(d) \/ SweepLock(d)
  BY <1>9 DEF SweepList, SweepReadClock, SweepSkip, SweepLock, TryLock, ExclusiveFree
<1>10. CASE SweepValidate \/ SweepDrop \/ SweepEnd
  BY <1>10 DEF SweepValidate, SweepDrop, SweepEnd, SweepUnlock, DropDatabase, Unchanged
<1>11. CASE Tick \/ \E t \in Template : Connect(t) \/ Disconnect(t)
  BY <1>11 DEF Tick, Connect, Disconnect
<1> QED
  BY <1>1, <1>2, <1>3, <1>4, <1>5, <1>6, <1>7, <1>8, <1>9, <1>10, <1>11
  DEF Next, RunStep, SweepStep

\* ... and of the sweep and the environment.
LEMMA SweepTypedStep ==
    ASSUME CoordinationInv, Next
    PROVE  SweepTyped'
<1> USE CoordinationAssumption DEF CoordinationInv, TypeOK, Goals, SweepTyped, Resource,
      Record, Tag, Absent, Go, serverVars, lockVars, sessionVars, harnessVars, sweepVars
<1>1. CASE \E s \in Session : WaitStep(s)
  BY <1>1 DEF WaitStep, LockShared, LockCoordination, LockExclusive, SharedFree, CoordinationFree,
             ExclusiveFree
<1>2. CASE \E s \in Session : InspectReady(s) \/ InspectNotReady(s) \/ CheckExisting(s)
  BY <1>2 DEF InspectReady, InspectNotReady, CheckExisting, CloseSession, ReleaseAll, IsReady
<1>3. CASE \E s \in Session : DropInterrupted(s) \/ CreateTemplate(s) \/ TagTemplate(s)
  BY <1>3 DEF DropInterrupted, CreateTemplate, TagTemplate, DropDatabase, SetMetadata, Tagged,
             CloseSession, ReleaseAll
<1>4. CASE \E s \in Session : RunInitializer(s) \/ Abort(s) \/ DisableConnections(s)
  BY <1>4 DEF RunInitializer, AfterInitializer, Abort, DropDatabase, CloseSession, ReleaseAll,
             DisableConnections
<1>5. CASE \E s \in Session : TerminateConnections(s) \/ SealTemplate(s) \/ UnlockSealed(s)
  BY <1>5 DEF TerminateConnections, SealTemplate, UnlockSealed, SetMetadata, Tagged
<1>6. CASE \E s \in Session : CloseHandle(s) \/ Fault(s) \/ DropHandle(s)
  BY <1>6 DEF CloseHandle, Fault, DropHandle, Referenced, CloseSession, ReleaseAll
<1>7. CASE \E s \in Session, t \in Template : BeginTemplate(s, t)
  BY <1>7 DEF BeginTemplate
<1>8. CASE \E h \in Harness : HarnessStep(h) \/ \E s \in Session : BeginCopy(h, s)
  BY <1>8 DEF HarnessStep, BeginCopy, CreateCopy, TagCopy, DropCopy, CopyFails, HarnessDies,
             DropDatabase, SetMetadata, Tagged
<1>9. CASE SweepList \/ SweepReadClock \/ \E d \in Resource : SweepSkip(d) \/ SweepLock(d)
  BY <1>9 DEF SweepList, SweepReadClock, SweepSkip, SweepLock, TryLock, ExclusiveFree
<1>10. CASE SweepValidate \/ SweepDrop \/ SweepEnd
  BY <1>10 DEF SweepValidate, SweepDrop, SweepEnd, SweepUnlock, DropDatabase, Unchanged
<1>11. CASE Tick \/ \E t \in Template : Connect(t) \/ Disconnect(t)
  BY <1>11 DEF Tick, Connect, Disconnect
<1> QED
  BY <1>1, <1>2, <1>3, <1>4, <1>5, <1>6, <1>7, <1>8, <1>9, <1>10, <1>11
  DEF Next, RunStep, SweepStep

LEMMA TypeStep ==
    ASSUME CoordinationInv, Next
    PROVE  TypeOK'
BY ServerTypedStep, LocksTypedStep, SessionsTypedStep, FlagsTypedStep, HarnessTypedStep,
   SweepTypedStep
DEF TypeOK, ServerTyped, LocksTyped, SessionsTyped, FlagsTyped, HarnessTyped, SweepTyped

-----------------------------------------------------------------------------
LEMMA CoordinationInvInit == Init => CoordinationInv
<1> SUFFICES ASSUME Init PROVE CoordinationInv
  OBVIOUS
<1>1. \A d \in Resource : catalog[d].tag \in {"absent", "mismatched"} /\ catalog[d].at = 0
  BY DEF Init, Absent
<1>2. TypeOK
  <2>1. Absent \in Record /\ [tag |-> "mismatched", at |-> 0] \in Record
    BY CoordinationAssumption DEF Absent, Record, Tag
  <2>2. catalog \in [Resource -> Record] /\ snapshot \in [Resource -> Record]
    BY <2>1 DEF Init
  <2> QED
    BY <2>2, CoordinationAssumption DEF Init, TypeOK, SessionState, Resource
<1>3. Goals /\ Locks /\ Builds
  BY CoordinationAssumption DEF Init, Goals, Locks, Builds, Building, Sweeping
<1>4. Readiness
  BY <1>1 DEF Init, Readiness, IsReady, Resource
<1>5. Sources /\ Sweeps
  BY <1>1 DEF Init, Sources, Deriving, Sweeps, Sweeping
<1> QED
  BY <1>2, <1>3, <1>4, <1>5 DEF CoordinationInv

LEMMA CoordinationInvStep ==
    ASSUME CoordinationInv, [Next]_vars
    PROVE  CoordinationInv'
<1>1. CASE Next
  BY <1>1, TypeStep, GoalsStep, LocksStep, BuildsStep, ReadinessStep, SourcesStep, SweepsStep
  DEF CoordinationInv
<1>2. CASE UNCHANGED vars
  BY <1>2
  DEF vars, serverVars, lockVars, sessionVars, harnessVars, sweepVars, CoordinationInv, TypeOK,
      Goals, Locks, Sweeping, Builds, Readiness, IsReady, Sealed, Sources, Deriving, Sweeps,
      Candidate, Age
<1> QED
  BY <1>1, <1>2

LEMMA CoordinationInvariant == Spec => []CoordinationInv
BY CoordinationInvInit, CoordinationInvStep, PTL DEF Spec

\* However many processes build, share, derive and sweep templates, and
\* wherever they fail, a handle stands for a sealed template, and ready
\* templates are complete and closed to writers.
THEOREM HandlesAreSound == Spec => []HandleSound
<1>1. CoordinationInv => HandleSound
  BY DEF CoordinationInv, TypeOK, Goals, Readiness, HandleSound
<1> QED
  BY <1>1, CoordinationInvariant, PTL

\* The exclusive advisory lock makes a build its template's only one, and its
\* statements find the database as the previous one left it.
THEOREM BuildsAreUndisturbed == Spec => []BuildUndisturbed
<1>1. CoordinationInv => BuildUndisturbed
  <2> SUFFICES ASSUME CoordinationInv, NEW s \in Session, pc[s] \in Building
               PROVE  /\ \A r \in Session \ {s} : pc[r] \in Building => goal[r] # goal[s]
                      /\ catalog[goal[s]].tag \in BuildTag(pc[s])
    BY DEF BuildUndisturbed, BuildTag
  <2>1. goal[s] \in Template
    BY DEF CoordinationInv, TypeOK, Goals, Building
  <2> QED
    BY <2>1 DEF CoordinationInv, Locks, Builds
<1> QED
  BY <1>1, CoordinationInvariant, PTL

\* The handle that a template or a test database is copied from is open and
\* its template sealed until the copy is tagged.
THEOREM SourcesAreProtected == Spec => []SourceProtected
<1>1. CoordinationInv => SourceProtected
  <2> SUFFICES ASSUME CoordinationInv PROVE SourceProtected
    OBVIOUS
  <2>1. \A r \in Session : pc[r] = "handle" => Sealed(goal[r])
    BY DEF CoordinationInv, TypeOK, Goals, Readiness
  <2> QED
    BY <2>1 DEF CoordinationInv, Sources, Deriving, SourceProtected
<1> QED
  BY <1>1, CoordinationInvariant, PTL

\* What the stale sweep drops was tagged, old enough and unowned at that
\* moment: its lock keeps builders and handles away, owners do not return,
\* and nobody has rewritten the record it looked at.
THEOREM SweepsOnlyAbandoned == Spec => SweepOnlyAbandoned
<1> DEFINE Abandoned(d) ==
               /\ catalog[d].tag # "untagged"
               /\ clock - catalog[d].at >= StaleAfter
               /\ d \in Harness => ~alive[d]
               /\ d \in Template => \A s \in Session :
                     goal[s] = d => pc[s] \notin Building \cup {"handle"}
           A == \A d \in Resource :
                  (sweep_pc = "drop" /\ catalog[d].tag # "absent"
                        /\ catalog'[d].tag = "absent" /\ current = d) => Abandoned(d)
<1>1. ASSUME CoordinationInv, NEW d \in Resource, sweep_pc = "drop", current = d
      PROVE  Abandoned(d)
  <2>1. Candidate(catalog[d]) /\ now <= clock /\ catalog[d].at <= clock
    BY <1>1 DEF CoordinationInv, Sweeps
  <2>2. catalog[d].at \in Nat /\ now \in Nat /\ clock \in Nat
    BY <1>1, CoordinationAssumption DEF CoordinationInv, TypeOK, Record
  <2>3. catalog[d].tag # "untagged" /\ clock - catalog[d].at >= StaleAfter
    BY <2>1, <2>2, CoordinationAssumption DEF Candidate, Age
  <2>4. d \in Harness => ~alive[d]
    BY <1>1 DEF CoordinationInv, Sweeps, Sweeping
  <2>5. ASSUME d \in Template, NEW s \in Session, goal[s] = d
        PROVE  pc[s] \notin Building \cup {"handle"}
    <3>1. exclusive[d] = Sweeper /\ shared[d] = {}
      BY <1>1, <2>5, CoordinationAssumption DEF CoordinationInv, Locks, Sweeping
    <3> QED
      BY <1>1, <2>5, <3>1, CoordinationAssumption DEF CoordinationInv, Locks
  <2> QED
    BY <2>3, <2>4, <2>5
<1>2. CoordinationInv => [A]_vars
  BY <1>1
<1> QED
  BY <1>2, CoordinationInvariant, PTL DEF SweepOnlyAbandoned

-----------------------------------------------------------------------------
(***************************************************************************)
(* The refinement of TemplateRegistry.  Beyond CoordinationInv it needs to *)
(* know where the database of a live harness is: nobody else makes or      *)
(* removes it.                                                             *)
(***************************************************************************)
TestTags(state) ==
    CASE state = "tag" -> {"untagged"}
      [] state = "leased" -> {"test"}
      [] state = "done" -> {"absent", "untagged", "test"}
      [] OTHER -> {"absent"}
Tests == \A h \in Harness : alive[h] => catalog[h].tag \in TestTags(test_pc[h])

\* A live harness changes its own database only, and the sweep only those of
\* the dead.
LEMMA TestsStep ==
    ASSUME CoordinationInv, Tests, [Next]_vars
    PROVE  Tests'
<1> USE CoordinationAssumption DEF CoordinationInv, TypeOK, Goals, Tests, TestTags, Resource,
      Absent, Go, serverVars, lockVars, sessionVars, harnessVars, sweepVars
<1>1. CASE \E s \in Session : WaitStep(s)
  BY <1>1 DEF WaitStep, LockShared, LockCoordination, LockExclusive
<1>2. CASE \E s \in Session : InspectReady(s) \/ InspectNotReady(s) \/ CheckExisting(s)
  BY <1>2 DEF InspectReady, InspectNotReady, CheckExisting
<1>3. CASE \E s \in Session : DropInterrupted(s) \/ CreateTemplate(s) \/ TagTemplate(s)
  BY <1>3 DEF DropInterrupted, CreateTemplate, TagTemplate, DropDatabase, SetMetadata, Tagged
<1>4. CASE \E s \in Session : RunInitializer(s) \/ Abort(s) \/ DisableConnections(s)
  BY <1>4 DEF RunInitializer, Abort, DropDatabase, DisableConnections
<1>5. CASE \E s \in Session : TerminateConnections(s) \/ SealTemplate(s) \/ UnlockSealed(s)
  BY <1>5 DEF TerminateConnections, SealTemplate, UnlockSealed, SetMetadata, Tagged
<1>6. CASE \E s \in Session : CloseHandle(s) \/ Fault(s) \/ DropHandle(s)
  BY <1>6 DEF CloseHandle, Fault, DropHandle
<1>7. CASE \E s \in Session, t \in Template : BeginTemplate(s, t)
  BY <1>7 DEF BeginTemplate
<1>8. CASE \E h \in Harness : HarnessStep(h) \/ \E s \in Session : BeginCopy(h, s)
  <2>0. PICK h \in Harness : HarnessStep(h) \/ \E s \in Session : BeginCopy(h, s)
    BY <1>8
  <2>1. CASE CreateCopy(h) \/ DropCopy(h)
    BY <2>1 DEF CreateCopy, DropCopy, DropDatabase, Tagged
  <2>2. CASE TagCopy(h)
    BY <2>2, RecordFacts DEF TagCopy, SetMetadata, Tag
  <2>3. CASE CopyFails(h)
    BY <2>3 DEF CopyFails, DropDatabase
  <2>4. CASE HarnessDies(h) \/ \E s \in Session : BeginCopy(h, s)
    BY <2>4 DEF HarnessDies, BeginCopy
  <2> QED
    BY <2>0, <2>1, <2>2, <2>3, <2>4 DEF HarnessStep
<1>9. CASE SweepList \/ SweepReadClock \/ \E d \in Resource : SweepSkip(d) \/ SweepLock(d)
  BY <1>9 DEF SweepList, SweepReadClock, SweepSkip, SweepLock
<1>10. CASE SweepValidate \/ SweepEnd \/ SweepDrop
  BY <1>10 DEF SweepValidate, SweepDrop, SweepEnd, DropDatabase, Sweeps, Sweeping
<1>11. CASE Tick \/ \E t \in Template : Connect(t) \/ Disconnect(t)
  BY <1>11 DEF Tick, Connect, Disconnect
<1>12. CASE UNCHANGED vars
  BY <1>12 DEF vars
<1> QED
  BY <1>1, <1>2, <1>3, <1>4, <1>5, <1>6, <1>7, <1>8, <1>9, <1>10, <1>11, <1>12
  DEF Next, RunStep, SweepStep

RegistryInv == CoordinationInv /\ Tests

\* What the statements mean for the sets of databases the promise speaks of.
LEMMA NoStatement ==
    ASSUME UNCHANGED serverVars
    PROVE  Present' = Present /\ Usable' = Usable
BY DEF serverVars, Present, Usable, Sealed, IsReady

LEMMA DropStatement ==
    ASSUME TypeOK, NEW d \in Resource, DropDatabase(d)
    PROVE  Present' = Present \ {d} /\ Usable' = Usable \ {d}
BY DEF TypeOK, DropDatabase, Absent, Present, Usable, Sealed, IsReady, Resource

\* A statement on a database that was not ready and is not afterwards.
LEMMA CommentStatement ==
    ASSUME TypeOK, NEW d \in Resource, NEW record, record.tag \notin {"absent", "ready"},
           SetMetadata(d, record), catalog[d].tag # "ready",
           UNCHANGED <<built, no_connect, writers>>
    PROVE  Present' = Present \cup {d} /\ Usable' = Usable
BY DEF TypeOK, SetMetadata, Present, Usable, Sealed, IsReady, Resource

\* A session that goes from one place of an attempt to another.
LEMMA NoHandle ==
    ASSUME TypeOK, NEW s \in Session, NEW state, pc[s] # "handle", state # "handle", Go(s, state)
    PROVE  Handles' = Handles
BY DEF TypeOK, Go, Handles

\* What happens to a promise when a connection ends.
LEMMA ConnectionEnds ==
    ASSUME TypeOK, NEW s \in Session, CloseSession(s)
    PROVE  /\ exclusive' = Registry!Free(exclusive, s)
           /\ goal' = [goal EXCEPT ![s] = NoTemplate] /\ source' = [source EXCEPT ![s] = NoSession]
           /\ Handles' = Handles \ {s} /\ Used' = Used \ {s}
BY DEF TypeOK, CloseSession, ReleaseAll, Registry!Free, Handles, Used

\* A builder has the template for itself.
LEMMA BuilderHas ==
    ASSUME RegistryInv, NEW s \in Session, pc[s] \in Building
    PROVE  /\ goal[s] \in Template /\ goal[s] \in Resource /\ Registry!Builds(s)
           /\ catalog[goal[s]].tag \in BuildTag(pc[s])
BY DEF RegistryInv, CoordinationInv, TypeOK, Goals, Locks, Builds, Building, Resource,
       Registry!Builds

\* Whoever has a handle can be copied from.
LEMMA HandleBacked ==
    ASSUME RegistryInv, NEW s \in Session, pc[s] = "handle"
    PROVE  Registry!Backed(s)
BY DEF RegistryInv, CoordinationInv, TypeOK, Goals, Readiness, Registry!Backed, Handles, Usable

\* Locks that are not exclusive are no part of the promise.
LEMMA WaitServed ==
    ASSUME RegistryInv, NEW s \in Session, WaitStep(s)
    PROVE  [Registry!Next]_(Registry!vars)
<1> USE DEF RegistryInv, CoordinationInv
<1>1. /\ Present' = Present /\ Usable' = Usable
      /\ UNCHANGED <<goal, source, Used, test_source, alive, Leased>>
  <2>1. UNCHANGED <<serverVars, goal, source, user, harnessVars>>
    BY DEF WaitStep, LockShared, LockCoordination, LockExclusive
  <2> QED
    BY <2>1, NoStatement DEF Used, Leased, harnessVars
<1>2. Handles' = Handles
  BY DEF WaitStep, LockShared, LockCoordination, LockExclusive, TypeOK, Go, Handles
<1>3. CASE LockExclusive(s)
  <2>1. /\ goal[s] \in Template /\ shared[goal[s]] = {} /\ exclusive[goal[s]] = NoSession
        /\ pc[s] # "handle" /\ exclusive' = [exclusive EXCEPT ![goal[s]] = s]
    BY <1>3 DEF LockExclusive, ExclusiveFree, TypeOK, Goals
  <2>2. \A r \in Handles : goal[r] # goal[s]
    BY <2>1 DEF Handles, Locks
  <2>3. Registry!Enter(s, goal[s])
    BY <1>1, <1>2, <2>1, <2>2
    DEF Registry!Enter, Registry!sessionVars, Registry!testVars, Handles
  <2> QED
    BY <2>1, <2>3 DEF Registry!Next
<1>4. CASE LockShared(s) \/ LockCoordination(s)
  BY <1>1, <1>2, <1>4
  DEF LockShared, LockCoordination, Registry!vars, Registry!templateVars, Registry!sessionVars,
      Registry!testVars
<1> QED
  BY <1>3, <1>4 DEF WaitStep

\* The end of an attempt or of a handle.
LEMMA LeaveServed ==
    ASSUME RegistryInv, NEW s \in Session, pc[s] # "idle", CloseSession(s),
           UNCHANGED harnessVars, Usable' = Usable,
           \/ Present' = Present
           \/ pc[s] \in Building /\ ~IsReady(goal[s]) /\ Present' = Present \ {goal[s]},
           pc[s] = "handle" => ~Referenced(s)
    PROVE  Registry!Next
<1>1. goal[s] \in Template
  BY DEF RegistryInv, CoordinationInv, TypeOK, Goals
<1>2. \/ Present' = Present
      \/ Registry!Builds(s) /\ goal[s] \notin Usable /\ Present' = Present \ {goal[s]}
  BY BuilderHas DEF Usable, Sealed
<1>3. s \in Handles => /\ s \notin Used
                       /\ \A r \in Session : source[r] # s
                       /\ \A h \in Harness : test_source[h] # s
  BY DEF Handles, Used, Referenced
<1>4. UNCHANGED <<test_source, alive, Leased>>
  BY DEF harnessVars, Leased
<1>5. Registry!Leave(s)
  BY <1>1, <1>2, <1>3, <1>4, ConnectionEnds, CoordinationAssumption
  DEF RegistryInv, CoordinationInv, Registry!Leave, Registry!testVars
<1> QED
  BY <1>5 DEF Registry!Next

\* The places where an attempt looks at what is there.
LEMMA InspectServed ==
    ASSUME RegistryInv, NEW s \in Session,
           InspectReady(s) \/ InspectNotReady(s) \/ CheckExisting(s)
    PROVE  [Registry!Next]_(Registry!vars)
<1> USE DEF RegistryInv, CoordinationInv
<1>1. /\ Present' = Present /\ Usable' = Usable
      /\ UNCHANGED <<harnessVars, test_source, alive, Leased>>
  <2>1. UNCHANGED <<serverVars, harnessVars>>
    BY DEF InspectReady, InspectNotReady, CheckExisting
  <2> QED
    BY <2>1, NoStatement DEF Leased, harnessVars
<1>2. goal[s] \in Template
  BY DEF InspectReady, InspectNotReady, CheckExisting, TypeOK, Goals
<1>3. CASE InspectReady(s)
  <2>1. goal[s] \in Usable
    BY <1>2, <1>3 DEF InspectReady, Readiness, Usable
  <2>2. exclusive[goal[s]] = NoSession
    BY <1>2, <1>3 DEF InspectReady, Locks
  <2>3. Handles' = Handles \cup {s} /\ Used' = Used \cup {s} /\ s \notin Handles
    BY <1>3 DEF InspectReady, Go, TypeOK, Handles, Used
  <2>4. Registry!Open(s)
    BY <1>1, <1>3, <2>1, <2>2, <2>3
    DEF InspectReady, Registry!Open, Registry!templateVars, Registry!testVars
  <2> QED
    BY <2>4 DEF Registry!Next
<1>4. CASE CloseSession(s) /\ pc[s] \in {"inspect", "check"}
  BY <1>1, <1>4, LeaveServed
<1>5. CASE InspectNotReady(s) /\ ~CloseSession(s)
  <2>1. Handles' = Handles
    BY <1>5 DEF InspectNotReady, TypeOK, Go, Handles
  <2>2. UNCHANGED <<exclusive, goal, source, Used>>
    BY <1>5 DEF InspectNotReady, Used
  <2> QED
    BY <1>1, <2>1, <2>2
    DEF Registry!vars, Registry!templateVars, Registry!sessionVars, Registry!testVars
<1>6. CASE CheckExisting(s) /\ ~CloseSession(s)
  <2>1. Handles' = Handles
    BY <1>6 DEF CheckExisting, TypeOK, Go, Handles
  <2>2. UNCHANGED <<goal, source, Used>>
    BY <1>6 DEF CheckExisting, lockVars, Used
  <2>3. CASE exclusive' = exclusive
    BY <1>1, <2>1, <2>2, <2>3
    DEF Registry!vars, Registry!templateVars, Registry!sessionVars, Registry!testVars
  <2>4. CASE exclusive' = [exclusive EXCEPT ![goal[s]] = NoSession]
    <3>1. \A t \in Template : exclusive[t] = s <=> t = goal[s]
      BY <1>6 DEF CheckExisting, Locks, Building
    <3>2. exclusive' = Registry!Free(exclusive, s)
      BY <2>4, <3>1 DEF Registry!Free, TypeOK
    <3>3. Registry!StepBack(s)
      BY <1>1, <2>1, <2>2, <3>2 DEF Registry!StepBack, Registry!sessionVars, Registry!testVars
    <3> QED
      BY <3>3 DEF Registry!Next
  <2> QED
    BY <1>6, <2>3, <2>4 DEF CheckExisting, lockVars
<1> QED
  BY <1>3, <1>4, <1>5, <1>6 DEF InspectNotReady, CheckExisting

\* The database of a build is made.
LEMMA CreateServed ==
    ASSUME RegistryInv, NEW s \in Session,
           DropInterrupted(s) \/ CreateTemplate(s) \/ TagTemplate(s)
    PROVE  Registry!Next
<1> USE DEF RegistryInv, CoordinationInv
<1>1. /\ goal[s] \in Template /\ goal[s] \in Resource /\ Registry!Builds(s)
      /\ catalog[goal[s]].tag \in BuildTag(pc[s])
  BY BuilderHas DEF DropInterrupted, CreateTemplate, TagTemplate, Building
<1>2. pc[s] # "handle" /\ goal[s] \notin Usable /\ catalog[goal[s]].tag # "ready"
  BY <1>1 DEF DropInterrupted, CreateTemplate, TagTemplate, BuildTag, Usable, Sealed, IsReady
<1>3. UNCHANGED <<test_source, alive, Leased>>
  BY DEF DropInterrupted, CreateTemplate, TagTemplate, harnessVars, Leased
<1>4. CASE DropInterrupted(s)
  <2>1. Present' = Present \ {goal[s]} /\ Usable' = Usable
    BY <1>1, <1>2, <1>4, DropStatement DEF DropInterrupted
  <2>2. Handles' = Handles
    BY <1>2, <1>4, NoHandle DEF DropInterrupted
  <2>3. Registry!Discard(s)
    BY <1>1, <1>2, <1>3, <1>4, <2>1, <2>2
    DEF DropInterrupted, lockVars, Used, Registry!Discard, Registry!templateVars,
        Registry!sessionVars, Registry!testVars
  <2> QED
    BY <2>3 DEF Registry!Next
<1>5. CASE CreateTemplate(s)
  <2>1. Present' = Present \cup {goal[s]} /\ Usable' = Usable
    <3>1. SetMetadata(goal[s], Tagged("untagged")) /\ UNCHANGED <<built, no_connect, writers>>
      BY <1>5 DEF CreateTemplate, SetMetadata
    <3> QED
      BY <1>1, <1>2, <3>1, CommentStatement DEF Tagged
  <2>2. Handles' = Handles
    BY <1>2, <1>5, NoHandle DEF CreateTemplate
  <2>3. goal[s] \notin Present
    BY <1>1, <1>5 DEF CreateTemplate, BuildTag, Present
  <2>4. Parent[goal[s]] = NoTemplate
        \/ (Registry!Backed(source[s]) /\ goal[source[s]] = Parent[goal[s]])
    BY <1>5, HandleBacked DEF CreateTemplate, Sources, Deriving
  <2>5. Registry!Create(s)
    BY <1>1, <1>3, <1>5, <2>1, <2>2, <2>3, <2>4
    DEF CreateTemplate, lockVars, Used, Registry!Create, Registry!templateVars,
        Registry!sessionVars, Registry!testVars
  <2> QED
    BY <2>5 DEF Registry!Next
<1>6. CASE TagTemplate(s) /\ SetMetadata(goal[s], Retagged(goal[s], "initializing"))
           /\ Go(s, "initialize")
  <2>1. goal[s] \in Present
    BY <1>1, <1>6 DEF TagTemplate, BuildTag, Present
  <2>2. /\ UNCHANGED <<built, no_connect, writers, exclusive, goal, Used>>
        /\ source' = [source EXCEPT ![s] = NoSession]
    BY <1>6 DEF TagTemplate, lockVars, Used, CloseSession, Go, TypeOK
  <2>3. Present' = Present /\ Usable' = Usable
    BY <1>1, <1>2, <1>6, <2>1, <2>2, RecordFacts, CommentStatement DEF Tag
  <2>4. Handles' = Handles
    BY <1>2, <1>6, NoHandle
  <2>5. Registry!Detach(s)
    BY <1>1, <1>2, <1>3, <2>1, <2>2, <2>3, <2>4
    DEF Registry!Detach, Registry!templateVars, Registry!testVars
  <2> QED
    BY <2>5 DEF Registry!Next
<1>7. CASE TagTemplate(s) /\ DropDatabase(goal[s]) /\ CloseSession(s)
  <2>1. Present' = Present \ {goal[s]} /\ Usable' = Usable
    BY <1>1, <1>2, <1>7, DropStatement
  <2>2. pc[s] \in Building /\ ~IsReady(goal[s]) /\ UNCHANGED harnessVars
    BY <1>2, <1>7 DEF TagTemplate, Building, IsReady
  <2> QED
    BY <1>2, <1>7, <2>1, <2>2, LeaveServed DEF Building
<1> QED
  BY <1>4, <1>5, <1>6, <1>7 DEF TagTemplate

\* Between the comment and the seal nothing of the promise changes, except
\* that a build may be given up.
LEMMA BuildServed ==
    ASSUME RegistryInv, NEW s \in Session,
           RunInitializer(s) \/ Abort(s) \/ DisableConnections(s) \/ TerminateConnections(s)
    PROVE  [Registry!Next]_(Registry!vars)
<1> USE DEF RegistryInv, CoordinationInv
<1>1. /\ goal[s] \in Template /\ goal[s] \in Resource
      /\ catalog[goal[s]].tag \in BuildTag(pc[s])
  BY BuilderHas
  DEF RunInitializer, Abort, DisableConnections, TerminateConnections, Building
<1>2. pc[s] # "handle" /\ pc[s] # "idle" /\ ~IsReady(goal[s]) /\ pc[s] \in Building
  BY <1>1
  DEF RunInitializer, Abort, DisableConnections, TerminateConnections, BuildTag, IsReady, Building
<1>3. CASE Abort(s)
  <2>1. Present' = Present \ {goal[s]} /\ Usable' = Usable
    BY <1>1, <1>2, <1>3, DropStatement DEF Abort, Usable, Sealed
  <2> QED
    BY <1>2, <1>3, <2>1, LeaveServed DEF Abort
<1>4. CASE RunInitializer(s) \/ DisableConnections(s) \/ TerminateConnections(s)
  <2>1. /\ Present' = Present
        /\ UNCHANGED <<exclusive, goal, source, Used, test_source, alive, Leased>>
    BY <1>4
    DEF RunInitializer, DisableConnections, TerminateConnections, lockVars, harnessVars, Present,
        Used, Leased
  <2>2. Usable' = Usable
    BY <1>1, <1>2, <1>4
    DEF RunInitializer, DisableConnections, TerminateConnections, Usable, Sealed, IsReady
  <2>3. Handles' = Handles
    BY <1>2, <1>4
    DEF RunInitializer, AfterInitializer, DisableConnections, TerminateConnections, TypeOK, Go,
        Handles
  <2> QED
    BY <2>1, <2>2, <2>3
    DEF Registry!vars, Registry!templateVars, Registry!sessionVars, Registry!testVars
<1> QED
  BY <1>3, <1>4

\* The seal makes the template usable; then the builder steps back.
LEMMA SealServed ==
    ASSUME RegistryInv, NEW s \in Session, SealTemplate(s) \/ UnlockSealed(s)
    PROVE  Registry!Next
<1> USE DEF RegistryInv, CoordinationInv
<1>1. /\ goal[s] \in Template /\ Registry!Builds(s)
      /\ catalog[goal[s]].tag \in BuildTag(pc[s])
  BY BuilderHas DEF SealTemplate, UnlockSealed, Building
<1>2. UNCHANGED <<goal, source, Used, test_source, alive, Leased>>
  BY DEF SealTemplate, UnlockSealed, harnessVars, Used, Leased
<1>3. Handles' = Handles
  BY DEF SealTemplate, UnlockSealed, TypeOK, Go, Handles
<1>4. CASE SealTemplate(s)
  <2>1. goal[s] \in Present \ Usable
    BY <1>1, <1>4 DEF SealTemplate, BuildTag, Present, Usable, Sealed, IsReady, Resource
  <2>2. goal[s] \in built /\ goal[s] \in no_connect /\ goal[s] \notin writers
    BY <1>4 DEF SealTemplate, Builds
  <2>3. /\ \A d \in Resource \ {goal[s]} : catalog'[d] = catalog[d]
        /\ catalog'[goal[s]].tag = "ready" /\ UNCHANGED <<built, no_connect, writers>>
    BY <1>1, <1>4 DEF SealTemplate, SetMetadata, Tagged, TypeOK, Resource
  <2>4. Present' = Present
    BY <2>1, <2>3 DEF Present
  <2>5. Usable' = Usable \cup {goal[s]}
    BY <1>1, <2>2, <2>3 DEF Usable, Sealed, IsReady, Resource
  <2>6. Registry!Publish(s)
    BY <1>1, <1>2, <1>3, <1>4, <2>1, <2>4, <2>5
    DEF SealTemplate, lockVars, Registry!Publish, Registry!sessionVars, Registry!testVars
  <2> QED
    BY <2>6 DEF Registry!Next
<1>5. CASE UnlockSealed(s)
  <2>1. \A t \in Template : exclusive[t] = s <=> t = goal[s]
    BY <1>5 DEF UnlockSealed, Locks, Building
  <2>2. exclusive' = Registry!Free(exclusive, s)
    BY <1>5, <2>1 DEF UnlockSealed, Registry!Free, TypeOK
  <2>3. Present' = Present /\ Usable' = Usable
    BY <1>5, NoStatement DEF UnlockSealed
  <2>4. Registry!StepBack(s)
    BY <1>2, <1>3, <2>2, <2>3 DEF Registry!StepBack, Registry!sessionVars, Registry!testVars
  <2> QED
    BY <2>4 DEF Registry!Next
<1> QED
  BY <1>4, <1>5

\* A connection is closed, is lost, or its handle is dropped.
LEMMA CloseServed ==
    ASSUME RegistryInv, NEW s \in Session, CloseHandle(s) \/ Fault(s) \/ DropHandle(s)
    PROVE  Registry!Next
<1> USE DEF RegistryInv, CoordinationInv
<1>1. Present' = Present /\ Usable' = Usable
  BY NoStatement DEF CloseHandle, Fault, DropHandle
<1>2. CASE CloseHandle(s) \/ Fault(s)
  BY <1>1, <1>2, LeaveServed DEF CloseHandle, Fault
<1>3. CASE DropHandle(s)
  <2>1. s \in Used /\ Used' = Used \ {s}
    BY <1>3 DEF DropHandle, TypeOK, Used
  <2>2. UNCHANGED <<exclusive, goal, Handles, source, test_source, alive, Leased>>
    BY <1>3 DEF DropHandle, lockVars, harnessVars, Handles, Leased
  <2>3. Registry!Drop(s)
    BY <1>1, <2>1, <2>2 DEF Registry!Drop, Registry!templateVars, Registry!testVars
  <2> QED
    BY <2>3 DEF Registry!Next
<1> QED
  BY <1>2, <1>3

\* template and derive.
LEMMA AskServed ==
    ASSUME RegistryInv, NEW s \in Session, NEW t \in Template, BeginTemplate(s, t)
    PROVE  Registry!Next
<1> USE DEF RegistryInv, CoordinationInv
<1>1. Present' = Present /\ Usable' = Usable
  BY NoStatement DEF BeginTemplate
<1>2. goal[s] = NoTemplate /\ goal' = [goal EXCEPT ![s] = t]
  BY DEF BeginTemplate, Goals
<1>3. UNCHANGED <<exclusive, Used, test_source, alive, Leased>>
  BY DEF BeginTemplate, lockVars, harnessVars, Used, Leased
<1>4. Handles' = Handles
  BY DEF BeginTemplate, TypeOK, Go, Handles
<1>5. IF Parent[t] = NoTemplate THEN source' = source
      ELSE \E r \in Used : /\ Registry!Backed(r) /\ goal[r] = Parent[t]
                           /\ source' = [source EXCEPT ![s] = r]
  BY HandleBacked DEF BeginTemplate, Used
<1>6. Registry!Ask(s, t)
  BY <1>1, <1>2, <1>3, <1>4, <1>5
  DEF Registry!Ask, Registry!templateVars, Registry!testVars
<1> QED
  BY <1>6 DEF Registry!Next

\* The test database of a harness, from the copy to its end.
LEMMA HarnessServed ==
    ASSUME RegistryInv, NEW h \in Harness,
           HarnessStep(h) \/ \E s \in Session : BeginCopy(h, s)
    PROVE  Registry!Next
<1> USE DEF RegistryInv, CoordinationInv
<1>1. UNCHANGED <<exclusive, goal, source, Handles, Used>>
  BY DEF HarnessStep, BeginCopy, CreateCopy, TagCopy, DropCopy, CopyFails, HarnessDies, lockVars,
         sessionVars, Handles, Used
<1>2. h \in Resource /\ h \notin Template /\ h \notin Usable
  BY CoordinationAssumption DEF Resource, Usable
<1>3. alive[h]
  BY DEF HarnessStep, BeginCopy, CreateCopy, TagCopy, DropCopy, CopyFails, HarnessDies
<1>4. test_pc[h] # "done" => (h \in Present <=> test_pc[h] \in {"tag", "leased"})
  BY <1>2, <1>3 DEF Tests, TestTags, Present, TypeOK
<1>5. test_pc[h] \in {"create", "tag"} => Registry!Backed(test_source[h])
  BY <1>3, HandleBacked DEF Sources
<1>6. ASSUME NEW s \in Session, BeginCopy(h, s) PROVE Registry!Next
  <2>1. Present' = Present /\ Usable' = Usable /\ Leased' = Leased
    <3>1. UNCHANGED serverVars /\ alive' = alive /\ test_pc' = [test_pc EXCEPT ![h] = "create"]
          /\ test_pc[h] = "none"
      BY <1>6 DEF BeginCopy
    <3> QED
      BY <3>1, NoStatement DEF Leased, TypeOK
  <2>2. Registry!Backed(s) /\ s \in Used /\ h \notin Present
    BY <1>4, <1>6, HandleBacked DEF BeginCopy, Used
  <2>3. Registry!BeginCopy(h, s)
    BY <1>1, <1>6, <2>1, <2>2
    DEF BeginCopy, Registry!BeginCopy, Registry!templateVars, Registry!sessionVars
  <2> QED
    BY <2>3 DEF Registry!Next
<1>7. CASE CreateCopy(h)
  <2>1. UNCHANGED <<test_source, alive, Leased>> /\ test_pc[h] = "create"
    BY <1>7 DEF CreateCopy, Leased, TypeOK
  <2>2. Present' = Present \cup {h} /\ Usable' = Usable
    <3>1. SetMetadata(h, Tagged("untagged")) /\ UNCHANGED <<built, no_connect, writers>>
      BY <1>7 DEF CreateCopy, SetMetadata
    <3>2. catalog[h].tag # "ready"
      BY <1>3, <2>1 DEF Tests, TestTags
    <3> QED
      BY <1>2, <3>1, <3>2, CommentStatement DEF Tagged
  <2>3. Registry!Copy(h)
    BY <1>1, <1>3, <1>4, <1>5, <2>1, <2>2
    DEF Registry!Copy, Registry!templateVars, Registry!sessionVars, Registry!testVars
  <2> QED
    BY <2>3 DEF Registry!Next
<1>8. CASE TagCopy(h)
  <2>1. /\ UNCHANGED alive /\ test_pc[h] = "tag" /\ Leased' = Leased \cup {h}
        /\ test_source' = [test_source EXCEPT ![h] = NoSession]
    BY <1>3, <1>8 DEF TagCopy, Leased, TypeOK
  <2>2. Present' = Present \cup {h} /\ Usable' = Usable
    <3>1. SetMetadata(h, Retagged(h, "test")) /\ UNCHANGED <<built, no_connect, writers>>
      BY <1>8 DEF TagCopy
    <3>2. catalog[h].tag # "ready"
      BY <1>3, <2>1 DEF Tests, TestTags
    <3> QED
      BY <1>2, <3>1, <3>2, RecordFacts, CommentStatement DEF Tag
  <2>3. Registry!Lease(h)
    BY <1>1, <1>3, <1>4, <1>5, <2>1, <2>2
    DEF Registry!Lease, Registry!templateVars, Registry!sessionVars
  <2> QED
    BY <2>3 DEF Registry!Next
<1>9. CASE DropCopy(h)
  <2>1. /\ UNCHANGED <<test_source, alive>> /\ test_pc[h] = "leased" /\ h \in Leased
        /\ Leased' = Leased \ {h}
    BY <1>9 DEF DropCopy, Leased, TypeOK
  <2>2. Present' = Present \ {h} /\ Usable' = Usable
    BY <1>2, <1>9, DropStatement DEF DropCopy
  <2>3. Registry!Return(h)
    BY <1>1, <1>4, <2>1, <2>2
    DEF Registry!Return, Registry!templateVars, Registry!sessionVars
  <2> QED
    BY <2>3 DEF Registry!Next
<1>10. CASE HarnessDies(h)
  <2>1. /\ alive' = [alive EXCEPT ![h] = FALSE] /\ Leased' = Leased \ {h}
        /\ test_source' = [test_source EXCEPT ![h] = NoSession]
    BY <1>10 DEF HarnessDies, Leased, TypeOK
  <2>2. Present' = Present /\ Usable' = Usable
    BY <1>10, NoStatement DEF HarnessDies
  <2>3. Registry!Die(h)
    BY <1>1, <2>1, <2>2 DEF Registry!Die, Registry!templateVars, Registry!sessionVars
  <2> QED
    BY <2>3 DEF Registry!Next
<1>11. CASE CopyFails(h)
  <2>1. /\ UNCHANGED alive /\ Leased' = Leased \ {h}
        /\ test_source' = [test_source EXCEPT ![h] = NoSession]
    BY <1>11 DEF CopyFails, Leased, TypeOK
  <2>2. test_source[h] # NoSession \/ h \in Leased
    BY <1>3, <1>11, CoordinationAssumption DEF CopyFails, Sources, Leased
  <2>3. /\ Usable' = Usable
        /\ Present' = Present \/ (h \notin Leased /\ Present' = Present \ {h})
    <3>1. CASE UNCHANGED serverVars
      BY <3>1, NoStatement
    <3>2. CASE test_pc[h] = "tag" /\ DropDatabase(h)
      BY <1>2, <3>2, DropStatement DEF Leased
    <3> QED
      BY <1>11, <3>1, <3>2 DEF CopyFails
  <2>4. Registry!Fail(h)
    BY <1>1, <1>3, <2>1, <2>2, <2>3 DEF Registry!Fail, Registry!templateVars, Registry!sessionVars
  <2> QED
    BY <2>4 DEF Registry!Next
<1> QED
  BY <1>6, <1>7, <1>8, <1>9, <1>10, <1>11 DEF HarnessStep

\* The sweep takes templates for itself, gives them back or removes them.
LEMMA SweepServed ==
    ASSUME RegistryInv, SweepList \/ SweepStep
    PROVE  [Registry!Next]_(Registry!vars)
<1> USE DEF RegistryInv, CoordinationInv
<1>1. UNCHANGED <<goal, source, Handles, Used, test_source, alive, Leased>>
  <2>1. UNCHANGED <<sessionVars, harnessVars>>
    BY DEF SweepList, SweepStep, SweepReadClock, SweepSkip, SweepLock, SweepValidate, SweepDrop,
           SweepEnd
  <2> QED
    BY <2>1 DEF sessionVars, harnessVars, Handles, Used, Leased
<1>2. CASE UNCHANGED <<serverVars, exclusive>>
  BY <1>1, <1>2, NoStatement
  DEF Registry!vars, Registry!templateVars, Registry!sessionVars, Registry!testVars
<1>3. CASE UNCHANGED serverVars /\ exclusive' = Registry!Free(exclusive, Sweeper)
  <2>1. Registry!StepBack(Sweeper)
    BY <1>1, <1>3, NoStatement DEF Registry!StepBack, Registry!sessionVars, Registry!testVars
  <2> QED
    BY <2>1 DEF Registry!Next
<1>4. ASSUME NEW d \in Resource, SweepLock(d), d \in Template PROVE Registry!Next
  <2>1. /\ UNCHANGED serverVars /\ shared[d] = {} /\ exclusive[d] = NoSession
        /\ exclusive' = [exclusive EXCEPT ![d] = Sweeper]
    BY <1>4 DEF SweepLock, TryLock, ExclusiveFree
  <2>2. \A s \in Handles : goal[s] # d
    BY <1>4, <2>1 DEF Handles, Locks
  <2>3. Registry!Enter(Sweeper, d)
    BY <1>1, <2>1, <2>2, NoStatement
    DEF Registry!Enter, Registry!sessionVars, Registry!testVars
  <2> QED
    BY <1>4, <2>3 DEF Registry!Next
<1>5. CASE SweepDrop
  <2>1. current \in Resource /\ (current \in Harness => ~alive[current])
    BY <1>5 DEF SweepDrop, Sweeps, Sweeping
  <2>2. current \in Template => exclusive[current] = Sweeper
    BY <1>5 DEF SweepDrop, Locks, Sweeping
  <2>3. Present' = Present \ {current} /\ Usable' = Usable \ {current}
    BY <1>5, <2>1, DropStatement DEF SweepDrop
  <2>4. exclusive' = Registry!Free(exclusive, Sweeper)
    BY <1>5 DEF SweepDrop, SweepUnlock, Registry!Free
  <2>5. Registry!Remove(current)
    BY <1>1, <2>1, <2>2, <2>3, <2>4
    DEF Resource, Registry!Remove, Registry!sessionVars, Registry!testVars
  <2> QED
    BY <2>1, <2>5 DEF Registry!Next, Resource
<1>6. CASE SweepList \/ SweepReadClock \/ SweepValidate \/ SweepEnd
           \/ \E d \in Resource : SweepSkip(d) \/ (SweepLock(d) /\ d \notin Template)
  <2>1. UNCHANGED serverVars
    BY <1>6
    DEF SweepList, SweepReadClock, SweepSkip, SweepLock, SweepValidate, SweepEnd
  <2>2. exclusive' = exclusive \/ exclusive' = Registry!Free(exclusive, Sweeper)
    BY <1>6
    DEF SweepList, SweepReadClock, SweepSkip, SweepLock, SweepValidate, SweepEnd, SweepUnlock,
        lockVars, Registry!Free
  <2> QED
    BY <1>2, <1>3, <2>1, <2>2
<1> QED
  BY <1>4, <1>5, <1>6 DEF SweepStep

\* Applications may connect to a database only while it is not yet usable.
LEMMA EnvironmentServed ==
    ASSUME RegistryInv, Tick \/ \E t \in Template : Connect(t) \/ Disconnect(t)
    PROVE  UNCHANGED Registry!vars
<1>1. /\ UNCHANGED <<catalog, built, no_connect, lockVars, sessionVars, harnessVars>>
      /\ writers' = writers \/ \E t \in Template : ~IsReady(t) /\ writers' \in
                                   {writers \cup {t}, writers \ {t}}
  BY DEF Tick, Connect, Disconnect, serverVars, RegistryInv, CoordinationInv, Readiness, Sealed
<1>2. Present' = Present /\ Usable' = Usable
  BY <1>1 DEF Present, Usable, Sealed, IsReady
<1> QED
  BY <1>1, <1>2
  DEF lockVars, sessionVars, harnessVars, Handles, Used, Leased, Registry!vars,
      Registry!templateVars, Registry!sessionVars, Registry!testVars

LEMMA RegistryStep ==
    ASSUME RegistryInv, [Next]_vars
    PROVE  [Registry!Next]_(Registry!vars)
<1>1. CASE \E s \in Session : WaitStep(s) \/ RunStep(s) \/ Fault(s) \/ DropHandle(s)
  BY <1>1, WaitServed, InspectServed, CreateServed, BuildServed, SealServed, CloseServed
  DEF RunStep
<1>2. CASE \E s \in Session, t \in Template : BeginTemplate(s, t)
  BY <1>2, AskServed
<1>3. CASE \E h \in Harness : HarnessStep(h) \/ \E s \in Session : BeginCopy(h, s)
  BY <1>3, HarnessServed
<1>4. CASE SweepList \/ SweepStep
  BY <1>4, SweepServed
<1>5. CASE Tick \/ \E t \in Template : Connect(t) \/ Disconnect(t)
  BY <1>5, EnvironmentServed
<1>6. CASE UNCHANGED vars
  BY <1>6, NoStatement
  DEF vars, serverVars, lockVars, sessionVars, harnessVars, Handles, Used, Leased, Registry!vars,
      Registry!templateVars, Registry!sessionVars, Registry!testVars
<1> QED
  BY <1>1, <1>2, <1>3, <1>4, <1>5, <1>6 DEF Next

LEMMA RegistryStart == Init => Tests /\ Registry!Init
<1> SUFFICES ASSUME Init PROVE Tests /\ Registry!Init
  OBVIOUS
<1>1. /\ \A d \in Resource : catalog[d].tag \in {"absent", "mismatched"}
      /\ \A h \in Harness : catalog[h].tag = "absent"
  BY DEF Init, Absent, Resource
<1>2. Present \subseteq Template /\ Usable = {}
  BY <1>1 DEF Present, Usable, Sealed, IsReady, Resource
<1>3. Handles = {} /\ Used = {} /\ Leased = {}
  BY DEF Init, Handles, Used, Leased
<1>4. Tests
  BY <1>1 DEF Init, Tests, TestTags
<1> QED
  BY <1>2, <1>3, <1>4 DEF Init, Registry!Init

\* Sessions of any number of processes, their locks, comments, failures and a
\* sweep with a stale list together keep the promise of TemplateRegistry:
\* nobody builds, uses and removes a template at the same time, copies are made
\* from open handles of usable templates, and what is used stays.
THEOREM CoordinationImplementsRegistry == Spec => ImplementsRegistry
<1>1. Init => Tests /\ Registry!Init
  BY RegistryStart
<1>2. CoordinationInv /\ Tests /\ [Next]_vars => Tests' /\ [Registry!Next]_(Registry!vars)
  BY TestsStep, RegistryStep DEF RegistryInv
<1>3. ImplementsRegistry <=> Registry!Spec
  BY DEF ImplementsRegistry
<1> QED
  BY CoordinationInvariant, <1>1, <1>2, <1>3, PTL DEF Spec, Registry!Spec

=============================================================================
