------------------------ MODULE TemplateCoordination ------------------------
(***************************************************************************)
(* Template databases that harnesses in different processes build, share   *)
(* and copy, and the stale sweep that removes abandoned databases          *)
(* (src/harness.rs).  The processes share only the PostgreSQL catalog and  *)
(* its session-level advisory locks: a shared/exclusive lock and a         *)
(* coordination lock per template, and one owner lock per harness.         *)
(*                                                                         *)
(* A session is the connection of one attempt to get a template; when it   *)
(* succeeds the connection stays open and keeps the shared lock for the    *)
(* handle.  One harness may run several attempts (a cancelled caller       *)
(* leaves its blocking worker running), so sessions are independent.       *)
(* Every SQL statement, or group of statements under locks that no other   *)
(* session can tell apart, is one action.                                  *)
(***************************************************************************)
EXTENDS Integers, FiniteSets

CONSTANTS
    Session,      \* connections that get or build a template
    Template,     \* template databases, named by fingerprint
    Parent,       \* the template each one is copied from, or NoTemplate
    Harness,      \* harness runs; each creates at most one test database
    StaleAfter,   \* age from which the sweep may remove a database
    MaxClock,     \* bound: the clock stops here
    MaxFaults,    \* bound: failed statements, lost connections, timeouts
    NoTemplate, NoSession, Sweeper

Resource == Template \cup Harness

ASSUME CoordinationAssumption ==
    /\ Parent \in [Template -> Template \cup {NoTemplate}]
    /\ NoTemplate \notin Template
    /\ NoSession \notin Session /\ Sweeper \notin Session
    /\ NoSession # Sweeper
    /\ Template \cap Harness = {}
    /\ StaleAfter \in Nat /\ MaxClock \in Nat /\ MaxFaults \in Nat

VARIABLES
    \* the server
    catalog,       \* the parsed comment of each database
    built,         \* templates whose initializer completed
    no_connect,    \* templates with ALLOW_CONNECTIONS false
    writers,       \* templates with application connections
    shared, exclusive, coordination,   \* advisory locks
    \* sessions
    pc, phase, goal,
    source,        \* the handle whose template is being copied
    user,          \* the application holds the DatabaseTemplate
    \* harness runs and their test databases
    alive, test_pc, test_source,
    \* the sweep
    sweep_pc, snapshot, todo, current, now,
    \* environment
    clock, faults

serverVars == <<catalog, built, no_connect, writers>>
lockVars == <<shared, exclusive, coordination>>
sessionVars == <<pc, phase, goal, source, user>>
harnessVars == <<alive, test_pc, test_source>>
sweepVars == <<sweep_pc, snapshot, todo, current, now>>
vars == <<serverVars, lockVars, sessionVars, harnessVars, sweepVars, clock,
          faults>>

\* mismatched is metadata that parses but is not what this name promises.
Tag == {"absent", "untagged", "mismatched", "initializing", "ready", "test"}
Record == [tag : Tag, at : 0 .. MaxClock]
Absent == [tag |-> "absent", at |-> 0]

SessionState == {"idle", "share", "inspect", "coordinate", "exclude", "check",
                 "drop", "create", "tag", "initialize", "abort", "disable",
                 "terminate", "seal", "unlock", "handle"}

\* Session states that hold the template's exclusive lock.
Building == {"check", "drop", "create", "tag", "initialize", "abort",
             "disable", "terminate", "seal", "unlock"}

Init ==
    /\ catalog \in [Resource -> {Absent, [tag |-> "mismatched", at |-> 0]}]
    /\ \A h \in Harness : catalog[h] = Absent
    /\ built = {} /\ no_connect = {} /\ writers = {}
    /\ shared = [t \in Template |-> {}]
    /\ exclusive = [t \in Template |-> NoSession]
    /\ coordination = [t \in Template |-> NoSession]
    /\ pc = [s \in Session |-> "idle"]
    /\ phase = [s \in Session |-> 1]
    /\ goal = [s \in Session |-> NoTemplate]
    /\ source = [s \in Session |-> NoSession]
    /\ user = [s \in Session |-> FALSE]
    /\ alive = [h \in Harness |-> TRUE]
    /\ test_pc = [h \in Harness |-> "none"]
    /\ test_source = [h \in Harness |-> NoSession]
    /\ sweep_pc = "idle" /\ snapshot = [d \in Resource |-> Absent]
    /\ todo = {} /\ current = NoTemplate /\ now = 0
    /\ clock = 0 /\ faults = 0

-----------------------------------------------------------------------------
(***************************************************************************)
(* Mistakes the code could plausibly contain, each replacing the operator  *)
(* whose name it starts with.                                              *)
(***************************************************************************)
CoordinationFree_Ignored(t) == TRUE
ExclusiveFree_IgnoresExclusive(t) == shared[t] = {}
TryLock_IgnoresShared(d) ==
    IF d \in Template THEN exclusive[d] = NoSession ELSE ~alive[d]
Unchanged_Skipped(d) == TRUE
Referenced_NotByCopies(s) == user[s]

-----------------------------------------------------------------------------
(***************************************************************************)
(* Effects of the statements.                                              *)
(***************************************************************************)
\* Metadata carries the time it was made, which for a new database is before
\* CREATE DATABASE and not when the comment is written.
Tagged(tag) == [tag |-> tag, at |-> clock]
Retagged(d, tag) == [catalog[d] EXCEPT !.tag = tag]

IsReady(t) == catalog[t].tag = "ready"

\* DROP DATABASE ... WITH (FORCE)
DropDatabase(d) ==
    /\ catalog' = [catalog EXCEPT ![d] = Absent]
    /\ built' = built \ {d}
    /\ no_connect' = no_connect \ {d}
    /\ writers' = writers \ {d}

\* COMMENT ON DATABASE
SetMetadata(d, record) == catalog' = [catalog EXCEPT ![d] = record]

SharedFree(t) == exclusive[t] = NoSession
ExclusiveFree(t) == shared[t] = {} /\ exclusive[t] = NoSession
CoordinationFree(t) == coordination[t] = NoSession

\* The connection ends; the server releases everything it locked.
ReleaseAll(s) ==
    /\ shared' = [t \in Template |-> shared[t] \ {s}]
    /\ exclusive' = [t \in Template |->
           IF exclusive[t] = s THEN NoSession ELSE exclusive[t]]
    /\ coordination' = [t \in Template |->
           IF coordination[t] = s THEN NoSession ELSE coordination[t]]

CloseSession(s) ==
    /\ ReleaseAll(s)
    /\ pc' = [pc EXCEPT ![s] = "idle"]
    /\ phase' = [phase EXCEPT ![s] = 1]
    /\ goal' = [goal EXCEPT ![s] = NoTemplate]
    /\ source' = [source EXCEPT ![s] = NoSession]
    /\ user' = [user EXCEPT ![s] = FALSE]

Go(s, state) == pc' = [pc EXCEPT ![s] = state]

-----------------------------------------------------------------------------
(***************************************************************************)
(* begin_template.  Phases number the four places that take the shared     *)
(* lock and inspect the template under it.                                 *)
(***************************************************************************)

\* template or derive is called; derive keeps its parent's handle.
BeginTemplate(s, t) ==
    /\ pc[s] = "idle"
    /\ IF Parent[t] = NoTemplate
       THEN source' = source
       ELSE \E r \in Session :
              /\ pc[r] = "handle" /\ user[r] /\ goal[r] = Parent[t]
              /\ source' = [source EXCEPT ![s] = r]
    /\ goal' = [goal EXCEPT ![s] = t]
    /\ Go(s, "share")
    /\ UNCHANGED <<serverVars, lockVars, phase, user, harnessVars, sweepVars,
                   clock, faults>>

LockShared(s) ==
    /\ pc[s] = "share" /\ SharedFree(goal[s])
    /\ shared' = [shared EXCEPT ![goal[s]] = @ \cup {s}]
    /\ Go(s, "inspect")
    /\ UNCHANGED <<serverVars, exclusive, coordination, phase, goal, source,
                   user, harnessVars, sweepVars, clock, faults>>

\* The template is ready: keep the shared lock, give up coordination.
InspectReady(s) ==
    /\ pc[s] = "inspect" /\ IsReady(goal[s])
    /\ coordination' = IF phase[s] = 1 THEN coordination
                       ELSE [coordination EXCEPT ![goal[s]] = NoSession]
    /\ Go(s, "handle")
    /\ phase' = [phase EXCEPT ![s] = 1]
    /\ source' = [source EXCEPT ![s] = NoSession]
    /\ user' = [user EXCEPT ![s] = TRUE]
    /\ UNCHANGED <<serverVars, shared, exclusive, goal, harnessVars, sweepVars,
                   clock, faults>>

\* It is not: release the shared lock and go on, start over, or (after the
\* session sealed the template itself) report inconsistent metadata.
InspectNotReady(s) ==
    /\ pc[s] = "inspect" /\ ~IsReady(goal[s])
    /\ \/ /\ phase[s] \in {1, 2}
          /\ shared' = [shared EXCEPT ![goal[s]] = @ \ {s}]
          /\ Go(s, IF phase[s] = 1 THEN "coordinate" ELSE "exclude")
          /\ UNCHANGED <<exclusive, coordination, phase, goal, source, user>>
       \/ /\ phase[s] = 3
          /\ shared' = [shared EXCEPT ![goal[s]] = @ \ {s}]
          /\ coordination' = [coordination EXCEPT ![goal[s]] = NoSession]
          /\ phase' = [phase EXCEPT ![s] = 1]
          /\ Go(s, "share")
          /\ UNCHANGED <<exclusive, goal, source, user>>
       \/ /\ phase[s] = 4
          /\ CloseSession(s)
    /\ UNCHANGED <<serverVars, harnessVars, sweepVars, clock, faults>>

LockCoordination(s) ==
    /\ pc[s] = "coordinate" /\ CoordinationFree(goal[s])
    /\ coordination' = [coordination EXCEPT ![goal[s]] = s]
    /\ phase' = [phase EXCEPT ![s] = 2]
    /\ Go(s, "share")
    /\ UNCHANGED <<serverVars, shared, exclusive, goal, source, user,
                   harnessVars, sweepVars, clock, faults>>

LockExclusive(s) ==
    /\ pc[s] = "exclude" /\ ExclusiveFree(goal[s])
    /\ exclusive' = [exclusive EXCEPT ![goal[s]] = s]
    /\ Go(s, "check")
    /\ UNCHANGED <<serverVars, shared, coordination, phase, goal, source, user,
                   harnessVars, sweepVars, clock, faults>>

\* Under the exclusive lock: someone else made it ready, or nothing is there,
\* or an interrupted build is, or a database this attempt must not touch.
CheckExisting(s) ==
    /\ pc[s] = "check"
    /\ LET tag == catalog[goal[s]].tag IN
       \/ /\ tag = "ready"
          /\ exclusive' = [exclusive EXCEPT ![goal[s]] = NoSession]
          /\ phase' = [phase EXCEPT ![s] = 3]
          /\ Go(s, "share")
          /\ UNCHANGED <<shared, coordination, goal, source, user>>
       \/ /\ tag \in {"absent", "initializing"}
          /\ Go(s, IF tag = "absent" THEN "create" ELSE "drop")
          /\ UNCHANGED <<lockVars, phase, goal, source, user>>
       \/ /\ tag \in {"untagged", "mismatched"}
          /\ CloseSession(s)
    /\ UNCHANGED <<serverVars, harnessVars, sweepVars, clock, faults>>

DropInterrupted(s) ==
    /\ pc[s] = "drop"
    /\ DropDatabase(goal[s])
    /\ Go(s, "create")
    /\ UNCHANGED <<lockVars, phase, goal, source, user, harnessVars, sweepVars,
                   clock, faults>>

\* CREATE DATABASE ... TEMPLATE
CreateTemplate(s) ==
    /\ pc[s] = "create"
    /\ catalog' = [catalog EXCEPT ![goal[s]] = Tagged("untagged")]
    /\ Go(s, "tag")
    /\ UNCHANGED <<built, no_connect, writers, lockVars, phase, goal, source,
                   user, harnessVars, sweepVars, clock, faults>>

\* The comment is written and the source is no longer needed, or writing
\* fails and the compensating drop removes the database again.
TagTemplate(s) ==
    /\ pc[s] = "tag"
    /\ \/ /\ SetMetadata(goal[s], Retagged(goal[s], "initializing"))
          /\ Go(s, "initialize")
          /\ source' = [source EXCEPT ![s] = NoSession]
          /\ UNCHANGED <<built, no_connect, writers, lockVars, phase, goal,
                         user, faults>>
       \/ /\ faults < MaxFaults
          /\ faults' = faults + 1
          /\ DropDatabase(goal[s])
          /\ CloseSession(s)
    /\ UNCHANGED <<harnessVars, sweepVars, clock>>

-----------------------------------------------------------------------------
(***************************************************************************)
(* The application's initializer, then finish or abort.                    *)
(***************************************************************************)
AfterInitializer == "disable"

RunInitializer(s) ==
    /\ pc[s] = "initialize"
    /\ \/ built' = built \cup {goal[s]} /\ Go(s, AfterInitializer)
       \/ UNCHANGED built /\ Go(s, "abort")
    /\ UNCHANGED <<catalog, no_connect, writers, lockVars, phase, goal, source,
                   user, harnessVars, sweepVars, clock, faults>>

\* abort drops the database, then releases both locks.
Abort(s) ==
    /\ pc[s] = "abort"
    /\ DropDatabase(goal[s])
    /\ CloseSession(s)
    /\ UNCHANGED <<harnessVars, sweepVars, clock, faults>>

DisableConnections(s) ==
    /\ pc[s] = "disable"
    /\ no_connect' = no_connect \cup {goal[s]}
    /\ Go(s, "terminate")
    /\ UNCHANGED <<catalog, built, writers, lockVars, phase, goal, source,
                   user, harnessVars, sweepVars, clock, faults>>

TerminateConnections(s) ==
    /\ pc[s] = "terminate"
    /\ writers' = writers \ {goal[s]}
    /\ Go(s, "seal")
    /\ UNCHANGED <<catalog, built, no_connect, lockVars, phase, goal, source,
                   user, harnessVars, sweepVars, clock, faults>>

SealTemplate(s) ==
    /\ pc[s] = "seal"
    /\ SetMetadata(goal[s], Tagged("ready"))
    /\ Go(s, "unlock")
    /\ UNCHANGED <<built, no_connect, writers, lockVars, phase, goal, source,
                   user, harnessVars, sweepVars, clock, faults>>

\* finish trades the exclusive lock for a shared one; in between the template
\* is protected by nothing but its age.
UnlockSealed(s) ==
    /\ pc[s] = "unlock"
    /\ exclusive' = [exclusive EXCEPT ![goal[s]] = NoSession]
    /\ phase' = [phase EXCEPT ![s] = 4]
    /\ Go(s, "share")
    /\ UNCHANGED <<serverVars, shared, coordination, goal, source, user,
                   harnessVars, sweepVars, clock, faults>>

\* A statement fails, a lock wait times out, the caller is cancelled while
\* its initializer runs, or the process dies.
Fault(s) ==
    /\ pc[s] \notin {"idle", "handle"} /\ faults < MaxFaults
    /\ faults' = faults + 1
    /\ CloseSession(s)
    /\ UNCHANGED <<serverVars, harnessVars, sweepVars, clock>>

-----------------------------------------------------------------------------
(***************************************************************************)
(* Handles.  A copy in progress keeps the handle it copies from.           *)
(***************************************************************************)
Referenced(s) ==
    \/ user[s]
    \/ \E r \in Session : source[r] = s
    \/ \E h \in Harness : test_source[h] = s

DropHandle(s) ==
    /\ pc[s] = "handle" /\ user[s]
    /\ user' = [user EXCEPT ![s] = FALSE]
    /\ UNCHANGED <<serverVars, lockVars, pc, phase, goal, source, harnessVars,
                   sweepVars, clock, faults>>

CloseHandle(s) ==
    /\ pc[s] = "handle" /\ ~Referenced(s)
    /\ CloseSession(s)
    /\ UNCHANGED <<serverVars, harnessVars, sweepVars, clock, faults>>

-----------------------------------------------------------------------------
(***************************************************************************)
(* Test databases.  A harness holds its owner lock while it lives.         *)
(***************************************************************************)
BeginCopy(h, s) ==
    /\ alive[h] /\ test_pc[h] = "none"
    /\ pc[s] = "handle" /\ user[s]
    /\ test_source' = [test_source EXCEPT ![h] = s]
    /\ test_pc' = [test_pc EXCEPT ![h] = "create"]
    /\ UNCHANGED <<serverVars, lockVars, sessionVars, alive, sweepVars, clock,
                   faults>>

CreateCopy(h) ==
    /\ alive[h] /\ test_pc[h] = "create"
    /\ catalog' = [catalog EXCEPT ![h] = Tagged("untagged")]
    /\ test_pc' = [test_pc EXCEPT ![h] = "tag"]
    /\ UNCHANGED <<built, no_connect, writers, lockVars, sessionVars, alive,
                   test_source, sweepVars, clock, faults>>

TagCopy(h) ==
    /\ alive[h] /\ test_pc[h] = "tag"
    /\ SetMetadata(h, Retagged(h, "test"))
    /\ test_pc' = [test_pc EXCEPT ![h] = "leased"]
    /\ test_source' = [test_source EXCEPT ![h] = NoSession]
    /\ UNCHANGED <<built, no_connect, writers, lockVars, sessionVars, alive,
                   sweepVars, clock, faults>>

DropCopy(h) ==
    /\ alive[h] /\ test_pc[h] = "leased"
    /\ DropDatabase(h)
    /\ test_pc' = [test_pc EXCEPT ![h] = "done"]
    /\ UNCHANGED <<lockVars, sessionVars, alive, test_source, sweepVars, clock,
                   faults>>

\* A statement fails.  The copy is not there, or is there without its comment,
\* or was dropped again because of that; or a lease's database stays behind.
CopyFails(h) ==
    /\ alive[h] /\ test_pc[h] \in {"create", "tag", "leased"}
    /\ faults < MaxFaults /\ faults' = faults + 1
    /\ \/ UNCHANGED serverVars
       \/ test_pc[h] = "tag" /\ DropDatabase(h)
    /\ test_pc' = [test_pc EXCEPT ![h] = "done"]
    /\ test_source' = [test_source EXCEPT ![h] = NoSession]
    /\ UNCHANGED <<lockVars, sessionVars, alive, sweepVars, clock>>

\* The process of the harness ends without cleaning up.
HarnessDies(h) ==
    /\ alive[h]
    /\ alive' = [alive EXCEPT ![h] = FALSE]
    /\ test_source' = [test_source EXCEPT ![h] = NoSession]
    /\ UNCHANGED <<serverVars, lockVars, sessionVars, test_pc, sweepVars,
                   clock, faults>>

-----------------------------------------------------------------------------
(***************************************************************************)
(* cleanup_stale_blocking: one list of all databases, then for each stale  *)
(* one a lock, a second look, a drop.                                      *)
(***************************************************************************)

\* saturating_sub: metadata newer than the sweep has age 0.
Age(record) == IF now < record.at THEN 0 ELSE now - record.at

\* classify_cleanup_record says Candidate.
Candidate(record) ==
    /\ record.tag \in {"mismatched", "initializing", "ready", "test"}
    /\ Age(record) >= StaleAfter

\* pg_try_advisory_lock on the lock key in the metadata.
TryLock(d) == IF d \in Template THEN ExclusiveFree(d) ELSE ~alive[d]

\* revalidate_cleanup_candidate: the record is still the listed one.
Unchanged(d) == catalog[d] = snapshot[d] /\ Candidate(catalog[d])

SweepList ==
    /\ sweep_pc = "idle"
    /\ snapshot' = catalog /\ todo' = Resource
    /\ sweep_pc' = "listed"
    /\ UNCHANGED <<serverVars, lockVars, sessionVars, harnessVars, current,
                   now, clock, faults>>

\* The clock is read after the list: it may be later than all of it.
SweepReadClock ==
    /\ sweep_pc = "listed"
    /\ now' = clock
    /\ sweep_pc' = "scan"
    /\ UNCHANGED <<serverVars, lockVars, sessionVars, harnessVars, snapshot,
                   todo, current, clock, faults>>

SweepSkip(d) ==
    /\ sweep_pc = "scan" /\ d \in todo
    /\ Candidate(snapshot[d]) => ~TryLock(d)
    /\ todo' = todo \ {d}
    /\ UNCHANGED <<serverVars, lockVars, sessionVars, harnessVars, sweep_pc,
                   snapshot, current, now, clock, faults>>

SweepLock(d) ==
    /\ sweep_pc = "scan" /\ d \in todo
    /\ Candidate(snapshot[d]) /\ TryLock(d)
    /\ exclusive' = IF d \in Template
                    THEN [exclusive EXCEPT ![d] = Sweeper] ELSE exclusive
    /\ current' = d
    /\ sweep_pc' = "validate"
    /\ UNCHANGED <<serverVars, shared, coordination, sessionVars, harnessVars,
                   snapshot, todo, now, clock, faults>>

SweepUnlock ==
    /\ exclusive' = [t \in Template |->
           IF exclusive[t] = Sweeper THEN NoSession ELSE exclusive[t]]
    /\ todo' = todo \ {current}
    /\ current' = NoTemplate
    /\ sweep_pc' = "scan"

SweepValidate ==
    /\ sweep_pc = "validate"
    /\ IF Unchanged(current)
       THEN sweep_pc' = "drop" /\ UNCHANGED <<exclusive, todo, current>>
       ELSE SweepUnlock
    /\ UNCHANGED <<serverVars, shared, coordination, sessionVars, harnessVars,
                   snapshot, now, clock, faults>>

SweepDrop ==
    /\ sweep_pc = "drop"
    /\ DropDatabase(current)
    /\ SweepUnlock
    /\ UNCHANGED <<shared, coordination, sessionVars, harnessVars, snapshot,
                   now, clock, faults>>

\* The list is done, or the sweep fails and its connection ends.
SweepEnd ==
    /\ \/ sweep_pc = "scan" /\ todo = {} /\ UNCHANGED faults
       \/ sweep_pc # "idle" /\ faults < MaxFaults /\ faults' = faults + 1
    /\ exclusive' = [t \in Template |->
           IF exclusive[t] = Sweeper THEN NoSession ELSE exclusive[t]]
    /\ sweep_pc' = "idle" /\ snapshot' = [d \in Resource |-> Absent]
    /\ todo' = {} /\ current' = NoTemplate /\ now' = 0
    /\ UNCHANGED <<serverVars, shared, coordination, sessionVars, harnessVars,
                   clock>>

-----------------------------------------------------------------------------
\* Application code with the URL of a template connects and disconnects.
Connect(t) ==
    /\ catalog[t].tag # "absent" /\ t \notin no_connect
    /\ writers' = writers \cup {t}
    /\ UNCHANGED <<catalog, built, no_connect, lockVars, sessionVars,
                   harnessVars, sweepVars, clock, faults>>

Disconnect(t) ==
    /\ t \in writers
    /\ writers' = writers \ {t}
    /\ UNCHANGED <<catalog, built, no_connect, lockVars, sessionVars,
                   harnessVars, sweepVars, clock, faults>>

Tick ==
    /\ clock < MaxClock
    /\ clock' = clock + 1
    /\ UNCHANGED <<serverVars, lockVars, sessionVars, harnessVars, sweepVars,
                   faults>>

WaitStep(s) == LockShared(s) \/ LockCoordination(s) \/ LockExclusive(s)

RunStep(s) ==
    \/ InspectReady(s) \/ InspectNotReady(s) \/ CheckExisting(s)
    \/ DropInterrupted(s) \/ CreateTemplate(s) \/ TagTemplate(s)
    \/ RunInitializer(s) \/ Abort(s)
    \/ DisableConnections(s) \/ TerminateConnections(s) \/ SealTemplate(s)
    \/ UnlockSealed(s) \/ CloseHandle(s)

HarnessStep(h) ==
    CreateCopy(h) \/ TagCopy(h) \/ DropCopy(h) \/ CopyFails(h) \/ HarnessDies(h)

SweepStep ==
    \/ SweepReadClock \/ SweepValidate \/ SweepDrop \/ SweepEnd
    \/ \E d \in Resource : SweepSkip(d) \/ SweepLock(d)

Next ==
    \/ \E s \in Session :
          WaitStep(s) \/ RunStep(s) \/ Fault(s) \/ DropHandle(s)
    \/ \E s \in Session, t \in Template : BeginTemplate(s, t)
    \/ \E h \in Harness, s \in Session : BeginCopy(h, s)
    \/ \E h \in Harness : HarnessStep(h)
    \/ SweepList \/ SweepStep
    \/ \E t \in Template : Connect(t) \/ Disconnect(t)
    \/ Tick

Spec == Init /\ [][Next]_vars

(***************************************************************************)
(* PostgreSQL queues lock requests, so one whose lock is free again and    *)
(* again is granted (SF); statements end and a sweep goes on (WF).  No     *)
(* application drops a handle or begins an attempt because of fairness.    *)
(***************************************************************************)
Fairness ==
    /\ \A s \in Session :
          /\ SF_vars(LockShared(s)) /\ SF_vars(LockCoordination(s))
          /\ SF_vars(LockExclusive(s))
          /\ WF_vars(RunStep(s))
    /\ WF_vars(SweepStep)

FairSpec == Spec /\ Fairness

-----------------------------------------------------------------------------
(***************************************************************************)
(* Properties.                                                             *)
(***************************************************************************)

\* Every variable has its type.
TypeOK ==
    /\ catalog \in [Resource -> Record]
    /\ built \subseteq Template /\ no_connect \subseteq Template
    /\ writers \subseteq Template
    /\ shared \in [Template -> SUBSET Session]
    /\ exclusive \in [Template -> Session \cup {NoSession, Sweeper}]
    /\ coordination \in [Template -> Session \cup {NoSession}]
    /\ pc \in [Session -> SessionState] /\ phase \in [Session -> 1 .. 4]
    /\ goal \in [Session -> Template \cup {NoTemplate}]
    /\ source \in [Session -> Session \cup {NoSession}]
    /\ user \in [Session -> BOOLEAN]
    /\ alive \in [Harness -> BOOLEAN]
    /\ test_pc \in [Harness -> {"none", "create", "tag", "leased", "done"}]
    /\ test_source \in [Harness -> Session \cup {NoSession}]
    /\ sweep_pc \in {"idle", "listed", "scan", "validate", "drop"}
    /\ snapshot \in [Resource -> Record] /\ todo \subseteq Resource
    /\ current \in Resource \cup {NoTemplate}
    /\ now \in 0 .. MaxClock /\ clock \in 0 .. MaxClock
    /\ faults \in 0 .. MaxFaults

\* The database is what its fingerprint promises and nobody can change it.
Sealed(t) == IsReady(t) /\ t \in built /\ t \notin writers /\ t \in no_connect

\* A DatabaseTemplate stands for a sealed database for as long as anything
\* refers to it, whatever other processes, sweeps and failures do.  And a
\* template that says it is ready is complete and without an application
\* connection: nobody reconnects between the initializer's end and the seal.
HandleSound ==
    /\ TypeOK
    /\ \A s \in Session : pc[s] = "handle" /\ Referenced(s) => Sealed(goal[s])
    /\ \A t \in Template : IsReady(t) => Sealed(t)

\* "The parent stays protected while child preparation copies and tags its
\* source, even if the awaiting caller is cancelled"; leases likewise.
SourceProtected ==
    /\ \A s \in Session : pc[s] \in {"create", "tag"} =>
          Parent[goal[s]] = NoTemplate
          \/ (pc[source[s]] = "handle" /\ Sealed(Parent[goal[s]]))
    /\ \A h \in Harness : alive[h] /\ test_pc[h] \in {"create", "tag"} =>
          pc[test_source[h]] = "handle" /\ Sealed(goal[test_source[h]])

\* Whatever other sessions and sweeps do, a session that builds a template is
\* the only one, and finds the database in the state its own steps left it in.
BuildUndisturbed ==
    \A s \in Session : pc[s] \in Building =>
        /\ \A r \in Session \ {s} : pc[r] \in Building => goal[r] # goal[s]
        /\ catalog[goal[s]].tag \in
              CASE pc[s] = "check" -> Tag
                [] pc[s] = "create" -> {"absent"}
                [] pc[s] = "tag" -> {"untagged"}
                [] pc[s] = "unlock" -> {"ready"}
                [] OTHER -> {"initializing"}

\* "active, fresh, untagged, and foreign databases are skipped": whatever the
\* sweep removes was tagged, old enough and unowned at that very moment.
SweepOnlyAbandoned ==
    [][\A d \in Resource :
          (sweep_pc = "drop" /\ catalog[d].tag # "absent"
                /\ catalog'[d].tag = "absent" /\ current = d)
          => /\ catalog[d].tag # "untagged"
             /\ clock - catalog[d].at >= StaleAfter
             /\ d \in Harness => ~alive[d]
             /\ d \in Template => \A s \in Session :
                   goal[s] = d => pc[s] \notin Building \cup {"handle"}]_vars

\* Every attempt ends, although handles may be kept forever: no retained
\* shared lock strands a session that waits for the exclusive one.
AttemptEnds ==
    \A s \in Session : pc[s] = "share" ~> pc[s] \in {"handle", "idle"}

\* DatabaseTemplate::derive: "Failed or cancelled attempts can run again from
\* a fresh parent copy."  States that no ended attempt leaves a database which
\* every later attempt refuses as inconsistent and the sweep as unrecognized.
FailedAttemptsRunAgain ==
    (\A s \in Session : pc[s] = "idle") =>
        \A t \in Template : catalog[t].tag # "untagged"

-----------------------------------------------------------------------------
(***************************************************************************)
(* The promise of the templates to the harnesses that share a server.      *)
(***************************************************************************)
Present == {d \in Resource : catalog[d].tag # "absent"}
Usable == {t \in Template : Sealed(t)}
Handles == {s \in Session : pc[s] = "handle"}
Used == {s \in Session : user[s]}
Leased == {h \in Harness : alive[h] /\ test_pc[h] = "leased"}

Registry == INSTANCE TemplateRegistry WITH
    present <- Present, usable <- Usable, builder <- exclusive, want <- goal,
    holding <- Handles, used <- Used, leased <- Leased

\* With the locks, the catalog's comments, the waiting and the clock forgotten,
\* every step of a session, a harness or the sweep is one of TemplateRegistry,
\* or none.
ImplementsRegistry == Registry!Spec

=============================================================================
