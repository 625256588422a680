---------------------------- MODULE OwnedContainer ----------------------------
(***************************************************************************)
(* The life of an owned server (ContainerOwner, start_blocking and         *)
(* shutdown_container in src/server.rs): a worker thread starts, watches   *)
(* and removes the container; the starting thread waits for it with a      *)
(* deadline; and then shutdown calls, the drop of the last reference and   *)
(* the handler of process exit may all ask for the removal.                *)
(*                                                                         *)
(* Closing the queue and the session pool are CleanupQueue's and           *)
(* AdminSessionPool's subjects; here they are steps of shutdown_container  *)
(* that may report a cleanup failure.  The container engine may fail at    *)
(* every call.  Once the process has exited no thread takes a step.        *)
(***************************************************************************)
EXTENDS Integers, FiniteSets, Sequences

CONSTANT Task      \* calls of PostgresHarness::shutdown

ASSUME TaskAssumption ==
    /\ IsFiniteSet(Task)
    /\ Task \cap {"start", "user", "exit", "server", "nobody"} = {}

\* start: the thread of start_blocking; user: whoever drops the last handle;
\* exit: cleanup_owned_containers_at_exit.
Actor == Task \cup {"start", "user", "exit"}
Nobody == "nobody"

VARIABLES
    pc,           \* where each actor is
    result,       \* what an actor's call of shutdown or start has reported
    cancelled,    \* shutdown calls whose caller has gone
    worker,       \* where the worker thread is
    removal,      \* RemovalResult of the worker thread
    container,    \* what the engine has
    started,      \* contents of the channel from the worker to start
    listening,    \* start still has the receiving end of it
    commands,     \* the channel of ContainerCommand
    sender,       \* its sending end exists
    startupExit,  \* startup_exit is set
    slot,         \* ContainerOwner.worker is Some
    lock,         \* who holds the mutex around it
    refs,         \* who holds an Arc<ContainerOwner>
    registered,   \* CONTAINER_REGISTRY has a weak reference to the owner
    elapsed,      \* the startup timeout has passed
    closed,       \* parts of the server that shutdown has closed
    exited        \* the process is gone

startVars == <<started, listening, elapsed, registered>>
workerVars == <<worker, removal, container, startupExit>>
commandVars == <<commands, sender>>
ownerVars == <<slot, lock, refs>>
vars == <<pc, result, cancelled, startVars, workerVars, commandVars, ownerVars,
          closed, exited>>

(***************************************************************************)
(* Actors: receive .. finish are the steps of start_blocking; drain and    *)
(* sessions those of shutdown_container before container.shutdown; lock    *)
(* and join those of ContainerOwner::shutdown, which everybody runs.       *)
(***************************************************************************)
ActorState == {"idle", "receive", "abandon", "joinWorker", "register", "wait",
               "ready", "finish", "drain", "sessions", "upgrade", "lock",
               "join", "over"}
\* ok, or which failures a call has reported.
Result == SUBSET {"startup", "cleanup", "removal"}
WorkerState == {"none", "starting", "resolving", "monitor", "parked",
                "removing", "exited"}
Removal == {"none", "ok", "error"}
ContainerState == {"absent", "running", "stopped", "removed"}
Present == container \in {"running", "stopped"}

Init ==
    /\ pc = [a \in Actor |-> "idle"]
    /\ result = [a \in Actor |-> {}] /\ cancelled = {}
    /\ worker = "none" /\ removal = "none" /\ container = "absent"
    /\ startupExit = FALSE
    /\ started = "empty" /\ listening = FALSE /\ elapsed = FALSE
    /\ registered = FALSE
    /\ commands = <<>> /\ sender = FALSE
    /\ slot = FALSE /\ lock = Nobody /\ refs = {}
    /\ closed = {} /\ exited = FALSE

-----------------------------------------------------------------------------
Go(a, state) == pc' = [pc EXCEPT ![a] = state]
Report(a, failures) == result' = [result EXCEPT ![a] = @ \cup failures]

(***************************************************************************)
(* Mistakes the code could plausibly contain, each replacing the operator  *)
(* whose name it starts with.                                              *)
(***************************************************************************)
AfterReady_Removes == "removing"
Disconnect_KeepsSender == /\ listening' = FALSE
                          /\ UNCHANGED sender
AfterAbandon_Returns == "over"
HoldLock_WhileTaking(a) == UNCHANGED lock
AfterUpgrade_SkipsTaken == IF slot THEN "lock" ELSE "over"

\* No thread outlives the process.
Alive == ~exited /\ UNCHANGED exited

-----------------------------------------------------------------------------
(* The worker thread. *)

EngineStarts ==
    /\ Alive /\ worker = "starting"
    /\ worker' = "resolving" /\ container' = "running"
    /\ UNCHANGED <<pc, result, cancelled, startVars, removal, startupExit,
                   commandVars, ownerVars, closed>>

\* The error is sent whether or not somebody is still there to read it.
EngineFails ==
    /\ Alive /\ worker = "starting"
    /\ worker' = "exited" /\ removal' = "ok"
    /\ started' = IF listening THEN "failed" ELSE started
    /\ UNCHANGED <<pc, result, cancelled, listening, elapsed, registered,
                   container, startupExit, commandVars, ownerVars, closed>>

EnginePanics ==
    /\ Alive /\ worker = "starting"
    /\ worker' = "exited" /\ removal' = "error"
    /\ UNCHANGED <<pc, result, cancelled, startVars, container, startupExit,
                   commandVars, ownerVars, closed>>

\* The address is known, or cannot be had in time; the container exists in
\* both cases.
Resolve ==
    /\ Alive /\ worker = "resolving"
    /\ IF ~listening
       THEN worker' = "removing" /\ UNCHANGED started
       ELSE /\ worker' = "monitor"
            /\ started' \in {"ok", "failed"}
    /\ UNCHANGED <<pc, result, cancelled, listening, elapsed, registered, removal,
                   container, startupExit, commandVars, ownerVars, closed>>

ContainerStops ==
    /\ Alive /\ container = "running"
    /\ container' = "stopped"
    /\ UNCHANGED <<pc, result, cancelled, startVars, worker, removal, startupExit,
                   commandVars, ownerVars, closed>>

AfterReady == "parked"

MonitorCommand ==
    /\ Alive /\ worker = "monitor" /\ commands # <<>>
    /\ worker' = IF Head(commands) = "ready" THEN AfterReady ELSE "removing"
    /\ commands' = Tail(commands)
    /\ UNCHANGED <<pc, result, cancelled, startVars, removal, container,
                   startupExit, sender, ownerVars, closed>>

\* A command may have come since recv_timeout gave up.
MonitorExit ==
    /\ Alive /\ worker = "monitor" /\ container = "stopped"
    /\ startupExit' = TRUE
    /\ worker' = "parked"
    /\ UNCHANGED <<pc, result, cancelled, startVars, removal, container,
                   commandVars, ownerVars, closed>>

\* In recv: any command ends the wait.
ParkedCommand ==
    /\ Alive /\ worker = "parked" /\ commands # <<>>
    /\ worker' = "removing"
    /\ commands' = Tail(commands)
    /\ UNCHANGED <<pc, result, cancelled, startVars, removal, container,
                   startupExit, sender, ownerVars, closed>>

\* recv_timeout and recv find the channel empty and its sender gone.
Disconnected ==
    /\ Alive /\ worker \in {"monitor", "parked"} /\ commands = <<>> /\ ~sender
    /\ worker' = "removing"
    /\ UNCHANGED <<pc, result, cancelled, startVars, removal, container,
                   startupExit, commandVars, ownerVars, closed>>

RemoveContainer ==
    /\ Alive /\ worker = "removing"
    /\ worker' = "exited"
    /\ \/ removal' = "ok" /\ container' = "removed"
       \/ removal' = "error" /\ UNCHANGED container
    /\ UNCHANGED <<pc, result, cancelled, startVars, startupExit, commandVars,
                   ownerVars, closed>>

Worker ==
    \/ EngineStarts \/ EngineFails \/ EnginePanics \/ Resolve
    \/ MonitorCommand \/ MonitorExit \/ ParkedCommand \/ Disconnected
    \/ RemoveContainer

-----------------------------------------------------------------------------
(* ContainerOwner::shutdown, as run by actor a: the mutex is held until    *)
(* the worker has been joined.                                             *)

ShutdownNothing(a) ==
    /\ Alive /\ pc[a] = "lock" /\ lock = Nobody /\ ~slot
    /\ Go(a, "over")
    /\ refs' = refs \ {a}
    /\ UNCHANGED <<result, cancelled, startVars, workerVars, commandVars, slot,
                   lock, closed>>

HoldLock(a) == lock' = a
SendShutdown == commands' = Append(commands, "shutdown") /\ sender' = FALSE

ShutdownTakes(a) ==
    /\ Alive /\ pc[a] = "lock" /\ lock = Nobody /\ slot
    /\ slot' = FALSE
    /\ HoldLock(a)
    /\ SendShutdown
    /\ Go(a, "join")
    /\ UNCHANGED <<result, cancelled, startVars, workerVars, refs, closed>>

\* combine_cleanup_and_shutdown; a drop and the exit handler log instead.
Combine(a, failures) == Report(a, failures)

ShutdownJoined(a) ==
    /\ Alive /\ pc[a] = "join" /\ worker = "exited"
    /\ lock' = Nobody
    /\ Combine(a, IF removal = "error" THEN {"removal"} ELSE {})
    /\ refs' = refs \ {a}
    /\ Go(a, "over")
    /\ UNCHANGED <<cancelled, startVars, workerVars, commandVars, slot, closed>>

Shutdown(a) == ShutdownNothing(a) \/ ShutdownTakes(a) \/ ShutdownJoined(a)

\* Actor a drops its Arc: the last one runs Drop for ContainerOwner.
AfterDrop(a) == IF refs \ {a} = {} THEN "lock" ELSE "over"

-----------------------------------------------------------------------------
(* start_blocking and ContainerOwner::start. *)

Spawn ==
    /\ Alive /\ pc["start"] = "idle"
    /\ Go("start", "receive")
    /\ worker' = "starting"
    /\ listening' = TRUE /\ sender' = TRUE
    /\ UNCHANGED <<result, cancelled, started, elapsed, registered, removal,
                   container, startupExit, commands, ownerVars, closed>>

StartupElapses ==
    /\ Alive /\ ~elapsed /\ pc["start"] \in {"receive", "register", "wait"}
    /\ elapsed' = TRUE
    /\ UNCHANGED <<pc, result, cancelled, started, listening, registered,
                   workerVars, commandVars, ownerVars, closed>>

ReceiveStarted ==
    /\ Alive /\ pc["start"] = "receive" /\ started = "ok"
    /\ Go("start", "register")
    /\ slot' = TRUE /\ refs' = {"start"}
    /\ listening' = FALSE
    /\ UNCHANGED <<result, cancelled, started, elapsed, registered, workerVars,
                   commandVars, lock, closed>>

\* The worker reports an error, the timeout passes, or the worker is gone.
ReceiveFails ==
    /\ Alive /\ pc["start"] = "receive"
    /\ \/ started = "failed"
       \/ started = "empty" /\ (elapsed \/ worker = "exited")
    /\ Go("start", "abandon")
    /\ UNCHANGED <<result, cancelled, startVars, workerVars, commandVars,
                   ownerVars, closed>>

Disconnect == listening' = FALSE /\ sender' = FALSE
AfterAbandon == "joinWorker"

\* The worker may have sent its answer in the meantime.
Abandon ==
    /\ Alive /\ pc["start"] = "abandon"
    /\ Disconnect
    /\ Go("start", AfterAbandon)
    /\ Report("start", {"startup"})
    /\ UNCHANGED <<cancelled, started, elapsed, registered, workerVars, commands,
                   ownerVars, closed>>

JoinFailedStartupWorker ==
    /\ Alive /\ pc["start"] = "joinWorker" /\ worker = "exited"
    /\ Report("start", IF removal = "error" THEN {"removal"} ELSE {})
    /\ Go("start", "over")
    /\ UNCHANGED <<cancelled, startVars, workerVars, commandVars, ownerVars,
                   closed>>

\* The registry's mutex is held by the exit handler while it runs.
RegisterContainer ==
    /\ Alive /\ pc["start"] = "register" /\ pc["exit"] = "idle"
    /\ registered' = TRUE
    /\ Go("start", "wait")
    /\ UNCHANGED <<result, cancelled, started, listening, elapsed, workerVars,
                   commandVars, ownerVars, closed>>

\* wait_for_owned_server: an authenticated connection.
ServerAnswers ==
    /\ Alive /\ pc["start"] = "wait" /\ container = "running" /\ ~startupExit
    /\ Go("start", "ready")
    /\ UNCHANGED <<result, cancelled, startVars, workerVars, commandVars,
                   ownerVars, closed>>

MarkReady ==
    /\ Alive /\ pc["start"] = "ready" /\ lock = Nobody /\ slot /\ worker # "exited"
    /\ commands' = Append(commands, "ready")
    /\ Go("start", "finish")
    /\ UNCHANGED <<result, cancelled, startVars, workerVars, sender, ownerVars,
                   closed>>

\* finish_start_with_client succeeds: the server takes the reference over.
FinishStart ==
    /\ Alive /\ pc["start"] = "finish"
    /\ refs' = (refs \ {"start"}) \cup {"server"}
    /\ Go("start", "over")
    /\ UNCHANGED <<result, cancelled, startVars, workerVars, commandVars, slot,
                   lock, closed>>

\* The exit callback cannot be registered.
RegistrationFails == pc["start"] = "register" /\ pc["exit"] = "idle"
\* The container has exited or the startup timeout has passed.
WaitFails == pc["start"] = "wait" /\ (startupExit \/ elapsed)
\* The exit handler has taken the worker, or the worker is gone.
MarkReadyFails == pc["start"] = "ready" /\ lock = Nobody /\ (~slot \/ worker = "exited")
\* The version is wrong, or a statement or a thread fails.
FinishFails == pc["start"] = "finish"

\* An early return of start_blocking drops the owner.
StartFails ==
    /\ Alive /\ (RegistrationFails \/ WaitFails \/ MarkReadyFails \/ FinishFails)
    /\ Report("start", {"startup"})
    /\ Go("start", AfterDrop("start"))
    /\ refs' = refs \ {"start"}
    /\ UNCHANGED <<cancelled, startVars, workerVars, commandVars, slot, lock,
                   closed>>

Start ==
    \/ ReceiveStarted \/ ReceiveFails \/ Abandon \/ JoinFailedStartupWorker
    \/ RegisterContainer \/ ServerAnswers \/ MarkReady \/ FinishStart \/ StartFails
    \/ Shutdown("start")

-----------------------------------------------------------------------------
(* shutdown_container. *)

\* Everything up to the blocking task happens in one poll.
BeginShutdown(t) ==
    /\ Alive /\ pc[t] = "idle" /\ "server" \in refs
    /\ closed' = closed \cup {"admission", "pools"}
    /\ refs' = refs \cup {t}
    /\ Go(t, "drain")
    /\ UNCHANGED <<result, cancelled, startVars, workerVars, commandVars, slot,
                   lock>>

\* close_and_begin_drain returns when accepted cleanups are done.
DrainCleanup(t) ==
    /\ Alive /\ pc[t] = "drain"
    /\ closed' = closed \cup {"queue"}
    /\ \E failures \in {{}, {"cleanup"}} : Report(t, failures)
    /\ Go(t, "sessions")
    /\ UNCHANGED <<cancelled, startVars, workerVars, commandVars, ownerVars>>

CloseSessions(t) ==
    /\ Alive /\ pc[t] = "sessions"
    /\ closed' = closed \cup {"sessions"}
    /\ Go(t, "lock")
    /\ UNCHANGED <<result, cancelled, startVars, workerVars, commandVars,
                   ownerVars>>

InProgress(t) == pc[t] \notin {"idle", "over"}

\* The caller's future is dropped; the blocking task goes on.
Cancel(t) ==
    /\ Alive /\ InProgress(t) /\ t \notin cancelled
    /\ cancelled' = cancelled \cup {t}
    /\ UNCHANGED <<pc, result, startVars, workerVars, commandVars, ownerVars,
                   closed>>

\* The last handle of the harness; a call in progress borrows one.
DropHandles ==
    /\ Alive /\ pc["user"] = "idle" /\ "server" \in refs
    /\ \A t \in Task : InProgress(t) => t \in cancelled
    /\ refs' = refs \ {"server"}
    /\ Go("user", AfterDrop("server"))
    /\ UNCHANGED <<result, cancelled, startVars, workerVars, commandVars, slot,
                   lock, closed>>

-----------------------------------------------------------------------------
(* The ordinary exit of the process. *)

\* atexit calls the handler once a container has been registered.
BeginExit ==
    /\ ~exited /\ pc["exit"] = "idle"
    /\ IF registered
       THEN Go("exit", "upgrade") /\ UNCHANGED exited
       ELSE Go("exit", "over") /\ exited' = TRUE
    /\ UNCHANGED <<result, cancelled, startVars, workerVars, commandVars,
                   ownerVars, closed>>

AfterUpgrade == "lock"

Upgrade ==
    /\ Alive /\ pc["exit"] = "upgrade" /\ refs # {}
    /\ refs' = refs \cup {"exit"}
    /\ Go("exit", AfterUpgrade)
    /\ UNCHANGED <<result, cancelled, startVars, workerVars, commandVars, slot,
                   lock, closed>>

UpgradeFails ==
    /\ Alive /\ pc["exit"] = "upgrade" /\ refs = {}
    /\ Go("exit", "over")
    /\ UNCHANGED <<result, cancelled, startVars, workerVars, commandVars,
                   ownerVars, closed>>

Exit ==
    /\ pc["exit"] = "over" /\ ~exited
    /\ exited' = TRUE
    /\ UNCHANGED <<pc, result, cancelled, startVars, workerVars, commandVars,
                   ownerVars, closed>>

ExitStep == Upgrade \/ UpgradeFails \/ Shutdown("exit") \/ Exit
TaskStep(t) == DrainCleanup(t) \/ CloseSessions(t) \/ Shutdown(t)

Next ==
    \/ Worker \/ ContainerStops
    \/ Spawn \/ StartupElapses \/ Start
    \/ \E t \in Task : BeginShutdown(t) \/ Cancel(t) \/ TaskStep(t)
    \/ DropHandles \/ Shutdown("user")
    \/ BeginExit \/ ExitStep

(***************************************************************************)
(* Threads run and the startup timeout passes.  Calls of the container     *)
(* engine end: testcontainers gives each a timeout, and so does every      *)
(* statement of finish_start_with_client.  Nothing makes a user shut down, *)
(* drop its handles or leave the process.                                  *)
(***************************************************************************)
Fairness ==
    /\ WF_vars(Worker)
    /\ WF_vars(StartupElapses)
    /\ WF_vars(Start)
    /\ \A t \in Task : WF_vars(TaskStep(t))
    /\ WF_vars(Shutdown("user"))
    /\ WF_vars(ExitStep)

Spec == Init /\ [][Next]_vars /\ Fairness

-----------------------------------------------------------------------------
TypeOK ==
    /\ pc \in [Actor -> ActorState] /\ result \in [Actor -> Result]
    /\ cancelled \subseteq Task
    /\ worker \in WorkerState /\ removal \in Removal
    /\ container \in ContainerState /\ startupExit \in BOOLEAN
    /\ started \in {"empty", "ok", "failed"} /\ listening \in BOOLEAN
    /\ elapsed \in BOOLEAN /\ registered \in BOOLEAN
    /\ commands \in Seq({"ready", "shutdown"}) /\ Len(commands) <= 2
    /\ sender \in BOOLEAN
    /\ slot \in BOOLEAN /\ lock \in Actor \cup {Nobody}
    /\ refs \subseteq Actor \cup {"server"}
    /\ closed \subseteq {"admission", "pools", "queue", "sessions"}
    /\ exited \in BOOLEAN

\* The engine no longer has the container, or its removal was tried and
\* failed.
Gone == worker = "exited" \/ container = "absent"

\* Whoever called shutdown or dropped the last reference goes on only when the
\* removal is over, also when another thread is at it ("later calls observe
\* completed shutdown", harness.rs); so does the process when it exits while
\* somebody still refers to the owner.  (An exit handler that comes when the
\* last reference is just being dropped cannot upgrade its weak one and does
\* not wait: the code promises no more than this.)
ReturnsAfterRemoval ==
    /\ TypeOK
    /\ \A t \in Task : pc[t] = "over" => worker = "exited"
    /\ pc["user"] = "over" /\ refs = {} => worker = "exited"
    /\ exited /\ registered /\ refs # {} => Gone

\* A start that fails, at whatever point and although the worker's answer may
\* cross its timeout, has removed the container before it returns the error
\* (docs/operations.md) unless the exit handler is removing it.
FailedStartRemoves ==
    pc["start"] = "over" /\ "startup" \in result["start"] =>
        worker = "exited" \/ pc["exit"] # "idle"

\* The worker does not remove a container that runs unless it was told to or
\* nobody could tell it any more.
RemovesOnlyOnDemand ==
    worker = "removing" /\ container = "running" =>
        ~sender \/ (~listening /\ started = "empty")

\* A removal error reaches exactly one of those who asked, together with the
\* other failures of its call.
RemovalErrorReportedOnce ==
    LET told == {a \in Actor : "removal" \in result[a]}
    IN  /\ Cardinality(told) <= 1
        /\ removal = "error" /\ lock = Nobody /\ registered /\ ~slot => told # {}
        /\ removal # "error" => told = {}

\* A shutdown that has begun ends with the container's removal, and the call
\* is answered, although its caller may have gone.
ShutdownCompletes ==
    \A t \in Task : pc[t] = "drain" ~> pc[t] = "over" \/ exited

\* ContainerOwner::start and what follows it come to an end: the start timeout
\* and the joins of failed starts leave nobody waiting.
StartEnds == pc["start"] = "receive" ~> pc["start"] = "over" \/ exited

\* No container outlives the last reference to its owner in a process that
\* goes on, although dropping it, shutdown and a failed start may overlap.
UnreferencedIsRemoved == (registered /\ refs = {}) ~> (Gone \/ exited)

\* Every wait on the worker's thread ends: that of a start, of a shutdown and
\* of whoever drops the last reference.
ContainerEnds == StartEnds /\ ShutdownCompletes /\ UnreferencedIsRemoved

=============================================================================
