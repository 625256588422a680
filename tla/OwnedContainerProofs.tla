------------------------- MODULE OwnedContainerProofs -------------------------
(***************************************************************************)
(* Proofs about OwnedContainer for any finite set of shutdown calls.       *)
(***************************************************************************)
EXTENDS OwnedContainer, FiniteSetTheorems, SequenceTheorems, TLAPS

(***************************************************************************)
(* The inductive invariant, one part for each thing the threads share.     *)
(***************************************************************************)

\* start_blocking has no owner yet, or it holds its own reference.
Before == {"idle", "receive", "abandon", "joinWorker"}
Holding == {"register", "wait", "ready", "finish"}

\* How far start_blocking is and who may refer to the owner at that point.
\* Only its end gives the server a reference, which shutdown calls and the
\* last handle start from.
Phases ==
    /\ pc["start"] \in Before \cup Holding \cup {"lock", "join", "over"}
    /\ pc["start"] \in Before => refs = {} /\ ~slot /\ lock = Nobody
    /\ pc["start"] \in Before \cup {"register"} => ~registered
    /\ pc["start"] \in Holding => "start" \in refs
    /\ pc["start"] = "register" => slot
    /\ pc["start"] # "over" => refs \subseteq {"start", "exit"} /\ pc["user"] = "idle"
    /\ pc["user"] \in {"idle", "lock", "join", "over"}
    /\ pc["exit"] \in {"idle", "upgrade", "lock", "join", "over"}

\* A shutdown call and the exit handler hold a reference while they run, and
\* the exit handler runs only when a container was registered.
References ==
    /\ \A t \in Task : /\ pc[t] \in {"idle", "drain", "sessions", "lock", "join", "over"}
                       /\ pc[t] \in {"drain", "sessions", "lock", "join"} <=> t \in refs
    /\ "exit" \in refs <=> pc["exit"] \in {"lock", "join"}
    /\ "user" \notin refs
    /\ "start" \in refs => pc["start"] # "over"
    /\ pc["exit"] # "idle" => registered \/ exited
    /\ exited => pc["exit"] = "over"

\* The mutex is held exactly by the one that has taken the worker and joins it.
MutexHeld ==
    /\ \A a \in Actor : pc[a] = "join" <=> lock = a
    /\ lock # Nobody => ~slot

\* Once there is an owner, its worker waits to be taken, is being joined or is
\* gone: who finds the slot empty under the mutex needs not wait.
WorkerOwned ==
    registered \/ refs # {} \/ (\E a \in Actor : pc[a] \in {"lock", "join"}) =>
        slot \/ lock # Nobody \/ worker = "exited"

\* How far the worker is, what it has sent and whether it tried the removal.
WorkerPhases ==
    /\ worker = "none" <=> pc["start"] = "idle"
    /\ worker \in {"none", "starting", "resolving"} => started = "empty"
    /\ removal # "none" <=> worker = "exited"

Commands == {<<>>, <<"ready">>, <<"shutdown">>, <<"ready", "shutdown">>}

\* The commands that can be on their way: ready is sent once and before
\* shutdown, which is the last one.
CommandOrder ==
    /\ commands \in Commands
    /\ slot => commands \in {<<>>, <<"ready">>}
    /\ pc["start"] \in Before => commands = <<>>
    /\ commands \in {<<"shutdown">>, <<"ready", "shutdown">>} => ~sender
    /\ pc["start"] \in {"register", "wait", "ready"} => commands \in {<<>>, <<"shutdown">>}
    /\ worker = "parked" /\ container = "running" =>
          /\ pc["start"] \notin Before \cup {"register", "wait", "ready"}
          /\ commands \in {<<>>, <<"shutdown">>}

\* Who has been told of a removal error.
Told == {a \in Actor : "removal" \in result[a]}

ToldOnce ==
    /\ \A a, b \in Told : a = b
    /\ Told # {} => /\ removal = "error" /\ lock = Nobody /\ ~slot
                    /\ pc["start"] \notin Before
    /\ removal = "error" /\ lock = Nobody /\ registered /\ ~slot => Told # {}

\* What follows from the others for those whose call is over.
CallsOver ==
    /\ \A t \in Task : pc[t] = "over" => worker = "exited"
    /\ pc["user"] = "over" /\ refs = {} => worker = "exited"
    /\ pc["exit"] = "over" /\ registered => refs = {} \/ worker = "exited"
    /\ pc["start"] \in (Before \ {"joinWorker"}) \cup Holding => result["start"] = {}

OwnerInv ==
    /\ TypeOK /\ Phases /\ References /\ MutexHeld /\ WorkerOwned /\ WorkerPhases
    /\ CommandOrder /\ ToldOnce /\ CallsOver /\ FailedStartRemoves /\ RemovesOnlyOnDemand

-----------------------------------------------------------------------------
(***************************************************************************)
(* Each part is preserved by every step.  The steps are taken in groups:   *)
(* the worker's, the timeout, start_blocking before and with an owner and  *)
(* when it fails, shutdown calls, the last handle, ContainerOwner's        *)
(* shutdown by anybody, and the exit of the process.                       *)
(***************************************************************************)

\* Only start_blocking moves itself, and nobody refers to an owner before it does.
LEMMA PhasesStep ==
    ASSUME OwnerInv, Next
    PROVE  Phases'
<1> USE TaskAssumption DEF OwnerInv, TypeOK, Phases, References, MutexHeld, Before, Holding,
      Nobody, Alive, Go, Report, startVars, workerVars, commandVars, ownerVars, Actor
<1>1. CASE Worker \/ ContainerStops
  BY <1>1 DEF Worker, EngineStarts, EngineFails, EnginePanics, Resolve, MonitorCommand,
             MonitorExit, ParkedCommand, Disconnected, RemoveContainer, ContainerStops, AfterReady
<1>2. CASE Spawn \/ StartupElapses
  BY <1>2 DEF Spawn, StartupElapses
<1>3. CASE ReceiveStarted \/ ReceiveFails \/ Abandon \/ JoinFailedStartupWorker
  BY <1>3 DEF ReceiveStarted, ReceiveFails, Abandon, JoinFailedStartupWorker, Disconnect,
             AfterAbandon
<1>4. CASE RegisterContainer \/ ServerAnswers \/ MarkReady \/ FinishStart
  BY <1>4 DEF RegisterContainer, ServerAnswers, MarkReady, FinishStart
<1>5. CASE StartFails
  BY <1>5 DEF StartFails, AfterDrop, RegistrationFails, WaitFails, MarkReadyFails, FinishFails
<1>6. CASE \E t \in Task : BeginShutdown(t) \/ Cancel(t) \/ DrainCleanup(t) \/ CloseSessions(t)
  BY <1>6 DEF BeginShutdown, Cancel, DrainCleanup, CloseSessions, InProgress
<1>7. CASE DropHandles
  BY <1>7 DEF DropHandles, AfterDrop
<1>8. CASE \E a \in Actor : Shutdown(a)
  BY <1>8 DEF Shutdown, ShutdownNothing, ShutdownTakes, ShutdownJoined, HoldLock, SendShutdown,
             Combine
<1>9. CASE BeginExit \/ Upgrade \/ UpgradeFails \/ Exit
  BY <1>9 DEF BeginExit, Upgrade, UpgradeFails, Exit, AfterUpgrade
<1> QED
  BY <1>1, <1>2, <1>3, <1>4, <1>5, <1>6, <1>7, <1>8, <1>9 DEF Next, Start, TaskStep, ExitStep

\* Every caller keeps its reference until its call is over.
LEMMA ReferencesStep ==
    ASSUME OwnerInv, Next
    PROVE  References'
<1> USE TaskAssumption DEF OwnerInv, TypeOK, Phases, References, Before, Holding, Alive, Go,
      Report, startVars, workerVars, commandVars, ownerVars, Actor
<1>1. CASE Worker \/ ContainerStops
  BY <1>1 DEF Worker, EngineStarts, EngineFails, EnginePanics, Resolve, MonitorCommand,
             MonitorExit, ParkedCommand, Disconnected, RemoveContainer, ContainerStops, AfterReady
<1>2. CASE Spawn \/ StartupElapses
  BY <1>2 DEF Spawn, StartupElapses
<1>3. CASE ReceiveStarted \/ ReceiveFails \/ Abandon \/ JoinFailedStartupWorker
  BY <1>3 DEF ReceiveStarted, ReceiveFails, Abandon, JoinFailedStartupWorker, Disconnect,
             AfterAbandon
<1>4. CASE RegisterContainer \/ ServerAnswers \/ MarkReady \/ FinishStart
  BY <1>4 DEF RegisterContainer, ServerAnswers, MarkReady, FinishStart
<1>5. CASE StartFails
  BY <1>5 DEF StartFails, AfterDrop, RegistrationFails, WaitFails, MarkReadyFails, FinishFails
<1>6. CASE \E t \in Task : BeginShutdown(t) \/ Cancel(t) \/ DrainCleanup(t) \/ CloseSessions(t)
  BY <1>6 DEF BeginShutdown, Cancel, DrainCleanup, CloseSessions, InProgress
<1>7. CASE DropHandles
  BY <1>7 DEF DropHandles, AfterDrop
<1>8. CASE \E a \in Actor : Shutdown(a)
  BY <1>8 DEF Shutdown, ShutdownNothing, ShutdownTakes, ShutdownJoined, HoldLock, SendShutdown,
             Combine
<1>9. CASE BeginExit \/ Upgrade \/ UpgradeFails \/ Exit
  BY <1>9 DEF BeginExit, Upgrade, UpgradeFails, Exit, AfterUpgrade
<1> QED
  BY <1>1, <1>2, <1>3, <1>4, <1>5, <1>6, <1>7, <1>8, <1>9 DEF Next, Start, TaskStep, ExitStep

\* Only who finds the mutex free takes it, together with the worker.
LEMMA MutexHeldStep ==
    ASSUME OwnerInv, Next
    PROVE  MutexHeld'
<1> USE TaskAssumption DEF OwnerInv, TypeOK, Phases, MutexHeld, Before, Holding, Nobody,
      Alive, Go, Report, startVars, workerVars, commandVars, ownerVars, Actor
<1>1. CASE Worker \/ ContainerStops
  BY <1>1 DEF Worker, EngineStarts, EngineFails, EnginePanics, Resolve, MonitorCommand,
             MonitorExit, ParkedCommand, Disconnected, RemoveContainer, ContainerStops, AfterReady
<1>2. CASE Spawn \/ StartupElapses
  BY <1>2 DEF Spawn, StartupElapses
<1>3. CASE ReceiveStarted \/ ReceiveFails \/ Abandon \/ JoinFailedStartupWorker
  BY <1>3 DEF ReceiveStarted, ReceiveFails, Abandon, JoinFailedStartupWorker, Disconnect,
             AfterAbandon
<1>4. CASE RegisterContainer \/ ServerAnswers \/ MarkReady \/ FinishStart
  BY <1>4 DEF RegisterContainer, ServerAnswers, MarkReady, FinishStart
<1>5. CASE StartFails
  BY <1>5 DEF StartFails, AfterDrop, RegistrationFails, WaitFails, MarkReadyFails, FinishFails
<1>6. CASE \E t \in Task : BeginShutdown(t) \/ Cancel(t) \/ DrainCleanup(t) \/ CloseSessions(t)
  BY <1>6 DEF BeginShutdown, Cancel, DrainCleanup, CloseSessions, InProgress
<1>7. CASE DropHandles
  BY <1>7 DEF DropHandles, AfterDrop
<1>8. CASE \E a \in Actor : Shutdown(a)
  BY <1>8 DEF Shutdown, ShutdownNothing, ShutdownTakes, ShutdownJoined, HoldLock, SendShutdown,
             Combine
<1>9. CASE BeginExit \/ Upgrade \/ UpgradeFails \/ Exit
  BY <1>9 DEF BeginExit, Upgrade, UpgradeFails, Exit, AfterUpgrade
<1> QED
  BY <1>1, <1>2, <1>3, <1>4, <1>5, <1>6, <1>7, <1>8, <1>9 DEF Next, Start, TaskStep, ExitStep

\* The slot is emptied by who joins the worker, and the mutex is released once
\* the worker has exited, which it does for good.
LEMMA WorkerOwnedStep ==
    ASSUME OwnerInv, Next
    PROVE  WorkerOwned'
<1> USE TaskAssumption DEF OwnerInv, TypeOK, Phases, References, MutexHeld, WorkerPhases,
      WorkerOwned, Before, Holding, Nobody, Alive, Go, Report, startVars, workerVars,
      commandVars, ownerVars, Actor
<1>1. CASE Worker \/ ContainerStops
  BY <1>1 DEF Worker, EngineStarts, EngineFails, EnginePanics, Resolve, MonitorCommand,
             MonitorExit, ParkedCommand, Disconnected, RemoveContainer, ContainerStops, AfterReady
<1>2. CASE Spawn \/ StartupElapses
  BY <1>2 DEF Spawn, StartupElapses
<1>3. CASE ReceiveStarted \/ ReceiveFails \/ Abandon \/ JoinFailedStartupWorker
  BY <1>3 DEF ReceiveStarted, ReceiveFails, Abandon, JoinFailedStartupWorker, Disconnect,
             AfterAbandon
<1>4. CASE RegisterContainer \/ ServerAnswers \/ MarkReady \/ FinishStart
  BY <1>4 DEF RegisterContainer, ServerAnswers, MarkReady, FinishStart
<1>5. CASE StartFails
  BY <1>5 DEF StartFails, AfterDrop, RegistrationFails, WaitFails, MarkReadyFails, FinishFails
<1>6. CASE \E t \in Task : BeginShutdown(t) \/ Cancel(t) \/ DrainCleanup(t) \/ CloseSessions(t)
  BY <1>6 DEF BeginShutdown, Cancel, DrainCleanup, CloseSessions, InProgress
<1>7. CASE DropHandles
  BY <1>7 DEF DropHandles, AfterDrop
<1>8. CASE \E a \in Actor : Shutdown(a)
  BY <1>8 DEF Shutdown, ShutdownNothing, ShutdownTakes, ShutdownJoined, HoldLock, SendShutdown,
             Combine
<1>9. CASE BeginExit \/ Upgrade \/ UpgradeFails \/ Exit
  BY <1>9 DEF BeginExit, Upgrade, UpgradeFails, Exit, AfterUpgrade
<1> QED
  BY <1>1, <1>2, <1>3, <1>4, <1>5, <1>6, <1>7, <1>8, <1>9 DEF Next, Start, TaskStep, ExitStep

\* The worker exists from Spawn on, and settles the removal as it exits.
LEMMA WorkerPhasesStep ==
    ASSUME OwnerInv, Next
    PROVE  WorkerPhases'
<1> USE TaskAssumption DEF OwnerInv, TypeOK, Phases, WorkerPhases, Before, Holding, Removal,
      Alive, Go, Report, startVars, workerVars, commandVars, ownerVars, Actor
<1>1. CASE Worker \/ ContainerStops
  BY <1>1 DEF Worker, EngineStarts, EngineFails, EnginePanics, Resolve, MonitorCommand,
             MonitorExit, ParkedCommand, Disconnected, RemoveContainer, ContainerStops, AfterReady
<1>2. CASE Spawn \/ StartupElapses
  BY <1>2 DEF Spawn, StartupElapses
<1>3. CASE ReceiveStarted \/ ReceiveFails \/ Abandon \/ JoinFailedStartupWorker
  BY <1>3 DEF ReceiveStarted, ReceiveFails, Abandon, JoinFailedStartupWorker, Disconnect,
             AfterAbandon
<1>4. CASE RegisterContainer \/ ServerAnswers \/ MarkReady \/ FinishStart
  BY <1>4 DEF RegisterContainer, ServerAnswers, MarkReady, FinishStart
<1>5. CASE StartFails
  BY <1>5 DEF StartFails, AfterDrop, RegistrationFails, WaitFails, MarkReadyFails, FinishFails
<1>6. CASE \E t \in Task : BeginShutdown(t) \/ Cancel(t) \/ DrainCleanup(t) \/ CloseSessions(t)
  BY <1>6 DEF BeginShutdown, Cancel, DrainCleanup, CloseSessions, InProgress
<1>7. CASE DropHandles
  BY <1>7 DEF DropHandles, AfterDrop
<1>8. CASE \E a \in Actor : Shutdown(a)
  BY <1>8 DEF Shutdown, ShutdownNothing, ShutdownTakes, ShutdownJoined, HoldLock, SendShutdown,
             Combine
<1>9. CASE BeginExit \/ Upgrade \/ UpgradeFails \/ Exit
  BY <1>9 DEF BeginExit, Upgrade, UpgradeFails, Exit, AfterUpgrade
<1> QED
  BY <1>1, <1>2, <1>3, <1>4, <1>5, <1>6, <1>7, <1>8, <1>9 DEF Next, Start, TaskStep, ExitStep

\* Whoever ends its call has joined the worker or found it gone.
LEMMA CallsOverStep ==
    ASSUME OwnerInv, Next
    PROVE  CallsOver'
<1> USE TaskAssumption DEF OwnerInv, TypeOK, Phases, References, MutexHeld, WorkerPhases,
      WorkerOwned, CallsOver, Before, Holding, Nobody, Alive, Go, Report, startVars,
      workerVars, commandVars, ownerVars, Actor
<1>1. CASE Worker \/ ContainerStops
  BY <1>1 DEF Worker, EngineStarts, EngineFails, EnginePanics, Resolve, MonitorCommand,
             MonitorExit, ParkedCommand, Disconnected, RemoveContainer, ContainerStops, AfterReady
<1>2. CASE Spawn \/ StartupElapses
  BY <1>2 DEF Spawn, StartupElapses
<1>3. CASE ReceiveStarted \/ ReceiveFails \/ Abandon \/ JoinFailedStartupWorker
  BY <1>3 DEF ReceiveStarted, ReceiveFails, Abandon, JoinFailedStartupWorker, Disconnect,
             AfterAbandon
<1>4. CASE RegisterContainer \/ ServerAnswers \/ MarkReady \/ FinishStart
  BY <1>4 DEF RegisterContainer, ServerAnswers, MarkReady, FinishStart
<1>5. CASE StartFails
  BY <1>5 DEF StartFails, AfterDrop, RegistrationFails, WaitFails, MarkReadyFails, FinishFails
<1>6. CASE \E t \in Task : BeginShutdown(t) \/ Cancel(t) \/ DrainCleanup(t) \/ CloseSessions(t)
  BY <1>6 DEF BeginShutdown, Cancel, DrainCleanup, CloseSessions, InProgress
<1>7. CASE DropHandles
  BY <1>7 DEF DropHandles, AfterDrop
<1>8. CASE \E a \in Actor : Shutdown(a)
  BY <1>8 DEF Shutdown, ShutdownNothing, ShutdownTakes, ShutdownJoined, HoldLock, SendShutdown,
             Combine
<1>9. CASE BeginExit \/ Upgrade \/ UpgradeFails \/ Exit
  BY <1>9 DEF BeginExit, Upgrade, UpgradeFails, Exit, AfterUpgrade
<1> QED
  BY <1>1, <1>2, <1>3, <1>4, <1>5, <1>6, <1>7, <1>8, <1>9 DEF Next, Start, TaskStep, ExitStep

\* A failed start joins the worker, or leaves it to the exit handler.
LEMMA FailedStartStep ==
    ASSUME OwnerInv, Next
    PROVE  FailedStartRemoves'
<1> USE TaskAssumption DEF OwnerInv, TypeOK, Phases, References, MutexHeld, WorkerPhases,
      WorkerOwned, CallsOver, FailedStartRemoves, Before, Holding, Nobody, Alive, Go,
      Report, startVars, workerVars, commandVars, ownerVars, Actor
<1>1. CASE Worker \/ ContainerStops
  BY <1>1 DEF Worker, EngineStarts, EngineFails, EnginePanics, Resolve, MonitorCommand,
             MonitorExit, ParkedCommand, Disconnected, RemoveContainer, ContainerStops, AfterReady
<1>2. CASE Spawn \/ StartupElapses
  BY <1>2 DEF Spawn, StartupElapses
<1>3. CASE ReceiveStarted \/ ReceiveFails \/ Abandon \/ JoinFailedStartupWorker
  BY <1>3 DEF ReceiveStarted, ReceiveFails, Abandon, JoinFailedStartupWorker, Disconnect,
             AfterAbandon
<1>4. CASE RegisterContainer \/ ServerAnswers \/ MarkReady \/ FinishStart
  BY <1>4 DEF RegisterContainer, ServerAnswers, MarkReady, FinishStart
<1>5. CASE StartFails
  BY <1>5 DEF StartFails, AfterDrop, RegistrationFails, WaitFails, MarkReadyFails, FinishFails
<1>6. CASE \E t \in Task : BeginShutdown(t) \/ Cancel(t) \/ DrainCleanup(t) \/ CloseSessions(t)
  BY <1>6 DEF BeginShutdown, Cancel, DrainCleanup, CloseSessions, InProgress
<1>7. CASE DropHandles
  BY <1>7 DEF DropHandles, AfterDrop
<1>8. CASE \E a \in Actor : Shutdown(a)
  BY <1>8 DEF Shutdown, ShutdownNothing, ShutdownTakes, ShutdownJoined, HoldLock, SendShutdown,
             Combine
<1>9. CASE BeginExit \/ Upgrade \/ UpgradeFails \/ Exit
  BY <1>9 DEF BeginExit, Upgrade, UpgradeFails, Exit, AfterUpgrade
<1> QED
  BY <1>1, <1>2, <1>3, <1>4, <1>5, <1>6, <1>7, <1>8, <1>9 DEF Next, Start, TaskStep, ExitStep

\* A worker turns to the removal when it reads shutdown, which is the last
\* thing that is sent, or finds nobody at the other end.
LEMMA OnDemandStep ==
    ASSUME OwnerInv, Next
    PROVE  RemovesOnlyOnDemand'
<1> USE TaskAssumption DEF OwnerInv, TypeOK, Phases, WorkerPhases, CommandOrder, Commands,
      RemovesOnlyOnDemand, Before, Holding, Alive, Go, Report, startVars, workerVars,
      commandVars, ownerVars, Actor
<1>1. CASE Worker \/ ContainerStops
  BY <1>1 DEF Worker, EngineStarts, EngineFails, EnginePanics, Resolve, MonitorCommand,
             MonitorExit, ParkedCommand, Disconnected, RemoveContainer, ContainerStops, AfterReady
<1>2. CASE Spawn \/ StartupElapses
  BY <1>2 DEF Spawn, StartupElapses
<1>3. CASE ReceiveStarted \/ ReceiveFails \/ Abandon \/ JoinFailedStartupWorker
  BY <1>3 DEF ReceiveStarted, ReceiveFails, Abandon, JoinFailedStartupWorker, Disconnect,
             AfterAbandon
<1>4. CASE RegisterContainer \/ ServerAnswers \/ MarkReady \/ FinishStart
  BY <1>4 DEF RegisterContainer, ServerAnswers, MarkReady, FinishStart
<1>5. CASE StartFails
  BY <1>5 DEF StartFails, AfterDrop, RegistrationFails, WaitFails, MarkReadyFails, FinishFails
<1>6. CASE \E t \in Task : BeginShutdown(t) \/ Cancel(t) \/ DrainCleanup(t) \/ CloseSessions(t)
  BY <1>6 DEF BeginShutdown, Cancel, DrainCleanup, CloseSessions, InProgress
<1>7. CASE DropHandles
  BY <1>7 DEF DropHandles, AfterDrop
<1>8. CASE \E a \in Actor : Shutdown(a)
  BY <1>8 DEF Shutdown, ShutdownNothing, ShutdownTakes, ShutdownJoined, HoldLock, SendShutdown,
             Combine
<1>9. CASE BeginExit \/ Upgrade \/ UpgradeFails \/ Exit
  BY <1>9 DEF BeginExit, Upgrade, UpgradeFails, Exit, AfterUpgrade
<1> QED
  BY <1>1, <1>2, <1>3, <1>4, <1>5, <1>6, <1>7, <1>8, <1>9 DEF Next, Start, TaskStep, ExitStep

-----------------------------------------------------------------------------
\* The channel's contents, as the sequences that can occur.
LEMMA CommandFacts ==
    /\ <<>> # <<"ready">> /\ <<>> # <<"shutdown">> /\ <<>> # <<"ready", "shutdown">>
    /\ <<"ready">> # <<"shutdown">> /\ <<"ready">> # <<"ready", "shutdown">>
    /\ <<"shutdown">> # <<"ready", "shutdown">>
    /\ Append(<<>>, "ready") = <<"ready">> /\ Append(<<>>, "shutdown") = <<"shutdown">>
    /\ Append(<<"ready">>, "shutdown") = <<"ready", "shutdown">>
    /\ Tail(<<"ready">>) = <<>> /\ Tail(<<"shutdown">>) = <<>>
    /\ Tail(<<"ready", "shutdown">>) = <<"shutdown">>
    /\ Head(<<"ready">>) = "ready" /\ Head(<<"shutdown">>) = "shutdown"
    /\ Head(<<"ready", "shutdown">>) = "ready"
<1>1. <<>> # <<"ready">> /\ <<>> # <<"shutdown">> /\ <<>> # <<"ready", "shutdown">>
  OBVIOUS
<1>2. /\ <<"ready">> # <<"shutdown">> /\ <<"ready">> # <<"ready", "shutdown">>
      /\ <<"shutdown">> # <<"ready", "shutdown">>
  OBVIOUS
<1>3. Append(<<>>, "ready") = <<"ready">> /\ Append(<<>>, "shutdown") = <<"shutdown">>
  OBVIOUS
<1>4. Append(<<"ready">>, "shutdown") = <<"ready", "shutdown">>
  <2> DEFINE C == {"ready", "shutdown"}
             r == <<"ready">>
             s == Append(r, "shutdown")
             t == <<"ready", "shutdown">>
  <2>1. /\ r \in Seq(C) /\ Len(r) = 1 /\ r[1] = "ready"
        /\ t \in Seq(C) /\ Len(t) = 2 /\ t[1] = "ready" /\ t[2] = "shutdown"
    OBVIOUS
  <2> HIDE DEF r, t
  <2>2. s \in Seq(C) /\ Len(s) = 2 /\ s[1] = "ready" /\ s[2] = "shutdown"
    BY <2>1
  <2> HIDE DEF s
  <2>3. \A i \in 1 .. 2 : s[i] = t[i]
    BY <2>1, <2>2
  <2>4. s = t
    BY <2>1, <2>2, <2>3, SeqEqual
  <2> QED
    BY <2>4 DEF r, s, t
<1>5. Tail(<<"ready">>) = <<>> /\ Tail(<<"shutdown">>) = <<>>
  OBVIOUS
<1>6. Tail(<<"ready", "shutdown">>) = <<"shutdown">>
  OBVIOUS
<1>7. /\ Head(<<"ready">>) = "ready" /\ Head(<<"shutdown">>) = "shutdown"
      /\ Head(<<"ready", "shutdown">>) = "ready"
  OBVIOUS
<1> QED
  BY <1>1, <1>2, <1>3, <1>4, <1>5, <1>6, <1>7

LEMMA CommandType == \A s \in Commands : s \in Seq({"ready", "shutdown"}) /\ Len(s) <= 2
<1>1. <<>> \in Seq({"ready", "shutdown"}) /\ Len(<<>>) <= 2
  OBVIOUS
<1>2. <<"ready">> \in Seq({"ready", "shutdown"}) /\ Len(<<"ready">>) <= 2
  OBVIOUS
<1>3. <<"shutdown">> \in Seq({"ready", "shutdown"}) /\ Len(<<"shutdown">>) <= 2
  OBVIOUS
<1>4. <<"ready", "shutdown">> \in Seq({"ready", "shutdown"}) /\ Len(<<"ready", "shutdown">>) <= 2
  OBVIOUS
<1> QED
  BY <1>1, <1>2, <1>3, <1>4 DEF Commands

\* ready comes from start_blocking while the worker is in the slot, shutdown
\* from whoever takes it out.
LEMMA CommandOrderStep ==
    ASSUME OwnerInv, Next
    PROVE  CommandOrder'
<1> USE TaskAssumption DEF OwnerInv, TypeOK, Phases, MutexHeld, WorkerPhases, CommandOrder,
      Commands, Before, Holding, Nobody, Alive, Go, Report, startVars, workerVars,
      commandVars, ownerVars, Actor
<1>1. CASE Worker \/ ContainerStops
  <2>1. CASE MonitorCommand
    <3>1. CASE commands = <<"shutdown">>
      BY <2>1, <3>1, CommandFacts DEF MonitorCommand
    <3>2. CASE commands \in {<<"ready">>, <<"ready", "shutdown">>}
      BY <2>1, <3>2, CommandFacts DEF MonitorCommand, AfterReady
    <3> QED
      BY <2>1, <3>1, <3>2 DEF MonitorCommand
  <2>2. CASE ParkedCommand
    <3>1. CASE commands = <<"shutdown">>
      BY <2>2, <3>1, CommandFacts DEF ParkedCommand
    <3>2. CASE commands \in {<<"ready">>, <<"ready", "shutdown">>}
      BY <2>2, <3>2, CommandFacts DEF ParkedCommand
    <3> QED
      BY <2>2, <3>1, <3>2 DEF ParkedCommand
  <2>3. CASE (Worker /\ ~MonitorCommand /\ ~ParkedCommand) \/ ContainerStops
    BY <2>3 DEF Worker, EngineStarts, EngineFails, EnginePanics, Resolve, MonitorExit,
                Disconnected, RemoveContainer, ContainerStops
  <2> QED
    BY <1>1, <2>1, <2>2, <2>3
<1>2. CASE Spawn \/ StartupElapses
  BY <1>2 DEF Spawn, StartupElapses
<1>3. CASE ReceiveStarted \/ ReceiveFails \/ Abandon \/ JoinFailedStartupWorker
  BY <1>3 DEF ReceiveStarted, ReceiveFails, Abandon, JoinFailedStartupWorker, Disconnect,
             AfterAbandon
<1>4. CASE RegisterContainer \/ ServerAnswers \/ MarkReady \/ FinishStart
  <2>1. CASE MarkReady
    BY <2>1, CommandFacts DEF MarkReady
  <2>2. CASE RegisterContainer \/ ServerAnswers \/ FinishStart
    BY <2>2 DEF RegisterContainer, ServerAnswers, FinishStart
  <2> QED
    BY <1>4, <2>1, <2>2
<1>5. CASE StartFails
  BY <1>5 DEF StartFails, AfterDrop, RegistrationFails, WaitFails, MarkReadyFails, FinishFails
<1>6. CASE \E t \in Task : BeginShutdown(t) \/ Cancel(t) \/ DrainCleanup(t) \/ CloseSessions(t)
  BY <1>6 DEF BeginShutdown, Cancel, DrainCleanup, CloseSessions, InProgress
<1>7. CASE DropHandles
  BY <1>7 DEF DropHandles, AfterDrop
<1>8. CASE \E a \in Actor : Shutdown(a)
  <2>1. PICK a \in Actor : Shutdown(a)
    BY <1>8
  <2>2. CASE ShutdownTakes(a)
    BY <2>2, CommandFacts DEF ShutdownTakes, SendShutdown
  <2>3. CASE ShutdownNothing(a) \/ ShutdownJoined(a)
    BY <2>3 DEF ShutdownNothing, ShutdownJoined
  <2> QED
    BY <2>1, <2>2, <2>3 DEF Shutdown
<1>9. CASE BeginExit \/ Upgrade \/ UpgradeFails \/ Exit
  BY <1>9 DEF BeginExit, Upgrade, UpgradeFails, Exit, AfterUpgrade
<1> QED
  BY <1>1, <1>2, <1>3, <1>4, <1>5, <1>6, <1>7, <1>8, <1>9 DEF Next, Start, TaskStep, ExitStep

\* The one that joins the worker is told, and nobody joins it twice.
LEMMA ToldOnceStep ==
    ASSUME OwnerInv, Next
    PROVE  ToldOnce'
<1> USE TaskAssumption DEF OwnerInv, TypeOK, Phases, MutexHeld, WorkerPhases, WorkerOwned,
      ToldOnce, Told, Before, Holding, Nobody, Alive, Go, Report, startVars, workerVars,
      commandVars, ownerVars, Actor
<1>1. CASE Worker \/ ContainerStops
  BY <1>1 DEF Worker, EngineStarts, EngineFails, EnginePanics, Resolve, MonitorCommand,
             MonitorExit, ParkedCommand, Disconnected, RemoveContainer, ContainerStops, AfterReady
<1>2. CASE Spawn \/ StartupElapses
  BY <1>2 DEF Spawn, StartupElapses
<1>3. CASE ReceiveStarted \/ ReceiveFails \/ Abandon \/ JoinFailedStartupWorker
  BY <1>3 DEF ReceiveStarted, ReceiveFails, Abandon, JoinFailedStartupWorker, Disconnect,
             AfterAbandon
<1>4. CASE RegisterContainer \/ ServerAnswers \/ MarkReady \/ FinishStart
  BY <1>4 DEF RegisterContainer, ServerAnswers, MarkReady, FinishStart
<1>5. CASE StartFails
  BY <1>5 DEF StartFails, AfterDrop, RegistrationFails, WaitFails, MarkReadyFails, FinishFails
<1>6. CASE \E t \in Task : BeginShutdown(t) \/ Cancel(t) \/ DrainCleanup(t) \/ CloseSessions(t)
  BY <1>6 DEF BeginShutdown, Cancel, DrainCleanup, CloseSessions, InProgress
<1>7. CASE DropHandles
  BY <1>7 DEF DropHandles, AfterDrop
<1>8. CASE \E a \in Actor : Shutdown(a)
  BY <1>8 DEF Shutdown, ShutdownNothing, ShutdownTakes, ShutdownJoined, HoldLock, SendShutdown,
             Combine
<1>9. CASE BeginExit \/ Upgrade \/ UpgradeFails \/ Exit
  BY <1>9 DEF BeginExit, Upgrade, UpgradeFails, Exit, AfterUpgrade
<1> QED
  BY <1>1, <1>2, <1>3, <1>4, <1>5, <1>6, <1>7, <1>8, <1>9 DEF Next, Start, TaskStep, ExitStep

\* The type invariant, in parts.
ActorsTyped ==
    pc \in [Actor -> ActorState] /\ result \in [Actor -> Result] /\ cancelled \subseteq Task
ThreadTyped ==
    /\ worker \in WorkerState /\ removal \in Removal /\ container \in ContainerState
    /\ started \in {"empty", "ok", "failed"}
FlagsTyped ==
    /\ startupExit \in BOOLEAN /\ listening \in BOOLEAN /\ elapsed \in BOOLEAN
    /\ registered \in BOOLEAN /\ sender \in BOOLEAN /\ slot \in BOOLEAN /\ exited \in BOOLEAN
SharedTyped ==
    /\ lock \in Actor \cup {Nobody} /\ refs \subseteq Actor \cup {"server"}
    /\ closed \subseteq {"admission", "pools", "queue", "sessions"}

\* Actors take the states and report the failures that are theirs.
LEMMA ActorsTypedStep ==
    ASSUME OwnerInv, Next
    PROVE  ActorsTyped'
<1> USE TaskAssumption DEF OwnerInv, TypeOK, ActorsTyped, ActorState, Result, Alive, Go,
      Report, startVars, workerVars, commandVars, ownerVars, Actor
<1>1. CASE Worker \/ ContainerStops
  BY <1>1 DEF Worker, EngineStarts, EngineFails, EnginePanics, Resolve, MonitorCommand,
             MonitorExit, ParkedCommand, Disconnected, RemoveContainer, ContainerStops, AfterReady
<1>2. CASE Spawn \/ StartupElapses
  BY <1>2 DEF Spawn, StartupElapses
<1>3. CASE ReceiveStarted \/ ReceiveFails \/ Abandon \/ JoinFailedStartupWorker
  BY <1>3 DEF ReceiveStarted, ReceiveFails, Abandon, JoinFailedStartupWorker, Disconnect,
             AfterAbandon
<1>4. CASE RegisterContainer \/ ServerAnswers \/ MarkReady \/ FinishStart
  BY <1>4 DEF RegisterContainer, ServerAnswers, MarkReady, FinishStart
<1>5. CASE StartFails
  BY <1>5 DEF StartFails, AfterDrop, RegistrationFails, WaitFails, MarkReadyFails, FinishFails
<1>6. CASE \E t \in Task : BeginShutdown(t) \/ Cancel(t) \/ DrainCleanup(t) \/ CloseSessions(t)
  BY <1>6 DEF BeginShutdown, Cancel, DrainCleanup, CloseSessions, InProgress
<1>7. CASE DropHandles
  BY <1>7 DEF DropHandles, AfterDrop
<1>8. CASE \E a \in Actor : Shutdown(a)
  BY <1>8 DEF Shutdown, ShutdownNothing, ShutdownTakes, ShutdownJoined, HoldLock, SendShutdown,
             Combine
<1>9. CASE BeginExit \/ Upgrade \/ UpgradeFails \/ Exit
  BY <1>9 DEF BeginExit, Upgrade, UpgradeFails, Exit, AfterUpgrade
<1> QED
  BY <1>1, <1>2, <1>3, <1>4, <1>5, <1>6, <1>7, <1>8, <1>9 DEF Next, Start, TaskStep, ExitStep

\* So does the worker.
LEMMA ThreadTypedStep ==
    ASSUME OwnerInv, Next
    PROVE  ThreadTyped'
<1> USE TaskAssumption DEF OwnerInv, TypeOK, ThreadTyped, WorkerState, Removal,
      ContainerState, Alive, Go, Report, startVars, workerVars, commandVars, ownerVars,
      Actor
<1>1. CASE Worker \/ ContainerStops
  BY <1>1 DEF Worker, EngineStarts, EngineFails, EnginePanics, Resolve, MonitorCommand,
             MonitorExit, ParkedCommand, Disconnected, RemoveContainer, ContainerStops, AfterReady
<1>2. CASE Spawn \/ StartupElapses
  BY <1>2 DEF Spawn, StartupElapses
<1>3. CASE ReceiveStarted \/ ReceiveFails \/ Abandon \/ JoinFailedStartupWorker
  BY <1>3 DEF ReceiveStarted, ReceiveFails, Abandon, JoinFailedStartupWorker, Disconnect,
             AfterAbandon
<1>4. CASE RegisterContainer \/ ServerAnswers \/ MarkReady \/ FinishStart
  BY <1>4 DEF RegisterContainer, ServerAnswers, MarkReady, FinishStart
<1>5. CASE StartFails
  BY <1>5 DEF StartFails, AfterDrop, RegistrationFails, WaitFails, MarkReadyFails, FinishFails
<1>6. CASE \E t \in Task : BeginShutdown(t) \/ Cancel(t) \/ DrainCleanup(t) \/ CloseSessions(t)
  BY <1>6 DEF BeginShutdown, Cancel, DrainCleanup, CloseSessions, InProgress
<1>7. CASE DropHandles
  BY <1>7 DEF DropHandles, AfterDrop
<1>8. CASE \E a \in Actor : Shutdown(a)
  BY <1>8 DEF Shutdown, ShutdownNothing, ShutdownTakes, ShutdownJoined, HoldLock, SendShutdown,
             Combine
<1>9. CASE BeginExit \/ Upgrade \/ UpgradeFails \/ Exit
  BY <1>9 DEF BeginExit, Upgrade, UpgradeFails, Exit, AfterUpgrade
<1> QED
  BY <1>1, <1>2, <1>3, <1>4, <1>5, <1>6, <1>7, <1>8, <1>9 DEF Next, Start, TaskStep, ExitStep

\* Flags stay flags.
LEMMA FlagsTypedStep ==
    ASSUME OwnerInv, Next
    PROVE  FlagsTyped'
<1> USE TaskAssumption DEF OwnerInv, TypeOK, FlagsTyped, Alive, Go, Report, startVars,
      workerVars, commandVars, ownerVars, Actor
<1>1. CASE Worker \/ ContainerStops
  BY <1>1 DEF Worker, EngineStarts, EngineFails, EnginePanics, Resolve, MonitorCommand,
             MonitorExit, ParkedCommand, Disconnected, RemoveContainer, ContainerStops, AfterReady
<1>2. CASE Spawn \/ StartupElapses
  BY <1>2 DEF Spawn, StartupElapses
<1>3. CASE ReceiveStarted \/ ReceiveFails \/ Abandon \/ JoinFailedStartupWorker
  BY <1>3 DEF ReceiveStarted, ReceiveFails, Abandon, JoinFailedStartupWorker, Disconnect,
             AfterAbandon
<1>4. CASE RegisterContainer \/ ServerAnswers \/ MarkReady \/ FinishStart
  BY <1>4 DEF RegisterContainer, ServerAnswers, MarkReady, FinishStart
<1>5. CASE StartFails
  BY <1>5 DEF StartFails, AfterDrop, RegistrationFails, WaitFails, MarkReadyFails, FinishFails
<1>6. CASE \E t \in Task : BeginShutdown(t) \/ Cancel(t) \/ DrainCleanup(t) \/ CloseSessions(t)
  BY <1>6 DEF BeginShutdown, Cancel, DrainCleanup, CloseSessions, InProgress
<1>7. CASE DropHandles
  BY <1>7 DEF DropHandles, AfterDrop
<1>8. CASE \E a \in Actor : Shutdown(a)
  BY <1>8 DEF Shutdown, ShutdownNothing, ShutdownTakes, ShutdownJoined, HoldLock, SendShutdown,
             Combine
<1>9. CASE BeginExit \/ Upgrade \/ UpgradeFails \/ Exit
  BY <1>9 DEF BeginExit, Upgrade, UpgradeFails, Exit, AfterUpgrade
<1> QED
  BY <1>1, <1>2, <1>3, <1>4, <1>5, <1>6, <1>7, <1>8, <1>9 DEF Next, Start, TaskStep, ExitStep

\* And the owner and the server.
LEMMA SharedTypedStep ==
    ASSUME OwnerInv, Next
    PROVE  SharedTyped'
<1> USE TaskAssumption DEF OwnerInv, TypeOK, SharedTyped, Alive, Go, Report, startVars,
      workerVars, commandVars, ownerVars, Actor
<1>1. CASE Worker \/ ContainerStops
  BY <1>1 DEF Worker, EngineStarts, EngineFails, EnginePanics, Resolve, MonitorCommand,
             MonitorExit, ParkedCommand, Disconnected, RemoveContainer, ContainerStops, AfterReady
<1>2. CASE Spawn \/ StartupElapses
  BY <1>2 DEF Spawn, StartupElapses
<1>3. CASE ReceiveStarted \/ ReceiveFails \/ Abandon \/ JoinFailedStartupWorker
  BY <1>3 DEF ReceiveStarted, ReceiveFails, Abandon, JoinFailedStartupWorker, Disconnect,
             AfterAbandon
<1>4. CASE RegisterContainer \/ ServerAnswers \/ MarkReady \/ FinishStart
  BY <1>4 DEF RegisterContainer, ServerAnswers, MarkReady, FinishStart
<1>5. CASE StartFails
  BY <1>5 DEF StartFails, AfterDrop, RegistrationFails, WaitFails, MarkReadyFails, FinishFails
<1>6. CASE \E t \in Task : BeginShutdown(t) \/ Cancel(t) \/ DrainCleanup(t) \/ CloseSessions(t)
  <2>1. lock' \in Actor \cup {Nobody} /\ refs' \subseteq Actor \cup {"server"}
    BY <1>6 DEF BeginShutdown, Cancel, DrainCleanup, CloseSessions
  <2>2. closed' \subseteq closed \cup {"admission", "pools", "queue", "sessions"}
    BY <1>6 DEF BeginShutdown, Cancel, DrainCleanup, CloseSessions
  <2> QED
    BY <2>1, <2>2
<1>7. CASE DropHandles
  BY <1>7 DEF DropHandles, AfterDrop
<1>8. CASE \E a \in Actor : Shutdown(a)
  BY <1>8 DEF Shutdown, ShutdownNothing, ShutdownTakes, ShutdownJoined, HoldLock, SendShutdown,
             Combine
<1>9. CASE BeginExit \/ Upgrade \/ UpgradeFails \/ Exit
  BY <1>9 DEF BeginExit, Upgrade, UpgradeFails, Exit, AfterUpgrade
<1> QED
  BY <1>1, <1>2, <1>3, <1>4, <1>5, <1>6, <1>7, <1>8, <1>9 DEF Next, Start, TaskStep, ExitStep

LEMMA TypeStep ==
    ASSUME OwnerInv, Next
    PROVE  TypeOK'
<1>1. commands' \in Seq({"ready", "shutdown"}) /\ Len(commands') <= 2
  BY CommandOrderStep, CommandType DEF CommandOrder, Commands
<1> QED
  BY <1>1, ActorsTypedStep, ThreadTypedStep, FlagsTypedStep, SharedTypedStep
  DEF TypeOK, ActorsTyped, ThreadTyped, FlagsTyped, SharedTyped

-----------------------------------------------------------------------------
LEMMA OwnerInvInit == Init => OwnerInv
<1> SUFFICES ASSUME Init PROVE OwnerInv
  OBVIOUS
<1>1. <<>> \in Seq({"ready", "shutdown"}) /\ Len(<<>>) <= 2
  OBVIOUS
<1>2. TypeOK
  BY <1>1 DEF Init, TypeOK, ActorState, Result, WorkerState, Removal, ContainerState
<1>3. Phases /\ References /\ MutexHeld /\ WorkerOwned
  BY TaskAssumption
  DEF Init, Phases, References, MutexHeld, WorkerOwned, Before, Holding, Actor, Nobody
<1>4. WorkerPhases /\ CommandOrder /\ ToldOnce /\ CallsOver
  BY DEF Init, WorkerPhases, CommandOrder, Commands, ToldOnce, CallsOver, Told, Before, Holding,
         Actor
<1>5. FailedStartRemoves /\ RemovesOnlyOnDemand
  BY DEF Init, FailedStartRemoves, RemovesOnlyOnDemand, Actor
<1> QED
  BY <1>2, <1>3, <1>4, <1>5 DEF OwnerInv

LEMMA OwnerInvStep ==
    ASSUME OwnerInv, [Next]_vars
    PROVE  OwnerInv'
<1>1. CASE Next
  BY <1>1, TypeStep, PhasesStep, ReferencesStep, MutexHeldStep, WorkerOwnedStep,
     WorkerPhasesStep, CommandOrderStep, ToldOnceStep, CallsOverStep, FailedStartStep,
     OnDemandStep
  DEF OwnerInv
<1>2. CASE UNCHANGED vars
  BY <1>2
  DEF vars, startVars, workerVars, commandVars, ownerVars, OwnerInv, TypeOK, Phases, References,
      MutexHeld, WorkerOwned, WorkerPhases, CommandOrder, ToldOnce, Told, CallsOver,
      FailedStartRemoves, RemovesOnlyOnDemand
<1> QED
  BY <1>1, <1>2

LEMMA OwnerInvariant == Spec => []OwnerInv
BY OwnerInvInit, OwnerInvStep, PTL DEF Spec

\* Whoever shuts the server down, drops its last handle or leaves the process
\* while the owner is referred to, finds the removal over when it returns.
THEOREM ReturnAfterRemoval == Spec => []ReturnsAfterRemoval
<1>1. OwnerInv => ReturnsAfterRemoval
  BY DEF OwnerInv, References, CallsOver, ReturnsAfterRemoval, Gone
<1> QED
  BY <1>1, OwnerInvariant, PTL

\* A start that fails at any point returns only when the worker has removed
\* the container, or leaves that to the exit handler.
THEOREM FailedStartCleansUp == Spec => []FailedStartRemoves
<1>1. OwnerInv => FailedStartRemoves
  BY DEF OwnerInv
<1> QED
  BY <1>1, OwnerInvariant, PTL

\* The worker leaves a running container alone until it is told to remove it
\* or has nobody left who could tell it.
THEOREM OnlyOnDemand == Spec => []RemovesOnlyOnDemand
<1>1. OwnerInv => RemovesOnlyOnDemand
  BY DEF OwnerInv
<1> QED
  BY <1>1, OwnerInvariant, PTL

\* A set whose members are all equal has at most one.
LEMMA AtMostOne ==
    ASSUME NEW S, \A a, b \in S : a = b
    PROVE  Cardinality(S) <= 1
<1>1. CASE S = {}
  BY <1>1, FS_EmptySet
<1>2. CASE S # {}
  <2>1. PICK a : S = {a}
    BY <1>2
  <2> QED
    BY <2>1, FS_Singleton
<1> QED
  BY <1>1, <1>2

\* The error of a failed removal is reported by one of the calls that asked
\* for it, whichever order they come in, and by no other.
THEOREM RemovalErrorOnce == Spec => []RemovalErrorReportedOnce
<1>1. OwnerInv => RemovalErrorReportedOnce
  <2> SUFFICES ASSUME OwnerInv PROVE RemovalErrorReportedOnce
    OBVIOUS
  <2>1. Cardinality(Told) <= 1
    BY AtMostOne DEF OwnerInv, ToldOnce
  <2>2. /\ removal = "error" /\ lock = Nobody /\ registered /\ ~slot => Told # {}
        /\ removal # "error" => Told = {}
    BY DEF OwnerInv, ToldOnce
  <2> QED
    BY <2>1, <2>2 DEF RemovalErrorReportedOnce, Told
<1> QED
  BY <1>1, OwnerInvariant, PTL

=============================================================================
