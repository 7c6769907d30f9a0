------------------------------- MODULE Manager -------------------------------
(***************************************************************************)
(* One run of pkservices.Manager (src/pkservices/manager.go): Run, the two *)
(* listeners, the two goroutines that run the services, the gRPC server    *)
(* and its monitor, the services themselves and the callers of             *)
(* StartShutdown, with the four contexts that order the shutdown.          *)
(*                                                                         *)
(* Two synchronisation objects are used through their abstract             *)
(* specifications: runsComplete through WaitGroup (implemented by          *)
(* CtxWaitGroup) and mapServices through ServiceMap (implemented by        *)
(* ConcurrentMap).                                                         *)
(***************************************************************************)
EXTENDS Integers, Sequences, FiniteSets, Functions

CONSTANTS NumServices,  \* the services, in the order given to NewManager
          Generic,      \* those that implement GenericService
          Grpc,         \* those that implement GrpcService
          Holders,      \* those whose Setup spins up a resource
          Limits,       \* whether maxShutdownDuration >= 0
          MaxRpcs       \* a bound on the RPCs in flight

ASSUME ManagerAssumption ==
  /\ NumServices \in Nat
  /\ Generic \subseteq 1..NumServices
  /\ Grpc \subseteq 1..NumServices
  /\ Holders \subseteq 1..NumServices
  /\ Limits \subseteq BOOLEAN
  /\ MaxRpcs \in Nat

VARIABLES
  servicesDone, resourcesDone, listenersDone, shutdownDone,  \* the contexts
  main,          \* where Run is
  timeouter,     \* where timeoutShutdown is; "off" without a limit
  signaler,      \* where listenForSignal is
  releaseWaiter, \* where the goroutine of waitForShutdownComplete is
  generic,       \* where the goroutine of the generic services is
  grpc,          \* where the goroutine of the gRPC services is
  monitor,       \* where the goroutine that stops the gRPC server is
  server,        \* the gRPC server
  rpcs,          \* the number of RPCs in flight
  resource,      \* service -> its resource, counted by resourcesReleased
  setupTask, setupErrs,      \* the map of setupServices
  genericTask, genericErrs,  \* the map of genericServicesRun
  grpcTask, registerErrs,    \* the two maps of runGrpcServices, one by one
  hasGrpc,       \* of runGrpcServices
  grpcErr,       \* runErrors[1]
  runErr,        \* managerErr.RunErr
  shutdownErr,   \* managerErr.ShutdownErr is not nil
  status, total, delta, call, wait   \* runsComplete

contexts == <<servicesDone, resourcesDone, listenersDone, shutdownDone>>
listeners == <<timeouter, signaler>>
setupVars == <<setupTask, setupErrs, resource>>
genericVars == <<generic, genericTask, genericErrs>>
serverVars == <<monitor, server, rpcs>>
grpcVars == <<grpc, grpcTask, registerErrs, hasGrpc, grpcErr>>
groupVars == <<status, total, delta, call, wait>>
mainVars == <<main, releaseWaiter, runErr, shutdownErr>>

vars == <<contexts, listeners, setupVars, genericVars, serverVars, grpcVars,
          groupVars, mainVars>>

Services == 1..NumServices

\* runsComplete: two Add(1), two Done(), one Wait().
Group == INSTANCE WaitGroup WITH
  Calls <- {"addGeneric", "addGrpc", "doneGeneric", "doneGrpc"},
  Waits <- {"run"},
  Deltas <- {1},
  cancelled <- shutdownDone

\* mapServices, once for each stage.
Setup == INSTANCE ServiceMap WITH
  cancelled <- servicesDone, task <- setupTask, errors <- setupErrs
Runs == INSTANCE ServiceMap WITH
  cancelled <- servicesDone, task <- genericTask, errors <- genericErrs
GrpcMap == INSTANCE ServiceMap WITH
  cancelled <- servicesDone, task <- grpcTask, errors <- registerErrs

\* The errors of runGrpcServices: none, an expired context, a failed listen, a
\* server stopped before it served, a failed Accept.
GrpcErrors == {"nil", "ctx", "listen", "stopped", "serve"}

NoRunErr == [timeout |-> FALSE, services |-> {}, grpc |-> "nil"]

TypeOK ==
  /\ {servicesDone, resourcesDone, listenersDone, shutdownDone} \subseteq BOOLEAN
  /\ main \in {"idle", "setup", "addGeneric", "addGrpc", "wait", "release",
               "waitRelease", "waitListeners", "finish", "returned"}
  /\ timeouter \in {"off", "none", "await", "timing", "exited"}
  /\ signaler \in {"none", "listening", "exited"}
  /\ releaseWaiter \in {"none", "waiting", "released"}
  /\ generic \in {"none", "run", "done", "exited"}
  /\ grpc \in {"none", "probe", "register", "listen", "attempt", "start",
               "serve", "done", "exited"}
  /\ monitor \in {"none", "waiting", "stopping", "exited"}
  /\ server \in {"new", "serving", "failed", "draining", "stopped"}
  /\ rpcs \in 0..MaxRpcs
  /\ resource \in [Services -> {"none", "held", "released"}]
  /\ {setupTask, genericTask, grpcTask} \subseteq [Services -> Setup!TaskStates]
  /\ {setupErrs, genericErrs, registerErrs} \subseteq Seq(Services)
  /\ hasGrpc \in BOOLEAN
  /\ grpcErr \in GrpcErrors
  /\ runErr \in [timeout : BOOLEAN, services : SUBSET Services, grpc : GrpcErrors]
  /\ shutdownErr \in BOOLEAN
  /\ status \in {"open", "closed", "panicked"}
  /\ total \in 0..2

\* NewManager, which ends with Reset.
Init ==
  /\ servicesDone = FALSE /\ resourcesDone = FALSE
  /\ listenersDone = FALSE /\ shutdownDone = FALSE
  /\ main = "idle"
  /\ timeouter \in {IF limited THEN "none" ELSE "off" : limited \in Limits}
  /\ signaler = "none" /\ releaseWaiter = "none"
  /\ generic = "none" /\ grpc = "none"
  /\ monitor = "none" /\ server = "new" /\ rpcs = 0
  /\ resource = [s \in Services |-> "none"]
  /\ setupTask = Setup!NotStarted /\ setupErrs = <<>>
  /\ genericTask = Setup!NotStarted /\ genericErrs = <<>>
  /\ grpcTask = Setup!NotStarted /\ registerErrs = <<>>
  /\ hasGrpc = FALSE
  /\ grpcErr = "nil" /\ runErr = NoRunErr /\ shutdownErr = FALSE
  /\ Group!Init

-----------------------------------------------------------------------------
(* Shutdown orders and the two listeners.                                  *)

\* StartShutdown called by the program that embeds the manager, at any time.
StartShutdown ==
  /\ ~servicesDone
  /\ servicesDone' = TRUE
  /\ UNCHANGED <<resourcesDone, listenersDone, shutdownDone, listeners,
                 setupVars, genericVars, serverVars, grpcVars, groupVars, mainVars>>

\* timeoutShutdown, from the shutdown order to the timer...
AwaitShutdown ==
  /\ timeouter = "await"
  /\ servicesDone
  /\ timeouter' = "timing"
  /\ UNCHANGED <<contexts, signaler, setupVars, genericVars, serverVars,
                 grpcVars, groupVars, mainVars>>

\* ... and to its end, by listenersCtx or by the timer, which may fire at any
\* time.  The deferred shutdownCancel runs before listenersExited.Done().
CancelShutdownCtx ==
  /\ timeouter = "timing"
  /\ shutdownDone' = TRUE
  /\ timeouter' = "exited"
  /\ UNCHANGED <<servicesDone, resourcesDone, listenersDone, signaler,
                 setupVars, genericVars, serverVars, grpcVars, groupVars, mainVars>>

\* listenForSignal ends, by a context or by a signal, and starts the shutdown.
StopSignaler ==
  /\ signaler = "listening"
  /\ signaler' = "exited"
  /\ servicesDone' = TRUE
  /\ UNCHANGED <<resourcesDone, listenersDone, shutdownDone, timeouter,
                 setupVars, genericVars, serverVars, grpcVars, groupVars, mainVars>>

OnContext == servicesDone \/ listenersDone

Listeners == AwaitShutdown \/ CancelShutdownCtx \/ (OnContext /\ StopSignaler)

-----------------------------------------------------------------------------
(* Run: listeners and setup.                                               *)

\* Run up to setupServices.  Without a limit timeoutShutdown returns at once.
StartRun ==
  /\ main = "idle"
  /\ main' = "setup"
  /\ timeouter' = IF timeouter = "off" THEN "off" ELSE "await"
  /\ signaler' = "listening"
  /\ UNCHANGED <<contexts, setupVars, genericVars, serverVars, grpcVars,
                 groupVars, releaseWaiter, runErr, shutdownErr>>

otherThanSetup == <<resourcesDone, listenersDone, shutdownDone, listeners,
                    genericVars, serverVars, grpcVars, groupVars, mainVars>>

\* Service.Setup returns.  One that succeeds has spun up its resource; one that
\* fails may have done so.
SetupReturns(s) ==
  /\ \/ /\ Setup!Complete(s)
        /\ resource' = IF s \in Holders
                         THEN [resource EXCEPT ![s] = "held"] ELSE resource
     \/ /\ Setup!Fail(s)
        /\ \/ UNCHANGED resource
           \/ s \in Holders /\ resource' = [resource EXCEPT ![s] = "held"]
  /\ UNCHANGED otherThanSetup

SetupServices ==
  /\ main = "setup"
  /\ \/ Setup!SkipRest
     \/ \E s \in Services : Setup!Launch(s) \/ Setup!Collect(s)
  /\ UNCHANGED resource
  /\ UNCHANGED otherThanSetup

\* Mutation of SetupOver: the first Setup that returns ends the stage.
SetupOverMutant == \E s \in Services : setupTask[s] = "over"

\* The range loop of mapServices ends when the channel of errors is closed.
SetupOver == Setup!Finished

\* An error of any service ends the run; services that were skipped because
\* the shutdown began are no error.
EndSetup ==
  /\ main = "setup"
  /\ SetupOver
  /\ main' = IF setupErrs = <<>> THEN "addGeneric" ELSE "release"
  /\ UNCHANGED <<contexts, listeners, setupVars, genericVars, serverVars,
                 grpcVars, groupVars, releaseWaiter, runErr, shutdownErr>>

-----------------------------------------------------------------------------
(* Run: runAllServices.  The errors of runsComplete.Add are ignored.        *)

otherThanGroup == <<contexts, listeners, setupVars, serverVars,
                    releaseWaiter, runErr, shutdownErr>>

\* Mutation of CallDone: Add(1) for Done().
CallDoneMutant(c) == Group!Invoke(c, 1)

\* runsComplete.Done()
CallDone(c) == Group!Invoke(c, -1)

\* A call of runsComplete returns, with or without an error.
GroupReturns(c) ==
  \/ Group!Succeed(c)
  \/ \E why \in {"closed", "ctx"} : Group!Refuse(c, why)

AddGeneric ==
  /\ main = "addGeneric"
  /\ \/ Group!Invoke("addGeneric", 1) /\ UNCHANGED <<main, generic>>
     \/ GroupReturns("addGeneric") /\ main' = "addGrpc" /\ generic' = "run"
  /\ UNCHANGED <<genericTask, genericErrs, grpcVars, otherThanGroup>>

AddGrpc ==
  /\ main = "addGrpc"
  /\ \/ Group!Invoke("addGrpc", 1) /\ UNCHANGED <<main, grpc>>
     \/ GroupReturns("addGrpc") /\ main' = "wait" /\ grpc' = "probe"
  /\ UNCHANGED <<genericVars, grpcTask, registerErrs, hasGrpc, grpcErr,
                 otherThanGroup>>

StartWait ==
  /\ main = "wait"
  /\ Group!StartWait("run")
  /\ UNCHANGED <<main, genericVars, grpcVars, otherThanGroup>>

\* Mutation of Collected: the second element of runErrors is left out.
CollectedMutant == [NoRunErr EXCEPT !.services =
  IF generic \in {"done", "exited"} THEN Range(genericErrs) ELSE {}]

\* runErrors as it is when Wait returns: a goroutine stores its error just
\* before its Done.
Collected == [timeout |-> FALSE,
              services |-> IF generic \in {"done", "exited"}
                             THEN Range(genericErrs) ELSE {},
              grpc |-> grpcErr]

\* Wait returns, and with it runAllServices, whose deferred call starts the
\* shutdown.
EndWait ==
  /\ main = "wait"
  /\ \/ /\ Group!EndWait("run", "closed")
        /\ runErr' = Collected
     \/ /\ Group!EndWait("run", "ctx")
        /\ runErr' = [NoRunErr EXCEPT !.timeout = TRUE]
  /\ main' = "release"
  /\ servicesDone' = TRUE
  /\ UNCHANGED <<resourcesDone, listenersDone, shutdownDone, listeners,
                 setupVars, genericVars, serverVars, grpcVars, releaseWaiter,
                 shutdownErr>>

\* The listener of runsComplete finds its counter below zero.
GroupPanics ==
  /\ \E c \in {"addGeneric", "addGrpc", "doneGeneric", "doneGrpc"} :
       Group!Overdraw(c)
  /\ UNCHANGED <<main, genericVars, grpcVars, otherThanGroup>>

\* The panic that its callers are then given.  Nothing in the manager recovers
\* it: the program ends.
CallPanics ==
  /\ \/ \E c \in {"addGeneric", "addGrpc", "doneGeneric", "doneGrpc"} :
          Group!Refuse(c, "panic")
     \/ Group!EndWait("run", "panic")
  /\ UNCHANGED <<main, genericVars, grpcVars, otherThanGroup>>

Crashed == "panic" \in Range(call) \cup Range(wait)

-----------------------------------------------------------------------------
(* Run: the end.                                                           *)

otherThanEnd == <<servicesDone, shutdownDone, listeners, setupVars,
                  genericVars, serverVars, grpcVars, groupVars, runErr>>

ReleaseResources ==
  /\ main = "release"
  /\ resourcesDone' = TRUE
  /\ releaseWaiter' = "waiting"
  /\ main' = "waitRelease"
  /\ UNCHANGED <<listenersDone, shutdownErr, otherThanEnd>>

\* Mutation of NothingHeld: Setup is given a wait group that nobody adds to.
NothingHeldMutant == TRUE


NothingHeld == \A s \in Services : resource[s] # "held"

\* resourcesReleased.Wait() and the close that follows.
ResourcesReleased ==
  /\ releaseWaiter = "waiting"
  /\ NothingHeld
  /\ releaseWaiter' = "released"
  /\ UNCHANGED <<main, resourcesDone, listenersDone, shutdownErr, otherThanEnd>>

CancelListeners ==
  /\ main = "waitRelease"
  /\ releaseWaiter = "released"
  /\ listenersDone' = TRUE
  /\ main' = "waitListeners"
  /\ UNCHANGED <<resourcesDone, releaseWaiter, shutdownErr, otherThanEnd>>

\* Mutation of ShutdownTimesOut: the select has no case for shutdownCtx.
ShutdownTimesOutMutant == FALSE /\ UNCHANGED vars


ShutdownTimesOut ==
  /\ main = "waitRelease"
  /\ shutdownDone
  /\ shutdownErr' = TRUE
  /\ main' = "finish"
  /\ UNCHANGED <<resourcesDone, listenersDone, releaseWaiter, otherThanEnd>>

\* Mutation of BothExited: listenersExited.Add(1) is called once.
BothExitedMutant == timeouter \in {"off", "exited"} \/ signaler = "exited"

\* listenersExited has counted both.
BothExited == timeouter \in {"off", "exited"} /\ signaler = "exited"

ListenersExited ==
  /\ main = "waitListeners"
  /\ BothExited
  /\ main' = "finish"
  /\ UNCHANGED <<resourcesDone, listenersDone, releaseWaiter, shutdownErr,
                 otherThanEnd>>

\* The deferred StartShutdown and close(shutdownComplete); Run returns.
Finish ==
  /\ main = "finish"
  /\ servicesDone' = TRUE
  /\ main' = "returned"
  /\ UNCHANGED <<resourcesDone, listenersDone, shutdownDone, listeners,
                 setupVars, genericVars, serverVars, grpcVars, groupVars,
                 releaseWaiter, runErr, shutdownErr>>

Main ==
  \/ SetupServices \/ EndSetup \/ AddGeneric \/ AddGrpc \/ StartWait \/ EndWait
  \/ ReleaseResources \/ ResourcesReleased \/ CancelListeners
  \/ ShutdownTimesOut \/ ListenersExited \/ Finish

-----------------------------------------------------------------------------
(* The goroutine of the generic services.                                  *)

otherThanRuns == <<resourcesDone, listenersDone, shutdownDone, listeners,
                   setupVars, serverVars, grpcVars, groupVars, mainVars>>

\* GenericService.Run returns; a service of another kind is passed over.
RunReturns(s) ==
  /\ \/ Runs!Complete(s)
     \/ s \in Generic /\ Runs!Fail(s)
  /\ UNCHANGED <<generic, otherThanRuns>>

GenericServicesRun ==
  /\ generic = "run"
  /\ \/ Runs!SkipRest
     \/ \E s \in Services : Runs!Launch(s) \/ Runs!Collect(s)
  /\ UNCHANGED <<generic, otherThanRuns>>

\* Mutation of RunsOver: the services are launched and not waited for.
RunsOverMutant == "pending" \notin Range(genericTask)


RunsOver == Runs!Finished

\* The errors are stored in runErrors[0]; with one, StartShutdown was called
\* by mapServices and is called again.
EndGeneric ==
  /\ generic = "run"
  /\ RunsOver
  /\ generic' = "done"
  /\ servicesDone' = (servicesDone \/ genericErrs # <<>>)
  /\ UNCHANGED <<genericTask, genericErrs, otherThanRuns>>

\* The deferred runsComplete.Done().
DoneGeneric ==
  /\ generic = "done"
  /\ \/ CallDone("doneGeneric") /\ UNCHANGED generic
     \/ GroupReturns("doneGeneric") /\ generic' = "exited"
  /\ UNCHANGED <<main, genericTask, genericErrs, grpcVars, otherThanGroup>>

GenericRoutine ==
  \/ GenericServicesRun \/ EndGeneric \/ DoneGeneric
  \/ \E s \in Services \ Generic : RunReturns(s)

-----------------------------------------------------------------------------
(* The goroutine of the gRPC services.                                     *)

otherThanGrpc == <<resourcesDone, listenersDone, shutdownDone, listeners,
                   setupVars, genericVars, groupVars, mainVars>>

\* The loop of either map: the services are probed, then registered.
GrpcMapSteps ==
  /\ grpc \in {"probe", "register"}
  /\ \/ GrpcMap!SkipRest
     \/ \E s \in Services : GrpcMap!Launch(s) \/ GrpcMap!Collect(s)
  /\ UNCHANGED <<grpc, hasGrpc, grpcErr, serverVars, otherThanGrpc>>

Probe(s) ==
  /\ grpc = "probe"
  /\ GrpcMap!Complete(s)
  /\ hasGrpc' = (hasGrpc \/ s \in Grpc)
  /\ UNCHANGED <<grpc, grpcErr, serverVars, otherThanGrpc>>

EndProbe ==
  /\ grpc = "probe"
  /\ GrpcMap!Finished
  /\ IF hasGrpc
       THEN grpc' = "register" /\ grpcTask' = GrpcMap!NotStarted
       ELSE grpc' = "done" /\ UNCHANGED grpcTask
  /\ UNCHANGED <<servicesDone, registerErrs, hasGrpc, grpcErr, serverVars,
                 otherThanGrpc>>

\* RegisterOnServer, which has no error to return but may panic.
Register(s) ==
  /\ grpc = "register"
  /\ \/ GrpcMap!Complete(s)
     \/ s \in Grpc /\ GrpcMap!Fail(s)
  /\ UNCHANGED <<grpc, hasGrpc, grpcErr, serverVars, otherThanGrpc>>

\* The error of the registrations is stored in err, which the next statement
\* that assigns it overwrites.
EndRegister ==
  /\ grpc = "register"
  /\ GrpcMap!Finished
  /\ grpc' = "listen"
  /\ UNCHANGED <<servicesDone, grpcTask, registerErrs, hasGrpc, grpcErr,
                 serverVars, otherThanGrpc>>

\* The Op of the *net.OpError that net.Listen returns.
ListenOp == "listen"

\* Mutation of ListenCancelled: the loop does not look at its context.
ListenCancelledMutant == FALSE

\* ctx.Err() of a context derived from servicesCtx.
ListenCancelled == servicesDone

\* getGrpcListener looks at its context...
CheckContext ==
  /\ grpc = "listen"
  /\ IF ListenCancelled
       THEN grpc' = "done" /\ grpcErr' = "ctx"
       ELSE grpc' = "attempt" /\ UNCHANGED grpcErr
  /\ UNCHANGED <<servicesDone, grpcTask, registerErrs, hasGrpc, serverVars,
                 otherThanGrpc>>

\* ... and then makes one attempt, even if the context was cancelled since.  An
\* attempt that fails is repeated when the error is a "bind" error.
GetGrpcListener ==
  /\ grpc = "attempt"
  /\ \/ grpc' = "start" /\ monitor' = "waiting" /\ UNCHANGED grpcErr
     \/ /\ IF ListenOp = "bind"
             THEN grpc' = "listen" /\ UNCHANGED grpcErr
             ELSE grpc' = "done" /\ grpcErr' = "listen"
        /\ UNCHANGED monitor
  /\ UNCHANGED <<servicesDone, grpcTask, registerErrs, hasGrpc, server, rpcs,
                 otherThanGrpc>>

\* server.Serve(listener): an error when the monitor was faster.
StartServing ==
  /\ grpc = "start"
  /\ IF server = "new"
       THEN grpc' = "serve" /\ server' = "serving" /\ UNCHANGED grpcErr
       ELSE grpc' = "done" /\ grpcErr' = "stopped" /\ UNCHANGED server
  /\ UNCHANGED <<servicesDone, grpcTask, registerErrs, hasGrpc, monitor, rpcs,
                 otherThanGrpc>>

\* Mutation of EndServing: Serve returns when the listener is closed.
EndServingMutant ==
  /\ grpc = "serve"
  /\ server \in {"draining", "stopped"}
  /\ grpc' = "done"
  /\ UNCHANGED <<servicesDone, grpcTask, registerErrs, hasGrpc, grpcErr,
                 serverVars, otherThanGrpc>>

\* Serve returns once a graceful stop is complete.
EndServing ==
  /\ grpc = "serve"
  /\ server = "stopped"
  /\ grpc' = "done"
  /\ UNCHANGED <<servicesDone, grpcTask, registerErrs, hasGrpc, grpcErr,
                 serverVars, otherThanGrpc>>

\* Accept fails for good: Serve returns the error, the connections stay.
ServeFails ==
  /\ grpc = "serve"
  /\ server = "serving"
  /\ server' = "failed"
  /\ grpcErr' = "serve"
  /\ grpc' = "done"
  /\ UNCHANGED <<servicesDone, grpcTask, registerErrs, hasGrpc, monitor, rpcs,
                 otherThanGrpc>>

\* The deferred runsComplete.Done().
DoneGrpc ==
  /\ grpc = "done"
  /\ \/ CallDone("doneGrpc") /\ UNCHANGED grpc
     \/ GroupReturns("doneGrpc") /\ grpc' = "exited"
  /\ UNCHANGED <<main, genericVars, grpcTask, registerErrs, hasGrpc, grpcErr,
                 otherThanGroup>>

GrpcRoutine ==
  \/ GrpcMapSteps \/ EndProbe \/ EndRegister \/ CheckContext \/ GetGrpcListener
  \/ StartServing \/ EndServing \/ DoneGrpc
  \/ \E s \in Services : Probe(s) \/ Register(s)

-----------------------------------------------------------------------------
(* The monitor, the gRPC server and the services' resources.               *)

otherThanServer == <<contexts, listeners, setupVars, genericVars, grpcVars,
                     groupVars, mainVars>>

\* Mutation of StopOrdered: the monitor waits for the wrong context.
StopOrderedMutant == shutdownDone

\* What the monitor waits for.
StopOrdered == servicesDone

\* Mutation of GracefulStop: Stop in its place.
GracefulStopMutant ==
  /\ monitor = "waiting"
  /\ StopOrdered
  /\ server' = "stopped" /\ monitor' = "exited"
  /\ UNCHANGED <<rpcs, otherThanServer>>

\* server.GracefulStop() begins: nothing to wait for when Serve never ran.
GracefulStop ==
  /\ monitor = "waiting"
  /\ StopOrdered
  /\ IF server = "new"
       THEN server' = "stopped" /\ monitor' = "exited"
       ELSE server' = "draining" /\ monitor' = "stopping"
  /\ UNCHANGED <<rpcs, otherThanServer>>

\* What GracefulStop waits for.
NoHandlers == rpcs = 0

Drained ==
  /\ monitor = "stopping"
  /\ NoHandlers
  /\ server' = "stopped"
  /\ monitor' = "exited"
  /\ UNCHANGED <<rpcs, otherThanServer>>

Monitor == GracefulStop \/ Drained

StartRpc ==
  /\ server \in {"serving", "failed"}
  /\ rpcs < MaxRpcs
  /\ rpcs' = rpcs + 1
  /\ UNCHANGED <<monitor, server, otherThanServer>>

EndRpc ==
  /\ rpcs > 0
  /\ rpcs' = rpcs - 1
  /\ UNCHANGED <<monitor, server, otherThanServer>>

\* A service sees resourcesCtx and calls resourcesReleased.Done().
Release(s) ==
  /\ resourcesDone
  /\ resource[s] = "held"
  /\ resource' = [resource EXCEPT ![s] = "released"]
  /\ UNCHANGED <<contexts, listeners, setupTask, setupErrs, genericVars,
                 serverVars, grpcVars, groupVars, mainVars>>

-----------------------------------------------------------------------------
Next ==
  /\ ~Crashed
  /\ \/ StartShutdown \/ AwaitShutdown \/ CancelShutdownCtx \/ StopSignaler
     \/ StartRun \/ Main \/ GenericRoutine \/ GrpcRoutine \/ ServeFails
     \/ Monitor \/ StartRpc \/ EndRpc \/ GroupPanics \/ CallPanics
     \/ \E s \in Services :
          SetupReturns(s) \/ (s \in Generic /\ RunReturns(s)) \/ Release(s)

Spec == Init /\ [][Next]_vars

\* The manager's own goroutines run when they can, and Setup returns.  Nothing
\* is assumed of Run, of the resources and of the RPCs.
OwnFairness ==
  /\ WF_vars(~Crashed /\ Listeners)
  /\ WF_vars(~Crashed /\ Main)
  /\ WF_vars(~Crashed /\ GenericRoutine)
  /\ WF_vars(~Crashed /\ GrpcRoutine)
  /\ WF_vars(~Crashed /\ Monitor)
  /\ WF_vars(~Crashed /\ (GroupPanics \/ CallPanics))
  /\ \A s \in Services : WF_vars(~Crashed /\ SetupReturns(s))

\* Without a limit, services that do what their interfaces ask: Run returns once
\* runCtx is cancelled, resources are released with resourcesCtx, and RPCs end.
\* With one, nothing is assumed of them.
Obliged == ~Crashed /\ timeouter = "off"

ServiceFairness ==
  /\ WF_vars(Obliged /\ EndRpc)
  /\ \A s \in Services :
       /\ WF_vars(Obliged /\ servicesDone /\ RunReturns(s))
       /\ WF_vars(Obliged /\ Release(s))

FairSpec == Spec /\ OwnFairness /\ ServiceFairness

-----------------------------------------------------------------------------
(* What must hold.                                                         *)

AllSetUp == setupErrs = <<>> /\ \A s \in Services : setupTask[s] = "over"

Registered(s) == grpcTask[s] = "over" /\ s \notin Range(registerErrs)

\* No service runs before all of them are set up.  setupServices reports no
\* error when a shutdown made it skip services (lines 94-100 of
\* concurrentMap.go, 157-166), so that Run goes on to runAllServices; only the
\* same context, still cancelled, keeps the services from being run then.
RunsAfterSetup ==
  (\E s \in Generic : genericTask[s] # "pending" /\ genericTask[s] # "skipped")
    => AllSetUp

\* The gRPC server takes requests only when every service is set up and every
\* gRPC service is registered: an error or a skip in the registration, both of
\* which line 268 forgets, is caught by the context that it leaves cancelled.
ServesWhenReady ==
  server = "serving" => AllSetUp /\ \A s \in Grpc : Registered(s)

\* The contexts are cancelled in their order, each when what it waits for is
\* over: resources after the services' shutdown began, listeners after the
\* resources are released, the shutdown context after the shutdown began.
CancelCascade ==
  /\ resourcesDone \/ shutdownDone => servicesDone
  /\ listenersDone => resourcesDone /\ "held" \notin Range(resource)

\* Resources are not released under a generic service that is still running,
\* unless the time for the shutdown is over (service.go, lines 19-20, 47-50).
ResourcesOutliveRuns ==
  resourcesDone /\ ~shutdownDone => "active" \notin Range(genericTask)

\* Nor under an RPC, with two exceptions: the wait group closed before the gRPC
\* routine was added to it (line 337), or Serve failed by itself (line 290): its
\* routine is then over, and nobody waits for the monitor, which lets the RPCs end.
ResourcesOutliveRpcs ==
  resourcesDone /\ ~shutdownDone /\ rpcs > 0
    => call["addGrpc"] = "closed" \/ grpcErr = "serve"

\* The wait group counts the two routines, unless its own context is cancelled
\* (the time for the shutdown is over) before it does.
Counted == call["addGeneric"] = "ok" /\ call["addGrpc"] # "ctx"

Succeeded == main = "returned" /\ setupErrs = <<>> /\ runErr = NoRunErr
               /\ ~shutdownErr

\* A run without an error left nothing behind: no resource is held, the
\* listeners are gone, no service runs if the wait group counted the routines,
\* and the gRPC server is down if the second Add was not too late.
CleanReturn ==
  Succeeded =>
    /\ "held" \notin Range(resource)
    /\ timeouter \in {"off", "exited"} /\ signaler = "exited"
    /\ Counted => {"active", "failing"} \cap Range(genericTask) = {}
    /\ server \in {"new", "stopped"} \/ call["addGrpc"] = "closed"

\* Run reports the errors of the generic services, if the wait group counted the
\* routines, and what the gRPC routine returns, if it counted that one too, unless
\* it says that waiting for the services timed out.  One error it never reports:
\* that of a RegisterOnServer which panics.  Lines 243-245 say of it "we will get
\* the error", but line 268 overwrites it, and what runGrpcServices returns is the
\* error of the context that the panic has cancelled.
ErrorsReported ==
  main = "returned" /\ setupErrs = <<>> /\ ~runErr.timeout /\ Counted =>
    /\ \A s \in Services : genericTask[s] = "failing" \/ s \in Range(genericErrs)
         => s \in runErr.services
    /\ call["addGrpc"] = "ok" => runErr.grpc = grpcErr

\* The refinement of ManagerLifecycle, with one manager.
Lifecycle == INSTANCE ManagerLifecycle WITH
  Managers <- {"manager"},
  run <- [m \in {"manager"} |->
            IF main = "idle" THEN "idle"
            ELSE IF main # "returned" THEN "running"
            ELSE IF Succeeded THEN "nil" ELSE "error"],
  ordered <- [m \in {"manager"} |-> servicesDone],
  listen <- [m \in {"manager"} |->
               IF grpcErr \in {"ctx", "listen"} THEN "failed"
               ELSE IF hasGrpc /\ grpc \in {"start", "serve", "done", "exited"}
                 THEN "bound" ELSE IF grpc = "attempt" THEN "trying" ELSE "none"],
  server <- [m \in {"manager"} |->
               IF server = "new" THEN "down"
               ELSE IF server = "serving" THEN "up" ELSE server],
  counted <- [m \in {"manager"} |-> call["addGrpc"] \notin {"closed", "ctx"}]

\* Seen by the program around it, a run keeps to the life that the test helpers
\* rely on: the address is bound at most once, by a listen that was decided on
\* before any shutdown order but may come after one (lines 203-208); the server
\* drains only after an order; and a run that returned nil has a gRPC server
\* that is gone for good, unless its routine was not counted.
ImplementsLifecycle == Lifecycle!Spec

\* A shutdown order, at any moment of the run, makes Run return: in bounded
\* time even if services, resources and RPCs hang when there is a limit, and
\* otherwise as soon as they end.
ShutdownTerminates ==
  servicesDone /\ main # "idle" ~> main = "returned" \/ Crashed

\* The failure of one service stops all of them and ends the run.
FailureStopsRun ==
  (\E s \in Services : "failing" \in {setupTask[s], genericTask[s], grpcTask[s]})
    ~> main = "returned" \/ Crashed

-----------------------------------------------------------------------------
(* What the documentation says, and the code does not do.                  *)

\* docs: resources "will not be released until after our gRPC server has
\* gracefully shutdown".  (The forced shutdown is left out.)
ResourcesOutliveServer ==
  resourcesDone /\ ~shutdownDone => server \notin {"serving", "draining"}

\* service.go, lines 47-48: once shutdownCtx is cancelled "the manager will stop
\* waiting for run to return and continue with the shutdown process".
NoCrash == ~Crashed
=============================================================================
