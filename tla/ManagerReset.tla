----------------------------- MODULE ManagerReset -----------------------------
(***************************************************************************)
(* Two runs of one pkservices.Manager (src/pkservices/manager.go), and     *)
(* Reset between them.                                                     *)
(*                                                                         *)
(* Reset replaces manager.sync: each of its values is an incarnation.  A   *)
(* goroutine reads manager.sync when it needs something of it, so that one *)
(* which outlives its run may read what belongs to the next.  The first    *)
(* run is that of Manager with a limit, reduced to the steps that read,    *)
(* cancel or wait for something of manager.sync.  Of the next run there is *)
(* what it does to its incarnation when it ends in order.                  *)
(***************************************************************************)
EXTENDS Integers

CONSTANTS MayForget,  \* whether Run may be called again without Reset
          Managers    \* the managers: each the kinds of its services

ASSUME ResetAssumption ==
  /\ MayForget \in BOOLEAN
  /\ Managers \subseteq SUBSET {"generic", "grpc"}

Syncs == {1, 2}

\* The goroutines of a run: both listeners, the two of runAllServices, the
\* monitor of the gRPC server, and the one that waits for resourcesReleased.
Routines == {"timeouter", "signaler", "generic", "grpc", "monitor", "releaser"}

Places == {"none", "begin", "working", "timing", "running", "failed", "probed",
           "registering", "registered", "entering", "checking", "attempt",
           "serving", "leaving", "gone"}

VARIABLES
  manager,   \* which kinds of services it has
  current,   \* the incarnation in manager.sync
  resetting, \* Reset has assigned some fields of manager.sync and not others
  services, listeners, shutdown,  \* sync -> its context is cancelled
  exited,    \* sync -> the counter of its listenersExited
  complete,  \* sync -> its shutdownComplete is closed
  main,      \* where the first Run is
  place,     \* routine of it -> where it is
  held,      \* routine of it -> the incarnation it has read
  server,    \* its gRPC server
  count, closed, lost, \* its runsComplete; the routines that it does not count
  timedOut,  \* whether it gave up waiting for something
  next,      \* where the next Run is
  nextOut,   \* how many of its two listeners have exited
  crashed,   \* a goroutine panicked
  strayed    \* a routine of the first run has used the other incarnation

contexts == <<services, listeners, shutdown>>
groupVars == <<count, closed, lost>>
routineVars == <<place, held, strayed, server>>
managerVars == <<manager, current, resetting>>
waitVars == <<exited, complete>>
nextVars == <<next, nextOut>>
vars == <<managerVars, contexts, waitVars, main, timedOut, routineVars,
          groupVars, nextVars, crashed>>

TypeOK ==
  /\ manager \in Managers
  /\ current \in Syncs
  /\ {resetting, closed, timedOut, crashed, strayed} \subseteq BOOLEAN
  /\ {services, listeners, shutdown, complete}
       \subseteq [Syncs -> BOOLEAN]
  /\ exited \in [Syncs -> -1..4]
  /\ main \in {"idle", "setup", "addGeneric", "addGrpc", "wait", "release",
               "waitRelease", "waitListeners", "finish", "returned"}
  /\ place \in [Routines -> Places]
  /\ held \in [Routines -> 0..current]
  /\ server \in {"none", "up", "failed", "stopped"}
  /\ count \in -1..2
  /\ lost \subseteq {"generic", "grpc"}
  /\ next \in {"idle", "running", "returned"}
  /\ nextOut \in 0..2

Fresh(init) == [k \in Syncs |-> init]

Init ==
  /\ manager \in Managers
  /\ current = 1 /\ resetting = FALSE
  /\ services = Fresh(FALSE) /\ listeners = Fresh(FALSE)
  /\ shutdown = Fresh(FALSE)
  /\ exited = Fresh(0) /\ complete = Fresh(FALSE)
  /\ main = "idle" /\ timedOut = FALSE
  /\ place = [g \in Routines |-> "none"] /\ held = [g \in Routines |-> 0]
  /\ server = "none"
  /\ count = 0 /\ closed = FALSE /\ lost = {}
  /\ next = "idle" /\ nextOut = 0
  /\ crashed = FALSE /\ strayed = FALSE

-----------------------------------------------------------------------------
(* manager.sync.                                                           *)

\* What a goroutine may find in a field of manager.sync: while Reset assigns
\* the fields, without synchronisation, either value.
Reads == IF resetting THEN {current - 1, current} ELSE {current}

\* A routine of the first run uses an incarnation.
Use(k) == strayed' = (strayed \/ k # 1)

Cancel(context, k) == context' = [context EXCEPT ![k] = TRUE]

otherThanReset == <<manager, contexts, exited, main, timedOut,
                    routineVars, groupVars, nextVars, crashed>>

\* Mutation of Reset: shutdownComplete is kept.
ResetMutant ==
  /\ main = "returned" /\ next = "idle" /\ current = 1
  /\ current' = 2 /\ resetting' = TRUE
  /\ complete' = [complete EXCEPT ![2] = complete[1]]
  /\ UNCHANGED otherThanReset

\* Called between two runs, not during one: the second incarnation is used from
\* now on.
Reset ==
  /\ main = "returned" /\ next = "idle" /\ current = 1
  /\ current' = 2 /\ resetting' = TRUE
  /\ UNCHANGED <<complete, otherThanReset>>

ResetReturns ==
  /\ resetting
  /\ resetting' = FALSE
  /\ UNCHANGED <<current, complete, otherThanReset>>

\* The program calls StartShutdown, at any time.
StartShutdown ==
  /\ \E k \in Reads : Cancel(services, k)
  /\ UNCHANGED <<managerVars, listeners, shutdown, waitVars, main,
                 timedOut, routineVars, groupVars, nextVars, crashed>>

-----------------------------------------------------------------------------
(* The first Run.  Reset waits for its return, so that it reads only the    *)
(* first incarnation.                                                       *)

otherThanMain == <<managerVars, shutdown, held, strayed, server, nextVars>>

\* Run, with launchListeners.
StartRun ==
  /\ main = "idle"
  /\ main' = "setup"
  /\ exited' = [exited EXCEPT ![1] = @ + 2]
  /\ place' = [place EXCEPT !["timeouter"] = "begin", !["signaler"] = "begin"]
  /\ UNCHANGED <<services, listeners, complete, timedOut,
                 groupVars, crashed, otherThanMain>>

\* setupServices, with or without an error, which starts the shutdown.
SetupServices ==
  /\ main = "setup"
  /\ \/ main' = "addGeneric" /\ UNCHANGED services
     \/ main' = "release" /\ Cancel(services, 1)
  /\ UNCHANGED <<listeners, exited, complete, timedOut, place,
                 groupVars, crashed, otherThanMain>>

\* runsComplete.Add(1), whose error is ignored: a group that is closed, or whose
\* context is cancelled, may not count the routine.
Add(g) ==
  \/ /\ closed \/ shutdown[1]
     /\ lost' = lost \cup {g}
     /\ UNCHANGED <<count, closed>>
  \/ /\ ~closed
     /\ count' = count + 1
     /\ UNCHANGED <<closed, lost>>

\* The two Add(1) of runAllServices, each with the go statement that follows.
AddRoutine(from, g, to) ==
  /\ main = from
  /\ main' = to
  /\ Add(g)
  /\ place' = [place EXCEPT ![g] = "begin"]
  /\ UNCHANGED <<services, listeners, waitVars, timedOut, crashed,
                 otherThanMain>>

\* runsComplete.Wait(), and the deferred StartShutdown of runAllServices.
EndWait ==
  /\ main = "wait"
  /\ \/ closed /\ UNCHANGED timedOut
     \/ shutdown[1] /\ timedOut' = TRUE
  /\ Cancel(services, 1)
  /\ main' = "release"
  /\ UNCHANGED <<listeners, waitVars, place, groupVars, crashed,
                 otherThanMain>>

\* resourcesCtx, which only the services of the first run have, is cancelled.
ReleaseResources ==
  /\ main = "release"
  /\ place' = [place EXCEPT !["releaser"] = "begin"]
  /\ main' = "waitRelease"
  /\ UNCHANGED <<services, listeners, waitVars, timedOut, groupVars, crashed,
                 otherThanMain>>

CancelListeners ==
  /\ main = "waitRelease"
  /\ place["releaser"] = "gone"
  /\ Cancel(listeners, 1)
  /\ main' = "waitListeners"
  /\ UNCHANGED <<services, waitVars, timedOut, place, groupVars,
                 crashed, otherThanMain>>

ShutdownTimesOut ==
  /\ main = "waitRelease"
  /\ shutdown[1]
  /\ timedOut' = TRUE
  /\ main' = "finish"
  /\ UNCHANGED <<services, listeners, waitVars, place, groupVars,
                 crashed, otherThanMain>>

\* Mutation of NoListeners: Run does not wait for the listeners.
NoListenersMutant(k) == TRUE

\* What listenersExited.Wait() waits for.
NoListeners(k) == exited[k] = 0

ListenersExited ==
  /\ main = "waitListeners"
  /\ NoListeners(1)
  /\ main' = "finish"
  /\ UNCHANGED <<services, listeners, waitVars, timedOut, place,
                 groupVars, crashed, otherThanMain>>

\* The close of shutdownComplete panics when it is closed already.
CloseComplete(k) ==
  /\ complete' = [complete EXCEPT ![k] = TRUE]
  /\ crashed' = complete[k]

\* The deferred calls of Run.
Finish ==
  /\ main = "finish"
  /\ Cancel(services, 1)
  /\ CloseComplete(1)
  /\ main' = "returned"
  /\ UNCHANGED <<listeners, exited, timedOut, place,
                 groupVars, otherThanMain>>

Main ==
  \/ SetupServices
  \/ AddRoutine("addGeneric", "generic", "addGrpc")
  \/ AddRoutine("addGrpc", "grpc", "wait")
  \/ EndWait \/ ReleaseResources \/ CancelListeners \/ ShutdownTimesOut
  \/ ListenersExited \/ Finish

-----------------------------------------------------------------------------
(* The routines.  What one reads when it begins is read in one step.        *)

otherThanRoutine == <<managerVars, listeners, complete,
                      main, timedOut, lost, nextVars>>

\* A routine reads manager.sync for what it uses from now on.
Read(g, from, to) ==
  /\ place[g] = from
  /\ place' = [place EXCEPT ![g] = to]
  /\ \E k \in Reads : held' = [held EXCEPT ![g] = k] /\ Use(k)
  /\ UNCHANGED <<services, shutdown, exited, server, count, closed, crashed,
                 otherThanRoutine>>

\* What is read first: by a listener its listenersExited and contexts, by
\* mapServices its context, by the monitor the context it waits for, and
\* resourcesReleased.
Begin(g) == Read(g, "begin", "working")

\* A routine moves on without a read.
Step(g, from, to) ==
  /\ place[g] = from
  /\ place' = [place EXCEPT ![g] = to]
  /\ UNCHANGED <<services, exited, held, strayed, count, closed, crashed,
                 otherThanRoutine>>

\* A routine calls StartShutdown, which reads manager.sync.
Order(g, from, to) ==
  /\ place[g] = from
  /\ place' = [place EXCEPT ![g] = to]
  /\ \E k \in Reads : Cancel(services, k) /\ Use(k)
  /\ UNCHANGED <<shutdown, exited, held, server, count, closed, crashed,
                 otherThanRoutine>>

Cancelled(g) == held[g] # 0 /\ services[held[g]]

\* timeoutShutdown: the timer fires at any time, and shutdownCancel is deferred.
AwaitShutdown ==
  /\ Cancelled("timeouter")
  /\ Step("timeouter", "working", "timing")
  /\ UNCHANGED <<shutdown, server>>

CancelShutdownCtx ==
  /\ Step("timeouter", "timing", "leaving")
  /\ Cancel(shutdown, held["timeouter"])
  /\ UNCHANGED server

\* listenForSignal ends, by a context or by a signal.
StopSignaler == Order("signaler", "working", "leaving")

\* Mutation of OnContext: the signaler does not look at servicesCtx.
OnContextMutant == held["signaler"] # 0 /\ listeners[held["signaler"]]

OnContext ==
  Cancelled("signaler") \/ (held["signaler"] # 0 /\ listeners[held["signaler"]])

CountOut(k) ==
  /\ exited' = [exited EXCEPT ![k] = @ - 1]
  /\ crashed' = (exited[k] = 0)

\* listenersExited.Done()
ListenerExits(g) ==
  /\ place[g] = "leaving"
  /\ place' = [place EXCEPT ![g] = "gone"]
  /\ CountOut(held[g])
  /\ UNCHANGED <<services, shutdown, held, strayed, server, count, closed,
                 otherThanRoutine>>

\* mapServices of the generic services looks at its own context...
LaunchService ==
  /\ Step("generic", "working",
          IF Cancelled("generic") \/ "generic" \notin manager
            THEN "leaving" ELSE "probed")
  /\ UNCHANGED <<shutdown, server>>

\* ... and a service is given the contexts that are read when its goroutine calls
\* Run (line 309).
CallService == Read("generic", "probed", "running")

\* The service may return at any time, with or without an error, or never.
ServiceReturns ==
  /\ \/ Step("generic", "running", "leaving")
     \/ Step("generic", "running", "failed")
  /\ UNCHANGED <<shutdown, server>>

\* After an error StartShutdown is called in mapServices, and again after it: the
\* two are one step.
ServiceFailed == Order("generic", "failed", "leaving")

\* Mutation of DoneDelta: Add for Done.
DoneDeltaMutant == 1

DoneDelta == -1

\* The deferred runsComplete.Done(): counted, refused, or the panic of a counter
\* below zero.
RoutineExits(g) ==
  /\ place[g] = "leaving"
  /\ place' = [place EXCEPT ![g] = "gone"]
  /\ \/ (closed \/ shutdown[1]) /\ UNCHANGED <<count, closed, crashed>>
     \/ /\ ~closed
        /\ count' = count + DoneDelta
        /\ closed' = (count' = 0)
        /\ crashed' = (count' < 0)
  /\ UNCHANGED <<services, shutdown, exited, held, strayed, server,
                 otherThanRoutine>>

\* The first map of runGrpcServices finds the gRPC services unless it is skipped.
Probe ==
  /\ Step("grpc", "working",
          IF Cancelled("grpc") \/ "grpc" \notin manager THEN "leaving" ELSE "probed")
  /\ UNCHANGED <<shutdown, server>>

\* The second map, with a context that it reads for itself, registers them,
\* skips some, or has a panic: then StartShutdown is called.
ReadForRegister == Read("grpc", "probed", "registering")

RegisterServices ==
  /\ \/ Step("grpc", "registering", "registered")
     \/ ~Cancelled("grpc") /\ Step("grpc", "registering", "failed")
  /\ UNCHANGED <<shutdown, server>>

RegistrationFailed == Order("grpc", "failed", "registered")

\* The context of the listen is made of one that is read at line 266.
MakeContext == Read("grpc", "registered", "entering")

\* getGrpcListener reads the grpcListenCancel that it will call (line 199)...
EnterListener ==
  /\ place["grpc"] = "entering"
  /\ place' = [place EXCEPT !["grpc"] = "checking"]
  /\ \E k \in Reads : Use(k)
  /\ UNCHANGED <<services, shutdown, exited, held, server, count, closed, crashed,
                 otherThanRoutine>>

\* ... looks at its context...
CheckContext ==
  /\ Step("grpc", "checking", IF Cancelled("grpc") THEN "leaving" ELSE "attempt")
  /\ UNCHANGED <<shutdown, server>>

\* ... and listens, or fails to.  The monitor is launched and the server serves.
GetGrpcListener ==
  /\ place["grpc"] = "attempt"
  /\ \/ place' = [place EXCEPT !["grpc"] = "leaving"] /\ UNCHANGED server
     \/ /\ place' = [place EXCEPT !["grpc"] = "serving", !["monitor"] = "begin"]
        /\ server' = "up"
  /\ UNCHANGED <<services, shutdown, exited, held, strayed, count, closed, crashed,
                 otherThanRoutine>>

\* Serve returns when the graceful stop is complete, or when Accept fails for good.
EndServing ==
  /\ server = "stopped" /\ UNCHANGED <<server, shutdown>>
  /\ Step("grpc", "serving", "leaving")

ServeFails ==
  /\ server = "up" /\ server' = "failed"
  /\ Step("grpc", "serving", "leaving")
  /\ UNCHANGED shutdown

\* The monitor stops the server; it waits for the RPCs, perhaps for ever.
GracefulStop ==
  /\ Cancelled("monitor")
  /\ Step("monitor", "working", "gone")
  /\ server' = "stopped"
  /\ UNCHANGED shutdown

\* resourcesReleased.Wait() and the close that tells Run: the services release
\* their resources at some time, or never.
ResourcesReleased ==
  /\ Step("releaser", "working", "gone")
  /\ UNCHANGED <<shutdown, server>>

Listeners ==
  \/ AwaitShutdown \/ CancelShutdownCtx \/ (OnContext /\ StopSignaler)
  \/ \E g \in {"timeouter", "signaler"} : ListenerExits(g)

Workers ==
  \/ LaunchService \/ CallService \/ ServiceFailed
  \/ Probe \/ ReadForRegister \/ RegisterServices \/ RegistrationFailed
  \/ MakeContext \/ EnterListener \/ CheckContext \/ GetGrpcListener
  \/ EndServing \/ GracefulStop \/ ResourcesReleased
  \/ \E g \in {"generic", "grpc"} : RoutineExits(g)

-----------------------------------------------------------------------------
(* The next Run, with or without a Reset before it.                         *)

otherThanNext == <<managerVars, listeners, shutdown, main,
                   timedOut, routineVars, groupVars>>

StartNext ==
  /\ main = "returned" /\ next = "idle" /\ ~resetting
  /\ current = 2 \/ MayForget
  /\ next' = "running"
  /\ exited' = [exited EXCEPT ![current] = @ + 2]
  /\ UNCHANGED <<services, complete, nextOut, crashed, otherThanNext>>

\* One of its listeners ends, with the shutdown or by starting it.
NextListener ==
  /\ next # "idle" /\ nextOut < 2
  /\ nextOut' = nextOut + 1
  /\ Cancel(services, current)
  /\ CountOut(current)
  /\ UNCHANGED <<complete, next, otherThanNext>>

NextReturns ==
  /\ next = "running"
  /\ services[current] /\ NoListeners(current)
  /\ next' = "returned"
  /\ CloseComplete(current)
  /\ UNCHANGED <<services, exited, nextOut, otherThanNext>>

Next ==
  /\ ~crashed
  /\ \/ Reset \/ ResetReturns \/ StartShutdown \/ StartRun \/ Main
     \/ Listeners \/ StopSignaler \/ Workers \/ ServiceReturns \/ ServeFails
     \/ StartNext \/ NextListener \/ NextReturns
     \/ \E g \in Routines : Begin(g)

Spec == Init /\ [][Next]_vars

\* The listeners run when they can, and so does the next Run; that of the first is
\* in Manager.
Fairness ==
  /\ WF_vars(~crashed /\ Listeners)
  /\ WF_vars(~crashed /\ services[current] /\ NextListener)
  /\ WF_vars(~crashed /\ NextReturns)
  /\ \A g \in {"timeouter", "signaler"} : WF_vars(~crashed /\ Begin(g))

FairSpec == Spec /\ Fairness

-----------------------------------------------------------------------------
(* What must hold.                                                         *)

\* The ways in which the first run may return while routines of it are still at
\* work: it gave up waiting, its wait group did not count a routine, or the
\* server stopped by itself, so that nobody waits for its monitor.
LeavesBehind == timedOut \/ lost # {} \/ server = "failed"

\* No routine ever reads, cancels or waits for something of manager.sync that
\* Reset made for the next run (line 465), unless its own run left it behind:
\* after a run that ended in order, Reset makes a manager like a new one.
Isolated == [][~strayed /\ strayed' => LeavesBehind]_vars

\* The manager panics only when Run is called twice without Reset (line 551), when
\* a listener that was left behind has read the next run's wait group and counted
\* itself out of it (lines 444 and 451), or when the shutdown's time was over
\* before the generic routine was counted (line 328).
CrashesExplained ==
  crashed => \/ next # "idle" /\ current = 1
             \/ \E g \in {"timeouter", "signaler"} : held[g] = 2 /\ place[g] = "gone"
             \/ "generic" \in lost

\* A shutdown order ends the next run, whatever the routines of the first do to
\* its contexts and its counter.
ShutdownEndsNext ==
  (next = "running" /\ services[current]) ~> (next = "returned" \/ crashed)
=============================================================================
