----------------------------- MODULE ManagerProofs -----------------------------
(***************************************************************************)
(* Proofs about Manager, for any number of services of any kinds, with and *)
(* without a limit: the inductive invariant, and the safety properties it  *)
(* gives; that a shutdown never gets stuck, and that every step brings the *)
(* end of the run nearer.                                                  *)
(***************************************************************************)
EXTENDS Manager, SequenceTheorems, FiniteSetTheorems, TLAPS

CallNames == {"addGeneric", "addGrpc", "doneGeneric", "doneGrpc"}

\* The calls of runsComplete.
GroupTypes ==
  /\ call \in [CallNames -> {"idle", "pending", "ok", "closed", "ctx", "panic"}]
  /\ delta \in [CallNames -> Int]
  /\ wait \in [{"run"} -> {"idle", "waiting", "closed", "ctx", "panic"}]

\* The stages of Run after the services.
Ending == {"release", "waitRelease", "waitListeners", "finish", "returned"}

\* Run calls the stages in their order, and starts the routines on the way,
\* after a setup without errors.
StageInv ==
  /\ main = "idle" => \A s \in Services : setupTask[s] = "pending"
  /\ main \notin {"idle", "setup"} => Setup!Finished
  /\ main \in {"addGeneric", "addGrpc", "wait"} \/ generic # "none"
       => setupErrs = <<>> /\ main \notin {"idle", "setup"}
  /\ main = "addGeneric" => generic = "none"
  /\ main = "addGrpc" => generic # "none" /\ grpc = "none"
  /\ main = "wait" => generic # "none" /\ grpc # "none"
  /\ main \in Ending /\ setupErrs = <<>> => generic # "none" /\ grpc # "none"
  /\ generic = "none" => grpc = "none"

\* What has ordered the shutdown.
OrderInv ==
  /\ setupErrs # <<>> \/ registerErrs # <<>> => servicesDone
  /\ \A s \in Services :
       setupTask[s] = "skipped" \/ grpcTask[s] = "skipped" => servicesDone
  /\ main \in Ending \/ timeouter = "timing" \/ shutdownDone => servicesDone

\* The end of Run: resources, then listeners.
ReleaseInv ==
  /\ resourcesDone <=> main \in Ending \ {"release"}
  /\ releaseWaiter # "none" => resourcesDone
  /\ releaseWaiter = "released" => \A s \in Services : resource[s] # "held"
  /\ listenersDone => releaseWaiter = "released"
  /\ main = "waitListeners" => listenersDone
  /\ main \in {"finish", "returned"} /\ ~shutdownErr => listenersDone /\ BothExited

\* The services run only when all of them are set up.
RunsInv ==
  /\ generic = "none" =>
       genericErrs = <<>> /\ \A s \in Services : genericTask[s] = "pending"
  /\ generic \in {"done", "exited"} => Runs!Finished
  /\ (\E s \in Services : genericTask[s] \in {"active", "failing", "over"}) => AllSetUp

\* There is a monitor exactly when the listen succeeded, and only then there can
\* be a server.  A context that was not cancelled when the listen was decided on
\* means that every service is set up and registered.
MonitorInv ==
  /\ grpc \in {"none", "probe", "register", "listen", "attempt"} => monitor = "none"
  /\ grpc \in {"start", "serve"} => monitor # "none"
  /\ grpc = "none" => ~hasGrpc /\ \A s \in Services : grpcTask[s] = "pending"
  /\ grpc \in {"register", "listen", "attempt"} \/ monitor # "none" => hasGrpc
  /\ grpc = "listen" => GrpcMap!Finished
  /\ grpc = "attempt" \/ monitor # "none" =>
       AllSetUp /\ registerErrs = <<>> /\ \A s \in Services : grpcTask[s] = "over"

\* The server and its routine.
ServerInv ==
  /\ monitor = "none" => server = "new"
  /\ monitor = "waiting" => server \in {"new", "serving", "failed"}
  /\ monitor = "stopping" => server = "draining"
  /\ grpc = "start" => server \in {"new", "stopped"}
  /\ server \in {"serving", "draining"} => grpc = "serve" \/ grpcErr = "serve"
  /\ server = "failed" => grpcErr = "serve"
  /\ grpc \notin {"done", "exited"} => grpcErr = "nil"
  /\ grpc \in {"done", "exited"} /\ hasGrpc /\ monitor = "none"
       => grpcErr \in {"ctx", "listen"}
  /\ monitor # "none" => grpcErr \notin {"ctx", "listen"}
  /\ grpc \in {"done", "exited"} /\ monitor # "none" => server # "new"
  /\ server \in {"new", "stopped"} => rpcs = 0

\* The calls of runsComplete are where their goroutines are.
CallInv ==
  /\ main \in {"idle", "setup"} \/ setupErrs # <<>> => call["addGeneric"] = "idle"
  /\ generic = "none" => call["addGeneric"] \in {"idle", "pending", "panic"}
  /\ generic # "none" => call["addGeneric"] \in {"ok", "ctx"}
  /\ generic = "none" => call["addGrpc"] = "idle"
  /\ grpc = "none" => call["addGrpc"] \in {"idle", "pending", "panic"}
  /\ grpc # "none" => call["addGrpc"] \in {"ok", "closed", "ctx"}
  /\ generic \in {"none", "run"} => call["doneGeneric"] = "idle"
  /\ generic = "done" => call["doneGeneric"] \in {"idle", "pending", "panic"}
  /\ generic = "exited" => call["doneGeneric"] \in {"ok", "closed", "ctx"}
  /\ grpc \notin {"done", "exited"} => call["doneGrpc"] = "idle"
  /\ grpc = "done" => call["doneGrpc"] \in {"idle", "pending", "panic"}
  /\ grpc = "exited" => call["doneGrpc"] \in {"ok", "closed", "ctx"}
  /\ main \in {"idle", "setup", "addGeneric", "addGrpc"} => wait["run"] = "idle"
  /\ main = "wait" => wait["run"] \in {"idle", "waiting", "panic"}
  /\ main \in Ending /\ setupErrs = <<>> => wait["run"] \in {"closed", "ctx"}

\* The gRPC routine began, or will begin, under a cancelled context.
NeverListens ==
  /\ servicesDone /\ ~hasGrpc /\ monitor = "none"
  /\ \A s \in Services : grpcTask[s] \in {"pending", "skipped"}

Ok(c) == IF call[c] = "ok" THEN 1 ELSE 0

\* runsComplete has counted the calls that returned nil.
CountInv ==
  /\ \A c \in {"addGeneric", "addGrpc"} : call[c] # "idle" => delta[c] = 1
  /\ \A c \in {"doneGeneric", "doneGrpc"} : call[c] # "idle" => delta[c] = -1
  /\ total = Ok("addGeneric") + Ok("addGrpc") - Ok("doneGeneric") - Ok("doneGrpc")
  /\ status = "closed" => total = 0 /\ \E c \in CallNames : call[c] = "ok"
  /\ \A c \in CallNames : call[c] = "closed" => status = "closed"
  /\ \A c \in CallNames : call[c] = "ctx" => shutdownDone
  /\ call["addGrpc"] = "closed" => call["doneGrpc"] # "ok"
  /\ wait["run"] = "closed" => status = "closed"
  /\ wait["run"] = "ctx" => shutdownDone
  /\ call["addGeneric"] = "ctx" \/ call["addGrpc"] = "ctx" => NeverListens

\* The errors that Run has collected when it waited for the counted routines.
ReportInv ==
  main \in Ending /\ setupErrs = <<>> =>
    /\ runErr.timeout <=> wait["run"] = "ctx"
    /\ ~runErr.timeout /\ Counted =>
         /\ runErr.services = Range(genericErrs)
         /\ call["addGrpc"] = "ok" => runErr.grpc = grpcErr

\* The stages, the contexts, the services and the server.
RunInv ==
  StageInv /\ OrderInv /\ ReleaseInv /\ RunsInv /\ MonitorInv /\ ServerInv

\* runsComplete and what Run makes of it.
GroupInv == GroupTypes /\ CallInv /\ CountInv /\ ReportInv

IInv == TypeOK /\ RunInv /\ GroupInv

-----------------------------------------------------------------------------
(* The invariant.                                                          *)

\* What a pending call may add to the counter.
LEMMA TotalBound ==
  ASSUME IInv
  PROVE  /\ total \in 0..2
         /\ \A c \in {"addGeneric", "addGrpc"} :
              call[c] = "pending" => total + delta[c] \in 0..2
         /\ \A c \in {"doneGeneric", "doneGrpc"} :
              call[c] = "pending" => total + delta[c] \in -1..1
<1> USE DEF IInv, TypeOK, GroupInv, GroupTypes, CountInv, CallInv, CallNames, Ok
<1>1. total \in 0..2
  OBVIOUS
<1>2. call["addGeneric"] = "pending" => total + delta["addGeneric"] \in 0..2
  OBVIOUS
<1>3. call["addGrpc"] = "pending" => total + delta["addGrpc"] \in 0..2
  OBVIOUS
<1>4. call["doneGeneric"] = "pending" => total + delta["doneGeneric"] \in -1..1
  OBVIOUS
<1>5. call["doneGrpc"] = "pending" => total + delta["doneGrpc"] \in -1..1
  OBVIOUS
<1> QED
  BY <1>1, <1>2, <1>3, <1>4, <1>5

\* When the counted group has closed, the routines that it counted are over.
LEMMA ClosedBalance ==
  ASSUME IInv, status = "closed", Counted
  PROVE  generic = "exited" /\ (call["addGrpc"] = "ok" => grpc = "exited")
<1> USE DEF IInv, TypeOK, GroupInv, GroupTypes, CountInv, CallInv, CallNames, Ok,
       Counted
<1>1. call["addGrpc"] # "ok" => call["doneGrpc"] # "ok"
  OBVIOUS
<1>2. call["doneGeneric"] = "ok" /\ (call["addGrpc"] = "ok" => call["doneGrpc"] = "ok")
  BY <1>1
<1> QED
  BY <1>2

\* Types: every step keeps the variables in their sets.
LEMMA TypeStep == IInv /\ [Next]_vars => TypeOK'
<1> SUFFICES ASSUME IInv, [Next]_vars PROVE TypeOK'
  OBVIOUS
<1> USE ManagerAssumption
    DEF IInv, TypeOK, GrpcErrors, NoRunErr, Services, Setup!TaskStates,
        Setup!Services, Runs!Services, GrpcMap!Services, contexts,
        listeners, setupVars, genericVars, serverVars, grpcVars, groupVars,
        mainVars, otherThanSetup, otherThanGroup, otherThanEnd, otherThanRuns,
        otherThanGrpc, otherThanServer
<1>1. CASE StartShutdown
  BY <1>1 DEF StartShutdown
<1>2. CASE AwaitShutdown
  BY <1>2 DEF AwaitShutdown
<1>3. CASE CancelShutdownCtx
  BY <1>3 DEF CancelShutdownCtx
<1>4. CASE StopSignaler
  BY <1>4 DEF StopSignaler
<1>5. CASE StartRun
  BY <1>5 DEF StartRun
<1>6. CASE SetupServices
  <2>1. CASE Setup!SkipRest
    BY <1>6, <2>1 DEF SetupServices, Setup!SkipRest
  <2>2. ASSUME NEW s \in Services, Setup!Launch(s)
        PROVE  TypeOK'
    BY <1>6, <2>2 DEF SetupServices, Setup!Launch
  <2>3. ASSUME NEW s \in Services, Setup!Collect(s)
        PROVE  TypeOK'
    BY <1>6, <2>3, AppendProperties DEF SetupServices, Setup!Collect
  <2> QED
    BY <1>6, <2>1, <2>2, <2>3 DEF SetupServices
<1>7. ASSUME NEW s \in Services, SetupReturns(s)
      PROVE  TypeOK'
  <2>1. resource' \in [Services -> {"none", "held", "released"}]
    BY <1>7 DEF SetupReturns
  <2>2. setupTask' \in [Services -> Setup!TaskStates]
    BY <1>7 DEF SetupReturns, Setup!Complete, Setup!Fail
  <2> QED
    BY <1>7, <2>1, <2>2 DEF SetupReturns, Setup!Complete, Setup!Fail
<1>8. CASE EndSetup
  BY <1>8 DEF EndSetup, SetupOver
<1>9. CASE AddGeneric
  <2>1. total' \in 0..2
    BY <1>9, TotalBound
       DEF AddGeneric, GroupReturns, Group!Invoke, Group!Succeed, Group!Refuse
  <2>2. status' \in {"open", "closed", "panicked"}
    BY <1>9
       DEF AddGeneric, GroupReturns, Group!Invoke, Group!Succeed, Group!Refuse
  <2> QED
    BY <1>9, <2>1, <2>2
       DEF AddGeneric, GroupReturns, Group!Invoke, Group!Succeed, Group!Refuse
<1>10. CASE AddGrpc
  <2>1. total' \in 0..2
    BY <1>10, TotalBound
       DEF AddGrpc, GroupReturns, Group!Invoke, Group!Succeed, Group!Refuse
  <2>2. status' \in {"open", "closed", "panicked"}
    BY <1>10
       DEF AddGrpc, GroupReturns, Group!Invoke, Group!Succeed, Group!Refuse
  <2> QED
    BY <1>10, <2>1, <2>2
       DEF AddGrpc, GroupReturns, Group!Invoke, Group!Succeed, Group!Refuse
<1>11. CASE StartWait
  BY <1>11 DEF StartWait, Group!StartWait
<1>12. CASE EndWait
  <2>1. Range(genericErrs) \subseteq Services
    BY LenProperties DEF Range
  <2>2. Collected \in [timeout : BOOLEAN, services : SUBSET Services, grpc : GrpcErrors]
    BY <2>1 DEF Collected
  <2>3. [NoRunErr EXCEPT !.timeout = TRUE]
          \in [timeout : BOOLEAN, services : SUBSET Services, grpc : GrpcErrors]
    OBVIOUS
  <2> HIDE DEF NoRunErr, GrpcErrors
  <2>4. runErr' \in [timeout : BOOLEAN, services : SUBSET Services, grpc : GrpcErrors]
    BY <1>12, <2>2, <2>3 DEF EndWait
  <2> QED
    BY <1>12, <2>4 DEF EndWait, Group!EndWait
<1>13. CASE GroupPanics
  BY <1>13 DEF GroupPanics, Group!Overdraw
<1>14. CASE CallPanics
  BY <1>14 DEF CallPanics, Group!Refuse, Group!EndWait, Group!Reason
<1>15. CASE ReleaseResources
  BY <1>15 DEF ReleaseResources
<1>16. CASE ResourcesReleased
  BY <1>16 DEF ResourcesReleased, NothingHeld
<1>17. CASE CancelListeners
  BY <1>17 DEF CancelListeners
<1>18. CASE ShutdownTimesOut
  BY <1>18 DEF ShutdownTimesOut
<1>19. CASE ListenersExited
  BY <1>19 DEF ListenersExited
<1>20. CASE Finish
  BY <1>20 DEF Finish
<1>21. CASE GenericServicesRun
  <2>1. CASE Runs!SkipRest
    BY <1>21, <2>1 DEF GenericServicesRun, Runs!SkipRest
  <2>2. ASSUME NEW s \in Services, Runs!Launch(s)
        PROVE  TypeOK'
    BY <1>21, <2>2 DEF GenericServicesRun, Runs!Launch
  <2>3. ASSUME NEW s \in Services, Runs!Collect(s)
        PROVE  TypeOK'
    BY <1>21, <2>3, AppendProperties DEF GenericServicesRun, Runs!Collect
  <2> QED
    BY <1>21, <2>1, <2>2, <2>3 DEF GenericServicesRun
<1>22. ASSUME NEW s \in Services, RunReturns(s)
       PROVE  TypeOK'
  <2>1. CASE Runs!Complete(s)
    BY <1>22, <2>1 DEF RunReturns, Runs!Complete
  <2>2. CASE Runs!Fail(s)
    BY <1>22, <2>2 DEF RunReturns, Runs!Fail
  <2> QED
    BY <1>22, <2>1, <2>2 DEF RunReturns
<1>23. CASE EndGeneric
  BY <1>23 DEF EndGeneric, RunsOver
<1>24. CASE DoneGeneric
  <2>1. total' \in 0..2
    BY <1>24, TotalBound
       DEF DoneGeneric, GroupReturns, CallDone, Group!Invoke, Group!Succeed,
           Group!Refuse
  <2>2. status' \in {"open", "closed", "panicked"}
    BY <1>24
       DEF DoneGeneric, GroupReturns, CallDone, Group!Invoke, Group!Succeed,
           Group!Refuse
  <2> QED
    BY <1>24, <2>1, <2>2
       DEF DoneGeneric, GroupReturns, CallDone, Group!Invoke, Group!Succeed,
           Group!Refuse
<1>25. CASE GrpcMapSteps
  <2>1. CASE GrpcMap!SkipRest
    BY <1>25, <2>1 DEF GrpcMapSteps, GrpcMap!SkipRest
  <2>2. ASSUME NEW s \in Services, GrpcMap!Launch(s)
        PROVE  TypeOK'
    BY <1>25, <2>2 DEF GrpcMapSteps, GrpcMap!Launch
  <2>3. ASSUME NEW s \in Services, GrpcMap!Collect(s)
        PROVE  TypeOK'
    BY <1>25, <2>3, AppendProperties DEF GrpcMapSteps, GrpcMap!Collect
  <2> QED
    BY <1>25, <2>1, <2>2, <2>3 DEF GrpcMapSteps
<1>26. ASSUME NEW s \in Services, Probe(s)
       PROVE  TypeOK'
  BY <1>26 DEF Probe, GrpcMap!Complete
<1>27. CASE EndProbe
  BY <1>27 DEF EndProbe, GrpcMap!NotStarted
<1>28. ASSUME NEW s \in Services, Register(s)
       PROVE  TypeOK'
  <2>1. CASE GrpcMap!Complete(s)
    BY <1>28, <2>1 DEF Register, GrpcMap!Complete
  <2>2. CASE GrpcMap!Fail(s)
    BY <1>28, <2>2 DEF Register, GrpcMap!Fail
  <2> QED
    BY <1>28, <2>1, <2>2 DEF Register
<1>29. CASE EndRegister
  BY <1>29 DEF EndRegister
<1>30. CASE GetGrpcListener
  BY <1>30 DEF GetGrpcListener, ListenOp
<1>31. CASE StartServing
  BY <1>31 DEF StartServing
<1>32. CASE EndServing
  BY <1>32 DEF EndServing
<1>33. CASE ServeFails
  BY <1>33 DEF ServeFails
<1>34. CASE DoneGrpc
  <2>1. total' \in 0..2
    BY <1>34, TotalBound
       DEF DoneGrpc, GroupReturns, CallDone, Group!Invoke, Group!Succeed,
           Group!Refuse
  <2>2. status' \in {"open", "closed", "panicked"}
    BY <1>34
       DEF DoneGrpc, GroupReturns, CallDone, Group!Invoke, Group!Succeed,
           Group!Refuse
  <2> QED
    BY <1>34, <2>1, <2>2
       DEF DoneGrpc, GroupReturns, CallDone, Group!Invoke, Group!Succeed,
           Group!Refuse
<1>35. CASE GracefulStop
  BY <1>35 DEF GracefulStop, StopOrdered
<1>36. CASE Drained
  BY <1>36 DEF Drained, NoHandlers
<1>37. CASE StartRpc
  BY <1>37 DEF StartRpc
<1>38. CASE EndRpc
  BY <1>38 DEF EndRpc
<1>39. ASSUME NEW s \in Services, Release(s)
       PROVE  TypeOK'
  BY <1>39 DEF Release
<1>40. CASE UNCHANGED vars
  BY <1>40 DEF vars
<1>41. CASE CheckContext
  BY <1>41 DEF CheckContext, ListenCancelled
<1> QED
  BY <1>1, <1>2, <1>3, <1>4, <1>5, <1>6, <1>7, <1>8, <1>9, <1>10, <1>11, <1>12,
     <1>13, <1>14, <1>15, <1>16, <1>17, <1>18, <1>19, <1>20, <1>21, <1>22,
     <1>23, <1>24, <1>25, <1>26, <1>27, <1>28, <1>29, <1>30, <1>31, <1>32,
     <1>33, <1>34, <1>35, <1>36, <1>37, <1>38, <1>39, <1>40, <1>41
     DEF Next, Main, GenericRoutine, GrpcRoutine, Monitor

\* The order of the run: every step keeps it.
LEMMA RunStep == IInv /\ [Next]_vars => RunInv'
<1> SUFFICES ASSUME IInv, [Next]_vars PROVE RunInv'
  OBVIOUS
<1> USE ManagerAssumption
    DEF IInv, RunInv, StageInv, OrderInv, ReleaseInv, RunsInv, MonitorInv,
        ServerInv, Ending, BothExited, AllSetUp, Services, Setup!Finished,
        Runs!Finished, GrpcMap!Finished, Setup!Services, Runs!Services,
        GrpcMap!Services,
        contexts, listeners, setupVars, genericVars, serverVars, grpcVars,
        groupVars, mainVars, otherThanSetup, otherThanGroup, otherThanEnd,
        otherThanRuns, otherThanGrpc, otherThanServer
<1>1. CASE StartShutdown
  BY <1>1 DEF StartShutdown
<1>2. CASE AwaitShutdown
  BY <1>2 DEF AwaitShutdown
<1>3. CASE CancelShutdownCtx
  BY <1>3 DEF CancelShutdownCtx
<1>4. CASE StopSignaler
  BY <1>4 DEF StopSignaler
<1>5. CASE StartRun
  BY <1>5 DEF StartRun
<1>6. CASE SetupServices
  <2>1. CASE Setup!SkipRest
    BY <1>6, <2>1 DEF SetupServices, Setup!SkipRest
  <2>2. ASSUME NEW s \in Services, Setup!Launch(s)
        PROVE  RunInv'
    BY <1>6, <2>2 DEF SetupServices, Setup!Launch, Setup!IsNext
  <2>3. ASSUME NEW s \in Services, Setup!Collect(s)
        PROVE  RunInv'
    BY <1>6, <2>3 DEF SetupServices, Setup!Collect
  <2> QED
    BY <1>6, <2>1, <2>2, <2>3 DEF SetupServices
<1>7. ASSUME NEW s \in Services, SetupReturns(s)
      PROVE  RunInv'
  <2>1. CASE Setup!Complete(s)
    BY <1>7, <2>1 DEF TypeOK, SetupReturns, Setup!Complete
  <2>2. CASE Setup!Fail(s)
    BY <1>7, <2>2 DEF TypeOK, SetupReturns, Setup!Fail
  <2> QED
    BY <1>7, <2>1, <2>2 DEF SetupReturns
<1>8. CASE EndSetup
  BY <1>8 DEF EndSetup, SetupOver
<1>9. CASE AddGeneric
  BY <1>9
     DEF AddGeneric, GroupReturns, Group!Invoke, Group!Succeed, Group!Refuse,
         Group!Reason
<1>10. CASE AddGrpc
  BY <1>10
     DEF AddGrpc, GroupReturns, Group!Invoke, Group!Succeed, Group!Refuse,
         Group!Reason
<1>11. CASE StartWait
  BY <1>11 DEF StartWait, Group!StartWait
<1>12. CASE EndWait
  BY <1>12 DEF EndWait, Collected, Group!EndWait, Group!Reason
<1>13. CASE GroupPanics
  BY <1>13 DEF GroupPanics, Group!Overdraw
<1>14. CASE CallPanics
  BY <1>14 DEF CallPanics, Group!Refuse, Group!EndWait, Group!Reason
<1>15. CASE ReleaseResources
  BY <1>15 DEF ReleaseResources
<1>16. CASE ResourcesReleased
  BY <1>16 DEF ResourcesReleased, NothingHeld
<1>17. CASE CancelListeners
  BY <1>17 DEF CancelListeners
<1>18. CASE ShutdownTimesOut
  BY <1>18 DEF ShutdownTimesOut
<1>19. CASE ListenersExited
  BY <1>19 DEF ListenersExited
<1>20. CASE Finish
  BY <1>20 DEF Finish
<1>21. CASE GenericServicesRun
  BY <1>21
     DEF GenericServicesRun, Runs!SkipRest, Runs!Launch, Runs!IsNext,
         Runs!Collect
<1>22. ASSUME NEW s \in Services, RunReturns(s)
       PROVE  RunInv'
  BY <1>22 DEF RunReturns, Runs!Complete, Runs!Fail
<1>23. CASE EndGeneric
  BY <1>23 DEF EndGeneric, RunsOver, TypeOK
<1>24. CASE DoneGeneric
  BY <1>24
     DEF DoneGeneric, GroupReturns, CallDone, Group!Invoke, Group!Succeed,
         Group!Refuse, Group!Reason
<1>25. CASE GrpcMapSteps
  <2>1. CASE GrpcMap!SkipRest
    BY <1>25, <2>1 DEF GrpcMapSteps, GrpcMap!SkipRest
  <2>2. ASSUME NEW s \in Services, GrpcMap!Launch(s)
        PROVE  RunInv'
    BY <1>25, <2>2 DEF GrpcMapSteps, GrpcMap!Launch
  <2>3. ASSUME NEW s \in Services, GrpcMap!Collect(s)
        PROVE  RunInv'
    BY <1>25, <2>3 DEF GrpcMapSteps, GrpcMap!Collect
  <2> QED
    BY <1>25, <2>1, <2>2, <2>3 DEF GrpcMapSteps
<1>26. ASSUME NEW s \in Services, Probe(s)
       PROVE  RunInv'
  BY <1>26 DEF Probe, GrpcMap!Complete
<1>27. CASE EndProbe
  BY <1>27 DEF EndProbe, GrpcMap!NotStarted
<1>28. ASSUME NEW s \in Services, Register(s)
       PROVE  RunInv'
  <2>1. CASE GrpcMap!Complete(s)
    <3>1. MonitorInv'
      BY <1>28, <2>1 DEF TypeOK, Register, GrpcMap!Complete
    <3>2. OrderInv'
      BY <1>28, <2>1 DEF TypeOK, Register, GrpcMap!Complete
    <3>3. StageInv' /\ ReleaseInv' /\ RunsInv' /\ ServerInv'
      BY <1>28, <2>1 DEF TypeOK, Register, GrpcMap!Complete
    <3> QED
      BY <3>1, <3>2, <3>3
  <2>2. CASE GrpcMap!Fail(s)
    <3>1. MonitorInv'
      BY <1>28, <2>2 DEF TypeOK, Register, GrpcMap!Fail
    <3>2. OrderInv'
      BY <1>28, <2>2 DEF TypeOK, Register, GrpcMap!Fail
    <3>3. StageInv' /\ ReleaseInv' /\ RunsInv' /\ ServerInv'
      BY <1>28, <2>2 DEF TypeOK, Register, GrpcMap!Fail
    <3> QED
      BY <3>1, <3>2, <3>3
  <2> QED
    BY <1>28, <2>1, <2>2 DEF Register
<1>29. CASE EndRegister
  BY <1>29 DEF EndRegister
<1>30. CASE GetGrpcListener
  BY <1>30 DEF GetGrpcListener, ListenOp
<1>31. CASE StartServing
  BY <1>31 DEF StartServing
<1>32. CASE EndServing
  BY <1>32 DEF EndServing
<1>33. CASE ServeFails
  BY <1>33 DEF ServeFails
<1>34. CASE DoneGrpc
  BY <1>34
     DEF DoneGrpc, GroupReturns, CallDone, Group!Invoke, Group!Succeed,
         Group!Refuse, Group!Reason
<1>35. CASE GracefulStop
  BY <1>35 DEF GracefulStop, StopOrdered
<1>36. CASE Drained
  BY <1>36 DEF Drained, NoHandlers
<1>37. CASE StartRpc
  BY <1>37 DEF StartRpc
<1>38. CASE EndRpc
  BY <1>38 DEF EndRpc
<1>39. ASSUME NEW s \in Services, Release(s)
       PROVE  RunInv'
  BY <1>39 DEF Release
<1>40. CASE UNCHANGED vars
  BY <1>40 DEF vars
<1>41. CASE CheckContext
  BY <1>41 DEF CheckContext, ListenCancelled
<1> QED
  BY <1>1, <1>2, <1>3, <1>4, <1>5, <1>6, <1>7, <1>8, <1>9, <1>10, <1>11, <1>12,
     <1>13, <1>14, <1>15, <1>16, <1>17, <1>18, <1>19, <1>20, <1>21, <1>22,
     <1>23, <1>24, <1>25, <1>26, <1>27, <1>28, <1>29, <1>30, <1>31, <1>32,
     <1>33, <1>34, <1>35, <1>36, <1>37, <1>38, <1>39, <1>40, <1>41
     DEF Next, Main, GenericRoutine, GrpcRoutine, Monitor

\* The counting: every step keeps it.
LEMMA GroupStep == IInv /\ [Next]_vars => GroupInv'
<1> SUFFICES ASSUME IInv, [Next]_vars PROVE GroupInv'
  OBVIOUS
<1> USE DEF IInv, GroupInv, GroupTypes, CallInv, CountInv, ReportInv, Ending,
        CallNames, Ok, Counted, NeverListens, Services,
        contexts, listeners, setupVars, genericVars, serverVars, grpcVars,
        groupVars, mainVars, otherThanSetup, otherThanGroup, otherThanEnd,
        otherThanRuns, otherThanGrpc, otherThanServer
<1>1. CASE StartShutdown
  BY <1>1 DEF StartShutdown
<1>2. CASE AwaitShutdown
  BY <1>2 DEF AwaitShutdown
<1>3. CASE CancelShutdownCtx
  BY <1>3 DEF CancelShutdownCtx
<1>4. CASE StopSignaler
  BY <1>4 DEF StopSignaler
<1>5. CASE StartRun
  BY <1>5 DEF StartRun
<1>6. CASE SetupServices
  BY <1>6
     DEF SetupServices, Setup!SkipRest, Setup!Launch, Setup!IsNext,
         Setup!Collect
<1>7. ASSUME NEW s \in Services, SetupReturns(s)
      PROVE  GroupInv'
  BY <1>7 DEF SetupReturns, Setup!Complete, Setup!Fail
<1>8. CASE EndSetup
  BY <1>8 DEF EndSetup, SetupOver
<1>9. CASE AddGeneric
  <2> USE DEF RunInv, StageInv, OrderInv, MonitorInv, ServerInv, TypeOK
  <2>1. CASE Group!Invoke("addGeneric", 1)
    <3>1. GroupTypes' /\ CallInv'
      BY <1>9, <2>1
         DEF AddGeneric, Group!Invoke, GroupReturns, Group!Succeed, Group!Refuse
    <3>2. CountInv' /\ ReportInv'
      BY <1>9, <2>1
         DEF AddGeneric, Group!Invoke, GroupReturns, Group!Succeed, Group!Refuse
    <3> QED
      BY <3>1, <3>2
  <2>2. CASE Group!Succeed("addGeneric")
    <3>1. GroupTypes' /\ CallInv'
      BY <1>9, <2>2
         DEF AddGeneric, Group!Invoke, GroupReturns, Group!Succeed, Group!Refuse
    <3>2. CountInv' /\ ReportInv'
      BY <1>9, <2>2
         DEF AddGeneric, Group!Invoke, GroupReturns, Group!Succeed, Group!Refuse
    <3> QED
      BY <3>1, <3>2
  <2>3. ASSUME NEW why \in {"closed", "ctx"}, Group!Refuse("addGeneric", why)
        PROVE  GroupInv'
    <3>1. GroupTypes' /\ CallInv' /\ ReportInv'
      BY <1>9, <2>3
         DEF AddGeneric, Group!Invoke, GroupReturns, Group!Succeed,
             Group!Refuse, Group!Reason
    <3>2. why = "ctx" => NeverListens'
      BY <1>9, <2>3
         DEF AddGeneric, Group!Invoke, GroupReturns, Group!Succeed,
             Group!Refuse, Group!Reason
    <3>3. CountInv'
      <4> HIDE DEF NeverListens
      <4>1. NeverListens => NeverListens'
        BY <1>9, <2>3
           DEF AddGeneric, Group!Invoke, GroupReturns, Group!Succeed,
               Group!Refuse, NeverListens
      <4> QED
        BY <1>9, <2>3, <3>2, <4>1
           DEF AddGeneric, Group!Invoke, GroupReturns, Group!Succeed,
               Group!Refuse, Group!Reason
    <3> QED
      BY <3>1, <3>3
  <2> QED
    BY <1>9, <2>1, <2>2, <2>3 DEF AddGeneric, GroupReturns
<1>10. CASE AddGrpc
  <2> USE DEF RunInv, StageInv, OrderInv, MonitorInv, ServerInv, TypeOK
  <2>1. CASE Group!Invoke("addGrpc", 1)
    <3>1. GroupTypes' /\ CallInv'
      BY <1>10, <2>1
         DEF AddGrpc, Group!Invoke, GroupReturns, Group!Succeed, Group!Refuse
    <3>2. CountInv' /\ ReportInv'
      BY <1>10, <2>1
         DEF AddGrpc, Group!Invoke, GroupReturns, Group!Succeed, Group!Refuse
    <3> QED
      BY <3>1, <3>2
  <2>2. CASE Group!Succeed("addGrpc")
    <3>1. GroupTypes' /\ CallInv'
      BY <1>10, <2>2
         DEF AddGrpc, Group!Invoke, GroupReturns, Group!Succeed, Group!Refuse
    <3>2. CountInv' /\ ReportInv'
      BY <1>10, <2>2
         DEF AddGrpc, Group!Invoke, GroupReturns, Group!Succeed, Group!Refuse
    <3> QED
      BY <3>1, <3>2
  <2>3. ASSUME NEW why \in {"closed", "ctx"}, Group!Refuse("addGrpc", why)
        PROVE  GroupInv'
    <3>1. GroupTypes' /\ CallInv' /\ ReportInv'
      BY <1>10, <2>3
         DEF AddGrpc, Group!Invoke, GroupReturns, Group!Succeed, Group!Refuse,
             Group!Reason
    <3>2. why = "ctx" => NeverListens'
      BY <1>10, <2>3
         DEF AddGrpc, Group!Invoke, GroupReturns, Group!Succeed, Group!Refuse,
             Group!Reason
    <3>3. CountInv'
      <4> HIDE DEF NeverListens
      <4>1. NeverListens => NeverListens'
        BY <1>10, <2>3
           DEF AddGrpc, Group!Invoke, GroupReturns, Group!Succeed, Group!Refuse,
               NeverListens
      <4> QED
        BY <1>10, <2>3, <3>2, <4>1
           DEF AddGrpc, Group!Invoke, GroupReturns, Group!Succeed, Group!Refuse,
               Group!Reason
    <3> QED
      BY <3>1, <3>3
  <2> QED
    BY <1>10, <2>1, <2>2, <2>3 DEF AddGrpc, GroupReturns
<1>11. CASE StartWait
  BY <1>11 DEF StartWait, Group!StartWait
<1>12. CASE EndWait
  <2>1. GroupTypes' /\ CallInv' /\ CountInv'
    BY <1>12 DEF EndWait, Group!EndWait, Group!Reason, RunInv, StageInv
  <2>2. ReportInv'
    BY <1>12, ClosedBalance
       DEF EndWait, Group!EndWait, Group!Reason, Collected, NoRunErr
  <2> QED
    BY <2>1, <2>2
<1>13. CASE GroupPanics
  BY <1>13 DEF GroupPanics, Group!Overdraw
<1>14. CASE CallPanics
  BY <1>14 DEF CallPanics, Group!Refuse, Group!EndWait, Group!Reason
<1>15. CASE ReleaseResources
  BY <1>15 DEF ReleaseResources
<1>16. CASE ResourcesReleased
  BY <1>16 DEF ResourcesReleased, NothingHeld
<1>17. CASE CancelListeners
  BY <1>17 DEF CancelListeners
<1>18. CASE ShutdownTimesOut
  BY <1>18 DEF ShutdownTimesOut
<1>19. CASE ListenersExited
  BY <1>19 DEF ListenersExited
<1>20. CASE Finish
  BY <1>20 DEF Finish
<1>21. CASE GenericServicesRun
  BY <1>21
     DEF GenericServicesRun, Runs!SkipRest, Runs!Launch, Runs!IsNext,
         Runs!Collect
<1>22. ASSUME NEW s \in Services, RunReturns(s)
       PROVE  GroupInv'
  BY <1>22 DEF RunReturns, Runs!Complete, Runs!Fail
<1>23. CASE EndGeneric
  <2>1. GroupTypes' /\ CallInv'
    BY <1>23 DEF EndGeneric
  <2>2. CountInv'
    BY <1>23 DEF EndGeneric
  <2>3. ReportInv'
    BY <1>23 DEF EndGeneric
  <2> QED
    BY <2>1, <2>2, <2>3
<1>24. CASE DoneGeneric
  BY <1>24
     DEF DoneGeneric, GroupReturns, CallDone, Group!Invoke, Group!Succeed,
         Group!Refuse, Group!Reason
<1>25. CASE GrpcMapSteps
  <2>1. CASE GrpcMap!SkipRest
    BY <1>25, <2>1 DEF GrpcMapSteps, GrpcMap!SkipRest, GrpcMap!Services
  <2>2. ASSUME NEW s \in Services, GrpcMap!Launch(s)
        PROVE  GroupInv'
    BY <1>25, <2>2 DEF GrpcMapSteps, GrpcMap!Launch
  <2>3. ASSUME NEW s \in Services, GrpcMap!Collect(s)
        PROVE  GroupInv'
    BY <1>25, <2>3 DEF GrpcMapSteps, GrpcMap!Collect
  <2> QED
    BY <1>25, <2>1, <2>2, <2>3 DEF GrpcMapSteps
<1>26. ASSUME NEW s \in Services, Probe(s)
       PROVE  GroupInv'
  BY <1>26 DEF Probe, GrpcMap!Complete
<1>27. CASE EndProbe
  BY <1>27 DEF EndProbe, GrpcMap!NotStarted
<1>28. ASSUME NEW s \in Services, Register(s)
       PROVE  GroupInv'
  BY <1>28 DEF Register, GrpcMap!Complete, GrpcMap!Fail
<1>29. CASE EndRegister
  BY <1>29 DEF EndRegister
<1>30. CASE GetGrpcListener
  <2>1. GroupTypes' /\ CallInv' /\ CountInv'
    BY <1>30 DEF GetGrpcListener, RunInv, MonitorInv
  <2>2. ReportInv'
    BY <1>30, ClosedBalance DEF GetGrpcListener
  <2> QED
    BY <2>1, <2>2
<1>31. CASE StartServing
  BY <1>31 DEF StartServing
<1>32. CASE EndServing
  BY <1>32 DEF EndServing
<1>33. CASE ServeFails
  BY <1>33 DEF ServeFails
<1>34. CASE DoneGrpc
  BY <1>34
     DEF DoneGrpc, GroupReturns, CallDone, Group!Invoke, Group!Succeed,
         Group!Refuse, Group!Reason
<1>35. CASE GracefulStop
  BY <1>35 DEF GracefulStop, StopOrdered
<1>36. CASE Drained
  BY <1>36 DEF Drained, NoHandlers
<1>37. CASE StartRpc
  BY <1>37 DEF StartRpc
<1>38. CASE EndRpc
  BY <1>38 DEF EndRpc
<1>39. ASSUME NEW s \in Services, Release(s)
       PROVE  GroupInv'
  BY <1>39 DEF Release
<1>40. CASE UNCHANGED vars
  BY <1>40 DEF vars
<1>41. CASE CheckContext
  <2>1. GroupTypes' /\ CallInv' /\ CountInv'
    BY <1>41 DEF CheckContext, ListenCancelled
  <2>2. ReportInv'
    BY <1>41, ClosedBalance DEF CheckContext
  <2> QED
    BY <2>1, <2>2
<1> QED
  BY <1>1, <1>2, <1>3, <1>4, <1>5, <1>6, <1>7, <1>8, <1>9, <1>10, <1>11, <1>12,
     <1>13, <1>14, <1>15, <1>16, <1>17, <1>18, <1>19, <1>20, <1>21, <1>22,
     <1>23, <1>24, <1>25, <1>26, <1>27, <1>28, <1>29, <1>30, <1>31, <1>32,
     <1>33, <1>34, <1>35, <1>36, <1>37, <1>38, <1>39, <1>40, <1>41
     DEF Next, Main, GenericRoutine, GrpcRoutine, Monitor

\* A new manager has started nothing (NewManager, Reset).
LEMMA IInvInit == Init => IInv
<1> SUFFICES ASSUME Init PROVE IInv
  OBVIOUS
<1> USE ManagerAssumption
    DEF Init, Setup!NotStarted, Setup!Services, Services, Group!Init
<1>1. <<>> \in Seq(Services)
  BY EmptySeq
<1>2. timeouter \in {"none", "off"}
  OBVIOUS
<1>3. TypeOK
  <2>1. runErr \in [timeout : BOOLEAN, services : SUBSET Services, grpc : GrpcErrors]
    BY DEF NoRunErr, GrpcErrors
  <2>2. {setupTask, genericTask, grpcTask} \subseteq [Services -> Setup!TaskStates]
    BY DEF Setup!TaskStates
  <2>3. {setupErrs, genericErrs, registerErrs} \subseteq Seq(Services)
    BY <1>1
  <2>4. rpcs \in 0..MaxRpcs /\ total \in 0..2 /\ grpcErr \in GrpcErrors
    BY DEF GrpcErrors
  <2>5. resource \in [Services -> {"none", "held", "released"}]
    OBVIOUS
  <2> HIDE DEF Setup!NotStarted, Services, Setup!Services, GrpcErrors
  <2> QED
    BY <1>2, <2>1, <2>2, <2>3, <2>4, <2>5 DEF TypeOK
<1>4. StageInv /\ OrderInv /\ ReleaseInv
  BY <1>2 DEF StageInv, OrderInv, ReleaseInv, Ending
<1>5. RunsInv /\ MonitorInv /\ ServerInv
  BY DEF RunsInv, MonitorInv, ServerInv
<1>6. GroupTypes
  BY DEF GroupTypes, CallNames
<1>7. CallInv /\ CountInv /\ ReportInv
  BY DEF CallInv, CountInv, ReportInv, CallNames, Ok, Ending
<1> QED
  BY <1>3, <1>4, <1>5, <1>6, <1>7 DEF IInv, RunInv, GroupInv

\* Stages, contexts, routines, the server and runsComplete always agree as IInv
\* says (manager.go as a whole, with one run).
THEOREM Invariance == Spec => []IInv
<1>1. IInv /\ [Next]_vars => IInv'
  BY TypeStep, RunStep, GroupStep DEF IInv
<1> QED
  BY <1>1, IInvInit, PTL DEF Spec

-----------------------------------------------------------------------------
(* What follows.                                                           *)

\* The variables of the manager always have the types of TypeOK.
THEOREM TypeCorrect == Spec => []TypeOK
<1>1. IInv => TypeOK
  BY DEF IInv
<1> QED
  BY <1>1, Invariance, PTL

\* No service runs before all are set up, whatever a shutdown made setupServices
\* skip (lines 557-562 and 301-314).
THEOREM ServicesRunAfterSetup == Spec => []RunsAfterSetup
<1>1. IInv => RunsAfterSetup
  BY ManagerAssumption
     DEF IInv, RunInv, RunsInv, TypeOK, RunsAfterSetup, Services,
         Setup!TaskStates
<1> QED
  BY <1>1, Invariance, PTL

\* The server takes requests only when every service is set up and every gRPC
\* service is registered, although the error of a registration is forgotten
\* (lines 224-298).
THEOREM ServerIsReady == Spec => []ServesWhenReady
<1>1. IInv => ServesWhenReady
  <2> SUFFICES ASSUME IInv, server = "serving"
               PROVE  AllSetUp /\ \A s \in Grpc : Registered(s)
    BY DEF ServesWhenReady
  <2>1. monitor # "none"
    BY DEF IInv, RunInv, ServerInv
  <2>2. AllSetUp /\ registerErrs = <<>> /\ \A s \in Services : grpcTask[s] = "over"
    BY <2>1 DEF IInv, RunInv, MonitorInv
  <2>3. Range(registerErrs) = {}
    BY <2>2, EmptySeq DEF Range
  <2> QED
    BY <2>2, <2>3, ManagerAssumption DEF Registered, Services
<1> QED
  BY <1>1, Invariance, PTL

\* The contexts are cancelled in the order of the shutdown (lines 22-53, 564-578).
THEOREM ContextsCascade == Spec => []CancelCascade
<1>1. IInv => CancelCascade
  BY DEF IInv, TypeOK, RunInv, OrderInv, ReleaseInv, Ending, CancelCascade,
     Range
<1> QED
  BY <1>1, Invariance, PTL

\* While there is time left, runsComplete keeps the resources from being released
\* under a service that runs (lines 316-358).
LEMMA RoutinesOver ==
  ASSUME IInv, resourcesDone, ~shutdownDone
  PROVE  \/ generic = "none" /\ grpc = "none"
         \/ /\ generic = "exited"
            /\ call["addGrpc"] = "closed" \/ (call["addGrpc"] = "ok" /\ grpc = "exited")
<1> USE DEF IInv, RunInv, StageInv, ReleaseInv, GroupInv, CallInv, CountInv, Ending,
       CallNames
<1>1. main \in Ending
  OBVIOUS
<1>2. CASE setupErrs # <<>>
  BY <1>2
<1>3. CASE setupErrs = <<>>
  <2>1. generic # "none" /\ grpc # "none" /\ status = "closed"
    BY <1>1, <1>3
  <2>2. call["addGeneric"] = "ok" /\ call["addGrpc"] \in {"ok", "closed"}
    BY <2>1
  <2> QED
    BY <2>1, <2>2, ClosedBalance DEF Counted
<1> QED
  BY <1>2, <1>3

\* Resources outlive the services that hold them (lines 346-358, 565).
THEOREM RunsBeforeRelease == Spec => []ResourcesOutliveRuns
<1>1. IInv => ResourcesOutliveRuns
  <2> SUFFICES ASSUME IInv, resourcesDone, ~shutdownDone
               PROVE  \A s \in Services : genericTask[s] # "active"
    BY DEF ResourcesOutliveRuns, Range, IInv, TypeOK
  <2>1. generic \in {"none", "exited"}
    BY RoutinesOver
  <2> QED
    BY <2>1 DEF IInv, RunInv, RunsInv, Runs!Finished, Runs!Services, Services
<1> QED
  BY <1>1, Invariance, PTL

\* Resources outlive the RPCs while there is time left (lines 275-298, 336-344),
\* unless the group closed before the gRPC routine was added to it, or Serve failed
\* by itself, so that nobody waits for the monitor of the server.
THEOREM RpcsBeforeRelease == Spec => []ResourcesOutliveRpcs
<1>1. IInv => ResourcesOutliveRpcs
  <2> SUFFICES ASSUME IInv, resourcesDone, ~shutdownDone, rpcs > 0,
                      call["addGrpc"] # "closed"
               PROVE  grpcErr = "serve"
    BY DEF ResourcesOutliveRpcs
  <2>1. grpc \in {"none", "exited"}
    BY RoutinesOver
  <2>2. server \in {"serving", "failed", "draining"}
    BY DEF IInv, TypeOK, RunInv, ServerInv
  <2> QED
    BY <2>1, <2>2 DEF IInv, RunInv, ServerInv
<1> QED
  BY <1>1, Invariance, PTL

\* What Run has collected when it returns without having been timed out.
LEMMA Reported ==
  ASSUME IInv, main = "returned", setupErrs = <<>>, ~runErr.timeout
  PROVE  /\ status = "closed"
         /\ Counted => /\ generic = "exited"
                       /\ runErr.services = Range(genericErrs)
                       /\ call["addGrpc"] = "ok" => /\ grpc = "exited"
                                                    /\ runErr.grpc = grpcErr
<1>1. wait["run"] = "closed" /\ status = "closed"
  BY DEF IInv, GroupInv, CallInv, CountInv, ReportInv, Ending
<1> QED
  BY <1>1, ClosedBalance DEF IInv, GroupInv, ReportInv, Ending

\* An errorless return means that nothing was left behind (lines 538-578): but for
\* services that run on when a deadline kept the group from counting a routine,
\* and a server that serves on when the group closed before the second Add(1).
THEOREM ReturnsClean == Spec => []CleanReturn
<1>1. IInv => CleanReturn
  <2> SUFFICES ASSUME IInv, main = "returned", setupErrs = <<>>, runErr = NoRunErr,
                      ~shutdownErr
               PROVE  /\ "held" \notin Range(resource)
                      /\ timeouter \in {"off", "exited"} /\ signaler = "exited"
                      /\ Counted => {"active", "failing"} \cap Range(genericTask) = {}
                      /\ server \in {"new", "stopped"} \/ call["addGrpc"] = "closed"
    BY DEF CleanReturn, Succeeded
  <2>1. ~runErr.timeout /\ runErr.grpc = "nil"
    BY DEF NoRunErr
  <2>2. "held" \notin Range(resource)
    BY DEF IInv, TypeOK, RunInv, ReleaseInv, Range
  <2>3. timeouter \in {"off", "exited"} /\ signaler = "exited"
    BY DEF IInv, RunInv, ReleaseInv, BothExited
  <2>4. Counted => {"active", "failing"} \cap Range(genericTask) = {}
    <3> SUFFICES ASSUME Counted
                 PROVE  \A s \in Services : genericTask[s] \in {"over", "skipped"}
      BY DEF IInv, TypeOK, Range
    <3>1. generic = "exited"
      BY <2>1, Reported
    <3> QED
      BY <3>1
         DEF IInv, RunInv, RunsInv, Runs!Finished, Runs!Services, Services
  <2>5. server \in {"new", "stopped"} \/ call["addGrpc"] = "closed"
    <3> USE DEF IInv, TypeOK, RunInv, ServerInv
    <3>1. CASE call["addGeneric"] = "ctx" \/ call["addGrpc"] = "ctx"
      BY <3>1 DEF GroupInv, CountInv, NeverListens
    <3>2. CASE call["addGeneric"] # "ctx" /\ call["addGrpc"] = "ok"
      <4>1. call["addGeneric"] = "ok"
        BY <3>2 DEF RunInv, StageInv, GroupInv, CallInv, Ending
      <4>2. grpc = "exited" /\ grpcErr = "nil"
        BY <2>1, <3>2, <4>1, Reported DEF Counted
      <4> QED
        BY <4>2
    <3>3. call["addGrpc"] \in {"ok", "closed", "ctx"}
      BY DEF StageInv, GroupInv, CallInv, Ending
    <3> QED
      BY <3>1, <3>2, <3>3
  <2> QED
    BY <2>2, <2>3, <2>4, <2>5
<1> QED
  BY <1>1, Invariance, PTL

\* Run returns what the routines that it counted return (lines 95-125, 346-358);
\* that of a registration which panicked is not among it (line 268).
THEOREM RunReportsErrors == Spec => []ErrorsReported
<1>1. IInv => ErrorsReported
  <2> SUFFICES ASSUME IInv, main = "returned", setupErrs = <<>>, ~runErr.timeout,
                      Counted
               PROVE  /\ \A s \in Services :
                           genericTask[s] = "failing" \/ s \in Range(genericErrs)
                             => s \in runErr.services
                      /\ call["addGrpc"] = "ok" => runErr.grpc = grpcErr
    BY DEF ErrorsReported
  <2>1. generic = "exited" /\ runErr.services = Range(genericErrs)
    BY Reported
  <2>2. \A s \in Services : genericTask[s] # "failing"
    BY <2>1 DEF IInv, RunInv, RunsInv, Runs!Finished, Runs!Services, Services
  <2> QED
    BY <2>1, <2>2, Reported
<1> QED
  BY <1>1, Invariance, PTL

-----------------------------------------------------------------------------
(* Run cannot wait for nothing.                                            *)

\* A map of mapServices has a service to launch, to skip or to collect the error of,
\* or it is finished.
MapGoes(task) ==
  (\E s \in Services : task[s] \in {"pending", "failing"})
    \/ \A s \in Services : task[s] \in {"over", "skipped"}

\* A call of runsComplete can be made, or can return, succeed or panic.
CallGoes(c) == call[c] \in {"idle", "pending"}

\* A Wait can begin or return.
WaitGoes ==
  wait["run"] = "idle" \/ (wait["run"] = "waiting" /\ (status # "open" \/ shutdownDone))

ListenersGo ==
  \/ timeouter = "await" /\ servicesDone
  \/ timeouter = "timing"
  \/ signaler = "listening" /\ OnContext

MainGoes ==
  \/ main = "setup" /\ MapGoes(setupTask)
  \/ main = "addGeneric" /\ CallGoes("addGeneric")
  \/ main = "addGrpc" /\ CallGoes("addGrpc")
  \/ main = "wait" /\ WaitGoes
  \/ main \in {"release", "finish"}
  \/ releaseWaiter = "waiting" /\ NothingHeld
  \/ main = "waitRelease" /\ (releaseWaiter = "released" \/ shutdownDone)
  \/ main = "waitListeners" /\ BothExited

\* A service of another kind is passed over by the map.
GenericGoes ==
  \/ generic = "run" /\ MapGoes(genericTask)
  \/ generic = "done" /\ CallGoes("doneGeneric")
  \/ \E s \in Services \ Generic : genericTask[s] = "active"

GrpcGoes ==
  \/ /\ grpc \in {"probe", "register"}
     /\ MapGoes(grpcTask) \/ \E s \in Services : grpcTask[s] = "active"
  \/ grpc \in {"listen", "attempt", "start"}
  \/ grpc = "serve" /\ server = "stopped"
  \/ grpc = "done" /\ CallGoes("doneGrpc")

MonitorGoes ==
  \/ monitor = "waiting" /\ servicesDone
  \/ monitor = "stopping" /\ NoHandlers

SetupWorks == \E s \in Services : setupTask[s] = "active"

\* Some goroutine of the manager can take a step.
ManagerGoes ==
  ListenersGo \/ MainGoes \/ GenericGoes \/ GrpcGoes \/ MonitorGoes \/ SetupWorks

\* What service.go asks of the services once the contexts are cancelled: a service
\* that runs, a resource that is held, and an RPC that is in flight.
ServicesOwe ==
  \/ \E s \in Generic : genericTask[s] = "active"
  \/ resourcesDone /\ \E s \in Services : resource[s] = "held"
  \/ rpcs > 0

\* Once the shutdown is ordered Run waits for nobody in vain: until it has returned,
\* or panicked, a goroutine of the manager can go on; only without a limit it may
\* be that all of them wait for the services.
NobodyIsStuck ==
  servicesDone /\ main \notin {"idle", "returned"} /\ ~Crashed =>
    ManagerGoes \/ (timeouter = "off" /\ ServicesOwe)

\* The listeners live from the beginning of Run, and timeoutShutdown alone ends
\* shutdownCtx; the monitor leaves a server that is stopped; the group closes at
\* zero; a service that has not been set up holds nothing.
LiveInv ==
  /\ main = "idle" => timeouter \in {"off", "none"} /\ signaler = "none"
  /\ main # "idle" => timeouter # "none" /\ signaler # "none"
  /\ shutdownDone <=> timeouter = "exited"
  /\ main \in {"waitRelease", "waitListeners"} => releaseWaiter # "none"
  /\ monitor = "exited" => server = "stopped"
  /\ total = 0 /\ (\E c \in CallNames : call[c] = "ok") => status # "open"
  /\ \A s \in Services : setupTask[s] \in {"pending", "active"} => resource[s] = "none"

\* A manager that has not run.
LEMMA LiveInit == Init => LiveInv
  BY DEF Init, LiveInv, Group!Init, CallNames, Services

\* Every step keeps it.
LEMMA LiveStep == IInv /\ LiveInv /\ [Next]_vars => LiveInv'
<1> SUFFICES ASSUME IInv, LiveInv, [Next]_vars PROVE LiveInv'
  OBVIOUS
<1> USE DEF IInv, TypeOK, LiveInv, RunInv, StageInv, Setup!Finished, Setup!Services,
        GroupInv, GroupTypes, CallNames, Services, ReleaseInv, Ending,
        contexts, listeners, setupVars, genericVars, serverVars, grpcVars, groupVars,
        mainVars, otherThanSetup, otherThanGroup, otherThanEnd, otherThanRuns,
        otherThanGrpc, otherThanServer
<1>1. CASE StartShutdown
  BY <1>1 DEF StartShutdown
<1>2. CASE AwaitShutdown
  BY <1>2 DEF AwaitShutdown
<1>3. CASE CancelShutdownCtx
  BY <1>3 DEF CancelShutdownCtx
<1>4. CASE StopSignaler
  BY <1>4 DEF StopSignaler
<1>5. CASE StartRun
  BY <1>5 DEF StartRun
<1>6. CASE SetupServices
  <2>1. CASE Setup!SkipRest
    BY <1>6, <2>1 DEF SetupServices, Setup!SkipRest
  <2>2. ASSUME NEW s \in Services, Setup!Launch(s)
        PROVE  LiveInv'
    BY <1>6, <2>2 DEF SetupServices, Setup!Launch, Setup!IsNext
  <2>3. ASSUME NEW s \in Services, Setup!Collect(s)
        PROVE  LiveInv'
    BY <1>6, <2>3 DEF SetupServices, Setup!Collect
  <2> QED
    BY <1>6, <2>1, <2>2, <2>3 DEF SetupServices
<1>7. ASSUME NEW s \in Services, SetupReturns(s)
      PROVE  LiveInv'
  BY <1>7 DEF SetupReturns, Setup!Complete, Setup!Fail
<1>8. CASE EndSetup
  BY <1>8 DEF EndSetup, SetupOver
<1>9. CASE AddGeneric
  BY <1>9
     DEF AddGeneric, GroupReturns, Group!Invoke, Group!Succeed, Group!Refuse,
         Group!Reason
<1>10. CASE AddGrpc
  BY <1>10
     DEF AddGrpc, GroupReturns, Group!Invoke, Group!Succeed, Group!Refuse,
         Group!Reason
<1>11. CASE StartWait
  BY <1>11 DEF StartWait, Group!StartWait
<1>12. CASE EndWait
  BY <1>12 DEF EndWait, Group!EndWait, Group!Reason
<1>13. CASE GroupPanics
  BY <1>13 DEF GroupPanics, Group!Overdraw
<1>14. CASE CallPanics
  BY <1>14 DEF CallPanics, Group!Refuse, Group!EndWait, Group!Reason
<1>15. CASE ReleaseResources
  BY <1>15 DEF ReleaseResources
<1>16. CASE ResourcesReleased
  BY <1>16 DEF ResourcesReleased, NothingHeld
<1>17. CASE CancelListeners
  BY <1>17 DEF CancelListeners
<1>18. CASE ShutdownTimesOut
  BY <1>18 DEF ShutdownTimesOut
<1>19. CASE ListenersExited
  BY <1>19 DEF ListenersExited
<1>20. CASE Finish
  BY <1>20 DEF Finish
<1>21. CASE GenericServicesRun
  BY <1>21
     DEF GenericServicesRun, Runs!SkipRest, Runs!Launch, Runs!IsNext,
         Runs!Collect
<1>22. ASSUME NEW s \in Services, RunReturns(s)
      PROVE  LiveInv'
  BY <1>22 DEF RunReturns, Runs!Complete, Runs!Fail
<1>23. CASE EndGeneric
  BY <1>23 DEF EndGeneric, RunsOver
<1>24. CASE DoneGeneric
  BY <1>24
     DEF DoneGeneric, CallDone, GroupReturns, Group!Invoke, Group!Succeed,
         Group!Refuse, Group!Reason
<1>25. CASE GrpcMapSteps
  BY <1>25
     DEF GrpcMapSteps, GrpcMap!SkipRest, GrpcMap!Launch, GrpcMap!IsNext,
         GrpcMap!Collect
<1>26. ASSUME NEW s \in Services, Probe(s)
      PROVE  LiveInv'
  BY <1>26 DEF Probe, GrpcMap!Complete
<1>27. CASE EndProbe
  BY <1>27 DEF EndProbe, GrpcMap!NotStarted
<1>28. ASSUME NEW s \in Services, Register(s)
      PROVE  LiveInv'
  BY <1>28 DEF Register, GrpcMap!Complete, GrpcMap!Fail
<1>29. CASE EndRegister
  BY <1>29 DEF EndRegister
<1>30. CASE GetGrpcListener
  BY <1>30 DEF GetGrpcListener, ListenOp
<1>31. CASE StartServing
  BY <1>31 DEF StartServing
<1>32. CASE EndServing
  BY <1>32 DEF EndServing
<1>33. CASE ServeFails
  BY <1>33 DEF ServeFails
<1>34. CASE DoneGrpc
  BY <1>34
     DEF DoneGrpc, CallDone, GroupReturns, Group!Invoke, Group!Succeed,
         Group!Refuse, Group!Reason
<1>35. CASE GracefulStop
  BY <1>35 DEF GracefulStop, StopOrdered
<1>36. CASE Drained
  BY <1>36 DEF Drained, NoHandlers
<1>37. CASE StartRpc
  BY <1>37 DEF StartRpc
<1>38. CASE EndRpc
  BY <1>38 DEF EndRpc
<1>39. ASSUME NEW s \in Services, Release(s)
      PROVE  LiveInv'
  BY <1>39 DEF Release
<1>40. CASE UNCHANGED vars
  BY <1>40 DEF vars
<1>41. CASE CheckContext
  BY <1>41 DEF CheckContext, ListenCancelled
<1> QED
  BY <1>1, <1>2, <1>3, <1>4, <1>5, <1>6, <1>7, <1>8, <1>9, <1>10, <1>11, <1>12,
     <1>13, <1>14, <1>15, <1>16, <1>17, <1>18, <1>19, <1>20, <1>21, <1>22,
     <1>23, <1>24, <1>25, <1>26, <1>27, <1>28, <1>29, <1>30, <1>31, <1>32,
     <1>33, <1>34, <1>35, <1>36, <1>37, <1>38, <1>39, <1>40, <1>41
     DEF Next, Main, GenericRoutine, GrpcRoutine, Monitor

\* A call of runsComplete that a goroutine is at can go on, unless it has panicked.
LEMMA CallsGo ==
  ASSUME IInv, ~Crashed
  PROVE  /\ main = "addGeneric" => CallGoes("addGeneric")
         /\ main = "addGrpc" => CallGoes("addGrpc")
         /\ generic = "done" => CallGoes("doneGeneric")
         /\ grpc = "done" => CallGoes("doneGrpc")
         /\ main = "wait" => wait["run"] \in {"idle", "waiting"}
<1>1. /\ call \in [CallNames -> {"idle", "pending", "ok", "closed", "ctx", "panic"}]
      /\ wait \in [{"run"} -> {"idle", "waiting", "closed", "ctx", "panic"}]
  BY DEF IInv, GroupInv, GroupTypes
<1>2. (\A c \in CallNames : call[c] # "panic") /\ wait["run"] # "panic"
  BY <1>1 DEF Crashed, Range
<1> QED
  BY <1>1, <1>2
     DEF IInv, GroupInv, CallInv, RunInv, StageInv, CallGoes, CallNames

\* A map that has not finished can go on, or waits for a service.
LEMMA MapsGo ==
  ASSUME NEW task \in [Services -> Setup!TaskStates]
  PROVE  MapGoes(task) \/ \E s \in Services : task[s] = "active"
  BY DEF MapGoes, Setup!TaskStates

\* While Run waits for an open group, without a limit, one of the two routines has
\* not called Done.
LEMMA RoutineIsOut ==
  ASSUME IInv, LiveInv, main = "wait", status = "open", ~shutdownDone
  PROVE  generic \in {"run", "done"} \/ grpc \notin {"none", "exited"}
<1> SUFFICES ASSUME generic = "exited", grpc = "exited" PROVE FALSE
  BY DEF IInv, TypeOK, RunInv, StageInv
<1> USE DEF IInv, GroupInv, GroupTypes, CountInv, CallInv, CallNames, Ok
<1>1. \A c \in CallNames : call[c] # "closed" /\ call[c] # "ctx"
  OBVIOUS
<1>2. \A c \in CallNames : call[c] = "ok"
  BY <1>1 DEF RunInv, StageInv
<1>3. total = 0
  BY <1>2
<1> QED
  BY <1>2, <1>3 DEF LiveInv

\* A routine at work can go on, once the shutdown is ordered, or waits for the
\* services.
LEMMA RoutinesGo ==
  ASSUME IInv, LiveInv, ~Crashed, servicesDone
  PROVE  /\ generic \in {"run", "done"} =>
              GenericGoes \/ \E s \in Generic : genericTask[s] = "active"
         /\ grpc \notin {"none", "exited"} => GrpcGoes \/ MonitorGoes \/ rpcs > 0
<1>1. ASSUME generic \in {"run", "done"}
      PROVE  GenericGoes \/ \E s \in Generic : genericTask[s] = "active"
  <2>1. MapGoes(genericTask) \/ \E s \in Services : genericTask[s] = "active"
    BY MapsGo DEF IInv, TypeOK
  <2>2. generic = "run" => GenericGoes \/ \E s \in Generic : genericTask[s] = "active"
    BY <2>1 DEF GenericGoes
  <2> QED
    BY <1>1, <2>2, CallsGo DEF GenericGoes
<1>2. ASSUME grpc \notin {"none", "exited"}
      PROVE  GrpcGoes \/ MonitorGoes \/ rpcs > 0
  <2>1. CASE grpc \in {"probe", "register"}
    <3>1. MapGoes(grpcTask) \/ \E s \in Services : grpcTask[s] = "active"
      BY MapsGo DEF IInv, TypeOK
    <3> QED
      BY <2>1, <3>1 DEF GrpcGoes
  <2>2. CASE grpc \in {"listen", "attempt", "start"}
    BY <2>2 DEF GrpcGoes
  <2>3. CASE grpc = "serve"
    <3>1. monitor \in {"waiting", "stopping", "exited"}
      BY <2>3 DEF IInv, TypeOK, RunInv, MonitorInv
    <3>2. monitor = "exited" => GrpcGoes
      BY <2>3 DEF LiveInv, GrpcGoes
    <3>3. monitor = "stopping" => MonitorGoes \/ rpcs > 0
      BY ManagerAssumption DEF MonitorGoes, NoHandlers, IInv, TypeOK
    <3> QED
      BY <3>1, <3>2, <3>3 DEF MonitorGoes
  <2>4. CASE grpc = "done"
    BY <2>4, CallsGo DEF GrpcGoes
  <2> QED
    BY <1>2, <2>1, <2>2, <2>3, <2>4 DEF IInv, TypeOK
<1> QED
  BY <1>1, <1>2

\* The stage that Run is at can be left, or waits for something that goes on.
LEMMA StagesGo ==
  ASSUME IInv, LiveInv, ~Crashed, servicesDone, main \notin {"idle", "returned"}
  PROVE  ManagerGoes \/ (timeouter = "off" /\ ServicesOwe)
<1> SUFFICES ASSUME ~ManagerGoes PROVE timeouter = "off" /\ ServicesOwe
  OBVIOUS
<1>0. ~ListenersGo /\ ~MainGoes /\ ~GenericGoes /\ ~GrpcGoes /\ ~MonitorGoes /\ ~SetupWorks
  BY DEF ManagerGoes
<1>1. timeouter \in {"off", "exited"} /\ signaler = "exited"
  BY <1>0 DEF IInv, TypeOK, LiveInv, ListenersGo, OnContext
<1>2. main \in {"setup", "wait", "waitRelease"}
  <2>1. main \notin {"addGeneric", "addGrpc"}
    BY <1>0, CallsGo DEF MainGoes
  <2>2. main \notin {"release", "waitListeners", "finish"}
    BY <1>0, <1>1 DEF MainGoes, BothExited
  <2> QED
    BY <2>1, <2>2 DEF IInv, TypeOK
<1>3. main # "setup"
  <2>1. MapGoes(setupTask) \/ SetupWorks
    BY MapsGo DEF IInv, TypeOK, SetupWorks
  <2> QED
    BY <1>0, <2>1 DEF MainGoes
<1>4. CASE main = "wait"
  <2>1. wait["run"] = "waiting" /\ status = "open" /\ ~shutdownDone
    BY <1>0, <1>4, CallsGo DEF MainGoes, WaitGoes
  <2>2. timeouter = "off"
    BY <1>1, <2>1 DEF LiveInv
  <2>3. (\E s \in Generic : genericTask[s] = "active") \/ rpcs > 0
    BY <1>0, <1>4, <2>1, RoutineIsOut, RoutinesGo
  <2> QED
    BY <2>2, <2>3 DEF ServicesOwe
<1>5. CASE main = "waitRelease"
  <2>1. ~shutdownDone /\ releaseWaiter = "waiting"
    BY <1>0, <1>5 DEF MainGoes, LiveInv, IInv, TypeOK
  <2>2. timeouter = "off"
    BY <1>1, <2>1 DEF LiveInv
  <2>3. resourcesDone /\ \E s \in Services : resource[s] = "held"
    BY <1>0, <1>5, <2>1
       DEF MainGoes, NothingHeld, IInv, RunInv, ReleaseInv, Ending
  <2> QED
    BY <2>2, <2>3 DEF ServicesOwe
<1> QED
  BY <1>2, <1>3, <1>4, <1>5

\* From the moment of a shutdown order until Run has returned, or the process has
\* panicked, some goroutine of the manager can go on, whatever the services do, if
\* there is a limit; without one it may be that all of them wait for a service that
\* has not done what service.go asks of it (Run, lines 538-562, and all that it
\* starts: a wait group, two listeners, three maps and a server wait for each other).
THEOREM NoDeadlock == Spec => []NobodyIsStuck
<1>1. IInv /\ LiveInv => NobodyIsStuck
  BY StagesGo DEF NobodyIsStuck
<1> QED
  BY <1>1, LiveInit, LiveStep, Invariance, PTL DEF Spec

-----------------------------------------------------------------------------
(* Every step brings the end of the run nearer.                            *)

\* How many places of their way are ahead of the goroutines...
MainLeft == CASE main = "idle" -> 9 [] main = "setup" -> 8 [] main = "addGeneric" -> 7
              [] main = "addGrpc" -> 6 [] main = "wait" -> 5 [] main = "release" -> 4
              [] main = "waitRelease" -> 3 [] main = "waitListeners" -> 2
              [] main = "finish" -> 1 [] OTHER -> 0
TimeouterLeft == CASE timeouter = "none" -> 3 [] timeouter = "await" -> 2
                   [] timeouter = "timing" -> 1 [] OTHER -> 0
SignalerLeft == CASE signaler = "none" -> 2 [] signaler = "listening" -> 1 [] OTHER -> 0
WaiterLeft == CASE releaseWaiter = "none" -> 2 [] releaseWaiter = "waiting" -> 1
                [] OTHER -> 0
GenericLeft == CASE generic = "none" -> 3 [] generic = "run" -> 2
                 [] generic = "done" -> 1 [] OTHER -> 0
GrpcLeft == CASE grpc = "none" -> 8 [] grpc = "probe" -> 7 [] grpc = "register" -> 6
              [] grpc = "listen" -> 5 [] grpc = "attempt" -> 4 [] grpc = "start" -> 3
              [] grpc = "serve" -> 2 [] grpc = "done" -> 1 [] OTHER -> 0
MonitorLeft == CASE monitor = "none" -> 3 [] monitor = "waiting" -> 2
                 [] monitor = "stopping" -> 1 [] OTHER -> 0

\* ... of the calls of runsComplete, of the shutdown order and of the panic...
CallLeft(c) == CASE call[c] = "idle" -> 2 [] call[c] = "pending" -> 1 [] OTHER -> 0
WaitLeft == CASE wait["run"] = "idle" -> 2 [] wait["run"] = "waiting" -> 1 [] OTHER -> 0
OrderLeft == IF servicesDone THEN 0 ELSE 1
PanicLeft == IF status = "panicked" THEN 0 ELSE 1

RoutinesLeft ==
  MainLeft + TimeouterLeft + SignalerLeft + WaiterLeft + GenericLeft + GrpcLeft
    + MonitorLeft + CallLeft("addGeneric") + CallLeft("addGrpc")
    + CallLeft("doneGeneric") + CallLeft("doneGrpc") + WaitLeft + OrderLeft + PanicLeft

\* ... and of a service: in the maps, of which those of the gRPC routine come one
\* after the other, and until its resource is released.
TaskLeft(task, s) == CASE task[s] = "pending" -> 3 [] task[s] = "active" -> 2
                       [] task[s] = "failing" -> 1 [] OTHER -> 0
ProbeLeft(s) == IF grpc \in {"none", "probe"} THEN TaskLeft(grpcTask, s) ELSE 0
RegisterLeft(s) == CASE grpc \in {"none", "probe"} -> 3
                     [] grpc = "register" -> TaskLeft(grpcTask, s) [] OTHER -> 0
ResourceLeft(s) == IF resource[s] = "released" THEN 0 ELSE 1

Parts == {"setup", "run", "probe", "register", "resource"}
ServiceLeft(s, part) == CASE part = "setup" -> TaskLeft(setupTask, s)
                          [] part = "run" -> TaskLeft(genericTask, s)
                          [] part = "probe" -> ProbeLeft(s)
                          [] part = "register" -> RegisterLeft(s)
                          [] OTHER -> ResourceLeft(s)

TasksAhead ==
  {p \in (Services \X Parts) \X (1..3) : p[2] <= ServiceLeft(p[1][1], p[1][2])}

StepsLeft == RoutinesLeft + Cardinality(TasksAhead)

\* A step uses up a part of what is left, or it is an RPC that comes or goes.
Advances == StepsLeft \in Nat /\ StepsLeft' < StepsLeft
OnlyRpcs == StepsLeft' = StepsLeft /\ rpcs' # rpcs

\* A step of a service, or of a map for it.
TaskStep ==
  \/ SetupServices \/ GenericServicesRun \/ GrpcMapSteps
  \/ \E s \in Services :
       SetupReturns(s) \/ RunReturns(s) \/ Probe(s) \/ Register(s) \/ Release(s)

\* A step of a routine.
RoutineStep ==
  \/ StartShutdown \/ AwaitShutdown \/ CancelShutdownCtx \/ StopSignaler
  \/ StartRun \/ EndSetup \/ AddGeneric \/ AddGrpc
  \/ StartWait \/ EndWait \/ GroupPanics \/ CallPanics
  \/ ReleaseResources \/ ResourcesReleased \/ CancelListeners \/ ShutdownTimesOut
  \/ ListenersExited \/ Finish \/ EndGeneric \/ DoneGeneric
  \/ EndProbe \/ EndRegister \/ CheckContext \/ GetGrpcListener \/ StartServing
  \/ EndServing \/ ServeFails \/ DoneGrpc \/ GracefulStop
  \/ Drained

\* Nothing grows of what is left to the services...
Keeps ==
  \A t \in Services, part \in Parts : ServiceLeft(t, part)' <= ServiceLeft(t, part)

\* ... and something of it shrinks.
Shrinks ==
  \E t \in Services, part \in Parts : ServiceLeft(t, part)' < ServiceLeft(t, part)

\* What is left is a number, and of every service at most 3.
LEMMA LeftTypes ==
  /\ RoutinesLeft \in Nat
  /\ \A s, part : ServiceLeft(s, part) \in 0..3
  /\ IsFiniteSet(TasksAhead)
<1>1. /\ MainLeft \in Nat /\ TimeouterLeft \in Nat /\ SignalerLeft \in Nat
      /\ WaiterLeft \in Nat /\ GenericLeft \in Nat /\ GrpcLeft \in Nat
      /\ MonitorLeft \in Nat /\ WaitLeft \in Nat /\ OrderLeft \in Nat
      /\ PanicLeft \in Nat /\ \A c : CallLeft(c) \in Nat
  BY DEF MainLeft, TimeouterLeft, SignalerLeft, WaiterLeft, GenericLeft,
     GrpcLeft, MonitorLeft, WaitLeft, OrderLeft, PanicLeft, CallLeft
<1>2. RoutinesLeft \in Nat
  BY <1>1 DEF RoutinesLeft
<1>3. \A s, part : ServiceLeft(s, part) \in 0..3
  BY DEF ServiceLeft, TaskLeft, ProbeLeft, RegisterLeft, ResourceLeft
<1>4. IsFiniteSet(Parts)
  <2>1. IsFiniteSet({}) /\ IsFiniteSet({} \cup {"setup"})
    BY FS_EmptySet, FS_AddElement
  <2>2. IsFiniteSet(({} \cup {"setup"}) \cup {"run"})
    BY <2>1, FS_AddElement
  <2>3. IsFiniteSet((({} \cup {"setup"}) \cup {"run"}) \cup {"probe"})
    BY <2>2, FS_AddElement
  <2>4. IsFiniteSet(((({} \cup {"setup"}) \cup {"run"}) \cup {"probe"}) \cup {"register"})
    BY <2>3, FS_AddElement
  <2>5. IsFiniteSet((((({} \cup {"setup"}) \cup {"run"}) \cup {"probe"})
                       \cup {"register"}) \cup {"resource"})
    BY <2>4, FS_AddElement
  <2>6. Parts = (((({} \cup {"setup"}) \cup {"run"}) \cup {"probe"})
                   \cup {"register"}) \cup {"resource"}
    BY DEF Parts
  <2> QED
    BY <2>5, <2>6
<1>5. 1 \in Int /\ 3 \in Int /\ NumServices \in Int
  BY ManagerAssumption
<1>6. IsFiniteSet(Services) /\ IsFiniteSet(1..3)
  BY <1>5, FS_Interval DEF Services
<1>7. IsFiniteSet(Services \X Parts)
  BY <1>4, <1>6, FS_Product
<1>8. IsFiniteSet((Services \X Parts) \X (1..3))
  BY <1>6, <1>7, FS_Product
<1>9. TasksAhead \in SUBSET ((Services \X Parts) \X (1..3))
  BY DEF TasksAhead
<1> QED
  BY <1>2, <1>3, <1>8, <1>9, FS_Subset

\* It is so after a step too.
LEMMA LeftTypesNext ==
  RoutinesLeft' \in Nat /\ \A s, part : ServiceLeft(s, part)' \in 0..3
<1>1. /\ MainLeft' \in Nat /\ TimeouterLeft' \in Nat /\ SignalerLeft' \in Nat
      /\ WaiterLeft' \in Nat /\ GenericLeft' \in Nat /\ GrpcLeft' \in Nat
      /\ MonitorLeft' \in Nat /\ WaitLeft' \in Nat /\ OrderLeft' \in Nat
      /\ PanicLeft' \in Nat
      /\ CallLeft("addGeneric")' \in Nat /\ CallLeft("addGrpc")' \in Nat
      /\ CallLeft("doneGeneric")' \in Nat /\ CallLeft("doneGrpc")' \in Nat
  BY DEF MainLeft, TimeouterLeft, SignalerLeft, WaiterLeft, GenericLeft,
     GrpcLeft, MonitorLeft, WaitLeft, OrderLeft, PanicLeft, CallLeft
<1>2. RoutinesLeft' \in Nat
  BY <1>1 DEF RoutinesLeft
<1>3. \A s, part : ServiceLeft(s, part)' \in 0..3
  BY DEF ServiceLeft, TaskLeft, ProbeLeft, RegisterLeft, ResourceLeft
<1> QED
  BY <1>2, <1>3

\* If nothing of what is left grows, and something shrinks, less is left.
LEMMA LessLeft ==
  ASSUME RoutinesLeft' <= RoutinesLeft,
         Keeps, RoutinesLeft' < RoutinesLeft \/ Shrinks
  PROVE  Advances
<1>1. /\ RoutinesLeft \in Nat /\ RoutinesLeft' \in Nat
      /\ \A s, part : ServiceLeft(s, part) \in 0..3
      /\ \A s, part : ServiceLeft(s, part)' \in 0..3
      /\ IsFiniteSet(TasksAhead)
  BY LeftTypes, LeftTypesNext
<1>2. TasksAhead' \subseteq TasksAhead
  <2> SUFFICES ASSUME NEW s \in Services, NEW part \in Parts, NEW k \in 1..3,
                      k <= ServiceLeft(s, part)'
               PROVE  k <= ServiceLeft(s, part)
    BY DEF TasksAhead
  <2> QED
    BY <1>1 DEF Keeps
<1>3. ASSUME NEW s \in Services, NEW part \in Parts,
             ServiceLeft(s, part)' < ServiceLeft(s, part)
      PROVE  TasksAhead' # TasksAhead
  <2>1. ServiceLeft(s, part) \in 1..3
    BY <1>1, <1>3
  <2>2. PICK k \in 1..3 : k = ServiceLeft(s, part)
    BY <2>1
  <2>3. <<<<s, part>>, k>> \in TasksAhead
    BY <2>2 DEF TasksAhead
  <2>4. ~(k <= ServiceLeft(s, part)')
    BY <1>1, <1>3, <2>2
  <2>5. <<<<s, part>>, k>> \notin TasksAhead'
    BY <2>4 DEF TasksAhead
  <2> QED
    BY <2>3, <2>5
<1>4. /\ IsFiniteSet(TasksAhead') /\ Cardinality(TasksAhead') <= Cardinality(TasksAhead)
      /\ (Cardinality(TasksAhead') = Cardinality(TasksAhead) => TasksAhead' = TasksAhead)
  BY <1>1, <1>2, FS_Subset
<1>5. Cardinality(TasksAhead) \in Nat /\ Cardinality(TasksAhead') \in Nat
  BY <1>1, <1>4, FS_CardinalityType
<1>6. RoutinesLeft' < RoutinesLeft \/ TasksAhead' # TasksAhead
  BY <1>3 DEF Shrinks
<1> QED
  BY <1>1, <1>4, <1>5, <1>6 DEF Advances, StepsLeft

\* A routine goes on with each of its steps, and none turns back: every place is
\* left for one that is nearer to its end.
LEMMA RoutinesGoOn ==
  ASSUME IInv, LiveInv
  PROVE  (RoutineStep => RoutinesLeft' < RoutinesLeft)
           /\ (TaskStep => RoutinesLeft' <= RoutinesLeft)
<1> USE DEF IInv, TypeOK, GroupInv, GroupTypes, CallNames, Services,
        MainLeft, TimeouterLeft, SignalerLeft, WaiterLeft, GenericLeft, GrpcLeft,
        MonitorLeft, CallLeft, WaitLeft, OrderLeft, PanicLeft, RoutinesLeft,
        contexts, listeners, setupVars, genericVars, serverVars, grpcVars, groupVars,
        mainVars, otherThanSetup, otherThanGroup, otherThanEnd, otherThanRuns,
        otherThanGrpc, otherThanServer
<1>1. ASSUME StartShutdown
      PROVE  RoutinesLeft' < RoutinesLeft
  BY <1>1 DEF StartShutdown
<1>2. ASSUME AwaitShutdown
      PROVE  RoutinesLeft' < RoutinesLeft
  BY <1>2 DEF AwaitShutdown
<1>3. ASSUME CancelShutdownCtx
      PROVE  RoutinesLeft' < RoutinesLeft
  BY <1>3 DEF CancelShutdownCtx
<1>4. ASSUME StopSignaler
      PROVE  RoutinesLeft' < RoutinesLeft
  BY <1>4 DEF StopSignaler
<1>5. ASSUME StartRun
      PROVE  RoutinesLeft' < RoutinesLeft
  BY <1>5 DEF StartRun, LiveInv
<1>6. ASSUME SetupServices
      PROVE  RoutinesLeft' <= RoutinesLeft
  BY <1>6
     DEF SetupServices, Setup!SkipRest, Setup!Launch, Setup!IsNext,
         Setup!Collect
<1>7. ASSUME NEW s \in Services, SetupReturns(s)
      PROVE  RoutinesLeft' <= RoutinesLeft
  BY <1>7 DEF SetupReturns, Setup!Complete, Setup!Fail, LiveInv
<1>8. ASSUME EndSetup
      PROVE  RoutinesLeft' < RoutinesLeft
  BY <1>8 DEF EndSetup, SetupOver
<1>9. ASSUME AddGeneric
      PROVE  RoutinesLeft' < RoutinesLeft
  <2>1. CASE Group!Invoke("addGeneric", 1)
    BY <1>9, <2>1
       DEF AddGeneric, RunInv, StageInv, Group!Invoke, GroupReturns,
           Group!Succeed, Group!Refuse
  <2>2. CASE Group!Succeed("addGeneric")
    BY <1>9, <2>2
       DEF AddGeneric, RunInv, StageInv, Group!Invoke, Group!Succeed
  <2>3. ASSUME NEW why \in {"closed", "ctx"}, Group!Refuse("addGeneric", why)
        PROVE  RoutinesLeft' < RoutinesLeft
    BY <1>9, <2>3 DEF AddGeneric, RunInv, StageInv, Group!Invoke, Group!Refuse
  <2> QED
    BY <1>9, <2>1, <2>2, <2>3 DEF AddGeneric, RunInv, StageInv, GroupReturns
<1>10. ASSUME AddGrpc
      PROVE  RoutinesLeft' < RoutinesLeft
  <2>1. CASE Group!Invoke("addGrpc", 1)
    BY <1>10, <2>1
       DEF AddGrpc, RunInv, StageInv, Group!Invoke, GroupReturns, Group!Succeed,
           Group!Refuse
  <2>2. CASE Group!Succeed("addGrpc")
    BY <1>10, <2>2 DEF AddGrpc, RunInv, StageInv, Group!Invoke, Group!Succeed
  <2>3. ASSUME NEW why \in {"closed", "ctx"}, Group!Refuse("addGrpc", why)
        PROVE  RoutinesLeft' < RoutinesLeft
    BY <1>10, <2>3 DEF AddGrpc, RunInv, StageInv, Group!Invoke, Group!Refuse
  <2> QED
    BY <1>10, <2>1, <2>2, <2>3 DEF AddGrpc, RunInv, StageInv, GroupReturns
<1>11. ASSUME StartWait
      PROVE  RoutinesLeft' < RoutinesLeft
  BY <1>11 DEF StartWait, Group!StartWait
<1>12. ASSUME EndWait
      PROVE  RoutinesLeft' < RoutinesLeft
  BY <1>12 DEF EndWait, Group!EndWait, Group!Reason
<1>13. ASSUME GroupPanics
      PROVE  RoutinesLeft' < RoutinesLeft
  BY <1>13 DEF GroupPanics, Group!Overdraw
<1>14. ASSUME CallPanics
      PROVE  RoutinesLeft' < RoutinesLeft
  BY <1>14 DEF CallPanics, Group!Refuse, Group!EndWait, Group!Reason
<1>15. ASSUME ReleaseResources
      PROVE  RoutinesLeft' < RoutinesLeft
  BY <1>15 DEF ReleaseResources, RunInv, ReleaseInv, Ending
<1>16. ASSUME ResourcesReleased
      PROVE  RoutinesLeft' < RoutinesLeft
  BY <1>16 DEF ResourcesReleased, NothingHeld
<1>17. ASSUME CancelListeners
      PROVE  RoutinesLeft' < RoutinesLeft
  BY <1>17 DEF CancelListeners
<1>18. ASSUME ShutdownTimesOut
      PROVE  RoutinesLeft' < RoutinesLeft
  BY <1>18 DEF ShutdownTimesOut
<1>19. ASSUME ListenersExited
      PROVE  RoutinesLeft' < RoutinesLeft
  BY <1>19 DEF ListenersExited
<1>20. ASSUME Finish
      PROVE  RoutinesLeft' < RoutinesLeft
  BY <1>20 DEF Finish
<1>21. ASSUME GenericServicesRun
      PROVE  RoutinesLeft' <= RoutinesLeft
  BY <1>21
     DEF GenericServicesRun, Runs!SkipRest, Runs!Launch, Runs!IsNext,
         Runs!Collect
<1>22. ASSUME NEW s \in Services, RunReturns(s)
      PROVE  RoutinesLeft' <= RoutinesLeft
  BY <1>22 DEF RunReturns, Runs!Complete, Runs!Fail
<1>23. ASSUME EndGeneric
      PROVE  RoutinesLeft' < RoutinesLeft
  BY <1>23 DEF EndGeneric, RunsOver
<1>24. ASSUME DoneGeneric
      PROVE  RoutinesLeft' < RoutinesLeft
  <2>1. CASE Group!Invoke("doneGeneric", -1)
    BY <1>24, <2>1
       DEF DoneGeneric, CallDone, Group!Invoke, GroupReturns, Group!Succeed,
           Group!Refuse
  <2>2. CASE Group!Succeed("doneGeneric")
    BY <1>24, <2>2 DEF DoneGeneric, CallDone, Group!Invoke, Group!Succeed
  <2>3. ASSUME NEW why \in {"closed", "ctx"}, Group!Refuse("doneGeneric", why)
        PROVE  RoutinesLeft' < RoutinesLeft
    BY <1>24, <2>3 DEF DoneGeneric, CallDone, Group!Invoke, Group!Refuse
  <2> QED
    BY <1>24, <2>1, <2>2, <2>3 DEF DoneGeneric, CallDone, GroupReturns
<1>25. ASSUME GrpcMapSteps
      PROVE  RoutinesLeft' <= RoutinesLeft
  BY <1>25
     DEF GrpcMapSteps, GrpcMap!SkipRest, GrpcMap!Launch, GrpcMap!IsNext,
         GrpcMap!Collect
<1>26. ASSUME NEW s \in Services, Probe(s)
      PROVE  RoutinesLeft' <= RoutinesLeft
  BY <1>26 DEF Probe, GrpcMap!Complete
<1>27. ASSUME EndProbe
      PROVE  RoutinesLeft' < RoutinesLeft
  BY <1>27 DEF EndProbe, GrpcMap!NotStarted
<1>28. ASSUME NEW s \in Services, Register(s)
      PROVE  RoutinesLeft' <= RoutinesLeft
  BY <1>28 DEF Register, GrpcMap!Complete, GrpcMap!Fail
<1>29. ASSUME EndRegister
      PROVE  RoutinesLeft' < RoutinesLeft
  BY <1>29 DEF EndRegister
<1>30. ASSUME GetGrpcListener
      PROVE  RoutinesLeft' < RoutinesLeft
  BY <1>30 DEF GetGrpcListener, ListenOp, RunInv, MonitorInv
<1>31. ASSUME StartServing
      PROVE  RoutinesLeft' < RoutinesLeft
  BY <1>31 DEF StartServing
<1>32. ASSUME EndServing
      PROVE  RoutinesLeft' < RoutinesLeft
  BY <1>32 DEF EndServing
<1>33. ASSUME ServeFails
      PROVE  RoutinesLeft' < RoutinesLeft
  BY <1>33 DEF ServeFails
<1>34. ASSUME DoneGrpc
      PROVE  RoutinesLeft' < RoutinesLeft
  <2>1. CASE Group!Invoke("doneGrpc", -1)
    BY <1>34, <2>1
       DEF DoneGrpc, CallDone, Group!Invoke, GroupReturns, Group!Succeed,
           Group!Refuse
  <2>2. CASE Group!Succeed("doneGrpc")
    BY <1>34, <2>2 DEF DoneGrpc, CallDone, Group!Invoke, Group!Succeed
  <2>3. ASSUME NEW why \in {"closed", "ctx"}, Group!Refuse("doneGrpc", why)
        PROVE  RoutinesLeft' < RoutinesLeft
    BY <1>34, <2>3 DEF DoneGrpc, CallDone, Group!Invoke, Group!Refuse
  <2> QED
    BY <1>34, <2>1, <2>2, <2>3 DEF DoneGrpc, CallDone, GroupReturns
<1>35. ASSUME GracefulStop
      PROVE  RoutinesLeft' < RoutinesLeft
  BY <1>35 DEF GracefulStop, StopOrdered
<1>36. ASSUME Drained
      PROVE  RoutinesLeft' < RoutinesLeft
  BY <1>36 DEF Drained, NoHandlers
<1>37. ASSUME NEW s \in Services, Release(s)
      PROVE  RoutinesLeft' <= RoutinesLeft
  BY <1>37 DEF Release
<1>38. ASSUME CheckContext
      PROVE  RoutinesLeft' < RoutinesLeft
  BY <1>38 DEF CheckContext, ListenCancelled
<1> QED
  BY <1>1, <1>2, <1>3, <1>4, <1>5, <1>6, <1>7, <1>8, <1>9, <1>10, <1>11, <1>12,
     <1>13, <1>14, <1>15, <1>16, <1>17, <1>18, <1>19, <1>20, <1>21, <1>22,
     <1>23, <1>24, <1>25, <1>26, <1>27, <1>28, <1>29, <1>30, <1>31, <1>32,
     <1>33, <1>34, <1>35, <1>36, <1>37, <1>38
     DEF RoutineStep, TaskStep

\* No service is launched, or released, twice: each of its steps brings it on.
LEMMA ServicesGoOn ==
  ASSUME IInv, LiveInv, TaskStep
  PROVE  Keeps /\ Shrinks
<1> USE DEF IInv, TypeOK, Services, Parts, Setup!Services, Runs!Services,
        GrpcMap!Services, Setup!TaskStates,
        ServiceLeft, TaskLeft, ProbeLeft, RegisterLeft, ResourceLeft,
        contexts, listeners, setupVars, genericVars, serverVars, grpcVars, groupVars,
        mainVars, otherThanSetup, otherThanGroup, otherThanEnd, otherThanRuns,
        otherThanGrpc, otherThanServer
<1>1. ASSUME SetupServices
      PROVE  Keeps /\ Shrinks
  <2>1. CASE Setup!SkipRest
    <3>1. \A t \in Services : TaskLeft(setupTask, t)' <= TaskLeft(setupTask, t)
      BY <1>1, <2>1 DEF Setup!SkipRest, Setup!IsNext
    <3>2. PICK e \in Services : TaskLeft(setupTask, e)' < TaskLeft(setupTask, e)
      <4>1. PICK e \in Services : setupTask[e] = "pending"
        BY <1>1, <2>1 DEF Setup!SkipRest, Setup!IsNext
      <4> QED
        BY <1>1, <2>1, <4>1 DEF Setup!SkipRest, Setup!IsNext
    <3>3. /\ UNCHANGED grpc
          /\ \A t \in Services : TaskLeft(genericTask, t)' <= TaskLeft(genericTask, t)
          /\ \A t \in Services : TaskLeft(grpcTask, t)' <= TaskLeft(grpcTask, t)
      BY <1>1 DEF SetupServices
    <3>4. \A t \in Services : resource[t] = "released" => resource'[t] = "released"
      BY <1>1, <2>1 DEF SetupServices, Setup!SkipRest, Setup!IsNext
    <3> HIDE DEF TaskLeft
    <3>5. Keeps
      BY <3>1, <3>3, <3>4 DEF Keeps
    <3>6. ServiceLeft(e, "setup")' < ServiceLeft(e, "setup")
      BY <3>2
    <3> QED
      BY <3>5, <3>6 DEF Shrinks
  <2>2. ASSUME NEW s \in Services, Setup!Launch(s)
        PROVE  Keeps /\ Shrinks
    <3>1. \A t \in Services : TaskLeft(setupTask, t)' <= TaskLeft(setupTask, t)
      BY <1>1, <2>2 DEF Setup!Launch, Setup!IsNext
    <3>2. TaskLeft(setupTask, s)' < TaskLeft(setupTask, s)
      BY <1>1, <2>2 DEF Setup!Launch, Setup!IsNext
    <3>3. /\ UNCHANGED grpc
          /\ \A t \in Services : TaskLeft(genericTask, t)' <= TaskLeft(genericTask, t)
          /\ \A t \in Services : TaskLeft(grpcTask, t)' <= TaskLeft(grpcTask, t)
      BY <1>1 DEF SetupServices
    <3>4. \A t \in Services : resource[t] = "released" => resource'[t] = "released"
      BY <1>1, <2>2 DEF SetupServices, Setup!Launch, Setup!IsNext
    <3> HIDE DEF TaskLeft
    <3>5. Keeps
      BY <3>1, <3>3, <3>4 DEF Keeps
    <3>6. ServiceLeft(s, "setup")' < ServiceLeft(s, "setup")
      BY <3>2
    <3> QED
      BY <3>5, <3>6 DEF Shrinks
  <2>3. ASSUME NEW s \in Services, Setup!Collect(s)
        PROVE  Keeps /\ Shrinks
    <3>1. \A t \in Services : TaskLeft(setupTask, t)' <= TaskLeft(setupTask, t)
      BY <1>1, <2>3 DEF Setup!Collect
    <3>2. TaskLeft(setupTask, s)' < TaskLeft(setupTask, s)
      BY <1>1, <2>3 DEF Setup!Collect
    <3>3. /\ UNCHANGED grpc
          /\ \A t \in Services : TaskLeft(genericTask, t)' <= TaskLeft(genericTask, t)
          /\ \A t \in Services : TaskLeft(grpcTask, t)' <= TaskLeft(grpcTask, t)
      BY <1>1 DEF SetupServices
    <3>4. \A t \in Services : resource[t] = "released" => resource'[t] = "released"
      BY <1>1, <2>3 DEF SetupServices, Setup!Collect
    <3> HIDE DEF TaskLeft
    <3>5. Keeps
      BY <3>1, <3>3, <3>4 DEF Keeps
    <3>6. ServiceLeft(s, "setup")' < ServiceLeft(s, "setup")
      BY <3>2
    <3> QED
      BY <3>5, <3>6 DEF Shrinks
  <2> QED
    BY <1>1, <2>1, <2>2, <2>3 DEF SetupServices
<1>2. ASSUME NEW s \in Services, SetupReturns(s)
      PROVE  Keeps /\ Shrinks
  <2>1. CASE Setup!Complete(s)
    <3>1. \A t \in Services : TaskLeft(setupTask, t)' <= TaskLeft(setupTask, t)
      BY <1>2, <2>1 DEF Setup!Complete
    <3>2. TaskLeft(setupTask, s)' < TaskLeft(setupTask, s)
      BY <1>2, <2>1 DEF Setup!Complete
    <3>3. /\ UNCHANGED grpc
          /\ \A t \in Services : TaskLeft(genericTask, t)' <= TaskLeft(genericTask, t)
          /\ \A t \in Services : TaskLeft(grpcTask, t)' <= TaskLeft(grpcTask, t)
      BY <1>2 DEF SetupReturns
    <3>4. \A t \in Services : resource[t] = "released" => resource'[t] = "released"
      BY <1>2, <2>1 DEF SetupReturns, Setup!Complete, LiveInv
    <3> HIDE DEF TaskLeft
    <3>5. Keeps
      BY <3>1, <3>3, <3>4 DEF Keeps
    <3>6. ServiceLeft(s, "setup")' < ServiceLeft(s, "setup")
      BY <3>2
    <3> QED
      BY <3>5, <3>6 DEF Shrinks
  <2>2. CASE Setup!Fail(s)
    <3>1. \A t \in Services : TaskLeft(setupTask, t)' <= TaskLeft(setupTask, t)
      BY <1>2, <2>2 DEF Setup!Fail
    <3>2. TaskLeft(setupTask, s)' < TaskLeft(setupTask, s)
      BY <1>2, <2>2 DEF Setup!Fail
    <3>3. /\ UNCHANGED grpc
          /\ \A t \in Services : TaskLeft(genericTask, t)' <= TaskLeft(genericTask, t)
          /\ \A t \in Services : TaskLeft(grpcTask, t)' <= TaskLeft(grpcTask, t)
      BY <1>2 DEF SetupReturns
    <3>4. \A t \in Services : resource[t] = "released" => resource'[t] = "released"
      BY <1>2, <2>2 DEF SetupReturns, Setup!Fail, LiveInv
    <3> HIDE DEF TaskLeft
    <3>5. Keeps
      BY <3>1, <3>3, <3>4 DEF Keeps
    <3>6. ServiceLeft(s, "setup")' < ServiceLeft(s, "setup")
      BY <3>2
    <3> QED
      BY <3>5, <3>6 DEF Shrinks
  <2> QED
    BY <1>2, <2>1, <2>2 DEF SetupReturns
<1>3. ASSUME GenericServicesRun
      PROVE  Keeps /\ Shrinks
  <2>1. CASE Runs!SkipRest
    <3>1. \A t \in Services : TaskLeft(genericTask, t)' <= TaskLeft(genericTask, t)
      BY <1>3, <2>1 DEF Runs!SkipRest, Runs!IsNext
    <3>2. PICK e \in Services : TaskLeft(genericTask, e)' < TaskLeft(genericTask, e)
      <4>1. PICK e \in Services : genericTask[e] = "pending"
        BY <1>3, <2>1 DEF Runs!SkipRest, Runs!IsNext
      <4> QED
        BY <1>3, <2>1, <4>1 DEF Runs!SkipRest, Runs!IsNext
    <3>3. /\ UNCHANGED <<grpc, resource>>
          /\ \A t \in Services : TaskLeft(setupTask, t)' <= TaskLeft(setupTask, t)
          /\ \A t \in Services : TaskLeft(grpcTask, t)' <= TaskLeft(grpcTask, t)
      BY <1>3 DEF GenericServicesRun
    <3> HIDE DEF TaskLeft
    <3>5. Keeps
      BY <3>1, <3>3 DEF Keeps
    <3>6. ServiceLeft(e, "run")' < ServiceLeft(e, "run")
      BY <3>2
    <3> QED
      BY <3>5, <3>6 DEF Shrinks
  <2>2. ASSUME NEW s \in Services, Runs!Launch(s)
        PROVE  Keeps /\ Shrinks
    <3>1. \A t \in Services : TaskLeft(genericTask, t)' <= TaskLeft(genericTask, t)
      BY <1>3, <2>2 DEF Runs!Launch, Runs!IsNext
    <3>2. TaskLeft(genericTask, s)' < TaskLeft(genericTask, s)
      BY <1>3, <2>2 DEF Runs!Launch, Runs!IsNext
    <3>3. /\ UNCHANGED <<grpc, resource>>
          /\ \A t \in Services : TaskLeft(setupTask, t)' <= TaskLeft(setupTask, t)
          /\ \A t \in Services : TaskLeft(grpcTask, t)' <= TaskLeft(grpcTask, t)
      BY <1>3 DEF GenericServicesRun
    <3> HIDE DEF TaskLeft
    <3>5. Keeps
      BY <3>1, <3>3 DEF Keeps
    <3>6. ServiceLeft(s, "run")' < ServiceLeft(s, "run")
      BY <3>2
    <3> QED
      BY <3>5, <3>6 DEF Shrinks
  <2>3. ASSUME NEW s \in Services, Runs!Collect(s)
        PROVE  Keeps /\ Shrinks
    <3>1. \A t \in Services : TaskLeft(genericTask, t)' <= TaskLeft(genericTask, t)
      BY <1>3, <2>3 DEF Runs!Collect
    <3>2. TaskLeft(genericTask, s)' < TaskLeft(genericTask, s)
      BY <1>3, <2>3 DEF Runs!Collect
    <3>3. /\ UNCHANGED <<grpc, resource>>
          /\ \A t \in Services : TaskLeft(setupTask, t)' <= TaskLeft(setupTask, t)
          /\ \A t \in Services : TaskLeft(grpcTask, t)' <= TaskLeft(grpcTask, t)
      BY <1>3 DEF GenericServicesRun
    <3> HIDE DEF TaskLeft
    <3>5. Keeps
      BY <3>1, <3>3 DEF Keeps
    <3>6. ServiceLeft(s, "run")' < ServiceLeft(s, "run")
      BY <3>2
    <3> QED
      BY <3>5, <3>6 DEF Shrinks
  <2> QED
    BY <1>3, <2>1, <2>2, <2>3 DEF GenericServicesRun
<1>4. ASSUME NEW s \in Services, RunReturns(s)
      PROVE  Keeps /\ Shrinks
  <2>1. CASE Runs!Complete(s)
    <3>1. \A t \in Services : TaskLeft(genericTask, t)' <= TaskLeft(genericTask, t)
      BY <1>4, <2>1 DEF Runs!Complete
    <3>2. TaskLeft(genericTask, s)' < TaskLeft(genericTask, s)
      BY <1>4, <2>1 DEF Runs!Complete
    <3>3. /\ UNCHANGED <<grpc, resource>>
          /\ \A t \in Services : TaskLeft(setupTask, t)' <= TaskLeft(setupTask, t)
          /\ \A t \in Services : TaskLeft(grpcTask, t)' <= TaskLeft(grpcTask, t)
      BY <1>4 DEF RunReturns
    <3> HIDE DEF TaskLeft
    <3>5. Keeps
      BY <3>1, <3>3 DEF Keeps
    <3>6. ServiceLeft(s, "run")' < ServiceLeft(s, "run")
      BY <3>2
    <3> QED
      BY <3>5, <3>6 DEF Shrinks
  <2>2. CASE Runs!Fail(s)
    <3>1. \A t \in Services : TaskLeft(genericTask, t)' <= TaskLeft(genericTask, t)
      BY <1>4, <2>2 DEF Runs!Fail
    <3>2. TaskLeft(genericTask, s)' < TaskLeft(genericTask, s)
      BY <1>4, <2>2 DEF Runs!Fail
    <3>3. /\ UNCHANGED <<grpc, resource>>
          /\ \A t \in Services : TaskLeft(setupTask, t)' <= TaskLeft(setupTask, t)
          /\ \A t \in Services : TaskLeft(grpcTask, t)' <= TaskLeft(grpcTask, t)
      BY <1>4 DEF RunReturns
    <3> HIDE DEF TaskLeft
    <3>5. Keeps
      BY <3>1, <3>3 DEF Keeps
    <3>6. ServiceLeft(s, "run")' < ServiceLeft(s, "run")
      BY <3>2
    <3> QED
      BY <3>5, <3>6 DEF Shrinks
  <2> QED
    BY <1>4, <2>1, <2>2 DEF RunReturns
<1>5. ASSUME GrpcMapSteps
      PROVE  Keeps /\ Shrinks
  <2>1. CASE GrpcMap!SkipRest
    <3>1. \A t \in Services : TaskLeft(grpcTask, t)' <= TaskLeft(grpcTask, t)
      BY <1>5, <2>1 DEF GrpcMap!SkipRest, GrpcMap!IsNext
    <3>2. PICK e \in Services : TaskLeft(grpcTask, e)' < TaskLeft(grpcTask, e)
      <4>1. PICK e \in Services : grpcTask[e] = "pending"
        BY <1>5, <2>1 DEF GrpcMap!SkipRest, GrpcMap!IsNext
      <4> QED
        BY <1>5, <2>1, <4>1 DEF GrpcMap!SkipRest, GrpcMap!IsNext
    <3>3. /\ UNCHANGED <<grpc, resource>>
          /\ \A t \in Services : TaskLeft(setupTask, t)' <= TaskLeft(setupTask, t)
          /\ \A t \in Services : TaskLeft(genericTask, t)' <= TaskLeft(genericTask, t)
      BY <1>5 DEF GrpcMapSteps
    <3>4. grpc = "probe" \/ grpc = "register"
      BY <1>5 DEF GrpcMapSteps
    <3> HIDE DEF TaskLeft
    <3>5. Keeps
      BY <3>1, <3>3, <3>4 DEF Keeps
    <3>6. CASE grpc = "probe"
      <4>1. ServiceLeft(e, "probe")' < ServiceLeft(e, "probe")
        BY <3>2, <3>3, <3>6
      <4> QED
        BY <3>5, <4>1 DEF Shrinks
    <3>7. CASE grpc = "register"
      <4>1. ServiceLeft(e, "register")' < ServiceLeft(e, "register")
        BY <3>2, <3>3, <3>7
      <4> QED
        BY <3>5, <4>1 DEF Shrinks
    <3> QED
      BY <3>4, <3>6, <3>7
  <2>2. ASSUME NEW s \in Services, GrpcMap!Launch(s)
        PROVE  Keeps /\ Shrinks
    <3>1. \A t \in Services : TaskLeft(grpcTask, t)' <= TaskLeft(grpcTask, t)
      BY <1>5, <2>2 DEF GrpcMap!Launch, GrpcMap!IsNext
    <3>2. TaskLeft(grpcTask, s)' < TaskLeft(grpcTask, s)
      BY <1>5, <2>2 DEF GrpcMap!Launch, GrpcMap!IsNext
    <3>3. /\ UNCHANGED <<grpc, resource>>
          /\ \A t \in Services : TaskLeft(setupTask, t)' <= TaskLeft(setupTask, t)
          /\ \A t \in Services : TaskLeft(genericTask, t)' <= TaskLeft(genericTask, t)
      BY <1>5 DEF GrpcMapSteps
    <3>4. grpc = "probe" \/ grpc = "register"
      BY <1>5 DEF GrpcMapSteps
    <3> HIDE DEF TaskLeft
    <3>5. Keeps
      BY <3>1, <3>3, <3>4 DEF Keeps
    <3>6. CASE grpc = "probe"
      <4>1. ServiceLeft(s, "probe")' < ServiceLeft(s, "probe")
        BY <3>2, <3>3, <3>6
      <4> QED
        BY <3>5, <4>1 DEF Shrinks
    <3>7. CASE grpc = "register"
      <4>1. ServiceLeft(s, "register")' < ServiceLeft(s, "register")
        BY <3>2, <3>3, <3>7
      <4> QED
        BY <3>5, <4>1 DEF Shrinks
    <3> QED
      BY <3>4, <3>6, <3>7
  <2>3. ASSUME NEW s \in Services, GrpcMap!Collect(s)
        PROVE  Keeps /\ Shrinks
    <3>1. \A t \in Services : TaskLeft(grpcTask, t)' <= TaskLeft(grpcTask, t)
      BY <1>5, <2>3 DEF GrpcMap!Collect
    <3>2. TaskLeft(grpcTask, s)' < TaskLeft(grpcTask, s)
      BY <1>5, <2>3 DEF GrpcMap!Collect
    <3>3. /\ UNCHANGED <<grpc, resource>>
          /\ \A t \in Services : TaskLeft(setupTask, t)' <= TaskLeft(setupTask, t)
          /\ \A t \in Services : TaskLeft(genericTask, t)' <= TaskLeft(genericTask, t)
      BY <1>5 DEF GrpcMapSteps
    <3>4. grpc = "probe" \/ grpc = "register"
      BY <1>5 DEF GrpcMapSteps
    <3> HIDE DEF TaskLeft
    <3>5. Keeps
      BY <3>1, <3>3, <3>4 DEF Keeps
    <3>6. CASE grpc = "probe"
      <4>1. ServiceLeft(s, "probe")' < ServiceLeft(s, "probe")
        BY <3>2, <3>3, <3>6
      <4> QED
        BY <3>5, <4>1 DEF Shrinks
    <3>7. CASE grpc = "register"
      <4>1. ServiceLeft(s, "register")' < ServiceLeft(s, "register")
        BY <3>2, <3>3, <3>7
      <4> QED
        BY <3>5, <4>1 DEF Shrinks
    <3> QED
      BY <3>4, <3>6, <3>7
  <2> QED
    BY <1>5, <2>1, <2>2, <2>3 DEF GrpcMapSteps
<1>6. ASSUME NEW s \in Services, Probe(s)
      PROVE  Keeps /\ Shrinks
  <2>1. CASE GrpcMap!Complete(s)
    <3>1. \A t \in Services : TaskLeft(grpcTask, t)' <= TaskLeft(grpcTask, t)
      BY <1>6, <2>1 DEF GrpcMap!Complete
    <3>2. TaskLeft(grpcTask, s)' < TaskLeft(grpcTask, s)
      BY <1>6, <2>1 DEF GrpcMap!Complete
    <3>3. /\ UNCHANGED <<grpc, resource>>
          /\ \A t \in Services : TaskLeft(setupTask, t)' <= TaskLeft(setupTask, t)
          /\ \A t \in Services : TaskLeft(genericTask, t)' <= TaskLeft(genericTask, t)
      BY <1>6 DEF Probe
    <3>4. grpc = "probe" \/ grpc = "register"
      BY <1>6 DEF Probe
    <3> HIDE DEF TaskLeft
    <3>5. Keeps
      BY <3>1, <3>3, <3>4 DEF Keeps
    <3>6. CASE grpc = "probe"
      <4>1. ServiceLeft(s, "probe")' < ServiceLeft(s, "probe")
        BY <3>2, <3>3, <3>6
      <4> QED
        BY <3>5, <4>1 DEF Shrinks
    <3>7. CASE grpc = "register"
      <4>1. ServiceLeft(s, "register")' < ServiceLeft(s, "register")
        BY <3>2, <3>3, <3>7
      <4> QED
        BY <3>5, <4>1 DEF Shrinks
    <3> QED
      BY <3>4, <3>6, <3>7
  <2> QED
    BY <1>6, <2>1 DEF Probe
<1>7. ASSUME NEW s \in Services, Register(s)
      PROVE  Keeps /\ Shrinks
  <2>1. CASE GrpcMap!Complete(s)
    <3>1. \A t \in Services : TaskLeft(grpcTask, t)' <= TaskLeft(grpcTask, t)
      BY <1>7, <2>1 DEF GrpcMap!Complete
    <3>2. TaskLeft(grpcTask, s)' < TaskLeft(grpcTask, s)
      BY <1>7, <2>1 DEF GrpcMap!Complete
    <3>3. /\ UNCHANGED <<grpc, resource>>
          /\ \A t \in Services : TaskLeft(setupTask, t)' <= TaskLeft(setupTask, t)
          /\ \A t \in Services : TaskLeft(genericTask, t)' <= TaskLeft(genericTask, t)
      BY <1>7 DEF Register
    <3>4. grpc = "probe" \/ grpc = "register"
      BY <1>7 DEF Register
    <3> HIDE DEF TaskLeft
    <3>5. Keeps
      BY <3>1, <3>3, <3>4 DEF Keeps
    <3>6. CASE grpc = "probe"
      <4>1. ServiceLeft(s, "probe")' < ServiceLeft(s, "probe")
        BY <3>2, <3>3, <3>6
      <4> QED
        BY <3>5, <4>1 DEF Shrinks
    <3>7. CASE grpc = "register"
      <4>1. ServiceLeft(s, "register")' < ServiceLeft(s, "register")
        BY <3>2, <3>3, <3>7
      <4> QED
        BY <3>5, <4>1 DEF Shrinks
    <3> QED
      BY <3>4, <3>6, <3>7
  <2>2. CASE GrpcMap!Fail(s)
    <3>1. \A t \in Services : TaskLeft(grpcTask, t)' <= TaskLeft(grpcTask, t)
      BY <1>7, <2>2 DEF GrpcMap!Fail
    <3>2. TaskLeft(grpcTask, s)' < TaskLeft(grpcTask, s)
      BY <1>7, <2>2 DEF GrpcMap!Fail
    <3>3. /\ UNCHANGED <<grpc, resource>>
          /\ \A t \in Services : TaskLeft(setupTask, t)' <= TaskLeft(setupTask, t)
          /\ \A t \in Services : TaskLeft(genericTask, t)' <= TaskLeft(genericTask, t)
      BY <1>7 DEF Register
    <3>4. grpc = "probe" \/ grpc = "register"
      BY <1>7 DEF Register
    <3> HIDE DEF TaskLeft
    <3>5. Keeps
      BY <3>1, <3>3, <3>4 DEF Keeps
    <3>6. CASE grpc = "probe"
      <4>1. ServiceLeft(s, "probe")' < ServiceLeft(s, "probe")
        BY <3>2, <3>3, <3>6
      <4> QED
        BY <3>5, <4>1 DEF Shrinks
    <3>7. CASE grpc = "register"
      <4>1. ServiceLeft(s, "register")' < ServiceLeft(s, "register")
        BY <3>2, <3>3, <3>7
      <4> QED
        BY <3>5, <4>1 DEF Shrinks
    <3> QED
      BY <3>4, <3>6, <3>7
  <2> QED
    BY <1>7, <2>1, <2>2 DEF Register
<1>8. ASSUME NEW s \in Services, Release(s)
      PROVE  Keeps /\ Shrinks
  <2>1. /\ resource[s] # "released" /\ resource'[s] = "released"
        /\ \A t \in Services : resource[t] = "released" => resource'[t] = "released"
    BY <1>8 DEF Release
  <2>2. UNCHANGED <<setupTask, genericTask, grpcTask, grpc>>
    BY <1>8 DEF Release
  <2>3. Keeps
    BY <2>1, <2>2 DEF Keeps
  <2>4. ServiceLeft(s, "resource")' < ServiceLeft(s, "resource")
    BY <2>1
  <2> QED
    BY <2>3, <2>4 DEF Shrinks
<1> QED
  BY <1>1, <1>2, <1>3, <1>4, <1>5, <1>6, <1>7, <1>8 DEF TaskStep

\* The steps of the routines do not set a service back.
LEMMA ServicesStay ==
  ASSUME IInv, LiveInv, RoutineStep
  PROVE  Keeps
<1> USE DEF IInv, TypeOK, Services, Parts, Setup!Services, Runs!Services,
        GrpcMap!Services, Setup!TaskStates, Keeps,
        ServiceLeft, TaskLeft, ProbeLeft, RegisterLeft, ResourceLeft,
        contexts, listeners, setupVars, genericVars, serverVars, grpcVars, groupVars,
        mainVars, otherThanSetup, otherThanGroup, otherThanEnd, otherThanRuns,
        otherThanGrpc, otherThanServer
<1>1. ASSUME StartShutdown
      PROVE  Keeps
  BY <1>1 DEF StartShutdown
<1>2. ASSUME AwaitShutdown
      PROVE  Keeps
  BY <1>2 DEF AwaitShutdown
<1>3. ASSUME CancelShutdownCtx
      PROVE  Keeps
  BY <1>3 DEF CancelShutdownCtx
<1>4. ASSUME StopSignaler
      PROVE  Keeps
  BY <1>4 DEF StopSignaler
<1>5. ASSUME StartRun
      PROVE  Keeps
  BY <1>5 DEF StartRun, LiveInv
<1>6. ASSUME EndSetup
      PROVE  Keeps
  BY <1>6 DEF EndSetup, SetupOver
<1>7. ASSUME AddGeneric
      PROVE  Keeps
  BY <1>7
     DEF AddGeneric, GroupReturns, Group!Invoke, Group!Succeed, Group!Refuse,
         Group!Reason, RunInv, StageInv
<1>8. ASSUME AddGrpc
      PROVE  Keeps
  BY <1>8
     DEF AddGrpc, GroupReturns, Group!Invoke, Group!Succeed, Group!Refuse,
         Group!Reason, RunInv, StageInv
<1>9. ASSUME StartWait
      PROVE  Keeps
  BY <1>9 DEF StartWait, Group!StartWait
<1>10. ASSUME EndWait
      PROVE  Keeps
  BY <1>10 DEF EndWait, Group!EndWait, Group!Reason
<1>11. ASSUME GroupPanics
      PROVE  Keeps
  BY <1>11 DEF GroupPanics, Group!Overdraw
<1>12. ASSUME CallPanics
      PROVE  Keeps
  BY <1>12 DEF CallPanics, Group!Refuse, Group!EndWait, Group!Reason
<1>13. ASSUME ReleaseResources
      PROVE  Keeps
  BY <1>13 DEF ReleaseResources
<1>14. ASSUME ResourcesReleased
      PROVE  Keeps
  BY <1>14 DEF ResourcesReleased, NothingHeld
<1>15. ASSUME CancelListeners
      PROVE  Keeps
  BY <1>15 DEF CancelListeners
<1>16. ASSUME ShutdownTimesOut
      PROVE  Keeps
  BY <1>16 DEF ShutdownTimesOut
<1>17. ASSUME ListenersExited
      PROVE  Keeps
  BY <1>17 DEF ListenersExited
<1>18. ASSUME Finish
      PROVE  Keeps
  BY <1>18 DEF Finish
<1>19. ASSUME EndGeneric
      PROVE  Keeps
  BY <1>19 DEF EndGeneric, RunsOver
<1>20. ASSUME DoneGeneric
      PROVE  Keeps
  BY <1>20
     DEF DoneGeneric, CallDone, GroupReturns, Group!Invoke, Group!Succeed,
         Group!Refuse, Group!Reason
<1>21. ASSUME EndProbe
      PROVE  Keeps
  BY <1>21 DEF EndProbe, GrpcMap!NotStarted
<1>22. ASSUME EndRegister
      PROVE  Keeps
  BY <1>22 DEF EndRegister
<1>23. ASSUME GetGrpcListener
      PROVE  Keeps
  BY <1>23 DEF GetGrpcListener, ListenOp
<1>24. ASSUME StartServing
      PROVE  Keeps
  BY <1>24 DEF StartServing
<1>25. ASSUME EndServing
      PROVE  Keeps
  BY <1>25 DEF EndServing
<1>26. ASSUME ServeFails
      PROVE  Keeps
  BY <1>26 DEF ServeFails
<1>27. ASSUME DoneGrpc
      PROVE  Keeps
  BY <1>27
     DEF DoneGrpc, CallDone, GroupReturns, Group!Invoke, Group!Succeed,
         Group!Refuse, Group!Reason
<1>28. ASSUME GracefulStop
      PROVE  Keeps
  BY <1>28 DEF GracefulStop, StopOrdered
<1>29. ASSUME Drained
      PROVE  Keeps
  BY <1>29 DEF Drained, NoHandlers
<1>30. ASSUME CheckContext
      PROVE  Keeps
  BY <1>30 DEF CheckContext, ListenCancelled
<1> QED
  BY <1>1, <1>2, <1>3, <1>4, <1>5, <1>6, <1>7, <1>8, <1>9, <1>10, <1>11, <1>12,
     <1>13, <1>14, <1>15, <1>16, <1>17, <1>18, <1>19, <1>20, <1>21, <1>22,
     <1>23, <1>24, <1>25, <1>26, <1>27, <1>28, <1>29, <1>30
     DEF RoutineStep

\* Every step but those of RPCs uses up a part of what is left.
LEMMA StepAdvances ==
  IInv /\ LiveInv /\ Next => Advances \/ StartRpc \/ EndRpc
<1> SUFFICES ASSUME IInv, LiveInv, Next, ~StartRpc, ~EndRpc PROVE Advances
  OBVIOUS
<1>1. RoutineStep \/ TaskStep
  BY DEF Next, Main, GenericRoutine, GrpcRoutine, Monitor, Listeners,
     RoutineStep, TaskStep
<1>2. RoutinesLeft \in Nat /\ RoutinesLeft' \in Nat
  BY LeftTypes, LeftTypesNext
<1>3. CASE RoutineStep
  BY <1>2, <1>3, RoutinesGoOn, ServicesStay, LessLeft
<1>4. CASE TaskStep
  BY <1>4, RoutinesGoOn, ServicesGoOn, LessLeft
<1> QED
  BY <1>1, <1>3, <1>4

\* An RPC leaves what is ahead of the run as it is.
LEMMA RpcsKeep == TypeOK /\ (StartRpc \/ EndRpc) => OnlyRpcs
<1> SUFFICES ASSUME TypeOK, StartRpc \/ EndRpc PROVE OnlyRpcs
  OBVIOUS
<1>1. rpcs' # rpcs
  BY ManagerAssumption DEF TypeOK, StartRpc, EndRpc
<1>2. UNCHANGED <<servicesDone, main, timeouter, signaler, releaseWaiter, generic,
                  grpc, monitor, status, call, wait, setupTask, genericTask,
                  grpcTask, resource>>
  BY DEF StartRpc, EndRpc, otherThanServer, contexts, listeners, setupVars,
     genericVars, grpcVars, groupVars, mainVars
<1>3. RoutinesLeft' = RoutinesLeft
  BY <1>2
     DEF RoutinesLeft, MainLeft, TimeouterLeft, SignalerLeft, WaiterLeft,
         GenericLeft, GrpcLeft, MonitorLeft, WaitLeft, OrderLeft, PanicLeft,
         CallLeft
<1>4. \A s, part : ServiceLeft(s, part)' = ServiceLeft(s, part)
  BY <1>2 DEF ServiceLeft, TaskLeft, ProbeLeft, RegisterLeft, ResourceLeft
<1>5. TasksAhead' = TasksAhead
  BY <1>4 DEF TasksAhead
<1> QED
  BY <1>1, <1>3, <1>5 DEF OnlyRpcs, StepsLeft

\* A run has a bounded number of steps, of the goroutines, of the services and of
\* the callers of StartShutdown, whatever they do and however they are scheduled:
\* nothing in Run is a loop, the retry of getGrpcListener (lines 201-221 of
\* manager.go) included, which is never taken.  Only RPCs may come and go.
THEOREM Termination == Spec => [][Advances \/ OnlyRpcs]_vars
<1>1. IInv /\ LiveInv /\ [Next]_vars => [Advances \/ OnlyRpcs]_vars
  BY StepAdvances, RpcsKeep DEF IInv
<1> QED
  BY <1>1, Invariance, LiveInit, LiveStep, PTL DEF Spec
=============================================================================
