------------------------ MODULE ManagerLifecycleProofs ------------------------
(***************************************************************************)
(* Manager implements ManagerLifecycle, for any number of services of any  *)
(* kinds: what ManagerSuite assumes of its managers is what a run does.    *)
(***************************************************************************)
EXTENDS ManagerProofs

\* What ManagerLifecycle sees of a run.
RunView ==
  IF main = "idle" THEN "idle"
  ELSE IF main # "returned" THEN "running"
  ELSE IF Succeeded THEN "nil" ELSE "error"

ListenView ==
  IF grpcErr \in {"ctx", "listen"} THEN "failed"
  ELSE IF hasGrpc /\ grpc \in {"start", "serve", "done", "exited"} THEN "bound"
  ELSE IF grpc = "attempt" THEN "trying" ELSE "none"

ServerView ==
  IF server = "new" THEN "down" ELSE IF server = "serving" THEN "up" ELSE server

CountedView == call["addGrpc"] \notin {"closed", "ctx"}

views == <<RunView, ListenView, ServerView, CountedView>>

\* The address is bound when there is a monitor.
LEMMA BoundMonitored == IInv => (ListenView = "bound" <=> monitor # "none")
  BY DEF IInv, TypeOK, RunInv, MonitorInv, ServerInv, ListenView

\* A run that returned nil, and waited for its gRPC routine, has nothing of it
\* left: the routine is over, or found the context cancelled when it began.
LEMMA NilIsOver ==
  IInv /\ main = "returned" /\ Succeeded /\ CountedView
    => NeverListens \/ (grpc = "exited" /\ grpcErr = "nil")
<1> SUFFICES ASSUME IInv, main = "returned", Succeeded, CountedView
             PROVE  NeverListens \/ (grpc = "exited" /\ grpcErr = "nil")
  OBVIOUS
<1>1. ~runErr.timeout /\ runErr.grpc = "nil" /\ setupErrs = <<>>
  BY DEF Succeeded, NoRunErr
<1>2. call["addGrpc"] = "ok" /\ call["addGeneric"] \in {"ok", "ctx"}
  BY <1>1 DEF IInv, RunInv, StageInv, GroupInv, CallInv, Ending, CountedView
<1>3. CASE call["addGeneric"] = "ctx"
  BY <1>3 DEF IInv, GroupInv, CountInv
<1>4. CASE call["addGeneric"] = "ok"
  BY <1>1, <1>2, <1>4, Reported DEF Counted
<1> QED
  BY <1>2, <1>3, <1>4

\* A gRPC routine that is at its listen is of a run that has not returned nil, or
\* not waited for it.
LEMMA ListenIsActive ==
  ASSUME IInv, grpc \in {"listen", "attempt"}
  PROVE  RunView \in {"running", "error"} \/ (RunView = "nil" /\ ~CountedView)
<1>1. main # "idle"
  BY DEF IInv, RunInv, StageInv
<1>2. hasGrpc
  BY DEF IInv, RunInv, MonitorInv
<1>3. main = "returned" /\ Succeeded => ~CountedView
  BY <1>2, NilIsOver DEF NeverListens
<1> QED
  BY <1>1, <1>3 DEF RunView

-----------------------------------------------------------------------------
(* Steps.                                                                  *)

\* A step that nobody outside sees.
LEMMA ViewStutter ==
  ASSUME UNCHANGED views, UNCHANGED servicesDone
  PROVE  UNCHANGED Lifecycle!vars
  BY DEF views, RunView, ListenView, ServerView, CountedView, Lifecycle!vars

\* A step that at most orders the shutdown.
LEMMA ViewOrder ==
  ASSUME UNCHANGED views, servicesDone' = servicesDone \/ servicesDone' = TRUE
  PROVE  [Lifecycle!Next]_(Lifecycle!vars)
<1>1. CASE servicesDone' = TRUE
  <2>1. Lifecycle!Order("manager")
    BY <1>1
       DEF views, RunView, ListenView, ServerView, CountedView, Lifecycle!Order
  <2> QED
    BY <2>1 DEF Lifecycle!Next
<1> QED
  BY <1>1, ViewStutter

\* Run begins.
LEMMA StartRunRefines ==
  ASSUME IInv, StartRun
  PROVE  Lifecycle!Next
<1>1. RunView = "idle" /\ RunView' = "running"
  BY DEF StartRun, RunView
<1>2. UNCHANGED <<servicesDone, ListenView, ServerView, CountedView>>
  BY DEF StartRun, contexts, listeners, setupVars, genericVars, serverVars,
     grpcVars, groupVars, mainVars, otherThanSetup, otherThanGroup,
     otherThanEnd, otherThanRuns, otherThanGrpc, otherThanServer, ListenView,
     ServerView, CountedView
<1>3. Lifecycle!Start("manager")
  BY <1>1, <1>2
     DEF RunView, ListenView, ServerView, CountedView, Lifecycle!Start
<1> QED
  BY <1>3 DEF Lifecycle!Next

\* The second Add(1): an error means that the gRPC routine is not waited for.
LEMMA AddGrpcRefines ==
  ASSUME IInv, AddGrpc
  PROVE  [Lifecycle!Next]_(Lifecycle!vars)
<1>1. UNCHANGED <<servicesDone, RunView, ListenView, ServerView>>
  BY DEF AddGrpc, contexts, listeners, setupVars, genericVars, serverVars,
     grpcVars, groupVars, mainVars, otherThanSetup, otherThanGroup,
     otherThanEnd, otherThanRuns, otherThanGrpc, otherThanServer, RunView,
     Succeeded, ListenView, ServerView, IInv, RunInv, StageInv, MonitorInv,
     Group!Invoke, GroupReturns, Group!Succeed, Group!Refuse
<1>2. RunView = "running"
  BY DEF AddGrpc, RunView
<1>3. CountedView' = CountedView \/ CountedView' = FALSE
  BY DEF AddGrpc, Group!Invoke, GroupReturns, Group!Succeed, Group!Refuse,
     CountedView, IInv, GroupInv, GroupTypes, CallNames
<1>4. CASE CountedView' = FALSE
  <2>1. Lifecycle!Uncount("manager")
    BY <1>1, <1>2, <1>4
       DEF RunView, ListenView, ServerView, CountedView, Lifecycle!Uncount
  <2> QED
    BY <2>1 DEF Lifecycle!Next, Lifecycle!ManagerStep
<1>5. CASE CountedView' = CountedView
  BY <1>1, <1>5, ViewStutter DEF views
<1> QED
  BY <1>3, <1>4, <1>5

\* Run returns: with nil only when the server is gone or the routine not counted.
LEMMA FinishRefines ==
  ASSUME IInv, IInv', Finish
  PROVE  Lifecycle!Next
<1>1. UNCHANGED <<ListenView, ServerView, CountedView>> /\ servicesDone' = TRUE
  BY DEF Finish, contexts, listeners, setupVars, genericVars, serverVars,
     grpcVars, groupVars, mainVars, otherThanSetup, otherThanGroup,
     otherThanEnd, otherThanRuns, otherThanGrpc, otherThanServer, ListenView,
     ServerView, CountedView
<1>2. RunView = "running" /\ RunView' = (IF Succeeded' THEN "nil" ELSE "error")
  BY DEF Finish, RunView
<1>3. Succeeded' /\ CountedView =>
        \/ ServerView = "stopped"
        \/ ServerView = "down" /\ ListenView \in {"none", "failed"}
  <2> SUFFICES ASSUME Succeeded', CountedView
               PROVE  \/ ServerView = "stopped"
                      \/ ServerView = "down" /\ ListenView \in {"none", "failed"}
    OBVIOUS
  <2>1. main' = "returned" /\ CountedView'
    BY <1>1 DEF Finish
  <2>2. NeverListens' \/ (grpc' = "exited" /\ grpcErr' = "nil")
    <3>1. (IInv /\ main = "returned" /\ Succeeded /\ CountedView
             => NeverListens \/ (grpc = "exited" /\ grpcErr = "nil"))'
      BY NilIsOver, PTL
    <3> QED
      BY <2>1, <3>1
  <2>3. NeverListens \/ (grpc = "exited" /\ grpcErr = "nil")
    BY <2>2
       DEF Finish, contexts, listeners, setupVars, genericVars, serverVars,
           grpcVars, groupVars, mainVars, otherThanSetup, otherThanGroup,
           otherThanEnd, otherThanRuns, otherThanGrpc, otherThanServer,
           NeverListens, IInv, RunInv, OrderInv, Ending
  <2>4. CASE monitor = "none"
    <3>1. grpc # "attempt"
      BY <2>3 DEF NeverListens, IInv, RunInv, MonitorInv
    <3> QED
      BY <2>4, <3>1, BoundMonitored
         DEF IInv, RunInv, ServerInv, ServerView, ListenView
  <2>5. CASE monitor # "none"
    BY <2>3, <2>5
       DEF NeverListens, IInv, TypeOK, RunInv, ServerInv, ServerView
  <2> QED
    BY <2>4, <2>5
<1>4. PICK r \in {"nil", "error"} : r = RunView'
  BY <1>2
<1>5. Lifecycle!Return("manager", r)
  BY <1>1, <1>2, <1>3, <1>4
     DEF RunView, ListenView, ServerView, CountedView, Lifecycle!Return,
         Lifecycle!Silent
<1> QED
  BY <1>5 DEF Lifecycle!Next, Lifecycle!Results

\* The look at the context: the routine will listen, or gives up because of an
\* order.
LEMMA CheckContextRefines ==
  ASSUME IInv, IInv', CheckContext
  PROVE  [Lifecycle!Next]_(Lifecycle!vars)
<1>1. UNCHANGED <<servicesDone, RunView, ServerView, CountedView>>
  BY DEF CheckContext, contexts, listeners, setupVars, genericVars, serverVars,
     grpcVars, groupVars, mainVars, otherThanSetup, otherThanGroup,
     otherThanEnd, otherThanRuns, otherThanGrpc, otherThanServer, RunView,
     Succeeded, ServerView, CountedView
<1>2. /\ ListenView = "none"
      /\ RunView \in {"running", "error"} \/ (RunView = "nil" /\ ~CountedView)
  BY ListenIsActive DEF CheckContext, ListenView, IInv, RunInv, ServerInv
<1>3. \/ servicesDone /\ ListenView' = "failed"
      \/ ~servicesDone /\ ListenView' = "trying"
  BY DEF CheckContext, ListenCancelled, ListenView, IInv, RunInv, ServerInv
<1>4. CASE servicesDone /\ ListenView' = "failed"
  <2>1. Lifecycle!FailListen("manager")
    BY <1>1, <1>2, <1>4
       DEF RunView, ListenView, ServerView, CountedView, Lifecycle!FailListen,
           Lifecycle!Active
  <2> QED
    BY <2>1 DEF Lifecycle!Next, Lifecycle!ManagerStep
<1>5. CASE ~servicesDone /\ ListenView' = "trying"
  <2>1. Lifecycle!TryListen("manager")
    BY <1>1, <1>2, <1>5
       DEF RunView, ListenView, ServerView, CountedView, Lifecycle!TryListen,
           Lifecycle!Active
  <2> QED
    BY <2>1 DEF Lifecycle!Next, Lifecycle!ManagerStep
<1> QED
  BY <1>3, <1>4, <1>5

\* The listen, which no order prevents any more: the address was free of this
\* manager.
LEMMA GetGrpcListenerRefines ==
  ASSUME IInv, IInv', GetGrpcListener
  PROVE  [Lifecycle!Next]_(Lifecycle!vars)
<1>1. UNCHANGED <<servicesDone, RunView, ServerView, CountedView>>
  BY DEF GetGrpcListener, contexts, listeners, setupVars, genericVars,
     serverVars, grpcVars, groupVars, mainVars, otherThanSetup, otherThanGroup,
     otherThanEnd, otherThanRuns, otherThanGrpc, otherThanServer, RunView,
     Succeeded, ServerView, CountedView
<1>2. /\ ListenView = "trying"
      /\ RunView \in {"running", "error"} \/ (RunView = "nil" /\ ~CountedView)
  BY ListenIsActive DEF GetGrpcListener, ListenView, IInv, RunInv, ServerInv
<1>3. ListenView' \in {"failed", "bound"}
  BY DEF GetGrpcListener, ListenOp, ListenView, IInv, RunInv, MonitorInv, ServerInv
<1>4. CASE ListenView' = "failed"
  <2>1. Lifecycle!FailListen("manager")
    BY <1>1, <1>2, <1>4
       DEF RunView, ListenView, ServerView, CountedView, Lifecycle!FailListen,
           Lifecycle!Active
  <2> QED
    BY <2>1 DEF Lifecycle!Next, Lifecycle!ManagerStep
<1>5. CASE ListenView' = "bound"
  <2>1. Lifecycle!Bind("manager")
    BY <1>1, <1>2, <1>5
       DEF RunView, ListenView, ServerView, CountedView, Lifecycle!Bind,
           Lifecycle!Active, Lifecycle!Holds
  <2> QED
    BY <2>1 DEF Lifecycle!Next, Lifecycle!ManagerStep
<1> QED
  BY <1>3, <1>4, <1>5

\* The server takes its ways one after the other.
LEMMA ServerRefines ==
  ASSUME IInv, IInv', StartServing \/ ServeFails \/ GracefulStop \/ Drained
  PROVE  [Lifecycle!Next]_(Lifecycle!vars)
<1> DEFINE Step(from, to) == ServerView = from /\ ServerView' = to
<1>1. UNCHANGED <<servicesDone, RunView, CountedView>>
  BY DEF StartServing, ServeFails, GracefulStop, Drained, contexts, listeners,
     setupVars, genericVars, serverVars, grpcVars, groupVars, mainVars,
     otherThanSetup, otherThanGroup, otherThanEnd, otherThanRuns, otherThanGrpc,
     otherThanServer, RunView, Succeeded, CountedView
<1>2. monitor # "none" /\ monitor' # "none"
  BY DEF StartServing, ServeFails, GracefulStop, Drained, IInv, RunInv,
     MonitorInv, contexts, listeners, setupVars, genericVars, serverVars,
     grpcVars, groupVars, mainVars, otherThanSetup, otherThanGroup,
     otherThanEnd, otherThanRuns, otherThanGrpc, otherThanServer
<1>3. ListenView = "bound" /\ ListenView' = "bound"
  <2>1. ListenView = "bound"
    BY <1>2, BoundMonitored
  <2>2. (ListenView = "bound" <=> monitor # "none")'
    BY BoundMonitored, PTL
  <2> QED
    BY <1>2, <2>1, <2>2
<1>4. \/ ServerView' = ServerView
      \/ Step("down", "up") \/ Step("up", "failed") \/ Step("draining", "stopped")
      \/ servicesDone /\ (Step("down", "stopped") \/ Step("up", "draining")
                            \/ Step("failed", "draining"))
  BY DEF StartServing, ServeFails, GracefulStop, StopOrdered, Drained, IInv,
     RunInv, ServerInv, ServerView
<1>5. ASSUME NEW from, NEW to, Step(from, to)
      PROVE  Lifecycle!ServerStep("manager", from, to)
  BY <1>1, <1>3, <1>5
     DEF RunView, ListenView, ServerView, CountedView, Lifecycle!ServerStep
<1>6. ServerView' = ServerView \/ Lifecycle!ManagerStep("manager")
  <2> HIDE DEF Step
  <2>1. Step("down", "up") => Lifecycle!Serve("manager")
    BY <1>3, <1>5 DEF Lifecycle!Serve, ListenView
  <2>2. Step("up", "failed") => Lifecycle!Break("manager")
    BY <1>5 DEF Lifecycle!Break
  <2>3. Step("draining", "stopped") => Lifecycle!Stop("manager")
    BY <1>5 DEF Lifecycle!Stop
  <2>4. servicesDone /\ (Step("down", "stopped") \/ Step("up", "draining")
                           \/ Step("failed", "draining")) => Lifecycle!Drain("manager")
    BY <1>3, <1>5 DEF Lifecycle!Drain, ListenView
  <2> QED
    BY <1>4, <2>1, <2>2, <2>3, <2>4 DEF Lifecycle!ManagerStep
<1>7. CASE ServerView' = ServerView
  BY <1>1, <1>3, <1>7, ViewStutter DEF views
<1> QED
  BY <1>6, <1>7 DEF Lifecycle!Next

\* Every step of the manager is one of its life, or none.
LEMMA RefinesNext == IInv /\ IInv' /\ [Next]_vars => [Lifecycle!Next]_(Lifecycle!vars)
<1> SUFFICES ASSUME IInv, IInv', [Next]_vars PROVE [Lifecycle!Next]_(Lifecycle!vars)
  OBVIOUS
<1> DEFINE Seen == UNCHANGED views /\ (servicesDone' = servicesDone \/ servicesDone' = TRUE)
<1>0. Seen => [Lifecycle!Next]_(Lifecycle!vars)
  BY ViewOrder
<1> USE DEF views, RunView, Succeeded, ListenView, ServerView, CountedView,
        contexts, listeners, setupVars, genericVars, serverVars, grpcVars,
        groupVars, mainVars, otherThanSetup, otherThanGroup, otherThanEnd,
        otherThanRuns, otherThanGrpc, otherThanServer
<1>1. ASSUME StartShutdown PROVE Seen
BY <1>1 DEF StartShutdown
<1>2. ASSUME AwaitShutdown PROVE Seen
BY <1>2 DEF AwaitShutdown
<1>3. ASSUME CancelShutdownCtx PROVE Seen
BY <1>3 DEF CancelShutdownCtx
<1>4. ASSUME StopSignaler PROVE Seen
BY <1>4 DEF StopSignaler
<1>5. ASSUME StartRun PROVE [Lifecycle!Next]_(Lifecycle!vars)
  BY <1>5, StartRunRefines
<1>6. ASSUME SetupServices PROVE Seen
BY <1>6
   DEF SetupServices, Setup!SkipRest, Setup!Launch, Setup!IsNext, Setup!Collect
<1>7. ASSUME NEW s \in Services, SetupReturns(s) PROVE Seen
BY <1>7 DEF SetupReturns, Setup!Complete, Setup!Fail
<1>8. ASSUME EndSetup PROVE Seen
BY <1>8 DEF EndSetup, SetupOver
<1>9. ASSUME AddGeneric PROVE Seen
BY <1>9
   DEF AddGeneric, GroupReturns, Group!Invoke, Group!Succeed, Group!Refuse,
       Group!Reason, IInv, RunInv, StageInv, GroupInv, GroupTypes, CallNames
<1>10. ASSUME AddGrpc PROVE [Lifecycle!Next]_(Lifecycle!vars)
  BY <1>10, AddGrpcRefines
<1>11. ASSUME StartWait PROVE Seen
BY <1>11 DEF StartWait, Group!StartWait
<1>12. ASSUME EndWait PROVE Seen
BY <1>12 DEF EndWait, Collected, Group!EndWait, Group!Reason
<1>13. ASSUME GroupPanics PROVE Seen
BY <1>13 DEF GroupPanics, Group!Overdraw
<1>14. ASSUME CallPanics PROVE Seen
BY <1>14
   DEF CallPanics, Group!Refuse, Group!EndWait, Group!Reason, IInv, GroupInv,
       GroupTypes, CallNames, CallInv
<1>15. ASSUME ReleaseResources PROVE Seen
BY <1>15 DEF ReleaseResources
<1>16. ASSUME ResourcesReleased PROVE Seen
BY <1>16 DEF ResourcesReleased, NothingHeld
<1>17. ASSUME CancelListeners PROVE Seen
BY <1>17 DEF CancelListeners
<1>18. ASSUME ShutdownTimesOut PROVE Seen
BY <1>18 DEF ShutdownTimesOut
<1>19. ASSUME ListenersExited PROVE Seen
BY <1>19 DEF ListenersExited
<1>20. ASSUME Finish PROVE [Lifecycle!Next]_(Lifecycle!vars)
  BY <1>20, FinishRefines
<1>21. ASSUME GenericServicesRun PROVE Seen
BY <1>21
   DEF GenericServicesRun, Runs!SkipRest, Runs!Launch, Runs!IsNext, Runs!Collect
<1>22. ASSUME NEW s \in Services, RunReturns(s) PROVE Seen
BY <1>22 DEF RunReturns, Runs!Complete, Runs!Fail
<1>23. ASSUME EndGeneric PROVE Seen
BY <1>23 DEF EndGeneric, RunsOver, IInv, TypeOK
<1>24. ASSUME DoneGeneric PROVE Seen
BY <1>24
   DEF DoneGeneric, GroupReturns, CallDone, Group!Invoke, Group!Succeed,
       Group!Refuse, Group!Reason, IInv, GroupInv, GroupTypes, CallNames
<1>25. ASSUME GrpcMapSteps PROVE Seen
BY <1>25
   DEF GrpcMapSteps, GrpcMap!SkipRest, GrpcMap!Launch, GrpcMap!IsNext,
       GrpcMap!Collect, IInv, RunInv, MonitorInv, ServerInv
<1>26. ASSUME NEW s \in Services, Probe(s) PROVE Seen
BY <1>26 DEF Probe, GrpcMap!Complete, IInv, RunInv, MonitorInv, ServerInv
<1>27. ASSUME EndProbe PROVE Seen
BY <1>27 DEF EndProbe, GrpcMap!NotStarted, IInv, RunInv, MonitorInv, ServerInv
<1>28. ASSUME NEW s \in Services, Register(s) PROVE Seen
BY <1>28 DEF Register, GrpcMap!Complete, GrpcMap!Fail
<1>29. ASSUME EndRegister PROVE Seen
BY <1>29 DEF EndRegister, IInv, RunInv, MonitorInv, ServerInv
<1>30. ASSUME GetGrpcListener PROVE [Lifecycle!Next]_(Lifecycle!vars)
  BY <1>30, GetGrpcListenerRefines
<1>31. ASSUME StartServing PROVE [Lifecycle!Next]_(Lifecycle!vars)
  BY <1>31, ServerRefines
<1>32. ASSUME EndServing PROVE Seen
BY <1>32 DEF EndServing, IInv, RunInv, MonitorInv, ServerInv
<1>33. ASSUME ServeFails PROVE [Lifecycle!Next]_(Lifecycle!vars)
  BY <1>33, ServerRefines
<1>34. ASSUME DoneGrpc PROVE Seen
BY <1>34
   DEF DoneGrpc, GroupReturns, CallDone, Group!Invoke, Group!Succeed,
       Group!Refuse, Group!Reason, IInv, GroupInv, GroupTypes, CallNames
<1>35. ASSUME GracefulStop PROVE [Lifecycle!Next]_(Lifecycle!vars)
  BY <1>35, ServerRefines
<1>36. ASSUME Drained PROVE [Lifecycle!Next]_(Lifecycle!vars)
  BY <1>36, ServerRefines
<1>37. ASSUME StartRpc PROVE Seen
BY <1>37 DEF StartRpc
<1>38. ASSUME EndRpc PROVE Seen
BY <1>38 DEF EndRpc
<1>39. ASSUME NEW s \in Services, Release(s) PROVE Seen
BY <1>39 DEF Release
<1>40. ASSUME UNCHANGED vars PROVE Seen
  BY <1>40 DEF vars
<1>41. ASSUME CheckContext PROVE [Lifecycle!Next]_(Lifecycle!vars)
  BY <1>41, CheckContextRefines
<1> HIDE DEF Seen
<1> QED
BY <1>0, <1>1, <1>2, <1>3, <1>4, <1>5, <1>6, <1>7, <1>8, <1>9, <1>10, <1>11,
     <1>12, <1>13, <1>14, <1>15, <1>16, <1>17, <1>18, <1>19, <1>20, <1>21,
     <1>22, <1>23, <1>24, <1>25, <1>26, <1>27, <1>28, <1>29, <1>30, <1>31,
     <1>32, <1>33, <1>34, <1>35, <1>36, <1>37, <1>38, <1>39, <1>40, <1>41
     DEF Next, Main, GenericRoutine, GrpcRoutine, Monitor

\* A manager that has started nothing has begun no life.
LEMMA RefinesInit == Init => Lifecycle!Init
  BY DEF Init, Lifecycle!Init, Group!Init

\* Every run keeps to the life that the test helpers rely on (manager.go as the
\* program around it sees it).
THEOREM Refinement == Spec => ImplementsLifecycle
  BY RefinesInit, RefinesNext, Invariance, PTL
     DEF Spec, Lifecycle!Spec, ImplementsLifecycle
===============================================================================
