------------------------- MODULE ManagerResetProofs -------------------------
(***************************************************************************)
(* Proofs about ManagerReset, for any managers, with Reset between the     *)
(* runs and without it: types, which panics there are, and that a run      *)
(* which ended in order touches nothing of the next one.                   *)
(***************************************************************************)
EXTENDS ManagerReset, TLAPS

\* The two goroutines of launchListeners, and the two of runAllServices.
Listening == {"timeouter", "signaler"}
Counted == {"generic", "grpc"}

\* A goroutine is at work, or will be: it was launched and has not ended.
Alive(g) == place[g] \notin {"none", "gone"}

\* 1 for a listener that will count itself out of the first incarnation, and for a
\* routine that will call Done.
Waited(g) == IF Alive(g) /\ held[g] # 2 THEN 1 ELSE 0
Running(g) == IF Alive(g) THEN 1 ELSE 0

\* Before Run nothing was launched, and the routines are launched one after the
\* other; the second incarnation comes, and the next run begins, after the first
\* run has returned, which closes the first shutdownComplete.
StageInv ==
  /\ main = "idle" => /\ \A g \in Listening : place[g] = "none"
                      /\ exited[1] = 0 /\ exited[2] = 0
  /\ main # "idle" => \A g \in Listening : place[g] # "none"
  /\ main \in {"idle", "setup", "addGeneric"} =>
       /\ place["generic"] = "none" /\ place["grpc"] = "none"
       /\ count = 0
  /\ main = "addGrpc" => /\ place["generic"] # "none" /\ place["grpc"] = "none"
                         /\ count <= 1
  /\ current = 2 \/ next # "idle" => main = "returned"
  /\ resetting => current = 2
  /\ main # "returned" => ~complete[1]
  /\ next # "returned" => ~complete[2]

\* A listener that waits or leaves has read an incarnation.
HeldInv == \A g \in Listening : held[g] = 0 <=> place[g] \in {"none", "begin"}

\* A listener of the first run has counted itself out of the second incarnation.
Intruded == \E g \in Listening : held[g] = 2 /\ place[g] = "gone"

\* listenersExited of the first incarnation counts at least the listeners that
\* will count themselves out of it, unless it is counted by the next run as well;
\* that of the second one counts those of the next run, unless a listener of the
\* first has counted itself out of it.
ExitedInv ==
  /\ ~crashed => exited[1] >= 0 /\ exited[2] >= 0
  /\ next = "idle" => exited[1] <= 2 /\ exited[2] <= 2 /\ nextOut = 0
  /\ next = "idle" \/ current = 2 =>
       exited[1] >= Waited("timeouter") + Waited("signaler")
  /\ current = 2 /\ next # "idle" /\ ~Intruded => exited[2] >= 2 - nextOut
  /\ main \in {"finish", "returned"} /\ ~timedOut =>
       \A g \in Listening : place[g] = "gone"

\* runsComplete counts at least the routines at work, unless it has not counted
\* one, and it is closed when both have ended.
CountInv ==
  /\ ~crashed => count >= 0
  /\ Alive("grpc") => place["generic"] # "none"
  /\ place["generic"] # "none" /\ "generic" \notin lost => closed \/ count >= 1
  /\ lost = {} => /\ count >= Running("generic") + Running("grpc")
                  /\ closed => ~Alive("generic") /\ ~Alive("grpc")
  /\ /\ main \in {"release", "waitRelease", "waitListeners", "finish", "returned"}
     /\ ~timedOut /\ lost = {}
     => ~Alive("generic") /\ ~Alive("grpc")

\* The monitor is at work while the server is served, or after it has failed, and
\* Run does not go on without the releaser unless its time is over.
ServerInv ==
  /\ Alive("monitor") => place["grpc"] = "serving" \/ server = "failed"
  /\ server = "stopped" => ~Alive("monitor")
  /\ main \in {"waitListeners", "finish", "returned"} /\ ~timedOut =>
       ~Alive("releaser")

IInv == /\ TypeOK /\ StageInv /\ HeldInv /\ ExitedInv /\ CountInv /\ ServerInv
        /\ CrashesExplained

\* Names of tuples, small sets and one-line operators, which are always expanded.
USE DEF Syncs, Routines, Places, Listening, Counted, Alive, Waited, Running,
        Intruded, Reads, Use, Cancel, contexts, groupVars, routineVars, managerVars,
        waitVars, nextVars, otherThanMain, otherThanReset, otherThanRoutine,
        otherThanNext

-----------------------------------------------------------------------------
(* The inductive invariant.                                                *)

\* A manager that has not run.
LEMMA IInvInit == Init => IInv
<1> SUFFICES ASSUME Init PROVE IInv
  OBVIOUS
<1>1. TypeOK
  <2>1. /\ {resetting, closed, timedOut, crashed, strayed} \subseteq BOOLEAN
        /\ {services, listeners, shutdown, complete} \subseteq [Syncs -> BOOLEAN]
    BY DEF Init, Fresh
  <2>2. exited \in [Syncs -> -1..4] /\ held \in [Routines -> 0..current]
    BY DEF Init, Fresh
  <2>3. place \in [Routines -> {"none"}]
    BY DEF Init
  <2>4. place \in [Routines -> Places]
    BY <2>3
  <2>5. /\ manager \in Managers /\ current \in Syncs /\ count \in -1..2
        /\ main = "idle" /\ server = "none" /\ next = "idle" /\ nextOut \in 0..2
        /\ lost \subseteq {"generic", "grpc"}
    BY DEF Init
  <2> QED
    BY <2>1, <2>2, <2>4, <2>5 DEF TypeOK
<1>2. StageInv /\ HeldInv /\ ExitedInv /\ CountInv /\ ServerInv /\ CrashesExplained
  BY DEF Init, Fresh, StageInv, HeldInv, ExitedInv, CountInv, ServerInv,
     CrashesExplained
<1> QED
  BY <1>1, <1>2 DEF IInv

\* A routine reads the first or the second incarnation, the latter only after
\* Reset was called.
LEMMA ReadsHold ==
  ASSUME IInv, NEW k \in Reads
  PROVE  k \in {1, 2} /\ k <= current
BY DEF IInv, TypeOK, StageInv

\* A routine is added to runsComplete, or is not counted.
LEMMA AddTypes ==
  ASSUME TypeOK, count <= 1, NEW g \in Counted, Add(g)
  PROVE  /\ count' \in -1..2 /\ closed' \in BOOLEAN
         /\ lost' \subseteq {"generic", "grpc"}
<1>1. count \in -1..2 /\ closed \in BOOLEAN /\ lost \subseteq {"generic", "grpc"}
  BY DEF TypeOK
<1>2. closed' = closed
  BY DEF Add
<1>3. count' \in {count, count + 1}
  BY DEF Add
<1>4. lost' \in {lost, lost \cup {g}}
  BY DEF Add
<1> QED
  BY <1>1, <1>2, <1>3, <1>4

\* The steps of the first Run.
LEMMA MainKeeps ==
  ASSUME IInv, ~crashed, StartRun \/ Main
  PROVE  IInv'
<1>1. CASE StartRun
  <2>1. TypeOK'
    BY <1>1 DEF StartRun, IInv, TypeOK, StageInv
  <2>2. StageInv' /\ HeldInv' /\ ExitedInv'
    BY <1>1 DEF StartRun, IInv, TypeOK, StageInv, HeldInv, ExitedInv
  <2>3. CountInv' /\ ServerInv' /\ CrashesExplained'
    BY <1>1 DEF StartRun, IInv, TypeOK, CountInv, ServerInv, CrashesExplained
  <2> QED
    BY <2>1, <2>2, <2>3 DEF IInv
<1>2. CASE SetupServices
  <2>1. TypeOK'
    <3>1. main' \in {"addGeneric", "release"} /\ services' \in [Syncs -> BOOLEAN]
      BY <1>2 DEF SetupServices, IInv, TypeOK
    <3> QED
      BY <1>2, <3>1 DEF SetupServices, IInv, TypeOK
  <2>2. StageInv' /\ HeldInv' /\ ExitedInv'
    BY <1>2 DEF SetupServices, IInv, StageInv, HeldInv, ExitedInv
  <2>3. CountInv' /\ ServerInv' /\ CrashesExplained'
    BY <1>2
       DEF SetupServices, IInv, StageInv, CountInv, ServerInv, CrashesExplained
  <2> QED
    BY <2>1, <2>2, <2>3 DEF IInv
<1>3. CASE AddRoutine("addGeneric", "generic", "addGrpc")
  <2>1. TypeOK'
    <3>1. /\ count' \in -1..2 /\ closed' \in BOOLEAN
          /\ lost' \subseteq {"generic", "grpc"}
      <4>1. Add("generic") /\ count <= 1
        BY <1>3 DEF AddRoutine, IInv, StageInv
      <4> QED
        BY <4>1, AddTypes DEF IInv
    <3> QED
      BY <1>3, <3>1 DEF AddRoutine, IInv, TypeOK
  <2>2. StageInv' /\ HeldInv' /\ ExitedInv'
    BY <1>3 DEF AddRoutine, Add, IInv, TypeOK, StageInv, HeldInv, ExitedInv
  <2>3. CountInv' /\ ServerInv' /\ CrashesExplained'
    BY <1>3
       DEF AddRoutine, Add, IInv, TypeOK, CountInv, ServerInv, CrashesExplained
  <2> QED
    BY <2>1, <2>2, <2>3 DEF IInv
<1>4. CASE AddRoutine("addGrpc", "grpc", "wait")
  <2>1. TypeOK'
    <3>1. /\ count' \in -1..2 /\ closed' \in BOOLEAN
          /\ lost' \subseteq {"generic", "grpc"}
      <4>1. Add("grpc") /\ count <= 1
        BY <1>4 DEF AddRoutine, IInv, StageInv
      <4> QED
        BY <4>1, AddTypes DEF IInv
    <3> QED
      BY <1>4, <3>1 DEF AddRoutine, IInv, TypeOK
  <2>2. StageInv'
    BY <1>4 DEF AddRoutine, Add, IInv, StageInv
  <2>3. HeldInv'
    BY <1>4 DEF AddRoutine, Add, IInv, HeldInv
  <2>4. ExitedInv'
    BY <1>4 DEF AddRoutine, Add, IInv, ExitedInv
  <2>5. CountInv'
    <3>1. /\ place["grpc"] = "none" /\ place' = [place EXCEPT !["grpc"] = "begin"]
          /\ place \in [Routines -> Places]
          /\ main' = "wait" /\ count \in Int /\ crashed' = crashed
      BY <1>4 DEF AddRoutine, IInv, TypeOK, StageInv
    <3>2. /\ \/ lost' = lost \cup {"grpc"} /\ count' = count
             \/ lost' = lost /\ count' = count + 1 /\ ~closed
          /\ closed' = closed
      BY <1>4 DEF AddRoutine, Add
    <3>3. place["generic"] # "none"
      BY <1>4 DEF IInv, StageInv, AddRoutine
    <3> QED
      BY <3>1, <3>2, <3>3 DEF IInv, CountInv
  <2>6. ServerInv'
    BY <1>4 DEF AddRoutine, Add, IInv, StageInv, ServerInv
  <2>7. CrashesExplained'
    BY <1>4 DEF AddRoutine, Add, IInv, CrashesExplained
  <2> QED
    BY <2>1, <2>2, <2>3, <2>4, <2>5, <2>6, <2>7 DEF IInv
<1>5. CASE EndWait
  <2>1. TypeOK'
    <3>1. timedOut' \in BOOLEAN /\ services' \in [Syncs -> BOOLEAN]
      BY <1>5 DEF EndWait, IInv, TypeOK
    <3> QED
      BY <1>5, <3>1 DEF EndWait, IInv, TypeOK
  <2>2. StageInv' /\ HeldInv' /\ ExitedInv'
    BY <1>5 DEF EndWait, IInv, StageInv, HeldInv, ExitedInv
  <2>3. CountInv' /\ ServerInv' /\ CrashesExplained'
    BY <1>5 DEF EndWait, IInv, CountInv, ServerInv, CrashesExplained
  <2> QED
    BY <2>1, <2>2, <2>3 DEF IInv
<1>6. CASE ReleaseResources
  <2>1. TypeOK'
    BY <1>6 DEF ReleaseResources, IInv, TypeOK
  <2>2. StageInv' /\ HeldInv' /\ ExitedInv'
    BY <1>6 DEF ReleaseResources, IInv, StageInv, HeldInv, ExitedInv
  <2>3. CountInv' /\ ServerInv' /\ CrashesExplained'
    BY <1>6 DEF ReleaseResources, IInv, CountInv, ServerInv, CrashesExplained
  <2> QED
    BY <2>1, <2>2, <2>3 DEF IInv
<1>7. CASE CancelListeners
  <2>1. TypeOK'
    BY <1>7 DEF CancelListeners, IInv, TypeOK
  <2>2. StageInv' /\ HeldInv' /\ ExitedInv'
    BY <1>7 DEF CancelListeners, IInv, StageInv, HeldInv, ExitedInv
  <2>3. CountInv' /\ ServerInv' /\ CrashesExplained'
    BY <1>7 DEF CancelListeners, IInv, CountInv, ServerInv, CrashesExplained
  <2> QED
    BY <2>1, <2>2, <2>3 DEF IInv
<1>8. CASE ShutdownTimesOut
  <2>1. TypeOK'
    BY <1>8 DEF ShutdownTimesOut, IInv, TypeOK
  <2>2. StageInv' /\ HeldInv' /\ ExitedInv'
    BY <1>8 DEF ShutdownTimesOut, IInv, StageInv, HeldInv, ExitedInv
  <2>3. CountInv' /\ ServerInv' /\ CrashesExplained'
    BY <1>8 DEF ShutdownTimesOut, IInv, CountInv, ServerInv, CrashesExplained
  <2> QED
    BY <2>1, <2>2, <2>3 DEF IInv
<1>9. CASE ListenersExited
  <2>1. TypeOK'
    BY <1>9 DEF ListenersExited, NoListeners, IInv, TypeOK
  <2>2. StageInv'
    BY <1>9 DEF ListenersExited, NoListeners, IInv, StageInv
  <2>3. HeldInv'
    BY <1>9 DEF ListenersExited, NoListeners, IInv, HeldInv
  <2>4. ExitedInv'
    BY <1>9
       DEF ListenersExited, NoListeners, IInv, TypeOK, StageInv, ExitedInv
  <2>5. CountInv'
    BY <1>9 DEF ListenersExited, NoListeners, IInv, CountInv
  <2>6. ServerInv'
    BY <1>9 DEF ListenersExited, NoListeners, IInv, ServerInv
  <2>7. CrashesExplained'
    BY <1>9 DEF ListenersExited, NoListeners, IInv, CrashesExplained
  <2> QED
    BY <2>1, <2>2, <2>3, <2>4, <2>5, <2>6, <2>7 DEF IInv
<1>10. CASE Finish
  <2>1. TypeOK'
    BY <1>10 DEF Finish, CloseComplete, IInv, TypeOK
  <2>2. StageInv' /\ HeldInv' /\ ExitedInv'
    BY <1>10 DEF Finish, CloseComplete, IInv, StageInv, HeldInv, ExitedInv
  <2>3. CountInv' /\ ServerInv' /\ CrashesExplained'
    BY <1>10
       DEF Finish, CloseComplete, IInv, StageInv, CountInv, ServerInv,
           CrashesExplained
  <2> QED
    BY <2>1, <2>2, <2>3 DEF IInv
<1> QED
  BY <1>1, <1>2, <1>3, <1>4, <1>5, <1>6, <1>7, <1>8, <1>9, <1>10 DEF Main

\* The steps of the two listeners.
LEMMA ListenersKeep ==
  ASSUME IInv, ~crashed, Listeners \/ StopSignaler
  PROVE  IInv'
<1>1. CASE AwaitShutdown
  <2>1. TypeOK'
    BY <1>1 DEF AwaitShutdown, Step, Cancelled, IInv, TypeOK
  <2>2. StageInv' /\ HeldInv' /\ ExitedInv'
    BY <1>1
       DEF AwaitShutdown, Step, Cancelled, IInv, StageInv, HeldInv, ExitedInv
  <2>3. CountInv' /\ ServerInv' /\ CrashesExplained'
    BY <1>1
       DEF AwaitShutdown, Step, Cancelled, IInv, CountInv, ServerInv,
           CrashesExplained
  <2> QED
    BY <2>1, <2>2, <2>3 DEF IInv
<1>2. CASE CancelShutdownCtx
  <2>1. TypeOK'
    BY <1>2 DEF CancelShutdownCtx, Step, IInv, TypeOK, HeldInv
  <2>2. StageInv' /\ HeldInv' /\ ExitedInv'
    BY <1>2 DEF CancelShutdownCtx, Step, IInv, StageInv, HeldInv, ExitedInv
  <2>3. CountInv' /\ ServerInv' /\ CrashesExplained'
    BY <1>2
       DEF CancelShutdownCtx, Step, IInv, CountInv, ServerInv, CrashesExplained
  <2> QED
    BY <2>1, <2>2, <2>3 DEF IInv
<1>3. CASE StopSignaler
  <2>1. TypeOK'
    BY <1>3 DEF StopSignaler, Order, IInv, TypeOK, StageInv
  <2>2. StageInv' /\ HeldInv' /\ ExitedInv'
    BY <1>3
       DEF StopSignaler, Order, IInv, TypeOK, StageInv, HeldInv, ExitedInv
  <2>3. CountInv' /\ ServerInv' /\ CrashesExplained'
    BY <1>3
       DEF StopSignaler, Order, IInv, CountInv, ServerInv, CrashesExplained
  <2> QED
    BY <2>1, <2>2, <2>3 DEF IInv
<1>4. ASSUME NEW g \in Listening, ListenerExits(g)
      PROVE  IInv'
  <2>1. TypeOK'
    BY <1>4 DEF ListenerExits, CountOut, IInv, TypeOK, HeldInv, ExitedInv
  <2>2. StageInv' /\ HeldInv' /\ ExitedInv'
    BY <1>4
       DEF ListenerExits, CountOut, IInv, TypeOK, StageInv, HeldInv, ExitedInv
  <2>3. CountInv' /\ ServerInv' /\ CrashesExplained'
    BY <1>4
       DEF ListenerExits, CountOut, IInv, TypeOK, HeldInv, ExitedInv, CountInv,
           ServerInv, CrashesExplained
  <2> QED
    BY <2>1, <2>2, <2>3 DEF IInv
<1> QED
  BY <1>1, <1>2, <1>3, <1>4 DEF Listeners

\* A routine that is at work for the services goes on with it: it reads
\* manager.sync, orders the shutdown, or looks at what it holds.
LEMMA WorkerMoves ==
  ASSUME IInv, ~crashed, NEW g \in Counted, NEW from, NEW to,
         from \notin {"none", "gone", "serving"}, to \in Places \ {"none", "gone"},
         Step(g, from, to) \/ Read(g, from, to) \/ Order(g, from, to),
         UNCHANGED <<shutdown, server>>
  PROVE  IInv'
<1>1. /\ place[g] = from /\ place' = [place EXCEPT ![g] = to]
      /\ UNCHANGED <<manager, current, resetting, listeners, shutdown, exited,
                     complete, main, timedOut, server, groupVars, nextVars, crashed>>
  BY DEF Step, Read, Order
<1>2. services' \in [Syncs -> BOOLEAN] /\ strayed' \in BOOLEAN
  <2>1. services \in [Syncs -> BOOLEAN] /\ strayed \in BOOLEAN
    BY DEF IInv, TypeOK
  <2>2. services' = services \/ \E k \in Reads : services' = [services EXCEPT ![k] = TRUE]
    BY DEF Step, Read, Order
  <2>3. strayed' = strayed \/ \E k \in Reads : strayed' = (strayed \/ k # 1)
    BY DEF Step, Read, Order
  <2>4. services' \in [Syncs -> BOOLEAN]
    BY <2>1, <2>2
  <2>5. strayed' \in BOOLEAN
    BY <2>1, <2>3
  <2> QED
    BY <2>4, <2>5
<1>3. held' \in [Routines -> 0..current] /\ \A r \in Listening : held'[r] = held[r]
  <2>1. CASE held' = held
    BY <2>1 DEF IInv, TypeOK
  <2>2. CASE Read(g, from, to)
    <3>1. PICK k \in Reads : held' = [held EXCEPT ![g] = k]
      BY <2>2 DEF Read
    <3> QED
      BY <3>1, ReadsHold DEF IInv, TypeOK
  <2> QED
    BY <2>1, <2>2 DEF Step, Order
<1>4. TypeOK'
  BY <1>1, <1>2, <1>3 DEF IInv, TypeOK
<1>5. /\ \A r \in Routines \ {g} : place'[r] = place[r]
      /\ place[g] = from /\ place'[g] = to
  BY <1>1 DEF IInv, TypeOK
<1>6. StageInv'
  BY <1>1, <1>5 DEF IInv, StageInv
<1>7. HeldInv' /\ ExitedInv' /\ CrashesExplained'
  BY <1>1, <1>3, <1>5 DEF IInv, HeldInv, ExitedInv, CrashesExplained
<1>8. CountInv' /\ ServerInv'
  BY <1>1, <1>5 DEF IInv, CountInv, ServerInv
<1> QED
  BY <1>4, <1>6, <1>7, <1>8 DEF IInv

\* The steps of the services, their server and what waits for them.
LEMMA WorkersKeep ==
  ASSUME IInv, ~crashed, Workers \/ ServiceReturns \/ ServeFails
  PROVE  IInv'
<1>1. CASE LaunchService \/ CallService \/ ServiceReturns \/ ServiceFailed
  <2>1. \E from \in {"working", "probed", "running", "failed"},
           to \in {"leaving", "probed", "running", "failed"} :
          \/ Step("generic", from, to)
          \/ Read("generic", from, to)
          \/ Order("generic", from, to)
    BY <1>1 DEF LaunchService, CallService, ServiceReturns, ServiceFailed
  <2>2. UNCHANGED <<shutdown, server>>
    BY <1>1
       DEF LaunchService, CallService, ServiceReturns, ServiceFailed, Read, Order
  <2> QED
    BY <2>1, <2>2, WorkerMoves
<1>2. CASE \/ Probe \/ ReadForRegister \/ RegisterServices \/ RegistrationFailed
           \/ MakeContext \/ CheckContext
  <2>1. \E from \in {"working", "probed", "registering", "failed", "registered",
                    "checking"},
           to \in {"leaving", "probed", "registering", "failed", "registered",
                   "entering", "attempt"} :
          \/ Step("grpc", from, to)
          \/ Read("grpc", from, to)
          \/ Order("grpc", from, to)
    BY <1>2
       DEF Probe, ReadForRegister, RegisterServices, RegistrationFailed,
           MakeContext, CheckContext
  <2>2. UNCHANGED <<shutdown, server>>
    BY <1>2
       DEF Probe, ReadForRegister, RegisterServices, RegistrationFailed,
           MakeContext, CheckContext, Read, Order
  <2> QED
    BY <2>1, <2>2, WorkerMoves
<1>3. CASE EnterListener
  <2>1. /\ place["grpc"] = "entering"
        /\ place' = [place EXCEPT !["grpc"] = "checking"]
        /\ UNCHANGED <<manager, current, resetting, contexts, exited, complete, main,
                       timedOut, held, server, groupVars, nextVars, crashed>>
    BY <1>3 DEF EnterListener
  <2>2. strayed' \in BOOLEAN
    BY <1>3 DEF EnterListener
  <2>3. TypeOK' /\ StageInv'
    BY <2>1, <2>2 DEF IInv, TypeOK, StageInv
  <2>4. HeldInv' /\ ExitedInv' /\ CrashesExplained'
    BY <2>1 DEF IInv, TypeOK, HeldInv, ExitedInv, CrashesExplained
  <2>5. CountInv' /\ ServerInv'
    BY <2>1 DEF IInv, TypeOK, CountInv, ServerInv
  <2> QED
    BY <2>3, <2>4, <2>5 DEF IInv
<1>4. CASE GetGrpcListener
  <2>1. TypeOK'
    BY <1>4 DEF GetGrpcListener, IInv, TypeOK
  <2>2. StageInv' /\ HeldInv' /\ ExitedInv' /\ CrashesExplained'
    BY <1>4
       DEF GetGrpcListener, IInv, TypeOK, StageInv, HeldInv, ExitedInv,
           CrashesExplained
  <2>3. CountInv' /\ ServerInv'
    BY <1>4 DEF GetGrpcListener, IInv, TypeOK, CountInv, ServerInv
  <2> QED
    BY <2>1, <2>2, <2>3 DEF IInv
<1>5. ASSUME NEW g \in Counted, RoutineExits(g)
      PROVE  IInv'
  <2>1. TypeOK'
    <3>1. count' \in -1..2 /\ {closed', crashed'} \subseteq BOOLEAN
      <4>1. count \in 0..2 /\ {closed, crashed} \subseteq BOOLEAN
        BY DEF IInv, TypeOK, CountInv
      <4>2. CASE UNCHANGED <<count, closed, crashed>>
        BY <4>1, <4>2
      <4>3. CASE count' = count - 1 /\ closed' = (count' = 0) /\ crashed' = (count' < 0)
        BY <4>1, <4>3
      <4> QED
        BY <1>5, <4>2, <4>3 DEF RoutineExits, DoneDelta
    <3> QED
      BY <1>5, <3>1 DEF RoutineExits, IInv, TypeOK
  <2>2. StageInv'
    BY <1>5 DEF RoutineExits, DoneDelta, IInv, TypeOK, StageInv
  <2>3. HeldInv'
    BY <1>5 DEF RoutineExits, DoneDelta, IInv, HeldInv
  <2>4. ExitedInv'
    BY <1>5 DEF RoutineExits, DoneDelta, IInv, ExitedInv
  <2>5. CountInv'
    <3>1. /\ place[g] = "leaving" /\ place' = [place EXCEPT ![g] = "gone"]
          /\ place \in [Routines -> Places]
          /\ UNCHANGED <<main, lost, timedOut>> /\ count \in -1..2
      BY <1>5 DEF RoutineExits, IInv, TypeOK
    <3>2. CASE UNCHANGED <<count, closed, crashed>>
      BY <3>1, <3>2 DEF IInv, CountInv
    <3>3. CASE /\ ~closed /\ count' = count - 1 /\ closed' = (count' = 0)
               /\ crashed' = (count' < 0)
      <4>1. (closed' <=> count' = 0) /\ (crashed' <=> count' < 0)
        BY <3>3
      <4>2. ~closed /\ count' = count - 1
        BY <3>3
      <4> QED
        BY <3>1, <4>1, <4>2 DEF IInv, CountInv
    <3> QED
      BY <1>5, <3>2, <3>3 DEF RoutineExits, DoneDelta
  <2>6. ServerInv'
    BY <1>5 DEF RoutineExits, DoneDelta, IInv, ServerInv
  <2>7. CrashesExplained'
    <3>1. /\ place[g] = "leaving" /\ place["generic"] # "none"
          /\ lost' = lost /\ count \in 0..2
      BY <1>5 DEF RoutineExits, IInv, TypeOK, CountInv
    <3>2. crashed' => ~closed /\ count = 0
      <4>1. CASE UNCHANGED crashed
        BY <4>1
      <4>2. CASE ~closed /\ count' = count - 1 /\ crashed' = (count' < 0)
        <5>1. crashed' <=> count' < 0
          BY <4>2
        <5> QED
          BY <3>1, <4>2, <5>1
      <4> QED
        BY <1>5, <4>1, <4>2 DEF RoutineExits, DoneDelta
    <3> QED
      BY <3>1, <3>2 DEF IInv, CountInv, CrashesExplained
  <2> QED
    BY <2>1, <2>2, <2>3, <2>4, <2>5, <2>6, <2>7 DEF IInv
<1>6. CASE EndServing
  <2>1. TypeOK'
    BY <1>6 DEF EndServing, Step, IInv, TypeOK
  <2>2. StageInv' /\ HeldInv' /\ ExitedInv'
    BY <1>6 DEF EndServing, Step, IInv, StageInv, HeldInv, ExitedInv
  <2>3. CountInv' /\ ServerInv' /\ CrashesExplained'
    BY <1>6 DEF EndServing, Step, IInv, CountInv, ServerInv, CrashesExplained
  <2> QED
    BY <2>1, <2>2, <2>3 DEF IInv
<1>7. CASE ServeFails
  <2>1. TypeOK'
    BY <1>7 DEF ServeFails, Step, IInv, TypeOK
  <2>2. StageInv' /\ HeldInv' /\ ExitedInv'
    BY <1>7 DEF ServeFails, Step, IInv, StageInv, HeldInv, ExitedInv
  <2>3. CountInv' /\ ServerInv' /\ CrashesExplained'
    BY <1>7 DEF ServeFails, Step, IInv, CountInv, ServerInv, CrashesExplained
  <2> QED
    BY <2>1, <2>2, <2>3 DEF IInv
<1>8. CASE GracefulStop
  <2>1. TypeOK'
    BY <1>8 DEF GracefulStop, Step, IInv, TypeOK
  <2>2. StageInv' /\ HeldInv' /\ ExitedInv'
    BY <1>8 DEF GracefulStop, Step, IInv, StageInv, HeldInv, ExitedInv
  <2>3. CountInv' /\ ServerInv' /\ CrashesExplained'
    BY <1>8
       DEF GracefulStop, Step, IInv, TypeOK, CountInv, ServerInv,
           CrashesExplained
  <2> QED
    BY <2>1, <2>2, <2>3 DEF IInv
<1>9. CASE ResourcesReleased
  <2>1. TypeOK'
    BY <1>9 DEF ResourcesReleased, Step, IInv, TypeOK
  <2>2. StageInv' /\ HeldInv' /\ ExitedInv'
    BY <1>9 DEF ResourcesReleased, Step, IInv, StageInv, HeldInv, ExitedInv
  <2>3. CountInv' /\ ServerInv' /\ CrashesExplained'
    BY <1>9
       DEF ResourcesReleased, Step, IInv, CountInv, ServerInv, CrashesExplained
  <2> QED
    BY <2>1, <2>2, <2>3 DEF IInv
<1> QED
  BY <1>1, <1>2, <1>3, <1>4, <1>5, <1>6, <1>7, <1>8, <1>9 DEF Workers

\* Reset, the next Run, the program, and a routine that begins.
LEMMA OthersKeep ==
  ASSUME IInv, ~crashed,
         \/ Reset \/ ResetReturns \/ StartShutdown
         \/ StartNext \/ NextListener \/ NextReturns
         \/ \E g \in Routines : Begin(g)
  PROVE  IInv'
<1>1. CASE Reset
  <2>1. TypeOK'
    BY <1>1 DEF Reset, IInv, TypeOK
  <2>2. StageInv' /\ HeldInv' /\ ExitedInv'
    BY <1>1 DEF Reset, IInv, StageInv, HeldInv, ExitedInv
  <2>3. CountInv' /\ ServerInv' /\ CrashesExplained'
    BY <1>1 DEF Reset, IInv, CountInv, ServerInv, CrashesExplained
  <2> QED
    BY <2>1, <2>2, <2>3 DEF IInv
<1>2. CASE ResetReturns
  <2>1. TypeOK'
    BY <1>2 DEF ResetReturns, IInv, TypeOK
  <2>2. StageInv' /\ HeldInv' /\ ExitedInv'
    BY <1>2 DEF ResetReturns, IInv, StageInv, HeldInv, ExitedInv
  <2>3. CountInv' /\ ServerInv' /\ CrashesExplained'
    BY <1>2 DEF ResetReturns, IInv, CountInv, ServerInv, CrashesExplained
  <2> QED
    BY <2>1, <2>2, <2>3 DEF IInv
<1>3. CASE StartShutdown
  <2>1. TypeOK'
    BY <1>3 DEF StartShutdown, IInv, TypeOK, StageInv
  <2>2. StageInv' /\ HeldInv' /\ ExitedInv'
    BY <1>3 DEF StartShutdown, IInv, StageInv, HeldInv, ExitedInv
  <2>3. CountInv' /\ ServerInv' /\ CrashesExplained'
    BY <1>3 DEF StartShutdown, IInv, CountInv, ServerInv, CrashesExplained
  <2> QED
    BY <2>1, <2>2, <2>3 DEF IInv
<1>4. CASE StartNext
  <2>1. TypeOK'
    BY <1>4 DEF StartNext, IInv, TypeOK, ExitedInv
  <2>2. StageInv' /\ HeldInv' /\ ExitedInv'
    BY <1>4 DEF StartNext, IInv, TypeOK, StageInv, HeldInv, ExitedInv
  <2>3. CountInv' /\ ServerInv' /\ CrashesExplained'
    BY <1>4 DEF StartNext, IInv, CountInv, ServerInv, CrashesExplained
  <2> QED
    BY <2>1, <2>2, <2>3 DEF IInv
<1>5. CASE NextListener
  <2>1. TypeOK'
    BY <1>5 DEF NextListener, CountOut, IInv, TypeOK, ExitedInv
  <2>2. StageInv'
    BY <1>5 DEF NextListener, CountOut, IInv, StageInv
  <2>3. HeldInv'
    BY <1>5 DEF NextListener, CountOut, IInv, HeldInv
  <2>4. ExitedInv'
    <3>1. /\ next # "idle" /\ nextOut < 2 /\ nextOut \in 0..2 /\ nextOut' = nextOut + 1
          /\ UNCHANGED <<place, held, next, current, main, timedOut>>
      BY <1>5 DEF NextListener, IInv, TypeOK
    <3>2. /\ exited' = [exited EXCEPT ![current] = @ - 1]
          /\ crashed' <=> exited[current] = 0
      BY <1>5 DEF NextListener, CountOut
    <3>3. CASE current = 1
      BY <3>1, <3>2, <3>3 DEF IInv, TypeOK, ExitedInv
    <3>4. CASE current = 2
      BY <3>1, <3>2, <3>4 DEF IInv, TypeOK, ExitedInv
    <3> QED
      BY <3>3, <3>4 DEF IInv, TypeOK
  <2>5. CountInv'
    BY <1>5 DEF NextListener, CountOut, IInv, CountInv
  <2>6. ServerInv'
    BY <1>5 DEF NextListener, CountOut, IInv, ServerInv
  <2>7. CrashesExplained'
    BY <1>5
       DEF NextListener, CountOut, IInv, TypeOK, ExitedInv, CrashesExplained
  <2> QED
    BY <2>1, <2>2, <2>3, <2>4, <2>5, <2>6, <2>7 DEF IInv
<1>6. CASE NextReturns
  <2>1. TypeOK'
    BY <1>6 DEF NextReturns, NoListeners, CloseComplete, IInv, TypeOK
  <2>2. StageInv' /\ HeldInv' /\ ExitedInv'
    BY <1>6
       DEF NextReturns, NoListeners, CloseComplete, IInv, StageInv, HeldInv,
           ExitedInv
  <2>3. CountInv' /\ ServerInv' /\ CrashesExplained'
    BY <1>6
       DEF NextReturns, NoListeners, CloseComplete, IInv, TypeOK, StageInv,
           CountInv, ServerInv, CrashesExplained
  <2> QED
    BY <2>1, <2>2, <2>3 DEF IInv
<1>7. ASSUME NEW g \in Routines, Begin(g)
      PROVE  IInv'
  <2>1. PICK k \in {1, 2} : k <= current /\ held' = [held EXCEPT ![g] = k]
    BY <1>7, ReadsHold DEF Begin, Read
  <2>2. /\ place[g] = "begin" /\ place' = [place EXCEPT ![g] = "working"]
        /\ UNCHANGED <<managerVars, contexts, waitVars, main, timedOut, server,
                       groupVars, nextVars, crashed>>
        /\ strayed' \in BOOLEAN
    BY <1>7 DEF Begin, Read
  <2>3. /\ held' \in [Routines -> 0..current] /\ place' \in [Routines -> Places]
        /\ \A r \in Routines \ {g} : place'[r] = place[r] /\ held'[r] = held[r]
        /\ place'[g] = "working" /\ held'[g] = k
    BY <2>1, <2>2 DEF IInv, TypeOK
  <2>4. TypeOK'
    BY <2>2, <2>3 DEF IInv, TypeOK
  <2>5. StageInv' /\ HeldInv'
    BY <2>2, <2>3 DEF IInv, StageInv, HeldInv
  <2>6. ExitedInv'
    <3>1. Intruded' <=> Intruded
      BY <2>2, <2>3
    <3>2. \A r \in Listening : Waited(r)' <= Waited(r)
      BY <2>2, <2>3 DEF IInv, HeldInv
    <3>3. \A r \in Listening : place[r] = "gone" => place'[r] = "gone"
      BY <2>2, <2>3
    <3>4. /\ Waited("timeouter")' <= Waited("timeouter") /\ Waited("timeouter") \in Int
          /\ Waited("signaler")' <= Waited("signaler") /\ Waited("signaler") \in Int
          /\ Waited("timeouter")' \in Int /\ Waited("signaler")' \in Int
          /\ exited[1] \in Int
      BY <3>2 DEF IInv, TypeOK
    <3> HIDE DEF Waited, Intruded
    <3> QED
      BY <2>2, <3>1, <3>3, <3>4 DEF IInv, ExitedInv
  <2>7. CountInv' /\ ServerInv'
    BY <2>2, <2>3 DEF IInv, CountInv, ServerInv
  <2>8. CrashesExplained'
    BY <2>2 DEF IInv, CrashesExplained
  <2> QED
    BY <2>4, <2>5, <2>6, <2>7, <2>8 DEF IInv
<1> QED
  BY <1>1, <1>2, <1>3, <1>4, <1>5, <1>6, <1>7

\* Every step keeps the invariant.
LEMMA IInvStep == IInv /\ [Next]_vars => IInv'
<1> SUFFICES ASSUME IInv, [Next]_vars PROVE IInv'
  OBVIOUS
<1>1. CASE UNCHANGED vars
  BY <1>1
     DEF vars, IInv, TypeOK, StageInv, HeldInv, ExitedInv, CountInv, ServerInv,
         CrashesExplained, LeavesBehind
<1>2. CASE Next
  BY <1>2, MainKeeps, ListenersKeep, WorkersKeep, OthersKeep DEF Next
<1> QED
  BY <1>1, <1>2

\* The stages of the first run, what its routines hold, its counters and the
\* panics agree in every reachable state (manager.go, lines 262-573).
THEOREM Invariance == Spec => []IInv
  BY IInvInit, IInvStep, PTL DEF Spec

\* The types; in particular the counters of both wait groups stay in their
\* bounds, although a routine may count itself out of the other run's.
THEOREM TypeCorrect == Spec => []TypeOK
<1>1. IInv => TypeOK
  BY DEF IInv
<1> QED
  BY <1>1, Invariance, PTL

\* The manager panics only when Run is called again without Reset, when a listener
\* left behind has counted itself out of the next run, or when the generic routine
\* was not counted (lines 328, 444, 451 and 551).
THEOREM PanicsExplained == Spec => []CrashesExplained
<1>1. IInv => CrashesExplained
  BY DEF IInv
<1> QED
  BY <1>1, Invariance, PTL

-----------------------------------------------------------------------------
(* Isolation.                                                              *)

\* After a run that has returned and left nothing behind, no routine of it is
\* at work that would read manager.sync again.
LEMMA QuietAfterRun ==
  ASSUME IInv, main = "returned", ~LeavesBehind, NEW g \in Routines
  PROVE  ~Alive(g)
<1>1. ~timedOut /\ lost = {} /\ server # "failed"
  BY DEF LeavesBehind
<1>2. \A r \in Listening : ~Alive(r)
  BY <1>1 DEF IInv, ExitedInv
<1>3. ~Alive("generic") /\ ~Alive("grpc")
  BY <1>1 DEF IInv, CountInv
<1>4. ~Alive("monitor") /\ ~Alive("releaser")
  BY <1>1, <1>3 DEF IInv, ServerInv
<1> QED
  BY <1>2, <1>3, <1>4

\* A routine strays only when it is at work after the first run has returned: it
\* reads the second incarnation, which there is from then on.
LEMMA StraysAtWork ==
  ASSUME IInv, Next, ~strayed, strayed'
  PROVE  main = "returned" /\ \E g \in Routines : Alive(g)
<1> DEFINE Goal == main = "returned" /\ \E g \in Routines : Alive(g)
<1>1. ASSUME NEW g \in Routines, Alive(g), NEW k \in Reads, Use(k)
      PROVE  Goal
  <2>1. k = 2
    BY <1>1, ReadsHold
  <2>2. current = 2
    BY <1>1, <2>1 DEF IInv, TypeOK
  <2> QED
    BY <1>1, <2>2 DEF IInv, StageInv
<1> SUFFICES Goal
  OBVIOUS
<1> HIDE DEF Goal
<1>2. ASSUME NEW g \in Routines, NEW from, NEW to, Read(g, from, to),
             from \notin {"none", "gone"}
      PROVE  Goal
  BY <1>1, <1>2 DEF Read
<1>3. ASSUME NEW g \in Routines, NEW from, NEW to, Order(g, from, to),
             from \in {"working", "failed"}
      PROVE  Goal
  BY <1>1, <1>3 DEF Order
<1>4. ASSUME NEW g \in Routines, Begin(g)
      PROVE  Goal
  BY <1>2, <1>4 DEF Begin
<1>5. CASE EnterListener
  <2>1. PICK k \in Reads : Use(k)
    BY <1>5 DEF EnterListener
  <2>2. "grpc" \in Routines /\ Alive("grpc")
    BY <1>5 DEF EnterListener
  <2> QED
    BY <1>1, <2>1, <2>2
<1>6. CASE StartRun \/ Main
  BY <1>6
     DEF StartRun, Main, SetupServices, AddRoutine, EndWait, ReleaseResources,
         CancelListeners, ShutdownTimesOut, ListenersExited, Finish
<1>7. CASE Reset \/ ResetReturns \/ StartShutdown
  BY <1>7 DEF Reset, ResetReturns, StartShutdown
<1>8. CASE StartNext \/ NextListener \/ NextReturns
  BY <1>8 DEF StartNext, NextListener, NextReturns
<1>9. ASSUME NEW g, NEW from, NEW to, Step(g, from, to)
      PROVE  Goal
  BY <1>9 DEF Step
<1>10. ASSUME NEW g, ListenerExits(g) \/ RoutineExits(g)
       PROVE  Goal
  BY <1>10 DEF ListenerExits, RoutineExits
<1>11. CASE Listeners \/ StopSignaler
  <2>1. CASE AwaitShutdown \/ CancelShutdownCtx
    BY <1>9, <2>1 DEF AwaitShutdown, CancelShutdownCtx
  <2>2. CASE StopSignaler
    <3>1. "signaler" \in Routines /\ Order("signaler", "working", "leaving")
      BY <2>2 DEF StopSignaler
    <3> QED
      BY <1>3, <3>1
  <2>3. CASE \E g \in Listening : ListenerExits(g)
    BY <1>10, <2>3
  <2> QED
    BY <1>11, <2>1, <2>2, <2>3 DEF Listeners
<1>12. CASE Workers \/ ServiceReturns \/ ServeFails
  <2>1. CASE \/ LaunchService \/ Probe \/ RegisterServices \/ CheckContext
             \/ EndServing \/ GracefulStop \/ ResourcesReleased
    BY <1>9, <2>1
       DEF LaunchService, Probe, RegisterServices, CheckContext, EndServing,
           GracefulStop, ResourcesReleased
  <2>2. CASE ServiceReturns \/ ServeFails
    BY <1>9, <2>2 DEF ServiceReturns, ServeFails
  <2>3. CASE CallService \/ ReadForRegister \/ MakeContext
    <3>1. \E g \in Routines, from \in {"probed", "registered"}, to \in Places :
            Read(g, from, to)
      BY <2>3 DEF CallService, ReadForRegister, MakeContext
    <3> QED
      BY <1>2, <3>1
  <2>4. CASE ServiceFailed \/ RegistrationFailed
    <3>1. \E g \in Routines, to \in Places : Order(g, "failed", to)
      BY <2>4 DEF ServiceFailed, RegistrationFailed
    <3> QED
      BY <1>3, <3>1
  <2>5. CASE GetGrpcListener
    BY <2>5 DEF GetGrpcListener
  <2>6. CASE \E g \in Counted : RoutineExits(g)
    BY <1>10, <2>6
  <2> QED
    BY <1>5, <1>12, <2>1, <2>2, <2>3, <2>4, <2>5, <2>6 DEF Workers
<1> QED
  <2>1. \/ StartRun \/ Main
        \/ Reset \/ ResetReturns \/ StartShutdown
        \/ StartNext \/ NextListener \/ NextReturns
        \/ Listeners \/ StopSignaler
        \/ Workers \/ ServiceReturns \/ ServeFails
        \/ \E g \in Routines : Begin(g)
    BY DEF Next
  <2> QED
    BY <1>4, <1>6, <1>7, <1>8, <1>11, <1>12, <2>1

\* After a run that left nothing behind no routine of it reads, cancels or waits
\* for something that Reset made for the next one (line 465), with any managers.
THEOREM Isolation == Spec => Isolated
<1>1. IInv /\ [Next]_vars => [~strayed /\ strayed' => LeavesBehind]_vars
  BY StraysAtWork, QuietAfterRun
<1> QED
  BY <1>1, Invariance, PTL DEF Spec, Isolated
=============================================================================
