----------------------------- MODULE ManagerSuite -----------------------------
(***************************************************************************)
(* Test suites that each run a manager: pktesting.ManagerSuite             *)
(* (src/pktesting/managerSuite.go), ManagerTesting.PingGrpcServer          *)
(* (src/pkservices/managerTester.go) and pkclients.WaitForGrpcServer       *)
(* (src/pkclients/waitForGrpcServer.go), composed with the managers, of    *)
(* which ManagerLifecycle says what they promise.                          *)
(*                                                                         *)
(* The suites of a package run one after the other and share the address   *)
(* of the gRPC server, which is what ManagerOpts gives them by default.    *)
(***************************************************************************)
EXTENDS Naturals

CONSTANTS NumSuites,   \* the suites, in the order of their test functions
          WithGrpc,    \* those whose manager has gRPC services
          Cancellable  \* those that ping with a context of their own

ASSUME SuiteAssumption ==
  /\ NumSuites \in Nat
  /\ WithGrpc \subseteq 1..NumSuites
  /\ Cancellable \subseteq WithGrpc

Suites == 1..NumSuites

VARIABLES run, ordered, listen, server, counted,  \* of ManagerLifecycle
          test,      \* suite -> where its test function is
          ctx,       \* suite -> the context given to PingGrpcServer
          innerUp,   \* suite -> calls of SetupSuite of the inner suite
          innerDown, \* suite -> calls of TearDownSuite of the inner suite
          runner,    \* suite -> where the goroutine that calls Run is
          binary     \* the process that runs the tests

managerVars == <<run, ordered, listen, server, counted>>
innerVars == <<innerUp, innerDown>>
vars == <<managerVars, innerVars, test, ctx, runner, binary>>

Life == INSTANCE ManagerLifecycle WITH Managers <- Suites

TypeOK ==
  /\ Life!LifecycleTypeOK
  /\ test \in [Suites -> {"idle", "select", "probe", "inner", "tests", "wait",
                          "teardown", "ended", "aborted"}]
  /\ ctx \in [Suites -> {"live", "expired", "cancelled"}]
  /\ {innerUp, innerDown} \subseteq [Suites -> 0..1]
  /\ runner \in [Suites -> {"none", "running", "asserted"}]
  /\ binary \in {"running", "panicked", "exited"}

Init ==
  /\ Life!Init
  /\ test = [s \in Suites |-> "idle"]
  /\ ctx = [s \in Suites |-> "live"]
  /\ innerUp = [s \in Suites |-> 0]
  /\ innerDown = [s \in Suites |-> 0]
  /\ runner = [s \in Suites |-> "none"]
  /\ binary = "running"

\* The test function has returned, or FailNow has ended its goroutine.
Over(s) == test[s] \in {"ended", "aborted"}

Goto(s, place) == test' = [test EXCEPT ![s] = place]

-----------------------------------------------------------------------------
(* SetupSuite.                                                             *)

\* Run is called in a goroutine; a suite without gRPC services returns before
\* it has set up its inner suite.
SetupSuite(s) ==
  /\ test[s] = "idle"
  /\ \A earlier \in 1..(s - 1) : Over(earlier)
  /\ runner' = [runner EXCEPT ![s] = "running"]
  /\ Goto(s, IF s \in WithGrpc THEN "select" ELSE "tests")
  /\ UNCHANGED <<managerVars, innerVars, ctx, binary>>

otherThanPing == <<managerVars, innerVars, runner, binary>>

\* The first select of PingGrpcServer: grpcListenCtx is cancelled once the
\* listen has succeeded or failed; with servicesCtx the assertion fails and the
\* test goes on; the timer of three seconds may fire at any time, and FailNow runs
\* the deferred cancel of SetupSuite.
EndSelect(s) ==
  /\ test[s] = "select"
  /\ \/ (Life!Listened(s) \/ ordered[s]) /\ Goto(s, "probe") /\ UNCHANGED ctx
     \/ Goto(s, "aborted") /\ ctx' = [ctx EXCEPT ![s] = "cancelled"]
  /\ UNCHANGED otherThanPing

\* The context of the pings ends: by its deadline, or by its owner.
EndCtx(s, how) ==
  /\ test[s] = "probe"
  /\ ctx[s] = "live"
  /\ how = "cancelled" => s \in Cancellable
  /\ ctx' = [ctx EXCEPT ![s] = how]
  /\ UNCHANGED <<otherThanPing, test>>

-----------------------------------------------------------------------------
(* WaitForGrpcServer.                                                      *)

\* What an RPC on the shared address returns: the answer of a handler, whose
\* status may be any; an error of the connection; or that of the context, as a
\* status of grpc or as it is.  A listener that is not served yet lets the RPC
\* wait.
Answers == {"ok", "apiError", "unimplemented", "notFound", "deadline"}
ConnErrors == {"unavailable", "notStatus"}

Answering == {m \in Suites : server[m] \in {"up", "failed"}}

Refused == \A m \in Suites : ~Life!Holds(m)

CtxErrors(s) ==
  CASE ctx[s] = "live" -> {}
    [] ctx[s] = "expired" -> {"deadline", "rawDeadline"}
    [] ctx[s] = "cancelled" -> {"canceled", "rawCanceled"}

Replies(s) ==
  CtxErrors(s) \cup (IF Answering # {} THEN Answers ELSE {})
               \cup (IF Refused THEN ConnErrors ELSE {})

\* Mutation of Retried: a refused connection counts as an answer.
RetriedMutant == {"notStatus", "notFound"}

\* Mutation of Retried: the loop does not end with its context.
RetriedForeverMutant ==
  {"notStatus", "notFound", "unavailable", "deadline", "rawDeadline"}

\* The errors after which retryPing asks to be called again...
Retried == {"notStatus", "notFound", "unavailable"}

\* ... and those that it returns.  After any other, as after none, the server
\* counts as up.
GivenUp == {"rawDeadline", "rawCanceled", "deadline"}

\* One turn of the loop, with the result of the RPC.  The context is cancelled
\* when SetupSuite is done with it.
Ping(s, r) ==
  /\ test[s] = "probe"
  /\ IF r \in Retried THEN UNCHANGED <<test, ctx>>
     ELSE /\ Goto(s, IF r \in GivenUp THEN "aborted" ELSE "inner")
          /\ ctx' = [ctx EXCEPT ![s] = "cancelled"]
  /\ UNCHANGED otherThanPing

PingEnds(s) == \E r \in CtxErrors(s) : Ping(s, r)

PingReturns(s) == \E r \in Replies(s) : Ping(s, r)

-----------------------------------------------------------------------------
(* The inner suite, the tests, and TearDownSuite, which is not called when  *)
(* SetupSuite did not return.                                              *)

\* Mutation of SetupInner: a setup that fails is tried again.
SetupInnerMutant(s) ==
  /\ test[s] = "inner"
  /\ innerUp' = [innerUp EXCEPT ![s] = @ + 1]
  /\ Goto(s, "tests") \/ UNCHANGED test
  /\ UNCHANGED <<managerVars, innerDown, ctx, runner, binary>>

SetupInner(s) ==
  /\ test[s] = "inner"
  /\ innerUp' = [innerUp EXCEPT ![s] = @ + 1]
  /\ Goto(s, "tests") \/ Goto(s, "aborted")
  /\ UNCHANGED <<managerVars, innerDown, ctx, runner, binary>>

TearDownSuite(s) ==
  /\ test[s] = "tests"
  /\ Life!Order(s)
  /\ Goto(s, "wait")
  /\ UNCHANGED <<innerVars, ctx, runner, binary>>

\* Mutation of ShutdownComplete: TearDownSuite does not wait.
ShutdownCompleteMutant(s) == TRUE

\* What WaitForShutdown waits for.
ShutdownComplete(s) == run[s] \in Life!Results

WaitForShutdown(s) ==
  /\ test[s] = "wait"
  /\ ShutdownComplete(s)
  /\ Goto(s, "teardown")
  /\ UNCHANGED <<managerVars, innerVars, ctx, runner, binary>>

TearDownInner(s) ==
  /\ test[s] = "teardown"
  /\ innerDown' = [innerDown EXCEPT ![s] = @ + 1]
  /\ Goto(s, "ended")
  /\ UNCHANGED <<managerVars, innerUp, ctx, runner, binary>>

TestFunction(s) ==
  \/ SetupSuite(s) \/ EndSelect(s) \/ PingReturns(s) \/ SetupInner(s)
  \/ TearDownSuite(s) \/ WaitForShutdown(s) \/ TearDownInner(s)

-----------------------------------------------------------------------------
(* The goroutine that calls Run, the managers, and the process.            *)

otherThanManagers == <<innerVars, test, ctx, runner, binary>>

\* m.NoError(err): to fail a test that is over is a panic of the testing
\* package.
AssertRun(s) ==
  /\ runner[s] = "running"
  /\ run[s] \in Life!Results
  /\ runner' = [runner EXCEPT ![s] = "asserted"]
  /\ binary' = IF run[s] = "error" /\ Over(s) THEN "panicked" ELSE binary
  /\ UNCHANGED <<managerVars, innerVars, test, ctx>>

Runner(s) ==
  \/ runner[s] = "running" /\ Life!Start(s) /\ UNCHANGED otherThanManagers
  \/ AssertRun(s)

ReturnOnOrder(s) ==
  /\ ordered[s]
  /\ \E result \in Life!Results : Life!Return(s, result)
  /\ UNCHANGED otherThanManagers

\* A manager also ends by itself, or by a signal.
ManagerMoves(s) ==
  /\ \/ s \in WithGrpc /\ Life!ManagerStep(s)
     \/ run[s] = "running" /\ ~ordered[s] /\ Life!Order(s)
  /\ UNCHANGED otherThanManagers

\* The process exits when all test functions have returned.
Exit ==
  /\ \A s \in Suites : Over(s)
  /\ binary' = "exited"
  /\ UNCHANGED <<managerVars, innerVars, test, ctx, runner>>

Next ==
  /\ binary = "running"
  /\ \/ Exit
     \/ \E s \in Suites :
          \/ TestFunction(s) \/ Runner(s) \/ ReturnOnOrder(s) \/ ManagerMoves(s)
          \/ \E how \in {"expired", "cancelled"} : EndCtx(s, how)

Spec == Init /\ [][Next]_vars

Alive == binary = "running"

\* The goroutines run when they can, a run that was ordered to shut down
\* returns (ShutdownTerminates of Manager), and the context of the pings ends.
\* A connection refused may hide the end of the context from an RPC, but not for
\* ever: the channel connects anew after a pause, and the RPC waits for that.
Fairness ==
  /\ WF_vars(Alive /\ Exit)
  /\ \A s \in Suites :
       /\ WF_vars(Alive /\ TestFunction(s))
       /\ WF_vars(Alive /\ Runner(s))
       /\ WF_vars(Alive /\ ReturnOnOrder(s))
       /\ WF_vars(Alive /\ EndCtx(s, "expired"))
       /\ WF_vars(Alive /\ PingEnds(s))

FairSpec == Spec /\ Fairness

-----------------------------------------------------------------------------
(* What must hold.                                                         *)

\* A manager that nobody shut down, or whose shutdown did not take its gRPC
\* server along.
LeftBehind(m) == test[m] = "aborted" \/ run[m] = "error" \/ ~counted[m]

\* "If this method returns, the server is up an running" (lines 111-115 of
\* managerTester.go): some server answers, and it is the manager's
\* own unless an earlier suite left one behind on the address.  A context that is
\* cancelled, not expired, counts as an answer (lines 27-60 of
\* waitForGrpcServer.go).
PingMeansServed == [][\A s \in Suites :
  test[s] = "probe" /\ test'[s] = "inner" =>
    \/ \E m \in Answering : m = s \/ LeftBehind(m)
    \/ ctx[s] = "cancelled"]_vars

\* A suite that was torn down has nothing left at work on the address, unless
\* Run returned an error or did not count the gRPC routine (as it may with any
\* manager without generic services): so a suite that begins finds the address
\* taken by no earlier one but those left behind.  TearDownSuite waits for the
\* return of Run, and for nothing else (lines 59-65 of managerSuite.go).
TornDown == \A s \in Suites :
  /\ test[s] \in {"teardown", "ended"} =>
       Life!Silent(s) \/ run[s] = "error" \/ ~counted[s]
  /\ test[s] # "idle" =>
       \A earlier \in 1..(s - 1) : Life!Holds(earlier) => LeftBehind(earlier)

\* Every test function returns: the pings end with their context, and
\* WaitForShutdown ends although Run may not have begun when the shutdown is
\* ordered (lines 59-64).
SuitesEnd == <>(binary # "running")
=============================================================================
