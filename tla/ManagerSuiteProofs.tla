-------------------------- MODULE ManagerSuiteProofs --------------------------
(***************************************************************************)
(* Proofs about ManagerSuite, for any number of suites: the inductive      *)
(* invariant, what a ping shows, and what a suite that ended has stopped.  *)
(***************************************************************************)
EXTENDS ManagerSuite, TLAPS

\* The suites run one after the other, and only a suite that was begun runs its
\* manager.
OrderInv == \A s \in Suites :
  /\ test[s] # "idle" => \A earlier \in 1..(s - 1) : Over(earlier)
  /\ test[s] = "idle" => runner[s] = "none"
  /\ runner[s] = "none" => run[s] = "idle"
  /\ run[s] = "idle" => listen[s] = "none" /\ server[s] = "down"

\* A suite that ended has waited for its manager.
WaitInv == \A s \in Suites :
  test[s] \in {"teardown", "ended"} => run[s] \in Life!Results

\* A run that returned nil, and waited for its gRPC routine, has left nothing of
\* it behind, and nothing of it comes back.
SilentInv == \A s \in Suites :
  run[s] = "nil" /\ counted[s] => Life!Silent(s)

\* The inner suite is set up and torn down once.
InnerInv == \A s \in Suites :
  /\ test[s] \in {"idle", "select", "probe", "inner"} => innerUp[s] = 0
  /\ test[s] # "ended" => innerDown[s] = 0

IInv == TypeOK /\ OrderInv /\ WaitInv /\ SilentInv /\ InnerInv

-----------------------------------------------------------------------------
(* The invariant.                                                          *)

LEMMA IInvInit == Init => IInv
  BY DEF Init, IInv, TypeOK, OrderInv, WaitInv, SilentInv, InnerInv, Over,
     Life!Init, Life!LifecycleTypeOK, Life!Silent, Life!Results

Places == {"select", "probe", "inner", "tests", "wait", "teardown", "ended", "aborted"}

\* A test function that has begun moves on, and leaves its manager alone.
LEMMA MoveKeeps ==
  ASSUME IInv, NEW s \in Suites, NEW place \in Places, test[s] # "idle", ~Over(s),
         Goto(s, place), UNCHANGED <<run, listen, server, counted, runner>>,
         place \in {"teardown", "ended"} => run[s] \in Life!Results
  PROVE  OrderInv' /\ WaitInv' /\ SilentInv'
<1> USE DEF IInv, TypeOK, Goto, Over
<1>1. NumSuites \in Nat /\ Suites = 1..NumSuites
  BY SuiteAssumption DEF Suites
<1>2. test'[s] = place /\ place # "idle"
  BY DEF Places
<1>3. \A t \in Suites : t # s => test'[t] = test[t]
  OBVIOUS
<1>4. \A t \in Suites : Over(t) => Over(t)'
  BY <1>3
<1>5. \A t \in Suites : \A e \in 1..(t - 1) : e \in Suites
  BY <1>1
<1>6. OrderInv'
  BY <1>2, <1>3, <1>4, <1>5 DEF OrderInv
<1>7. WaitInv'
  BY <1>2, <1>3 DEF WaitInv
<1>8. SilentInv'
  BY DEF SilentInv, Life!Silent
<1> QED
  BY <1>6, <1>7, <1>8

\* The test functions.
LEMMA TestFunctionKeeps ==
  ASSUME IInv, NEW s \in Suites, TestFunction(s)
  PROVE  IInv'
<1> USE DEF IInv, TypeOK, Goto, Over, Life!LifecycleTypeOK, managerVars, innerVars
<1>1. CASE SetupSuite(s)
  <2>1. NumSuites \in Nat /\ Suites = 1..NumSuites
    BY SuiteAssumption DEF Suites
  <2>2. /\ UNCHANGED <<managerVars, innerVars, ctx, binary>>
        /\ test[s] = "idle" /\ \A earlier \in 1..(s - 1) : Over(earlier)
        /\ runner' = [runner EXCEPT ![s] = "running"]
        /\ \/ test' = [test EXCEPT ![s] = "select"]
           \/ test' = [test EXCEPT ![s] = "tests"]
    BY <1>1 DEF SetupSuite
  <2>3. \A t \in Suites : t # s => test'[t] = test[t] /\ runner'[t] = runner[t]
    BY <2>2
  <2>4. test'[s] \in {"select", "tests"} /\ runner'[s] = "running"
    BY <2>2
  <2>5. \A t \in Suites : Over(t) => t # s /\ Over(t)'
    BY <2>2, <2>3
  <2>6. TypeOK'
    BY <2>2
  <2>7. OrderInv'
    <3>1. \A t \in Suites : \A e \in 1..(t - 1) : e \in Suites
      BY <2>1
    <3> QED
      BY <2>2, <2>3, <2>4, <2>5, <3>1 DEF OrderInv
  <2>8. WaitInv' /\ SilentInv' /\ InnerInv'
    BY <2>2, <2>3, <2>4 DEF WaitInv, SilentInv, InnerInv, Life!Silent
  <2> QED
    BY <2>6, <2>7, <2>8
<1>2. CASE EndSelect(s)
  <2>1. PICK place \in {"probe", "aborted"} : Goto(s, place)
    BY <1>2 DEF EndSelect
  <2>2. test[s] = "select" /\ UNCHANGED <<managerVars, innerVars, runner, binary>>
    BY <1>2 DEF EndSelect, otherThanPing
  <2>3. ctx' = ctx \/ ctx' = [ctx EXCEPT ![s] = "cancelled"]
    BY <1>2 DEF EndSelect
  <2>4. OrderInv' /\ WaitInv' /\ SilentInv'
    BY <2>1, <2>2, MoveKeeps DEF Places
  <2> QED
    BY <2>1, <2>2, <2>3, <2>4 DEF InnerInv
<1>3. CASE PingReturns(s)
  <2>1. PICK r \in Replies(s) : Ping(s, r)
    BY <1>3 DEF PingReturns
  <2>2. test[s] = "probe" /\ UNCHANGED <<managerVars, innerVars, runner, binary>>
    BY <2>1 DEF Ping, otherThanPing
  <2>3. CASE r \in Retried
    <3>1. UNCHANGED <<test, ctx>>
      BY <2>1, <2>3 DEF Ping
    <3> QED
      BY <2>2, <3>1 DEF OrderInv, WaitInv, SilentInv, InnerInv, Life!Silent
  <2>4. CASE r \notin Retried
    <3>1. PICK place \in {"inner", "aborted"} : Goto(s, place)
      BY <2>1, <2>4 DEF Ping
    <3>2. ctx' = [ctx EXCEPT ![s] = "cancelled"]
      BY <2>1, <2>4 DEF Ping
    <3>3. OrderInv' /\ WaitInv' /\ SilentInv'
      BY <2>2, <3>1, MoveKeeps DEF Places
    <3> QED
      BY <2>2, <3>1, <3>2, <3>3 DEF InnerInv
  <2> QED
    BY <2>3, <2>4
<1>4. CASE SetupInner(s)
  <2>1. PICK place \in {"tests", "aborted"} : Goto(s, place)
    BY <1>4 DEF SetupInner
  <2>2. /\ test[s] = "inner" /\ UNCHANGED <<managerVars, innerDown, ctx, runner, binary>>
        /\ innerUp' = [innerUp EXCEPT ![s] = @ + 1]
    BY <1>4 DEF SetupInner
  <2>3. OrderInv' /\ WaitInv' /\ SilentInv'
    BY <2>1, <2>2, MoveKeeps DEF Places
  <2>4. innerUp[s] = 0
    BY <2>2 DEF InnerInv
  <2>5. innerUp' \in [Suites -> 0..1]
    BY <2>2, <2>4
  <2> QED
    BY <2>1, <2>2, <2>3, <2>5 DEF InnerInv
<1>5. CASE TearDownSuite(s)
  <2>1. /\ test[s] = "tests" /\ Goto(s, "wait")
        /\ ordered' = [ordered EXCEPT ![s] = TRUE]
        /\ UNCHANGED <<run, listen, server, counted, innerVars, ctx, runner, binary>>
    BY <1>5 DEF TearDownSuite, Life!Order
  <2>2. OrderInv' /\ WaitInv' /\ SilentInv'
    BY <2>1, MoveKeeps DEF Places
  <2> QED
    BY <2>1, <2>2 DEF InnerInv
<1>6. CASE WaitForShutdown(s)
  <2>1. /\ test[s] = "wait" /\ Goto(s, "teardown") /\ run[s] \in Life!Results
        /\ UNCHANGED <<managerVars, innerVars, ctx, runner, binary>>
    BY <1>6 DEF WaitForShutdown, ShutdownComplete
  <2>2. OrderInv' /\ WaitInv' /\ SilentInv'
    BY <2>1, MoveKeeps DEF Places
  <2> QED
    BY <2>1, <2>2 DEF InnerInv
<1>7. CASE TearDownInner(s)
  <2>1. /\ test[s] = "teardown" /\ Goto(s, "ended")
        /\ innerDown' = [innerDown EXCEPT ![s] = @ + 1]
        /\ UNCHANGED <<managerVars, innerUp, ctx, runner, binary>>
    BY <1>7 DEF TearDownInner
  <2>2. OrderInv' /\ WaitInv' /\ SilentInv'
    BY <2>1, MoveKeeps DEF Places, WaitInv
  <2>3. innerDown[s] = 0
    BY <2>1 DEF InnerInv
  <2>4. innerDown' \in [Suites -> 0..1]
    BY <2>1, <2>3
  <2> QED
    BY <2>1, <2>2, <2>4 DEF InnerInv
<1> QED
  BY <1>1, <1>2, <1>3, <1>4, <1>5, <1>6, <1>7 DEF TestFunction

\* A step of a manager that has begun keeps what holds of its run; that of one
\* that has not changes no more than that a shutdown is ordered.
LEMMA ManagerKeeps ==
  ASSUME IInv, NEW s \in Suites, Life!ManagerStep(s) \/ Life!Order(s),
         UNCHANGED <<innerVars, test, ctx, runner, binary>>
  PROVE  IInv'
<1> USE DEF IInv, TypeOK, Over, Life!LifecycleTypeOK, innerVars, Life!Results
<1>1. /\ run' = run
      /\ \A t \in Suites : t # s =>
           listen'[t] = listen[t] /\ server'[t] = server[t] /\ counted'[t] = counted[t]
      /\ Life!LifecycleTypeOK'
  <2>1. CASE Life!Order(s) \/ Life!Uncount(s)
    BY <2>1 DEF Life!Order, Life!Uncount
  <2>2. CASE Life!TryListen(s) \/ Life!Bind(s) \/ Life!FailListen(s)
    BY <2>2 DEF Life!TryListen, Life!Bind, Life!FailListen
  <2>3. CASE Life!Serve(s) \/ Life!Break(s) \/ Life!Drain(s) \/ Life!Stop(s)
    <3>1. \E to \in {"up", "failed", "draining", "stopped"} :
            server' = [server EXCEPT ![s] = to]
      BY <2>3
         DEF Life!Serve, Life!Break, Life!Drain, Life!Stop, Life!ServerStep
    <3>2. UNCHANGED <<run, ordered, listen, counted>>
      BY <2>3
         DEF Life!Serve, Life!Break, Life!Drain, Life!Stop, Life!ServerStep
    <3> QED
      BY <3>1, <3>2
  <2> QED
    BY <2>1, <2>2, <2>3 DEF Life!ManagerStep
<1>2. run[s] = "idle" => listen'[s] = "none" /\ server'[s] = "down"
  BY DEF Life!ManagerStep, Life!Order, Life!TryListen, Life!Bind,
     Life!FailListen, Life!Serve, Life!Break, Life!Drain, Life!Stop,
     Life!Uncount, Life!ServerStep, Life!Active, OrderInv
<1>3. run[s] = "nil" /\ counted'[s] => Life!Silent(s)'
  BY DEF Life!ManagerStep, Life!Order, Life!TryListen, Life!Bind,
     Life!FailListen, Life!Serve, Life!Break, Life!Drain, Life!Stop,
     Life!Uncount, Life!ServerStep, Life!Active, SilentInv, Life!Silent
<1>4. OrderInv'
  BY <1>1, <1>2 DEF OrderInv
<1>5. SilentInv'
  BY <1>1, <1>3 DEF SilentInv, Life!Silent
<1> QED
  BY <1>1, <1>4, <1>5 DEF WaitInv, InnerInv

\* A run begins, and returns.
LEMMA RunKeeps ==
  ASSUME IInv, NEW s \in Suites, UNCHANGED <<innerVars, test, ctx, runner, binary>>,
         \/ runner[s] = "running" /\ Life!Start(s)
         \/ \E result \in Life!Results : Life!Return(s, result)
  PROVE  IInv'
<1> USE DEF IInv, TypeOK, Over, Life!LifecycleTypeOK, innerVars, Life!Results
<1>1. CASE runner[s] = "running" /\ Life!Start(s)
  <2>1. /\ run[s] = "idle" /\ run' = [run EXCEPT ![s] = "running"]
        /\ UNCHANGED <<ordered, listen, server, counted>>
    BY <1>1 DEF Life!Start
  <2> QED
    BY <1>1, <2>1 DEF OrderInv, WaitInv, SilentInv, InnerInv, Life!Silent
<1>2. ASSUME NEW result \in Life!Results, Life!Return(s, result)
      PROVE  IInv'
  <2>1. /\ run[s] = "running" /\ run' = [run EXCEPT ![s] = result]
        /\ ordered' = [ordered EXCEPT ![s] = TRUE]
        /\ result = "nil" /\ counted[s] => Life!Silent(s)
        /\ UNCHANGED <<listen, server, counted>>
    BY <1>2 DEF Life!Return
  <2> QED
    BY <2>1 DEF OrderInv, WaitInv, SilentInv, InnerInv, Life!Silent
<1> QED
  BY <1>1, <1>2

LEMMA IInvStep == IInv /\ [Next]_vars => IInv'
<1> SUFFICES ASSUME IInv, [Next]_vars PROVE IInv'
  OBVIOUS
<1>1. ASSUME NEW s \in Suites, TestFunction(s)
      PROVE  IInv'
  BY <1>1, TestFunctionKeeps
<1>2. ASSUME NEW s \in Suites, Runner(s)
      PROVE  IInv'
  <2>1. CASE runner[s] = "running" /\ Life!Start(s) /\ UNCHANGED otherThanManagers
    BY <2>1, RunKeeps DEF otherThanManagers
  <2>2. CASE AssertRun(s)
    <3>1. /\ runner[s] = "running" /\ runner' = [runner EXCEPT ![s] = "asserted"]
          /\ binary' \in {binary, "panicked"}
          /\ UNCHANGED <<managerVars, innerVars, test, ctx>>
      BY <2>2 DEF AssertRun
    <3> QED
      BY <3>1
         DEF IInv, TypeOK, OrderInv, WaitInv, SilentInv, InnerInv, Over,
             Life!LifecycleTypeOK, Life!Silent, managerVars, innerVars
  <2> QED
    BY <1>2, <2>1, <2>2 DEF Runner
<1>3. ASSUME NEW s \in Suites, ReturnOnOrder(s)
      PROVE  IInv'
  BY <1>3, RunKeeps DEF ReturnOnOrder, otherThanManagers
<1>4. ASSUME NEW s \in Suites, ManagerMoves(s)
      PROVE  IInv'
  BY <1>4, ManagerKeeps DEF ManagerMoves, otherThanManagers
<1>5. ASSUME NEW s \in Suites, NEW how \in {"expired", "cancelled"}, EndCtx(s, how)
      PROVE  IInv'
  BY <1>5
     DEF EndCtx, otherThanPing, IInv, TypeOK, OrderInv, WaitInv, SilentInv,
         InnerInv, Over, Life!LifecycleTypeOK, Life!Silent, managerVars,
         innerVars
<1>6. CASE Exit
  BY <1>6
     DEF Exit, IInv, TypeOK, OrderInv, WaitInv, SilentInv, InnerInv, Over,
         Life!LifecycleTypeOK, Life!Silent, managerVars, innerVars
<1>7. CASE UNCHANGED vars
  BY <1>7
     DEF vars, IInv, TypeOK, OrderInv, WaitInv, SilentInv, InnerInv, Over,
         Life!LifecycleTypeOK, Life!Silent, managerVars, innerVars
<1> QED
  BY <1>1, <1>2, <1>3, <1>4, <1>5, <1>6, <1>7 DEF Next

-----------------------------------------------------------------------------
(* The theorems.                                                           *)

\* The invariant holds for any number of suites, with gRPC or without.
THEOREM Invariance == Spec => []IInv
  BY IInvInit, IInvStep, PTL DEF Spec

\* The places and counters stay in their sets: no inner suite is set up, or torn
\* down, twice (managerSuite.go, lines 47-55 and 66-70).
THEOREM TypeCorrect == Spec => []TypeOK
<1>1. IInv => TypeOK
  BY DEF IInv
<1> QED
  BY <1>1, Invariance, PTL

\* A suite that was torn down has nothing at work on the address any more, unless
\* its run returned an error or did not count the gRPC routine; a suite that has
\* begun finds the address taken only by one that was left behind
\* (managerSuite.go, lines 59-65).
THEOREM SuiteStopsManager == Spec => []TornDown
<1>1. IInv => TornDown
  <2> SUFFICES ASSUME IInv, NEW s \in Suites
               PROVE  /\ test[s] \in {"teardown", "ended"} =>
                           Life!Silent(s) \/ run[s] = "error" \/ ~counted[s]
                      /\ test[s] # "idle" =>
                           \A earlier \in 1..(s - 1) :
                             Life!Holds(earlier) => LeftBehind(earlier)
    BY DEF TornDown
  <2>1. \A t \in Suites : test[t] \in {"teardown", "ended"} =>
          Life!Silent(t) \/ run[t] = "error" \/ ~counted[t]
    BY DEF IInv, WaitInv, SilentInv, Life!Results
  <2>2. ASSUME test[s] # "idle", NEW earlier \in 1..(s - 1), Life!Holds(earlier)
        PROVE  LeftBehind(earlier)
    <3>1. earlier \in Suites
      BY SuiteAssumption DEF Suites
    <3>2. Over(earlier)
      BY <2>2 DEF IInv, OrderInv
    <3>3. ~Life!Silent(earlier)
      BY <2>2 DEF Life!Holds, Life!Silent
    <3> QED
      BY <2>1, <3>1, <3>2, <3>3 DEF Over, LeftBehind
  <2> QED
    BY <2>1, <2>2
<1> QED
  BY <1>1, Invariance, PTL

\* A server that answers while a suite pings is its own, or one left behind: of
\* the earlier suites those that ended have stopped theirs, and the later ones
\* have not begun.
LEMMA AnswersAre ==
  ASSUME IInv, NEW s \in Suites, test[s] = "probe", NEW m \in Answering
  PROVE  m = s \/ LeftBehind(m)
<1>1. NumSuites \in Nat /\ Suites = 1..NumSuites
  BY SuiteAssumption DEF Suites
<1>2. m \in Suites /\ server[m] \in {"up", "failed"}
  BY DEF Answering
<1>3. CASE m > s
  <2>1. s \in 1..(m - 1)
    BY <1>1, <1>2, <1>3
  <2>2. ~Over(s)
    BY DEF Over
  <2>3. test[m] = "idle"
    BY <1>2, <2>1, <2>2 DEF IInv, OrderInv
  <2>4. server[m] = "down"
    BY <1>2, <2>3 DEF IInv, OrderInv
  <2> QED
    BY <1>2, <2>4
<1>4. CASE m < s
  <2>1. Over(m)
    <3>1. m \in 1..(s - 1)
      BY <1>1, <1>2, <1>4
    <3> QED
      BY <3>1 DEF IInv, OrderInv
  <2>2. SUFFICES ASSUME test[m] = "ended" PROVE LeftBehind(m)
    BY <2>1 DEF Over, LeftBehind
  <2>3. run[m] \in Life!Results
    BY <1>2, <2>2 DEF IInv, WaitInv
  <2>4. ~(run[m] = "nil" /\ counted[m])
    BY <1>2 DEF IInv, SilentInv, Life!Silent
  <2> QED
    BY <2>3, <2>4 DEF LeftBehind, Life!Results
<1> QED
  BY <1>1, <1>2, <1>3, <1>4

\* A ping that succeeds was answered by a server that is up (managerTester.go,
\* lines 111-115), with the exceptions that PingMeansServed names.
THEOREM PingsAreAnswered == Spec => PingMeansServed
<1>1. ASSUME IInv, [Next]_vars, NEW s \in Suites, test[s] = "probe", test'[s] = "inner"
      PROVE  (\E m \in Answering : m = s \/ LeftBehind(m)) \/ ctx[s] = "cancelled"
  <2> USE DEF IInv, TypeOK
  <2>1. \E r \in Replies(s) : Ping(s, r) /\ r \notin Retried \cup GivenUp
    <3>1. ASSUME NEW t \in Suites, TestFunction(t)
          PROVE  t = s /\ PingReturns(s)
      <4>1. \A place : Goto(t, place) => t = s \/ test'[s] = "probe"
        BY <1>1 DEF Goto
      <4>2. t = s
        BY <1>1, <3>1, <4>1
           DEF TestFunction, SetupSuite, EndSelect, PingReturns, Ping,
               SetupInner, TearDownSuite, WaitForShutdown, TearDownInner
      <4> QED
        BY <1>1, <3>1, <4>2
           DEF TestFunction, SetupSuite, EndSelect, SetupInner, TearDownSuite,
               WaitForShutdown, TearDownInner
    <3>2. PingReturns(s)
      <4>1. test' # test
        BY <1>1
      <4> QED
        BY <1>1, <3>1, <4>1
           DEF Next, vars, Exit, Runner, AssertRun, ReturnOnOrder, ManagerMoves,
               EndCtx, otherThanManagers, otherThanPing
    <3>3. PICK r \in Replies(s) : Ping(s, r)
      BY <3>2 DEF PingReturns
    <3>4. r \notin Retried
      BY <1>1, <3>3 DEF Ping
    <3>5. r \notin GivenUp
      BY <1>1, <3>3, <3>4 DEF Ping, Goto
    <3> QED
      BY <3>3, <3>4, <3>5
  <2>2. PICK r \in Replies(s) : r \notin Retried \cup GivenUp
    BY <2>1
  <2>3. CASE r \in CtxErrors(s)
    BY <1>1, <2>2, <2>3 DEF CtxErrors, Retried, GivenUp
  <2>4. CASE r \notin CtxErrors(s)
    <3>1. Answering # {}
      BY <2>2, <2>4 DEF Replies, ConnErrors, Retried
    <3> QED
      BY <1>1, <3>1, AnswersAre
  <2> QED
    BY <2>3, <2>4
<1>2. IInv /\ [Next]_vars =>
        [\A s \in Suites : test[s] = "probe" /\ test'[s] = "inner" =>
           \/ \E m \in Answering : m = s \/ LeftBehind(m)
           \/ ctx[s] = "cancelled"]_vars
  BY <1>1
<1> QED
  BY <1>2, Invariance, PTL DEF Spec, PingMeansServed
===============================================================================
