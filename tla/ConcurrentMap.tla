---------------------------- MODULE ConcurrentMap ----------------------------
(***************************************************************************)
(* pksync.ConcurrentMap (src/pksync/concurrentMap.go) as its only caller,  *)
(* Manager.mapServices (src/pkservices/manager.go), uses it: a goroutine   *)
(* that launches one worker for each value, the workers, and the caller,   *)
(* which ranges over the unbuffered channel of errors and starts the       *)
(* shutdown, cancelling the context of the map, at each error of a worker. *)
(***************************************************************************)
EXTENDS Naturals, Sequences, SequencesExt

CONSTANT NumServices

ASSUME NumServicesAssumption == NumServices \in Nat

Services == 1..NumServices

VARIABLES cancelled,  \* the context of the map, servicesCtx
          mapper,     \* where the goroutine of mapFuncToValues is
          index,      \* its loop variable i
          worker,     \* service -> where its goroutine of runSingleMap is
          outcome,    \* service -> what the action did
          consumer,   \* where the range loop of mapServices is
          errs        \* the errors that it appended: their services

vars == <<cancelled, mapper, index, worker, outcome, consumer, errs>>

Outcomes == {"nil", "error", "panic"}

TypeOK ==
  /\ cancelled \in BOOLEAN
  /\ mapper \in {"check", "launch", "report", "wait", "closed"}
  /\ index \in 1..(NumServices + 1)
  /\ worker \in [Services -> {"none", "running", "sending", "exited"}]
  /\ outcome \in [Services -> Outcomes \cup {"none"}]
  /\ consumer \in {"receive", "shutdown", "returned"}
  /\ errs \in Seq(Services)

\* The context may be cancelled before the map starts.
Init ==
  /\ cancelled \in BOOLEAN
  /\ mapper = "check"
  /\ index = 1
  /\ worker = [s \in Services |-> "none"]
  /\ outcome = [s \in Services |-> "none"]
  /\ consumer = "receive"
  /\ errs = <<>>

-----------------------------------------------------------------------------
(* mapFuncToValues.                                                        *)

\* Mutation of LoopOver: i <= values.Len().
LoopOverMutant == index > NumServices + 1

\* The loop condition i < values.Len() is false.
LoopOver == index > NumServices

\* The head of the loop: ctx.Err() is read here, the launch is a step later.
Check ==
  /\ mapper = "check"
  /\ mapper' = IF LoopOver THEN "wait"
               ELSE IF cancelled THEN "report" ELSE "launch"
  /\ UNCHANGED <<cancelled, index, worker, outcome, consumer, errs>>

\* mapComplete.Add(1) and the go statement.
Launch ==
  /\ mapper = "launch"
  /\ worker' = [worker EXCEPT ![index] = "running"]
  /\ index' = index + 1
  /\ mapper' = "check"
  /\ UNCHANGED <<cancelled, outcome, consumer, errs>>

\* errChan <- ctx.Err(), which the range loop receives and ignores, then break.
ReportCtx ==
  /\ mapper = "report"
  /\ consumer = "receive"
  /\ mapper' = "wait"
  /\ UNCHANGED <<cancelled, index, worker, outcome, consumer, errs>>

\* Mutations of Launched: complete.Done() comes before the error is sent, or
\* never.
LaunchedMutant == {s \in Services : worker[s] = "running"}
LaunchedLeak == {s \in Services : worker[s] # "none"}

\* The workers that mapComplete counts.
Launched == {s \in Services : worker[s] \in {"running", "sending"}}

\* mapComplete.Wait() and the deferred close(errChan).
Close ==
  /\ mapper = "wait"
  /\ Launched = {}
  /\ mapper' = "closed"
  /\ UNCHANGED <<cancelled, index, worker, outcome, consumer, errs>>

-----------------------------------------------------------------------------
(* runSingleMap.  CatchPanic makes an error of a panic, and the map         *)
(* function of mapServices wraps either in a ServiceError.                  *)

Act(s, o) ==
  /\ worker[s] = "running"
  /\ outcome' = [outcome EXCEPT ![s] = o]
  /\ worker' = [worker EXCEPT ![s] = IF o = "nil" THEN "exited" ELSE "sending"]
  /\ UNCHANGED <<cancelled, mapper, index, consumer, errs>>

\* errChan <- ConcurrentMapError{...}, received by the range loop; the worker
\* then calls complete.Done().
Deliver(s) ==
  /\ worker[s] = "sending"
  /\ consumer = "receive"
  /\ worker' = [worker EXCEPT ![s] = "exited"]
  /\ errs' = Append(errs, s)
  /\ consumer' = "shutdown"
  /\ UNCHANGED <<cancelled, mapper, index, outcome>>

-----------------------------------------------------------------------------
(* mapServices.                                                            *)

\* Mutation of StartShutdown: the errors are appended, and no more.
StartShutdownMutant ==
  /\ consumer = "shutdown"
  /\ consumer' = "receive"
  /\ UNCHANGED <<cancelled, mapper, index, worker, outcome, errs>>


StartShutdown ==
  /\ consumer = "shutdown"
  /\ cancelled' = TRUE
  /\ consumer' = "receive"
  /\ UNCHANGED <<mapper, index, worker, outcome, errs>>

\* The range loop ends when the channel is closed; the errors are returned.
Return ==
  /\ consumer = "receive"
  /\ mapper = "closed"
  /\ consumer' = "returned"
  /\ UNCHANGED <<cancelled, mapper, index, worker, outcome, errs>>

\* Anybody else that starts the shutdown.
Cancel ==
  /\ ~cancelled
  /\ cancelled' = TRUE
  /\ UNCHANGED <<mapper, index, worker, outcome, consumer, errs>>

-----------------------------------------------------------------------------
Mapper == Check \/ Launch \/ ReportCtx \/ Close

Worker(s) == (\E o \in Outcomes : Act(s, o)) \/ Deliver(s)

Consumer == StartShutdown \/ Return

Next == Mapper \/ (\E s \in Services : Worker(s)) \/ Consumer \/ Cancel

Spec == Init /\ [][Next]_vars

\* Every goroutine runs when it can, and every action returns.
Fairness ==
  /\ WF_vars(Mapper)
  /\ WF_vars(Consumer)
  /\ \A s \in Services : WF_vars(Worker(s))

FairSpec == Spec /\ Fairness

-----------------------------------------------------------------------------
(* What must hold.                                                         *)

Failed == {s \in Services : outcome[s] \in {"error", "panic"}}

\* When mapServices returns it has the error of every action that failed, once
\* (lines 157-166 of manager.go): closing the channel overtakes no worker.
EveryErrorReturned ==
  consumer = "returned" => IsInjective(errs) /\ Range(errs) = Failed

\* No worker is left to send on the closed channel, where Go would panic in a
\* goroutine that nobody recovers (lines 88 and 137).
NoSendAfterClose == 
  mapper = "closed" => {"running", "sending"} \cap Range(worker) = {}

\* The map always ends: nobody is left blocked on the unbuffered channel.
MapReturns == <>(consumer = "returned")

\* The refinement of ServiceMap.  A service counts as started when the mapper
\* has checked the context for it, as skipped when the check failed, and as
\* collected when the caller has started the shutdown for it.
BeingCollected(s) == consumer = "shutdown" /\ Last(errs) = s

TaskOf(s) ==
  IF worker[s] = "running" \/ (mapper = "launch" /\ s = index) THEN "active"
  ELSE IF worker[s] = "sending" \/ BeingCollected(s) THEN "failing"
  ELSE IF worker[s] = "exited" THEN "over"
  ELSE IF mapper \in {"check", "launch"} THEN "pending"
  ELSE "skipped"

SM == INSTANCE ServiceMap WITH
  task <- [s \in Services |-> TaskOf(s)],
  errors <- IF consumer = "shutdown" THEN Front(errs) ELSE errs

\* mapServices keeps the promises of ServiceMap.
ImplementsServiceMap == SM!Spec

\* mapServices returns when its promise says that it is finished: the stages of
\* Manager take ServiceMap!Finished for its return.
ReturnsWhenFinished == consumer = "returned" => SM!Finished
=============================================================================
