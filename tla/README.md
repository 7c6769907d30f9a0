# A TLA+ verification of gRPEAKEC-go

gRPEAKEC-go is a set of Go packages for gRPC servers. Its core is
`pkservices.Manager`, which sets up a list of services, runs them, and shuts
them down in order when one fails, when the process is signalled, or when the
program asks. The manager rests on two synchronisation objects of `pksync`,
written for it: a wait group that obeys contexts, and a concurrent map over a
slice. Around them are error conversion (`pkerr`), interceptors
(`pkmiddleware`), a client helper (`pkclients`) and test helpers.

This directory models the concurrent core, every goroutine, channel and context
of a run of the manager, what a second run inherits from the first, the test
suites that start managers and wait for them, and the way of an error through a
chain of processes.
Line numbers are those of the repository.

## 1. Inventory

| Component | State | Operations | Talks to | What is hard | What makes it correct |
|---|---|---|---|---|---|
| `pksync.CtxWaitGroup` (`ctxWaitGroup.go`) | a counter, a queue of 16 events, three contexts, one listener goroutine | `NewCtxWaitGroup`, `Add`, `Done`, `Wait` | the manager's `runsComplete` | selects over a reply and three contexts; a blocking reply; `events = nil` without synchronisation; callers that leave | an event counts exactly when its caller was told so; closed means balanced; every call returns |
| `pksync.ConcurrentMap` (`concurrentMap.go`) | the loop variable, a wait group, an unbuffered channel of errors | launch, check of the context, report, close | `mapServices`, which ranges over the channel and starts the shutdown | one reader, many senders, a close by a third goroutine, a context read before a launch | no error lost, no send after the close, it ends |
| `pkservices.Manager` (`manager.go`, `service.go`) | four contexts, `runsComplete`, `resourcesReleased`, `listenersExited`, the errors | `Run`, `StartShutdown`, `WaitForShutdown`, `Reset`; inside: listeners, `setupServices`, `runAllServices`, `genericServicesRun`, `runGrpcServices`, `waitForShutdownComplete` | services, grpc server, signals | a shutdown at any point of any stage; a deadline; failures of some services; a routine that is not counted | stages in order, contexts in order, resources outlive their users, the errors of services and routines reported, `Run` returns |
| `pkservices.ManagerOpts` | options | builder methods, assembly of the interceptor chains | manager, `pkmiddleware` | order of the interceptors | the order that is documented |
| `pkservices.ManagerTesting` | clients, a signal channel | `PingGrpcServer`, `SendSignal`, client connections | manager | `SendSignal` writes a channel that nobody makes | a test helper returns |
| `pkerr` generator, API errors | name, host and three settings of a process; the trace of an error | `NewErr`; convert an error in a server, and back in a client | handlers, interceptors, grpc | repeated conversion by processes with other settings; sentinels, API errors, panics and wraps in one chain | the sentinel, the frames and the settings survive any number of processes |
| `pkerr` sentinels | the name and the offset of an issuer, its sentinels | `NewSentinel`, `ApplyNewIssuer`, `APIError.Is` | generator, environment | renaming before and after issuing; codes that wrap; errors older than a renaming | one code, one sentinel; an error is recognised as its own |
| `pkerr` panics, not found | none | `CatchPanic`, the not-found middleware | map, interceptors | where in the chain they stand | no panic of a handler ends a process that has a generator; a nil answer is an error |
| `pkmiddleware` | chains of middlewares | wrap handlers, log results | generator, manager options | order in which the result is seen | the log has what is sent |
| `pkclients.WaitForGrpcServer` | a retry loop | dial, ping | a server that starts | codes that end the loop | it ends when the server is up, or with its context |
| `pktesting` | the suites of a test binary | `SetupSuite`, `TearDownSuite`, assertions | manager, its pings, the address that suites share | a suite that fails leaves its manager behind; `Run` is asserted in a goroutine of its own | a suite that ends, and whose run ended in order, leaves nothing on the address; every suite ends |

The shutdown of the manager is a cascade of contexts:

    servicesCtx  -> Run of the services and Serve end -> runsComplete closes
    resourcesCtx -> services release resources        -> resourcesReleased
    listenersCtx -> listenForSignal, timeoutShutdown end -> listenersExited
    shutdownCtx  -> the timer: every wait above ends with an error

Each arrow is a place where a cancellation, a failure or a slow party can come
too early or too late. `PROJECT.json` lists these places as hazards, at their
lines.

## 2. Modules

    ManagerSuite --uses--> ManagerLifecycle <--implemented by-- Manager
    (ManagerSuiteProofs)                            (ManagerProofs, ManagerLifecycleProofs)

    Manager --uses--> WaitGroup  <--implemented by-- CtxWaitGroup  (MCCtxWaitGroup, CtxWaitGroupProofs)
       |
       +-----uses---> ServiceMap <--implemented by-- ConcurrentMap (ConcurrentMapProofs)

    ManagerReset      (ManagerResetProofs)
    ErrorPropagation  (MCErrorPropagation, ErrorPropagationProofs)
    SentinelIssuer    (MCSentinelIssuer, SentinelIssuerProofs)

The detailed objects are checked against abstract ones, and the manager is
built on the abstract ones: its state space stays small, and what is found for
it holds for the real objects, because they were shown to be implementations.

### WaitGroup
What a `CtxWaitGroup` promises. `total` is the sum of the deltas of the calls
that returned nil; `status` says whether it is open, closed (the total came back
to zero) or panicked (a call took it below zero). `Succeed`, `Refuse` and
`Overdraw` are the ends of a call: it takes effect at the moment it returns nil;
it returns an error for a reason that holds; or it breaks the group. A call that
is given the error of its context may still break the group, which is why
`Overdraw` is also for those.

### CtxWaitGroup
The object itself. A member of `Calls` is a goroutine that calls `Add` or
`Done` once; its place is `caller[c]`.

| Code | Model |
|---|---|
| first `select` of `sendWaitEvent` (110-126) | `Invoke`, then `Send` or `Refuse` |
| `group.events` is a channel of 16, or nil after the listener left | `HasRoom`; `Invoke` to `"blocked"` once the listener stopped (the variable is read without synchronisation: either value may be seen) |
| second `select` (128-146) | `Reply`, which takes caller and listener together (unbuffered), or `Refuse` |
| `listen`, `handleEvent` (51-103) | `Take`, `Reply`, `SignalClose`, `StopOnCtx`, `Exit` |
| `Wait` (163-173) | `StartWait`, `EndWait` |

`select` takes any branch that is ready; the model chooses. The code that
copies `ctx.Err()` or panics is abstracted to the result `"closed"`, `"ctx"` or
`"panic"` of the call.

### ServiceMap and ConcurrentMap
`ServiceMap` is what `mapServices` promises to a stage: services in order, each
application on its own, skipped from some point on when the context is
cancelled, errors collected, each starting the shutdown, finished when all is
over. `ConcurrentMap` has the goroutine of `mapFuncToValues` (`Check`, `Launch`,
`ReportCtx`, `Close`), the workers (`Act`, `Deliver`) and the range loop of
`mapServices` (`StartShutdown`, `Return`). Sends on the unbuffered channel are
one step with their receive. The context is read in `Check` and used in
`Launch`, two steps. The context is cancelled by the loop itself or by anybody.

### Manager
One run. The place of `Run` is `main`; each goroutine it starts has a variable
of its own.

| Code | Model |
|---|---|
| `Run`, `setupServices` (538-562, 177-191) | `StartRun`, `SetupServices`, `SetupReturns`, `EndSetup` |
| `runAllServices` (316-358) | `AddGeneric`, `AddGrpc`, `StartWait`, `EndWait` over `Group` (WaitGroup) |
| its first goroutine, `genericServicesRun` (302-334) | `GenericServicesRun`, `RunReturns`, `EndGeneric`, `DoneGeneric` over `Runs` (ServiceMap) |
| its second goroutine, `runGrpcServices` (218-299) | `GrpcMapSteps`, `Probe`, `EndProbe`, `Register`, `EndRegister`, `CheckContext`, `GetGrpcListener`, `StartServing`, `EndServing`, `ServeFails`, `DoneGrpc` |
| monitor of the server (275-283) | `GracefulStop`, `Drained` |
| `listenForSignal`, `timeoutShutdown` (388-436) | `StopSignaler`, `AwaitShutdown`, `CancelShutdownCtx` |
| `waitForShutdownComplete` (360-386) | `ResourcesReleased`, `CancelListeners`, `ShutdownTimesOut`, `ListenersExited` |
| a panic in `runsComplete` | `GroupPanics`, `CallPanics`; after the latter no step is possible, as the process has ended |
| the services, requests | `SetupReturns`, `RunReturns`, `Register`, `Release`; `StartRpc`, `EndRpc` |

External code is modelled from its use: `net.Listen` (an attempt may fail, and
its error has Op "listen"), the gRPC server (`Serve` refuses after a stop,
`GracefulStop` waits for handlers), and services that hold a resource from
`Setup` until they see `resourcesCtx`.

### ManagerLifecycle
What the program around a manager can rely on: a run begins and returns (`Start`,
`Return`), a shutdown is ordered (`Order`), the listen is decided on before any
order (`TryListen`) and takes the address at most once, perhaps after an order
(`Bind`, `FailListen`: `getGrpcListener` looks at its context in line 203 and listens
in line 208), and the gRPC server goes up, fails, drains and stops (`Serve`, `Break`,
`Drain`, `Stop`). A run returns nil only when
its gRPC routine is done, unless the wait group did not count it (`Uncount`).
`Manager` implements it (`ImplementsLifecycle`) with one manager; the refinement
mapping reads `run` from `main`, `ordered` from `servicesCtx`, `listen` from the
place and the error of the gRPC routine, `counted` from the result of the second
`Add(1)`.

### ManagerSuite
`pktesting.ManagerSuite`, `ManagerTesting.PingGrpcServer` and
`pkclients.WaitForGrpcServer`. Suites run one after the other, on the address they
share, in one process; their managers are those of `ManagerLifecycle`.

| Code | Model |
|---|---|
| `SetupSuite` (managerSuite.go 21-56) | `SetupSuite`, `SetupInner`; the goroutine that calls `Run` is `Runner`, its assertion `AssertRun` |
| `PingGrpcServer` (managerTester.go 120-152) | `EndSelect`, then the loop; its context ends by `EndCtx` |
| `retryPing`, `WaitForGrpcServer` (waitForGrpcServer.go) | `Ping` with a result of `Replies`; `Retried` and `GivenUp` say what it is followed by |
| `TearDownSuite` (59-71) | `TearDownSuite`, `WaitForShutdown`, `TearDownInner` |
| testify, testing, grpc (external) | a test function that is ended by `FailNow` (`"aborted"`) is not torn down; a failure after its end panics the process; `Answers`, `ConnErrors`, `CtxErrors` |

### ManagerReset
Two runs of one manager. `manager.sync` is replaced by `Reset`, so everything in it
exists once for each of the two incarnations (`Syncs`); `held` is the incarnation
that a goroutine of the first run has read, `strayed` says that one has read, or
cancelled something of, the second. `Reset` assigns the fields while others may
read them: in between (`resetting`) a read gives either value.

| Code | Model |
|---|---|
| `Reset` (456-482) | `Reset`, `ResetReturns` |
| first `Run` | `StartRun`, `SetupServices`, `AddRoutine`, `EndWait`, `ReleaseResources`, `CancelListeners`, `ShutdownTimesOut`, `ListenersExited`, `Finish` |
| reads of `manager.sync` in goroutines: mapServices (156), once for each map; the arguments of `Run` (309); the context of the listen (266) and the one that its end cancels (199); the monitor (282); `resourcesReleased` (367); the listeners (405, 423, 444, 451) | `Read`, in `Begin`, `CallService`, `ReadForRegister`, `MakeContext`; `EnterListener` |
| the two maps of `runGrpcServices`, its listen and its server (224-298) | `Probe`, `RegisterServices`, `CheckContext`, `GetGrpcListener`, `EndServing`, `ServeFails` |
| `StartShutdown` in goroutines (164, 331, 392) | `Order` in `ServiceFailed`, `RegistrationFailed`, `StopSignaler` |
| `listenersExited.Done`, `runsComplete.Done` | `ListenerExits`, `RoutineExits`; below zero they panic |
| the next `Run`, of which only its listeners and its end matter here | `StartNext`, `NextListener`, `NextReturns` |

Of the first run that is left which touches `manager.sync`; what goes on inside
its stages is in `Manager`. Calls of `runsComplete` are atomic here, as `WaitGroup`
allows.

### ErrorPropagation
A chain of `N` processes: the handler of the first is called by the handler of
the second, and so on to the client. `proc` is where the result is, `err` the Go
error as the sequence of its layers (`Unwrap` is `Tail`, `errors.As` is
`FirstOf`). An `*Error` message keeps which sentinel it is of, whether it has
the text of a source, and its frames with their stack and context.

| Code | Model |
|---|---|
| a handler: returns, panics, wraps; an error of its own or the one it received | `Fail`, `Relay`, `Answer`; `Made` says which errors there are |
| `applySettings`, `NewErr` (generator.go) | `ApplySettings`, `NewErr` |
| `errToAPIErrConvertType`, `errToAPIErr`, `errToStatus` | `Convert`, `HasContext`, `ErrToStatus` |
| `createUnaryMiddlewareInterceptor`, `createStreamMiddlewareInterceptor` | `UnaryMiddleware`, `StreamMiddleware`: sequences, the first next to the handler |
| the middlewares on the way out | `NotFound`, `Errors` (with `CatchPanic`), `Logging`; a panic passes those that do not recover it |
| the grpc server (external) | `Send`, `Crash` |
| `extractClientErrorFromInvoker`, unary and stream | `FromStatus` in `Receive` |

`meant`, `maker`, `masked` and `wrapped` record the intention of the handlers
for the properties; no action reads them.

### SentinelIssuer
The issuers of one or several processes. `Shifted` is the conversion to 32 bits,
modulo `Width`. An API error has the name and the code of its sentinel at that
time; `from` records what it was made from, which no action reads.

## 3. Runs

| Run | Instance | What it shows |
|---|---|---|
| `waitgroup` | 3 calls with deltas -2..2, 1 wait, queue of 1 | `CounterBalanced`: no event is applied twice, dropped after success, or counted for a caller that was turned away. `ClosedBalanced`: a closed group balances exactly. `ImplementsWaitGroup`. `CallsReturn`: every call returns, and a wait does when the group has closed |
| `concurrent_map` | 3 services | no error is lost (`EveryErrorReturned`), nobody sends after the close (`NoSendAfterClose`), it returns only when finished (`ReturnsWhenFinished`) and always returns (`MapReturns`); it implements ServiceMap |
| `manager` | 2 services: a generic one that holds a resource, and one that is both generic and gRPC; with and without a limit; 1 RPC | order of the stages (`RunsAfterSetup`, `ServesWhenReady`), of the contexts (`CancelCascade`), of the releases (`ResourcesOutliveRuns`, `ResourcesOutliveRpcs`), what an errorless return means (`CleanReturn`) and what `Run` reports (`ErrorsReported`); a run keeps to `ManagerLifecycle` (`ImplementsLifecycle`); `Run` returns after any shutdown order (`ShutdownTerminates`) and any failure (`FailureStopsRun`): with a limit even if services, resources and RPCs hang, without one if they end |
| `manager_suite` | 3 suites: with gRPC; without; with gRPC and a context of its own | a ping that succeeds was answered by a server, the manager's own unless an earlier suite left one behind, or its context was cancelled (`PingMeansServed`); a suite that was torn down has nothing at work on the address unless `Run` returned an error or did not count the gRPC routine, and a suite that begins finds the address taken by no earlier one but those left behind (`TornDown`); every suite ends (`SuitesEnd`) |
| `manager_reset` | a manager with a generic service, one with a gRPC service; 2 runs; `Reset` or not between them | after a run that ended in order no goroutine of it touches what `Reset` made (`Isolated`); the manager panics only for the reasons listed (`CrashesExplained`); the next run ends even when goroutines of the first interfere (`ShutdownEndsNext`) |
| `error_propagation` | 3 processes, each with one of five combinations of options, 2 sentinels | the client has the sentinel that was meant (`SentinelSurvives`), one frame of each process in order (`TraceComplete`), stacks and the source as the settings say (`SettingsKept`), context in the frames of exactly the processes that put text around the error, whatever their settings say (`ContextWhereAdded`), the log of a process has what it sent (`LoggedIsSent`), and a process with a generator survives the panics of its handlers and of the not-found middleware (`GeneratorRecovers`) |
| `sentinel_issuer` | 2 issuers, 2 names, codes of two bits, offsets -1, 0, 3, 2 sentinels an issuer, 2 errors, symmetry | `UniformOffset`, `Recognised` |
| the five others | 1 or 2 services, 1 call, or 2 processes | the findings below: each is expected to be violated |

Bounds. A queue of one is full as soon as a second caller sends, so all that
sixteen could show (a full queue, an event left behind by the listener) happens
with three callers; deltas -2, -1, 0, 1, 2 reach zero and go below it from
either side. Three services in the map give a first, a middle and a last one, so
that a failure or a skip may come before, at and after each. Two are enough for the
manager, which is built on what the map promises: one may fail, run or be skipped
while the other holds a resource, runs, is registered or serves. Whatever is said of
safety in `manager` is proved for any number of services of any kinds (section 5),
and the bound concerns the two liveness properties alone. One RPC is
enough for "an RPC is in flight". Three processes give an error a maker, one that
relays it and one that receives it: a frame of another process can be the last
or not. Of the sixteen combinations of options those were chosen that differ at
a branch: all on, nothing sent, a server only, no generator with and without the
not-found middleware. Codes of two bits wrap for one of three codes at either
end. Three suites are a suite with gRPC that may leave its manager behind, one
that runs meanwhile, and one that then finds the address taken. One service of each
kind, in managers of their own, makes every read of `manager.sync` happen after a
`Reset`; a third run would meet what the second meets. Deadlock checking is off
because all these systems end: that they do not end too early is what the liveness properties say.
No symmetry where liveness is checked.

Fairness. A goroutine that stays able to run is run (weak fairness for each
one: `Listen`, `Continue(c)`, `Mapper`, `Worker(s)`, `Consumer`, `Main`, and so
on); this is what the Go scheduler gives. A select with several branches ready
is given no preference: one weak fairness condition covers all its branches.
Nobody is obliged to call `Add`, to cancel a context or to send a signal.
`OwnFairness` is about the goroutines of the manager and of `Setup`.
`ServiceFairness`, that `Run` of a service returns once its context is cancelled,
that resources are released and that RPCs end, is what the interfaces of
`service.go` ask of a service; it is assumed only in runs without a limit
(`Obliged`), so that with a limit `Run` must return without it. The timer is fair
because `timeoutShutdown` waits for a finite duration.

In `ManagerSuite` a run that was ordered to shut down returns, which is
`ShutdownTerminates` of `Manager`; the context of the pings ends, as it has a
deadline; and an RPC does not miss the end of its context for ever behind refused
connections. In `ManagerReset` the listeners of the first run, and the next run,
are run when they can; its services, RPCs and resources may hang.

`Setup` is assumed to return: `Run` calls it in its own goroutine, and no
deadline is looked at during setup.

## 4. What the code does not do

Five runs end with a counterexample. In each the property states what a comment
or the documentation says.

1. `waitgroup_listener_leak`: handling an event whose caller has already left
   through its context, the listener blocks on `event.Success <- struct{}{}`
   (line 61) and never sees the cancelled context: the goroutine leaks.
2. `manager_early_close`: the first goroutine of `runAllServices` may finish,
   call `Done()` and bring the counter to zero before the second `Add(1)`. The
   group closes, the second `Add` fails and its error is ignored: resources are
   released under a gRPC server that goes on to serve. This is the normal case of
   a manager with gRPC services only, when the first goroutine is quick.
3. `manager_crash`: if the deadline passes before the first `Add(1)`, a
   `Done()` may still reach the listener: the counter is -1, and the panic is in
   a goroutine that recovers nothing.
4. `error_source_masks`: a handler that returns `NewErr(ErrA, ..., ErrB)`, an API
   error with a sentinel as its source, is reported as `ErrB`: the conversion
   looks for a sentinel anywhere in the chain before it looks for an API error.
5. `error_context_setting`: `generator.go:16` and `pkerr.rst:147-148` make the
   additional context depend on `sendContext`, but `errToAPIErr` writes it (line 183)
   after `applySettings` has cleared it: with the setting off the context of a
   wrapped error, or of a panic, is sent all the same.

The safety properties of the manager are stated so as to hold, with exceptions that
they name:

- `call["addGrpc"] = "closed"` in `ResourcesOutliveRpcs` and `CleanReturn` is case 2;
- `Counted` in `CleanReturn` and `ErrorsReported` leaves out case 3 and the deadline
  that passes between the two `Add(1)`: the `Done()` of the second routine then stands
  in for that of the first, and `Run` may return nil while a service runs (line 337);
- `grpcErr = "serve"` in `ResourcesOutliveRpcs` is a server whose `Serve` failed by
  itself (line 290), as when `Accept` fails for good: its routine is over, the group
  does not count the monitor (lines 277-283), so that `Run` releases the resources
  while `GracefulStop` still waits for RPCs. No document says what should happen then,
  so there is no run for it; `pkservices.rst:52-53` (case 2) may be read against it.
- `ErrorsReported` leaves out the error of a `RegisterOnServer` that panics.
  `manager.go:243-245` says of it "we will get the error", but line 268 overwrites it:
  `Run` reports the error of the context that the panic has cancelled, and nobody
  learns of the panic. `ServesWhenReady` shows that the server does not serve.

In the same way those of
`ErrorPropagation` exclude errors that are `masked`, which is case 4. `LeavesBehind` of
`ManagerReset` and `LeftBehind` of `ManagerSuite` name what can outlive its run. After
a teardown that may be the server itself: with gRPC services only, a quick first
routine leaves the gRPC routine uncounted (case 2), and `WaitForShutdown` does not wait
for it. `TornDown` therefore excepts it.

Disagreements between comments and code that were met and have no run:
`managerTester.go:115` says that the server is up when `PingGrpcServer`
returns: it may be that of an earlier suite, or none when the context was
cancelled, as `retryPing` gives up on the code of an expired context but not on that
of a cancelled one; `managerTester.go:112` says that all errors are ignored, those
of the context are not; `managerSuite.go:42-45` returns before the setup of the
inner suite when there are no gRPC services, while `TearDownSuite` tears it down;
the assertion in the goroutine of `SetupSuite` (line 28) may come after the end of
its test, which the testing package answers with a panic; `manager.go:456` says that
`Reset` prepares a new run, but a service of a run that timed out, when it fails at
last, shuts the new run down (line 164), and one that is launched late is given the
contexts of the new run (line 309); `Run` without `Reset` ends with a panic (line
551), which is not documented; `SendSignal` blocks for ever on a nil channel;
`ctxWaitGroup.go:152` and `:158` say that the group panics "below -1", the code
panics below 0; `ctxWaitGroup.go:37-38` promises a panic for every call after
`panicCtx`, but a select may prefer the cancelled context; `service.go:63-64`
says that `RegisterOnServer` comes before `Setup`, it comes after;
`errs.go:58-60` says that `RunErr` is a `ServicesErrors` when a service was the
cause, a timeout in `Wait` replaces it; `manager.go:193-194` promises to retry the
listen, but only for errors with Op "bind", and `net.Listen` gives Op "listen";
`sendSource` clears two fields, but the text of the status
and the message of `ErrUnknown` have the source too; `sentinelErrDefaults.go:13-14`
names `*Error` values among the errors that are not made `ErrUnknown`, the
conversion does not look for them; `sentinelIssuer.go:79-80` warns that the offset
would be applied several times, `UniformOffset` shows that it is not;
`WithGrpcUnaryServerMiddleware` (`managerOpts.go:151`) returns nil in place of the
options.

## 5. Proofs

`CtxWaitGroupProofs` proves, for every set of calls, waits and deltas and every
capacity (assuming finite `Calls` and `Waits`, integer `Deltas`, positive
`Capacity`, and that `NoCall` is no call):

- `TypeCorrect`: `Spec => []TypeOK`. One step per action; `Send` needs
  `HasRoom`, `Take` that the head and tail of a queue of calls are such.
- `Invariance`: `Spec => []IInv`. The types alone do not say that the event
  which the listener takes is of a call that waits (or was turned away while it
  waited): without it a reply could succeed for a call that has returned. So
  `IInv` adds `QueueInv` (the queue holds different calls, all handed over, none
  of them the one in the handler), `CurrentInv` (listener and handled event
  agree, and a listener that replies has a counter that is not negative),
  `SignalInv` (closed and panicked exclude each other, and the listener is gone
  in both), and `ReasonInv` (a call was turned away for a reason that holds).
  `Send` and `Take`, which move the queue, have a lemma each.
- `Refinement`: `Spec => ImplementsWaitGroup`. Initial states map to initial
  states, and each step, from a state of `IInv`, is a step of `WaitGroup` or a
  stutter: `Send`, `SignalClose`, `StopOnCtx` and `Exit` stutter, `Take` stutters
  or is `Overdraw`, `Reply` is `Succeed`.
- `CounterCorrect`, `ClosedCorrect`: `CounterBalanced` and `ClosedBalanced`, which
  compare the counter with a sum over the calls that succeeded. The sum is a fold
  over a set; induction over sets being out of reach, the facts about it
  (`SumEmpty`, `SumAdd`, `SumSame`) are proved from a smallest counterexample among
  the subsets of the finite `Calls`. `BalanceInv` adds to `CounterBalanced` that the
  counter is zero when the listener closes and after (`ZeroInv`), which ties the sum to
  `closed`.
- `NoDeadlock`: `Spec => []NobodyIsStuck`. A call that has not returned can go on
  itself, or is released by a context, or the listener can go on; and so for a
  wait once calls have succeeded and balance. The invariant needs where a waiting
  call's event is and why a queue is nil (`AwaitInv`), and that a listener which
  went on after a success is not at zero (`OpenInv`).
- `Termination`: `Spec => [][Advances]_vars`. `StepsLeft` counts the stages ahead
  of every call and every wait, and the ends ahead of the object; every
  step lowers it. With `NoDeadlock` this is what `CallsReturn` says, but for the
  fairness.

`ConcurrentMapProofs` proves, for any number of services:

- `Invariance`. The three safety properties are not inductive: that nobody sends
  after the close needs that the channel is closed after the last worker
  (`ClosedInv`), and this that the workers are those below the loop variable
  (`WorkerInv`), which stays in the slice (`LoopInv`). That no error is lost needs
  that the collected ones are those of the failed workers that left, each once
  (`ErrsInv`). `IInv` is these with the types; `Launch`, `Act` and `Deliver` have
  a lemma each.
- `TypeCorrect`, `NobodySendsAfterClose`, `ErrorsReturned`: from `IInv`.
- `Refinement`: `Spec => ImplementsServiceMap`. `Check` already decides: it is the
  launch of the service, or the skip of all that are left, and `Launch` and
  `ReportCtx` stutter; a worker's error is an error of the map when the reader has
  started the shutdown for it.
- `FinishedOnReturn`: from the invariant.
- `Termination`: until `mapServices` has returned, the loop, a worker or the reader
  can go on (`NobodyIsStuck`: they share one unbuffered channel, so that a sender
  goes only when the reader receives), and every step lowers `StepsLeft`, the stages
  ahead of every service and the ends ahead of the loop, the channel and the
  caller.

`ManagerProofs` proves, for any number of services of any kinds, any set of them
that hold resources, with and without a limit and for any number of RPCs
(`ManagerAssumption`, which only types the constants):

- `Invariance`, of an `IInv` in two halves. `RunInv` is the run without the wait
  group: the stages are in order (`StageInv`), a shutdown has a cause
  (`OrderInv`), resources and listeners end one after the other (`ReleaseInv`),
  services run only when all are set up (`RunsInv`), the monitor of the server
  exists exactly when the listen succeeded (`MonitorInv`), and server, routine and
  its error agree (`ServerInv`). `GroupInv` is the wait group: every call is where
  its goroutine is (`CallInv`), the counter is the sum of the calls that succeeded
  (`CountInv`), and `runErr` has what was collected (`ReportInv`).
- The argument that resources outlive their users is in `ClosedBalance` and
  `RoutinesOver`: a closed group has the balance zero, so that as many `Done()` as
  `Add(1)` have succeeded, and a `Done()` succeeds only at the end of a routine.
  From this, with the exceptions that section 4 lists, follow `RunsBeforeRelease`,
  `RpcsBeforeRelease`, `ReturnsClean` and `RunReportsErrors`. `NeverListens` covers
  the odd case that the first `Add` failed with the deadline: the gRPC routine then
  finds a cancelled context and does nothing.
- `ServicesRunAfterSetup`, `ServerIsReady` and `ContextsCascade`, from `RunInv`.
- `NoDeadlock`: `Spec => []NobodyIsStuck`. Once the shutdown is ordered, and until
  `Run` has returned or the process has panicked, a goroutine of the manager can
  go on (`ManagerGoes`); when none can there is no limit, and a service runs, holds a
  resource or answers an RPC although it was asked to end (`ServicesOwe`). `LiveInv`
  adds to `IInv` that `timeoutShutdown` alone cancels the context of the deadline,
  that both listeners live from the beginning of `Run`, that the monitor leaves no
  server at work, and that a group whose total is zero again is no longer open. The
  case that matters is `RoutineIsOut`: while `Run` waits for an open group some
  routine has not counted itself out.
- `Termination`: `Spec => [][Advances \/ OnlyRpcs]_vars`. `StepsLeft` adds the places
  ahead of each routine (`RoutinesLeft`) and the steps ahead of each service in each
  map (`TasksAhead`, a finite set, of which a step takes something away); every
  step lowers it (`RoutinesGoOn`, `ServicesGoOn`, `ServicesStay`), except that RPCs come
  and go. With `NoDeadlock` this is what `ShutdownTerminates` says, but for the
  fairness.

`ManagerLifecycleProofs` proves `Refinement`: `Spec => ImplementsLifecycle`, so
that `ManagerSuite` rests on every run of every manager. The step that needs
the invariant is the return with nil (`FinishRefines`): by `NilIsOver` the gRPC
routine is over or will never listen.

`ManagerResetProofs` proves, for any managers, each with services of either kind, of
both or of none, and with or without `Reset` between the runs (`ResetAssumption`,
which only types the constants):

- `Invariance`. A wait group of the manager may be counted by goroutines of two
  runs, so that `ExitedInv` and `CountInv` cannot say what the counters are: they
  bound them from below, by the goroutines that will count themselves out, as long
  as no listener of the first run has counted itself out of the next and no routine
  was left uncounted. `StageInv` and `HeldInv` say
  which incarnation a goroutine may have read at each stage, `ServerInv` who is
  over when the run has not timed out.
- `TypeCorrect`, and `PanicsExplained`: `Spec => []CrashesExplained`.
- `Isolation`: `Spec => Isolated`. When a run that ended in order has returned, no
  goroutine of it that could still read is left (`QuietAfterRun`), and a step in
  which one strays needs such a goroutine (`StraysAtWork`).

`ManagerSuiteProofs` proves, for any number of suites, with gRPC or without, and
any that cancel their context (`SuiteAssumption`):

- `Invariance`. To know that the server which answers a ping is the suite's own,
  one has to know of all others: the later suites have not begun, so their
  managers do not run (`OrderInv`); the earlier ones that ended waited for their
  manager (`WaitInv`); and a run that returned nil, having counted its gRPC
  routine, is silent and stays so (`SilentInv`), which is inductive because a
  manager tries, binds and serves only while it is `Active`. `MoveKeeps` is for the
  steps of the test functions, `ManagerKeeps` and `RunKeeps` for those of the
  managers.
- `PingsAreAnswered`: `Spec => PingMeansServed`, from `AnswersAre`;
  `SuiteStopsManager`: `Spec => []TornDown`; `TypeCorrect`, which has that no inner
  suite is set up or torn down twice.

`ErrorPropagationProofs` proves, for chains of any length, any sentinels and any
options (`ErrorsAssumption`: a process whose clients have the middleware has a
generator; `NoProtoAssumption`: `NoProto` is no message), all seven invariants of
`error_propagation`:

- What the operators on errors do: `FirstOfIs` (the position found is the first,
  by well-foundedness of the order of positions), `ApplySettingsIs`, `NewErrIs`,
  `ConvertIs`, `ErrToStatusIs`, `FromStatusIs`; text and panics around an error
  change nothing of the message but its context (`ConvertAround`, `LeftIs`); and
  the order of the middlewares (`MiddlewareIs`).
- `Invariance`. The properties speak of what the client has; the induction needs
  what is true of the error on its way. `Tracked` says which frames a message has
  when it is in process `p`, and which sentinel; `Explained`, how source and context
  came to be there. `ChainInv` says of each place what the error is: sent
  (`Reported`), received (`Obtained`), or between the handler and the
  conversion (`Leaving`), where it is what it will be converted to that counts.
  `PlaceInv` says where the result is and that nobody has put text around it
  before it was there, `LogInv` what has been logged and sent. Each action has
  a lemma.
- `TypeCorrect`, `LogsWhatIsSent`, `PanicsRecovered`, `SentinelsSurvive`,
  `TracesComplete`, `SettingsAreKept`, `ContextsPlaced`, from `IInv`.

`SentinelIssuerProofs` proves, for any issuers, names and integer offsets, any
positive width and any codes below it:

- `ShiftedInjective`, the arithmetic: codes that differ still differ after a
  shift modulo the width, because a multiple of the width that is smaller than
  the width is zero (`SmallMultiple`).
- `TypeCorrect`, `OffsetsUniform`, `ErrorsRecognised`: the type invariant,
  `UniformOffset` and `Recognised`, from the inductive `IInv`. `UniformOffset` is
  inductive with the types. `Recognised` is not: its premise may become true
  again after the issuer was changed twice. `ErrorsIssued`, that the code of an
  error is the shift of what it was made from, holds on and gives it, with
  `ShiftedInjective`. Each of the three actions has a lemma.

## 6. Only model-checked, and not modelled

Every invariant and every action property that a run expects to hold is proved, and so
are the three refinements. What stays with TLC is liveness: `CallsReturn`,
`MapReturns`, `ShutdownTerminates`, `FailureStopsRun`, `SuitesEnd` and
`ShutdownEndsNext`, because fairness and `ENABLED` are out of the prover's reach.
For the wait group, the map and the manager the part of it that needs no fairness
is proved: somebody can always go on (`NobodyIsStuck`), and every step leaves less
to do (`Advances`). In `NobodyIsStuck` the predicates that say who can go on
(`CallerGoes`, `MapperGoes`, `ManagerGoes`, ...) are the guards of the actions, written
out: that they are `ENABLED` of these actions is no theorem. The five expected
violations are of course not proved either: TLC finds them.

Not modelled, with the reason in `PROJECT.json`: the option builders, the
JavaScript of the generated documentation and its vendored libraries (which is
most of the repository's text, and no part of the program), the middlewares of
users (which stand outside `CatchPanic`, `managerOpts.go:195-198`: nothing recovers a
panic of theirs), the logs of single stream messages, the assertions of the test helpers,
generated code, and the wording of errors and logs. The panic of
`mapFuncToValues` for a value that is no slice cannot occur with its caller. That
API errors share their message when one value is returned for many requests, and
the gRPC code of a status, are hazards listed without a property.

## 7. Plan

1. `WaitGroup`, `CtxWaitGroup`, their refinement and its proof (done).
2. `ServiceMap`, `ConcurrentMap`, their refinement (done).
3. `Manager`, one run (done).
4. `ErrorPropagation` and `SentinelIssuer`, the latter with its proofs (done).
5. `ManagerLifecycle` and its refinement by `Manager`, `ManagerSuite` on top of it,
   `ManagerReset` (done).
6. Proofs: that `ConcurrentMap` implements `ServiceMap`, the safety of `Manager`
   and that it implements `ManagerLifecycle`, the properties of `ErrorPropagation`
   and the safety of `ManagerSuite` (done).
7. Proofs of the counters of `CtxWaitGroup`, of `ManagerReset`, and that wait group, map
   and manager neither get stuck nor go in circles (done).
8. The same two for the next run of `ManagerReset` and for `ManagerSuite` (left).
9. A heap of messages for API errors that are shared between requests (left).
