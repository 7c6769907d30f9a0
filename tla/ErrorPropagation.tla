--------------------------- MODULE ErrorPropagation ---------------------------
(***************************************************************************)
(* The way of an error through a chain of processes that use pkerr: the    *)
(* handler of process 1 answers process 2, whose handler called it, and so *)
(* on up to process N, the client.  In each process the result of the      *)
(* handler passes the middlewares that ManagerOpts put around it, the gRPC *)
(* server, the wire, and the client middleware of the next process.        *)
(*                                                                         *)
(* A Go error is the sequence of its layers, outermost first: Unwrap is    *)
(* Tail, and errors.As finds the first layer of a type.                    *)
(***************************************************************************)
EXTENDS Integers, Sequences, FiniteSets, SequencesExt

CONSTANTS N,         \* the processes of the chain
          Thrown,    \* the sentinels that handlers use
          ErrUnknown, ErrNotFound,
          Configs,   \* the options of a process, see Options
          NoGen,     \* no error generator
          NoProto,   \* a status without an *Error among its details
          Nothing    \* no error was meant, or seen

Procs == 1..N
Servers == 1..(N - 1)
Sentinels == Thrown \cup {ErrUnknown, ErrNotFound}

Settings == [stack : BOOLEAN, context : BOOLEAN, source : BOOLEAN]

\* ManagerOpts.errGenerator and addErrNotFoundMiddleware; whether the clients of
\* the process have the middleware of the generator.
Options == [gen : Settings \cup {NoGen}, notFound : BOOLEAN, client : BOOLEAN]

ASSUME ErrorsAssumption ==
  /\ N \in Nat \ {0, 1}
  /\ Configs \subseteq Options
  /\ \A c \in Configs : c.client => c.gen # NoGen

VARIABLES config,    \* process -> its options
          rpc,       \* process -> the kind of its method
          proc,      \* the process that the result is in
          phase,     \* where it is there
          passed,    \* the number of middlewares it has passed
          resp,      \* the response: a value, a nil pointer, nothing
          err,       \* the error, <<>> for nil
          panicking, \* err is the value of a panic
          seen,      \* process -> the error that its logging middleware saw
          sent,      \* process -> the error that its server sent
          meant,     \* the sentinel that the handler's error stands for
          maker,     \* the process whose error it is
          masked,    \* it is an APIError whose source is a sentinel
          wrapped    \* the processes that put text around it

vars == <<config, rpc, proc, phase, passed, resp, err, panicking, seen, sent,
          meant, maker, masked, wrapped>>

options == <<config, rpc>>
purpose == <<meant, maker, masked, wrapped>>

Gen(p) == config[p].gen

-----------------------------------------------------------------------------
(* Errors.                                                                 *)

Wrap == [kind |-> "wrap"]        \* fmt.Errorf("... %w")
Panic == [kind |-> "panic"]      \* PanicError
Plain == [kind |-> "plain"]      \* any other error, without a source
ClientErr == [kind |-> "client"] \* clientErr
Sentinel(s) == [kind |-> "sentinel", sentinel |-> s]
Status(proto) == [kind |-> "status", proto |-> proto]
Api(proto) == [kind |-> "api", proto |-> proto]

Frames == [app : Procs, stack : BOOLEAN, context : BOOLEAN]

Protos ==
  [sentinel : Sentinels, source : BOOLEAN, trace : Seq(Frames) \ {<<>>}]

ASSUME NoProtoAssumption == NoProto \notin Protos

Layers ==
  {Wrap, Panic, Plain, ClientErr} \cup {Sentinel(s) : s \in Sentinels}
    \cup [kind : {"api"}, proto : Protos]
    \cup [kind : {"status"}, proto : Protos \cup {NoProto}]

TypeOK ==
  /\ config \in [Procs -> Configs]
  /\ rpc \in [Procs -> {"unary", "stream"}]
  /\ proc \in Procs
  /\ phase \in {"handler", "layers", "wire", "done", "crashed"}
  /\ passed \in 0..3
  /\ resp \in {"none", "value", "nil"}
  /\ err \in Seq(Layers)
  /\ panicking \in BOOLEAN
  /\ {seen, sent} \subseteq [Servers -> Seq(Layers) \cup {<<Nothing>>}]
  /\ meant \in Sentinels \cup {Nothing}
  /\ maker \in Procs
  /\ masked \in BOOLEAN
  /\ wrapped \subseteq Procs

\* errors.As: the position of the first layer of one of these types, or 0.
FirstOf(kinds, e) == SelectInSeq(e, LAMBDA layer : layer.kind \in kinds)

\* Mutation of ApplySettings: the first frame in the place of the last.
ApplySettingsMutant(p, proto) ==
  [proto EXCEPT
     !.source = @ /\ Gen(p).source,
     !.trace[1] = [app |-> p, stack |-> @.stack /\ Gen(p).stack,
                   context |-> @.context /\ Gen(p).context]]

\* applySettings: what process p does not send is cleared, in the last frame.
ApplySettings(p, proto) ==
  [proto EXCEPT
     !.source = @ /\ Gen(p).source,
     !.trace[Len(proto.trace)] = [app |-> p, stack |-> @.stack /\ Gen(p).stack,
                                  context |-> @.context /\ Gen(p).context]]

\* NewErr, from a sentinel and a source.
NewErr(p, s, source) ==
  LET basic == [sentinel |-> s, source |-> source # <<>>,
                trace |-> <<[app |-> p, stack |-> TRUE, context |-> FALSE]>>]
  IN  <<Api(ApplySettings(p, basic))>> \o source

\* errToAPIErrConvertType: a sentinel anywhere in the chain, else an APIError
\* anywhere in the chain, else ErrUnknown.
Convert(p, e) ==
  LET s == FirstOf({"sentinel"}, e)
      a == FirstOf({"api"}, e)
  IN  IF s # 0 THEN NewErr(p, e[s].sentinel, e)
      ELSE IF a # 0 THEN <<Api(ApplySettings(p, e[a].proto))>> \o SubSeq(e, a + 1, Len(e))
      ELSE NewErr(p, ErrUnknown, e)

\* Mutation of HasContext: the text of the error is added in any case.
HasContextMutant(e) == TRUE

\* The sentinel or APIError that Convert found is not the whole of e.
HasContext(e) ==
  LET s == FirstOf({"sentinel"}, e)
  IN  IF s # 0 THEN s # 1 ELSE FirstOf({"api"}, e) > 1

\* errToStatus: the context is added after the settings were applied.
ErrToStatus(p, e) ==
  LET proto == Convert(p, e)[1].proto
      last == Len(proto.trace)
  IN  <<Status(IF HasContext(e)
                 THEN [proto EXCEPT !.trace[last].context = TRUE] ELSE proto)>>

\* Mutation of FromStatus: the frame is added with the stack or not at all.
FromStatusMutant(p, e) ==
  IF e = <<>> \/ e[1].kind # "status" \/ e[1].proto = NoProto THEN e
  ELSE IF Gen(p).stack
    THEN <<Api([e[1].proto EXCEPT !.trace = Append(@, [app |-> p, stack |-> TRUE,
                                                      context |-> FALSE])]),
           ClientErr>> \o e
  ELSE <<Api(e[1].proto), ClientErr>> \o e

\* extractClientErrorFromInvoker: the *Error of a status, with one more frame.
FromStatus(p, e) ==
  IF e = <<>> \/ e[1].kind # "status" \/ e[1].proto = NoProto THEN e
  ELSE LET frame == [app |-> p, stack |-> Gen(p).stack, context |-> FALSE]
       IN  <<Api([e[1].proto EXCEPT !.trace = Append(@, frame)]), ClientErr>> \o e

-----------------------------------------------------------------------------
(* Handlers.                                                               *)

Init ==
  /\ config \in [Procs -> Configs]
  /\ \E kind \in {"unary", "stream"} : rpc = [p \in Procs |-> kind]
  /\ proc = 1
  /\ phase = "handler"
  /\ passed = 0
  /\ resp = "none"
  /\ err = <<>>
  /\ panicking = FALSE
  /\ seen = [p \in Servers |-> <<Nothing>>]
  /\ sent = [p \in Servers |-> <<Nothing>>]
  /\ meant = Nothing
  /\ maker = 1
  /\ masked = FALSE
  /\ wrapped = {}

\* The errors a handler can make: any error, a sentinel, or one of its generator
\* with a source, which may be the error that it received.
Made(p) ==
  LET sources == {<<>>, <<Plain>>, err} \cup {<<Sentinel(s)>> : s \in Thrown}
  IN  {<<Plain>>} \cup {<<Sentinel(s)>> : s \in Thrown}
        \cup (IF Gen(p) = NoGen THEN {}
              ELSE {NewErr(p, s, source) : s \in Thrown, source \in sources})

\* The handler is left with the error e, or panics with it.
Leave(e, panics) ==
  /\ proc \in Servers
  /\ phase = "handler"
  /\ phase' = "layers"
  /\ err' = IF panics THEN <<Panic>> \o e ELSE e
  /\ panicking' = panics
  /\ resp' = "none"
  /\ UNCHANGED <<options, proc, passed, seen, sent>>

\* What is around the error of process p itself.
AddText(set, panics, isWrapped) ==
  IF panics \/ isWrapped THEN set \cup {proc} ELSE set

\* An error of its own.
Fail(e, panics, isWrapped) ==
  LET outer == FirstOf({"sentinel", "api"}, e)
      inner == FirstOf({"sentinel"}, e)
  IN  /\ Leave(IF isWrapped THEN <<Wrap>> \o e ELSE e, panics)
      /\ meant' = CASE outer = 0 -> ErrUnknown
                    [] outer # 0 /\ e[outer].kind = "sentinel" -> e[outer].sentinel
                    [] OTHER -> e[outer].proto.sentinel
      /\ maker' = proc
      /\ masked' = (inner > outer)
      /\ wrapped' = IF outer = 0 THEN {} ELSE AddText({}, panics, isWrapped)

\* The error of the process that it called, as it is or with text around it.
Relay(panics, isWrapped) ==
  /\ err # <<>>
  /\ Leave(IF isWrapped THEN <<Wrap>> \o err ELSE err, panics)
  /\ wrapped' = AddText(wrapped, panics, isWrapped)
  /\ UNCHANGED <<meant, maker, masked>>

\* A response without an error.
Answer(r) ==
  /\ proc \in Servers
  /\ phase = "handler"
  /\ phase' = "layers"
  /\ resp' = r
  /\ err' = <<>>
  /\ meant' = Nothing /\ maker' = proc /\ masked' = FALSE /\ wrapped' = {}
  /\ UNCHANGED <<options, proc, passed, panicking, seen, sent>>

-----------------------------------------------------------------------------
(* The middlewares of the server, the first one next to the handler.       *)

\* Mutation of UnaryMiddleware: the log is written before the conversion.
UnaryMiddlewareMutant(c) ==
  (IF c.notFound THEN <<"notFound">> ELSE <<>>) \o <<"logging">>
    \o (IF c.gen # NoGen THEN <<"errors">> ELSE <<>>)

\* Mutation of UnaryMiddleware: not-found after the conversion.
UnaryMiddlewareOrderMutant(c) ==
  (IF c.gen # NoGen THEN <<"errors">> ELSE <<>>)
    \o (IF c.notFound THEN <<"notFound">> ELSE <<>>) \o <<"logging">>

\* createUnaryMiddlewareInterceptor
UnaryMiddleware(c) ==
  (IF c.notFound THEN <<"notFound">> ELSE <<>>)
    \o (IF c.gen # NoGen THEN <<"errors">> ELSE <<>>) \o <<"logging">>

\* Mutation of StreamMiddleware: the handler is kept from one request to the
\* next, and wrapped again.
StreamMiddlewareMutant(c) ==
  (IF c.gen # NoGen THEN <<"errors">> ELSE <<>>) \o <<"logging">>
    \o (IF c.gen # NoGen THEN <<"errors">> ELSE <<>>) \o <<"logging">>

\* createStreamMiddlewareInterceptor
StreamMiddleware(c) ==
  (IF c.gen # NoGen THEN <<"errors">> ELSE <<>>) \o <<"logging">>

Middleware(p) ==
  IF rpc[p] = "unary" THEN UnaryMiddleware(config[p]) ELSE StreamMiddleware(config[p])

\* The result reaches the next middleware of the list.
Reaches(name) ==
  /\ phase = "layers"
  /\ passed < Len(Middleware(proc))
  /\ Middleware(proc)[passed + 1] = name
  /\ passed' = passed + 1
  /\ UNCHANGED <<options, proc, phase, sent>>

\* NewErrNotFoundMiddleware.  Without a generator it dereferences nil.
NotFound ==
  /\ Reaches("notFound")
  /\ IF err = <<>> /\ resp = "nil"
       THEN /\ resp' = "none"
            /\ IF Gen(proc) = NoGen
                 THEN err' = <<Panic, Plain>> /\ panicking' = TRUE
                 ELSE err' = NewErr(proc, ErrNotFound, <<>>) /\ UNCHANGED panicking
            /\ meant' = ErrNotFound /\ maker' = proc
       ELSE UNCHANGED <<resp, err, panicking, meant, maker>>
  /\ UNCHANGED <<seen, masked, wrapped>>

\* Mutation of Errors: no CatchPanic around the handler.
ErrorsMutant ==
  /\ Reaches("errors")
  /\ err' = IF err = <<>> \/ panicking THEN err ELSE ErrToStatus(proc, err)
  /\ UNCHANGED <<resp, panicking, seen, purpose>>

\* UnaryServerMiddleware and StreamServerMiddleware: CatchPanic, errToStatus.
Errors ==
  /\ Reaches("errors")
  /\ err' = IF err = <<>> THEN err ELSE ErrToStatus(proc, err)
  /\ panicking' = FALSE
  /\ UNCHANGED <<resp, seen, purpose>>

\* logRPCMessage.  A panic goes through it.
Logging ==
  /\ Reaches("logging")
  /\ seen' = IF panicking THEN seen ELSE [seen EXCEPT ![proc] = err]
  /\ UNCHANGED <<resp, err, panicking, purpose>>

-----------------------------------------------------------------------------
(* gRPC.                                                                   *)

\* The server sends a status, which it makes of any other error.
Send ==
  /\ phase = "layers" /\ passed = Len(Middleware(proc)) /\ ~panicking
  /\ err' = IF err = <<>> \/ err[1].kind = "status" THEN err ELSE <<Status(NoProto)>>
  /\ sent' = [sent EXCEPT ![proc] = err']
  /\ proc' = proc + 1
  /\ phase' = "wire"
  /\ passed' = 0
  /\ UNCHANGED <<options, resp, panicking, seen, purpose>>

\* A panic that nothing recovers ends the process.
Crash ==
  /\ phase = "layers" /\ passed = Len(Middleware(proc)) /\ panicking
  /\ phase' = "crashed"
  /\ UNCHANGED <<options, proc, passed, resp, err, panicking, seen, sent, purpose>>

\* UnaryClientMiddleware, or clientStream.RecvMsg; the caller has the result.
Receive ==
  /\ phase = "wire"
  /\ err' = IF config[proc].client THEN FromStatus(proc, err) ELSE err
  /\ phase' = IF proc = N THEN "done" ELSE "handler"
  /\ UNCHANGED <<options, proc, passed, resp, panicking, seen, sent, purpose>>

Next ==
  \/ \E panics, isWrapped \in BOOLEAN :
       Relay(panics, isWrapped) \/ \E e \in Made(proc) : Fail(e, panics, isWrapped)
  \/ \E r \in {"value", "nil"} : Answer(r)
  \/ NotFound \/ Errors \/ Logging
  \/ Send \/ Crash \/ Receive

Spec == Init /\ [][Next]_vars

-----------------------------------------------------------------------------
(* What must hold.                                                         *)

\* Every process from the maker of the error on uses a generator for its server
\* and its clients.
Complete ==
  /\ \A p \in maker..(N - 1) : Gen(p) # NoGen
  /\ \A p \in (maker + 1)..N : config[p].client

Received == phase = "done" /\ err # <<>> /\ err[1].kind = "api"

\* The client has an APIError for the sentinel that the handler meant, through
\* any number of processes, wraps and panics; a nil response is ErrNotFound.
SentinelSurvives ==
  phase = "done" /\ meant # Nothing /\ Complete /\ ~masked =>
    Received /\ err[1].proto.sentinel = meant

\* The frames of an error are those of the processes from its maker to the
\* client, once each and in order (generator.go, lines 42-44;
\* generatorMiddleware.go, lines 57-65).
TraceComplete ==
  Received /\ Complete =>
    LET trace == err[1].proto.trace
    IN  [i \in 1..Len(trace) |-> trace[i].app]
          = [i \in 1..(N - maker + 1) |-> maker + i - 1]

\* A frame has a stack trace if its own process adds them, whatever the others
\* on the way do, and the source error is there only if all of them send it.
SettingsKept ==
  Received /\ Complete =>
    LET proto == err[1].proto
    IN  /\ \A i \in 1..Len(proto.trace) :
             proto.trace[i].stack = Gen(proto.trace[i].app).stack
        /\ proto.source => \A p \in maker..(N - 1) : Gen(p).source

\* The additional context is in the frames of the processes that put text around
\* the error and in no others, although it is written after applySettings into
\* what is then the last frame (generatorMiddleware.go, lines 180-186).  It is
\* there whether or not the process has sendContext: see ContextAsSet.
ContextWhereAdded ==
  Received /\ Complete /\ ~masked =>
    LET trace == err[1].proto.trace
    IN  \A i \in 1..Len(trace) : trace[i].context <=> trace[i].app \in wrapped

\* The log has the error that the client is sent (managerOpts.go, lines
\* 200-202), provided that there is a generator to convert it.
LoggedIsSent ==
  \A p \in Servers : Gen(p) # NoGen /\ sent[p] # <<Nothing>> => seen[p] = sent[p]

\* No panic of a handler, or of the not-found middleware, ends a process that has
\* a generator.  Middlewares of the user stand outside CatchPanic (managerOpts.go,
\* lines 195-198), as does the logging: nothing recovers a panic of theirs, and
\* the model has none.
GeneratorRecovers == phase = "crashed" => Gen(proc) = NoGen

-----------------------------------------------------------------------------
(* What the documentation says, and the code does not do.                  *)

\* pkerr.rst, lines 347-349: the interceptors "will handle packing and unpacking
\* our error into the details fields".  The client has the error that the handler
\* returned, whatever its source is; but errToAPIErrConvertType prefers a sentinel
\* anywhere in the chain of sources to the APIError that is returned.
HandlerErrorReported ==
  phase = "done" /\ meant # Nothing /\ Complete =>
    Received /\ err[1].proto.sentinel = meant

\* pkerr.rst, lines 147-148: sendContext "will include any additional context the
\* error is wrapped in".  A process without it sends no context; but errToAPIErr
\* writes the context after applySettings has cleared it.
ContextAsSet ==
  Received /\ Complete /\ ~masked =>
    LET trace == err[1].proto.trace
    IN  \A i \in 1..Len(trace) :
          trace[i].context => Gen(trace[i].app).context
=============================================================================
