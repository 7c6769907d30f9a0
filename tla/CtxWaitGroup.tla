---------------------------- MODULE CtxWaitGroup ----------------------------
(***************************************************************************)
(* pksync.CtxWaitGroup (src/pksync/ctxWaitGroup.go): a wait group whose    *)
(* counter belongs to one listener goroutine.  A call of Add or Done sends *)
(* an event to the listener over a buffered channel and then waits for an  *)
(* unbuffered reply; three contexts (the caller's own, "closed", "panic")  *)
(* interrupt both halves, and a select takes any branch that is ready.     *)
(*                                                                         *)
(* A member of Calls is one goroutine that calls Add or Done once; a       *)
(* member of Waits one that calls Wait once.  Add(d) and Done() differ by  *)
(* their delta only.                                                       *)
(***************************************************************************)
EXTENDS Integers, Sequences, FiniteSets, Functions

CONSTANTS Calls,     \* calls of Add and Done
          Waits,     \* calls of Wait
          Deltas,    \* the arguments Add may be given
          Capacity,  \* of the channel of events (16 in the code)
          NoCall     \* the listener is handling no event

ASSUME CallsAssumption == IsFiniteSet(Calls) /\ NoCall \notin Calls
ASSUME WaitsAssumption == IsFiniteSet(Waits)
ASSUME DeltasAssumption == Deltas \subseteq Int
ASSUME CapacityAssumption == Capacity \in Nat \ {0}

VARIABLES ctxDone,   \* group.ctx is cancelled (its owner does that)
          closed,    \* group.closedCtx is cancelled
          panicked,  \* group.panicCtx is cancelled
          events,    \* group.events, the buffered channel: the calls in it
          counter,   \* group.counter
          listener,  \* where the goroutine of listen() is
          current,   \* the event in handleEvent
          delta,     \* call -> the Delta of its event
          caller,    \* call -> where its goroutine is, or how it returned
          waiter     \* wait -> where its goroutine is, or how it returned

vars == <<ctxDone, closed, panicked, events, counter, listener, current,
          delta, caller, waiter>>

contexts == <<ctxDone, closed, panicked>>

Returned == {"ok", "closed", "ctx", "panic"}

TypeOK ==
  /\ ctxDone \in BOOLEAN
  /\ closed \in BOOLEAN
  /\ panicked \in BOOLEAN
  /\ events \in Seq(Calls)
  /\ Len(events) <= Capacity
  /\ counter \in Int
  /\ listener \in {"select", "reply", "close", "exit", "stopped"}
  /\ current \in Calls \cup {NoCall}
  /\ delta \in [Calls -> Int]
  /\ caller \in [Calls -> {"idle", "send", "blocked", "await"} \cup Returned]
  /\ waiter \in [Waits -> {"idle", "waiting", "closed", "ctx", "panic"}]

Init ==
  /\ ctxDone = FALSE
  /\ closed = FALSE
  /\ panicked = FALSE
  /\ events = <<>>
  /\ counter = 0
  /\ listener = "select"
  /\ current = NoCall
  /\ delta = [c \in Calls |-> 0]
  /\ caller = [c \in Calls |-> "idle"]
  /\ waiter = [w \in Waits |-> "idle"]

-----------------------------------------------------------------------------
(* The owner of the context.                                               *)

CancelCtx ==
  /\ ~ctxDone
  /\ ctxDone' = TRUE
  /\ UNCHANGED <<closed, panicked, events, counter, listener, current, delta,
                 caller, waiter>>

-----------------------------------------------------------------------------
(* A call of Add or Done.                                                  *)

\* The first select evaluates group.events.  The listener sets it to nil on
\* exit without synchronisation, so a call made afterwards may see either the
\* channel or nil, on which a send blocks.
Invoke(c, d) ==
  /\ caller[c] = "idle"
  /\ delta' = [delta EXCEPT ![c] = d]
  /\ \/ caller' = [caller EXCEPT ![c] = "send"]
     \/ /\ listener = "stopped"
        /\ caller' = [caller EXCEPT ![c] = "blocked"]
  /\ UNCHANGED <<contexts, events, counter, listener, current, waiter>>

\* Mutation of HasRoom: the queue has no limit.
HasRoomMutant == TRUE

\* The channel is buffered.
HasRoom == Len(events) < Capacity

Send(c) ==
  /\ caller[c] = "send"
  /\ HasRoom
  /\ events' = Append(events, c)
  /\ caller' = [caller EXCEPT ![c] = "await"]
  /\ UNCHANGED <<contexts, counter, listener, current, delta, waiter>>

\* The contexts that end a select, and the result that each gives.
Reason(why) ==
  \/ why = "closed" /\ closed
  \/ why = "panic" /\ panicked
  \/ why = "ctx" /\ ctxDone

\* Mutation of Refuse: the second select waits for the reply only.
RefuseMutant(c, why) ==
  /\ caller[c] \in {"send", "blocked"}
  /\ Reason(why)
  /\ caller' = [caller EXCEPT ![c] = why]
  /\ UNCHANGED <<contexts, events, counter, listener, current, delta, waiter>>

\* Either select of sendWaitEvent may take the branch of a context.
Refuse(c, why) ==
  /\ caller[c] \in {"send", "blocked", "await"}
  /\ Reason(why)
  /\ caller' = [caller EXCEPT ![c] = why]
  /\ UNCHANGED <<contexts, events, counter, listener, current, delta, waiter>>

-----------------------------------------------------------------------------
(* The listener.                                                           *)

\* Mutation of Succeeds: the bound that the comments of Add and Done give.
SucceedsMutant(n) == n >= -1

\* Whether a call that makes the counter n succeeds.
Succeeds(n) == n >= 0

\* Mutation of Take: the group is closed before the reply, not after it.
TakeMutant ==
  /\ listener = "select"
  /\ events # <<>>
  /\ current' = Head(events)
  /\ events' = Tail(events)
  /\ counter' = counter + delta[Head(events)]
  /\ IF Succeeds(counter')
       THEN listener' = "reply" /\ UNCHANGED panicked
       ELSE listener' = "exit" /\ panicked' = TRUE
  /\ closed' = (counter' = 0)
  /\ UNCHANGED <<ctxDone, delta, caller, waiter>>

\* Receive an event and apply it.  Below zero the listener signals the panic
\* and leaves; otherwise it goes on to the reply.
Take ==
  /\ listener = "select"
  /\ events # <<>>
  /\ current' = Head(events)
  /\ events' = Tail(events)
  /\ counter' = counter + delta[Head(events)]
  /\ IF Succeeds(counter')
       THEN listener' = "reply" /\ UNCHANGED panicked
       ELSE listener' = "exit" /\ panicked' = TRUE
  /\ UNCHANGED <<ctxDone, closed, delta, caller, waiter>>

\* Mutation of Reply: a send that gives up when the caller is not there.
ReplyMutant ==
  /\ listener = "reply"
  /\ caller' = [caller EXCEPT ![current] = IF @ = "await" THEN "ok" ELSE @]
  /\ listener' = IF counter = 0 THEN "close" ELSE "select"
  /\ current' = NoCall
  /\ UNCHANGED <<contexts, events, counter, delta, waiter>>

\* event.Success <- struct{}{}: unbuffered, so it takes the caller too.
Reply ==
  /\ listener = "reply"
  /\ caller[current] = "await"
  /\ caller' = [caller EXCEPT ![current] = "ok"]
  /\ listener' = IF counter = 0 THEN "close" ELSE "select"
  /\ current' = NoCall
  /\ UNCHANGED <<contexts, events, counter, delta, waiter>>

SignalClose ==
  /\ listener = "close"
  /\ closed' = TRUE
  /\ listener' = "exit"
  /\ UNCHANGED <<ctxDone, panicked, events, counter, current, delta, caller,
                 waiter>>

StopOnCtx ==
  /\ listener = "select"
  /\ ctxDone
  /\ listener' = "exit"
  /\ UNCHANGED <<contexts, events, counter, current, delta, caller, waiter>>

\* The deferred group.events = nil.
Exit ==
  /\ listener = "exit"
  /\ listener' = "stopped"
  /\ UNCHANGED <<contexts, events, counter, current, delta, caller, waiter>>

Listen == Take \/ Reply \/ SignalClose \/ StopOnCtx \/ Exit

-----------------------------------------------------------------------------
(* A call of Wait.                                                         *)

StartWait(w) ==
  /\ waiter[w] = "idle"
  /\ waiter' = [waiter EXCEPT ![w] = "waiting"]
  /\ UNCHANGED <<contexts, events, counter, listener, current, delta, caller>>

EndWait(w, why) ==
  /\ waiter[w] = "waiting"
  /\ Reason(why)
  /\ waiter' = [waiter EXCEPT ![w] = why]
  /\ UNCHANGED <<contexts, events, counter, listener, current, delta, caller>>

-----------------------------------------------------------------------------
Reasons == {"closed", "panic", "ctx"}

\* What the goroutine of a call does once the call is made.
Continue(c) == Send(c) \/ \E why \in Reasons : Refuse(c, why)

Next ==
  \/ CancelCtx
  \/ \E c \in Calls : (\E d \in Deltas \cup {-1} : Invoke(c, d)) \/ Continue(c)
  \/ Listen
  \/ \E w \in Waits : StartWait(w) \/ \E why \in Reasons : EndWait(w, why)

Spec == Init /\ [][Next]_vars

\* Goroutines that can run are run.  Nobody is obliged to make a call or to
\* cancel the context.
Fairness ==
  /\ WF_vars(Listen)
  /\ \A c \in Calls : WF_vars(Continue(c))
  /\ \A w \in Waits : WF_vars(\E why \in Reasons : EndWait(w, why))

FairSpec == Spec /\ Fairness

-----------------------------------------------------------------------------
(* What must hold.                                                         *)

\* The calls that returned nil.
Succeeded == {c \in Calls : caller[c] = "ok"}

\* The sum of their deltas.
SumOk == SumFunctionOnSet(delta, Succeeded)

\* The counter is the sum of the deltas whose calls returned nil, plus the one
\* of the event being handled: no event is applied twice, dropped after its
\* call was told of its success, or counted for a call that was turned away
\* (handleEvent, lines 51-80).
CounterBalanced ==
  counter = SumOk + (IF current = NoCall THEN 0 ELSE delta[current])

\* Once the group is closed the calls that returned nil balance exactly: the
\* call that brought the counter to zero learns of its own success, and not of
\* the closing it caused.  That is what the blocking reply of lines 57-61 is
\* for.
ClosedBalanced == closed => SumOk = 0

\* Every call returns: a caller is never left with a full queue, a nil queue,
\* or an event that the listener has left behind (lines 110-146); and a call of
\* Wait returns once calls have succeeded that balance (lines 57-68, 163-173).
CallsReturn ==
  /\ \A c \in Calls :
       caller[c] \in {"send", "blocked", "await"} ~> caller[c] \in Returned
  /\ \A w \in Waits :
       waiter[w] = "waiting" /\ Succeeded # {} /\ SumOk = 0 /\ current = NoCall
         ~> waiter[w] # "waiting"

\* The refinement of WaitGroup.  The group counts as closed as soon as the
\* caller has its reply, although closedCtx is cancelled a step later; the
\* event in the handler counts only when its caller has the reply.
WG == INSTANCE WaitGroup WITH
  cancelled <- ctxDone,
  status <- IF panicked THEN "panicked"
            ELSE IF closed \/ listener = "close" THEN "closed" ELSE "open",
  total <- IF current = NoCall THEN counter ELSE counter - delta[current],
  call <- [c \in Calls |-> IF caller[c] \in {"send", "blocked", "await"}
                             THEN "pending" ELSE caller[c]],
  wait <- waiter

\* Seen from outside, the goroutine, the queue and the three contexts behave
\* as one total that each call moves atomically: a call that returns nil took
\* effect at that moment, one that returns an error has no effect unless it
\* breaks the group, and nothing succeeds after a close or a panic.
ImplementsWaitGroup == WG!Spec

-----------------------------------------------------------------------------
(* What the documentation says, and the code does not do.                  *)

\* Line 97, "If the context cancels, stop.": a listener that finds the context
\* cancelled ends.  It does not when it is at the reply to a call that the same
\* context has made return.
ListenerStopsOnCancel == ctxDone ~> listener = "stopped"
=============================================================================
