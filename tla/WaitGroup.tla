------------------------------ MODULE WaitGroup ------------------------------
(***************************************************************************)
(* What pksync.CtxWaitGroup promises to its callers, with no goroutine and *)
(* no channel: a total that Add and Done move, that closes the group for   *)
(* good the moment a call brings it to zero, and that breaks the group for *)
(* good (every call panics) when a call would take it below zero.          *)
(*                                                                         *)
(* A member of Calls is one call of Add or Done, a member of Waits one     *)
(* call of Wait: each is made at most once.                                *)
(***************************************************************************)
EXTENDS Integers

CONSTANTS Calls,    \* calls of Add and Done
          Waits,    \* calls of Wait
          Deltas    \* the arguments Add may be given

VARIABLES cancelled,  \* the context given to NewCtxWaitGroup is cancelled
          status,     \* whether the group is open, closed or panicked
          total,      \* the sum of the deltas of the calls that succeeded
          delta,      \* call -> its delta
          call,       \* call -> where it is, or how it returned
          wait        \* wait -> where it is, or how it returned

vars == <<cancelled, status, total, delta, call, wait>>

Init ==
  /\ cancelled = FALSE
  /\ status = "open"
  /\ total = 0
  /\ delta = [c \in Calls |-> 0]
  /\ call = [c \in Calls |-> "idle"]
  /\ wait = [w \in Waits |-> "idle"]

\* The reasons for which a call can be turned away.
Reason(why) ==
  \/ why = "closed" /\ status = "closed"
  \/ why = "panic" /\ status = "panicked"
  \/ why = "ctx" /\ cancelled

Cancel ==
  /\ cancelled' = TRUE
  /\ UNCHANGED <<status, total, delta, call, wait>>

Invoke(c, d) ==
  /\ call[c] = "idle"
  /\ call' = [call EXCEPT ![c] = "pending"]
  /\ delta' = [delta EXCEPT ![c] = d]
  /\ UNCHANGED <<cancelled, status, total, wait>>

\* The call takes effect and returns nil, in one step.
Succeed(c) ==
  /\ call[c] = "pending"
  /\ status = "open"
  /\ total + delta[c] >= 0
  /\ total' = total + delta[c]
  /\ status' = IF total' = 0 THEN "closed" ELSE "open"
  /\ call' = [call EXCEPT ![c] = "ok"]
  /\ UNCHANGED <<cancelled, delta, wait>>

\* The call breaks the group: possibly after its caller was told that the
\* context is cancelled, since its event is still in the queue then.
Overdraw(c) ==
  /\ call[c] \in {"pending", "ctx"}
  /\ status = "open"
  /\ total + delta[c] < 0
  /\ status' = "panicked"
  /\ UNCHANGED <<cancelled, total, delta, call, wait>>

\* The call returns an error, or panics, and has no effect.
Refuse(c, why) ==
  /\ call[c] = "pending"
  /\ Reason(why)
  /\ call' = [call EXCEPT ![c] = why]
  /\ UNCHANGED <<cancelled, status, total, delta, wait>>

StartWait(w) ==
  /\ wait[w] = "idle"
  /\ wait' = [wait EXCEPT ![w] = "waiting"]
  /\ UNCHANGED <<cancelled, status, total, delta, call>>

EndWait(w, why) ==
  /\ wait[w] = "waiting"
  /\ Reason(why)
  /\ wait' = [wait EXCEPT ![w] = why]
  /\ UNCHANGED <<cancelled, status, total, delta, call>>

Next ==
  \/ Cancel
  \/ \E c \in Calls :
       \/ \E d \in Deltas \cup {-1} : Invoke(c, d)
       \/ Succeed(c)
       \/ Overdraw(c)
       \/ \E why \in {"closed", "panic", "ctx"} : Refuse(c, why)
  \/ \E w \in Waits :
       \/ StartWait(w)
       \/ \E why \in {"closed", "panic", "ctx"} : EndWait(w, why)

Spec == Init /\ [][Next]_vars
=============================================================================
