-------------------------- MODULE ManagerLifecycle --------------------------
(***************************************************************************)
(* What a pkservices.Manager promises to the program around it: when Run   *)
(* begins and returns, when the shutdown is ordered, when the listen on    *)
(* the gRPC address was tried, and when the gRPC server takes requests.    *)
(*                                                                         *)
(* Manager is shown to implement it for one manager; ManagerSuite, the     *)
(* test helpers, is built on it with several managers that share one       *)
(* address.                                                                *)
(***************************************************************************)

CONSTANT Managers

VARIABLES run,      \* manager -> "idle", "running", or what Run returned
          ordered,  \* manager -> its servicesCtx is cancelled
          listen,   \* manager -> the outcome of its getGrpcListener
          server,   \* manager -> its gRPC server
          counted   \* manager -> runsComplete waits for its gRPC routine

vars == <<run, ordered, listen, server, counted>>

Results == {"nil", "error"}

LifecycleTypeOK ==
  /\ run \in [Managers -> {"idle", "running"} \cup Results]
  /\ ordered \in [Managers -> BOOLEAN]
  /\ listen \in [Managers -> {"none", "trying", "bound", "failed"}]
  /\ server \in [Managers -> {"down", "up", "failed", "draining", "stopped"}]
  /\ counted \in [Managers -> BOOLEAN]

Init ==
  /\ run = [m \in Managers |-> "idle"]
  /\ ordered = [m \in Managers |-> FALSE]
  /\ listen = [m \in Managers |-> "none"]
  /\ server = [m \in Managers |-> "down"]
  /\ counted = [m \in Managers |-> TRUE]

\* The manager's listener is open, so that the address is taken.
Holds(m) == listen[m] = "bound" /\ server[m] \in {"down", "up"}

\* getGrpcListener of m has returned.
Listened(m) == listen[m] \in {"bound", "failed"}

\* The gRPC routine of m can do nothing any more.
Silent(m) ==
  server[m] = "stopped" \/ (server[m] = "down" /\ listen[m] \in {"none", "failed"})

\* The gRPC routine of m may still be at work.
Active(m) ==
  run[m] \in {"running", "error"} \/ (run[m] = "nil" /\ ~counted[m])

Start(m) ==
  /\ run[m] = "idle"
  /\ run' = [run EXCEPT ![m] = "running"]
  /\ UNCHANGED <<ordered, listen, server, counted>>

\* By StartShutdown, a signal or an error, at any time.
Order(m) ==
  /\ ordered' = [ordered EXCEPT ![m] = TRUE]
  /\ UNCHANGED <<run, listen, server, counted>>

\* The group was closed, or its context cancelled, before the second Add(1).
Uncount(m) ==
  /\ run[m] = "running"
  /\ counted' = [counted EXCEPT ![m] = FALSE]
  /\ UNCHANGED <<run, ordered, listen, server>>

\* getGrpcListener finds its context not cancelled and will listen once...
TryListen(m) ==
  /\ Active(m)
  /\ listen[m] = "none"
  /\ ~ordered[m]
  /\ listen' = [listen EXCEPT ![m] = "trying"]
  /\ UNCHANGED <<run, ordered, server, counted>>

\* ... whatever is ordered meanwhile.
Bind(m) ==
  /\ Active(m)
  /\ listen[m] = "trying"
  /\ \A other \in Managers : ~Holds(other)
  /\ listen' = [listen EXCEPT ![m] = "bound"]
  /\ UNCHANGED <<run, ordered, server, counted>>

FailListen(m) ==
  /\ Active(m)
  /\ listen[m] = "trying" \/ (listen[m] = "none" /\ ordered[m])
  /\ listen' = [listen EXCEPT ![m] = "failed"]
  /\ UNCHANGED <<run, ordered, server, counted>>

\* The ways of a server: it serves once bound, unless it was stopped first; it
\* stops accepting when it fails, and drains when a shutdown was ordered.
ServerStep(m, from, to) ==
  /\ server[m] = from
  /\ server' = [server EXCEPT ![m] = to]
  /\ UNCHANGED <<run, ordered, listen, counted>>

Serve(m) == listen[m] = "bound" /\ ServerStep(m, "down", "up")
Break(m) == ServerStep(m, "up", "failed")
Drain(m) ==
  /\ ordered[m]
  /\ \/ listen[m] = "bound" /\ ServerStep(m, "down", "stopped")
     \/ \E from \in {"up", "failed"} : ServerStep(m, from, "draining")
Stop(m) == ServerStep(m, "draining", "stopped")

\* Run returns nil only when nothing of a counted gRPC routine is left.
Return(m, result) ==
  /\ run[m] = "running"
  /\ result = "nil" /\ counted[m] => Silent(m)
  /\ run' = [run EXCEPT ![m] = result]
  /\ ordered' = [ordered EXCEPT ![m] = TRUE]
  /\ UNCHANGED <<listen, server, counted>>

ManagerStep(m) ==
  \/ TryListen(m) \/ Bind(m) \/ FailListen(m) \/ Serve(m) \/ Break(m)
  \/ Drain(m) \/ Stop(m) \/ Uncount(m)

Next == \E m \in Managers :
  Start(m) \/ Order(m) \/ ManagerStep(m) \/ \E r \in Results : Return(m, r)

Spec == Init /\ [][Next]_vars
=============================================================================
