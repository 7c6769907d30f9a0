----------------------------- MODULE ServiceMap -----------------------------
(***************************************************************************)
(* What Manager.mapServices promises to the stages of the manager: it      *)
(* applies an action to the services in their order, each application      *)
(* running concurrently with the others; a cancelled servicesCtx stops it  *)
(* before the next service; an error is collected and starts the shutdown; *)
(* it is finished when every application it started is over.               *)
(*                                                                         *)
(* ConcurrentMap is the implementation; Manager uses this module once for  *)
(* each of its stages.                                                     *)
(***************************************************************************)
EXTENDS Naturals, Sequences

CONSTANT NumServices

Services == 1..NumServices

VARIABLES cancelled,  \* servicesCtx is cancelled
          task,       \* service -> the state of its application
          errors      \* the services whose errors were collected, in order

vars == <<cancelled, task, errors>>

TaskStates == {"pending", "active", "failing", "over", "skipped"}

NotStarted == [s \in Services |-> "pending"]

Init ==
  /\ cancelled \in BOOLEAN
  /\ task = NotStarted
  /\ errors = <<>>

\* The first service that has not been started.
IsNext(s) ==
  /\ task[s] = "pending"
  /\ \A t \in 1..(s - 1) : task[t] # "pending"

Launch(s) ==
  /\ IsNext(s)
  /\ ~cancelled
  /\ task' = [task EXCEPT ![s] = "active"]
  /\ UNCHANGED <<cancelled, errors>>

\* The services that are left are skipped, and no error says so.
SkipRest ==
  /\ cancelled
  /\ \E s \in Services : IsNext(s)
  /\ task' = [s \in Services |->
                IF task[s] = "pending" THEN "skipped" ELSE task[s]]
  /\ UNCHANGED <<cancelled, errors>>

Complete(s) ==
  /\ task[s] = "active"
  /\ task' = [task EXCEPT ![s] = "over"]
  /\ UNCHANGED <<cancelled, errors>>

\* The action returned an error or panicked.
Fail(s) ==
  /\ task[s] = "active"
  /\ task' = [task EXCEPT ![s] = "failing"]
  /\ UNCHANGED <<cancelled, errors>>

\* Mutation of Collect: the error starts no shutdown.
CollectMutant(s) ==
  /\ task[s] = "failing"
  /\ task' = [task EXCEPT ![s] = "over"]
  /\ errors' = Append(errors, s)
  /\ UNCHANGED cancelled


Collect(s) ==
  /\ task[s] = "failing"
  /\ task' = [task EXCEPT ![s] = "over"]
  /\ errors' = Append(errors, s)
  /\ cancelled' = TRUE

Cancel ==
  /\ cancelled' = TRUE
  /\ UNCHANGED <<task, errors>>

Finished == \A s \in Services : task[s] \in {"over", "skipped"}

Next ==
  \/ \E s \in Services : Launch(s) \/ Complete(s) \/ Fail(s) \/ Collect(s)
  \/ SkipRest
  \/ Cancel

Spec == Init /\ [][Next]_vars
=============================================================================
