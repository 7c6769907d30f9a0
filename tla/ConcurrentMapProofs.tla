-------------------------- MODULE ConcurrentMapProofs --------------------------
(***************************************************************************)
(* Proofs about ConcurrentMap, for any number of services: types, the      *)
(* inductive invariant with the three safety properties it gives, the      *)
(* refinement of ServiceMap, and that the map ends.                        *)
(***************************************************************************)
EXTENDS ConcurrentMap, SequenceTheorems, FiniteSetTheorems, TLAPS

Failures == {"error", "panic"}

\* The body of the loop has a value of the slice.
LoopInv == mapper \in {"launch", "report"} => index <= NumServices

\* The loop variable separates the services that were launched from the others,
\* and a worker that is at the channel has an error to send.
WorkerInv == \A s \in Services :
  /\ worker[s] = "none" <=> s >= index
  /\ worker[s] \in {"none", "running"} => outcome[s] = "none"
  /\ worker[s] = "sending" => outcome[s] \in Failures

\* The channel is closed after the last worker, and the range loop ends after
\* the channel is closed.
ClosedInv ==
  /\ mapper = "closed" => \A s \in Services : worker[s] \in {"none", "exited"}
  /\ consumer = "returned" => mapper = "closed"

\* The errors appended are those of the workers that failed and left.
ErrsInv ==
  /\ \A i \in 1..Len(errs) :
       worker[errs[i]] = "exited" /\ outcome[errs[i]] \in Failures
  /\ \A i, j \in 1..Len(errs) : errs[i] = errs[j] => i = j
  /\ \A s \in Services : worker[s] = "exited" /\ outcome[s] \in Failures =>
       \E i \in 1..Len(errs) : errs[i] = s
  /\ consumer = "shutdown" => Len(errs) > 0

IInv == TypeOK /\ LoopInv /\ WorkerInv /\ ClosedInv /\ ErrsInv

-----------------------------------------------------------------------------
(* Types.                                                                  *)

\* Every step keeps the variables in their sets, in particular the loop variable
\* at most one beyond the slice, where the loop ends.
LEMMA TypeStep == TypeOK /\ LoopInv /\ [Next]_vars => TypeOK' /\ LoopInv'
<1> SUFFICES ASSUME TypeOK, LoopInv, [Next]_vars PROVE TypeOK' /\ LoopInv'
  OBVIOUS
<1> USE NumServicesAssumption DEF TypeOK, LoopInv, Services, Outcomes
<1>1. CASE Check
  BY <1>1 DEF Check, LoopOver
<1>2. CASE Launch
  BY <1>2 DEF Launch
<1>3. CASE ReportCtx
  BY <1>3 DEF ReportCtx
<1>4. CASE Close
  BY <1>4 DEF Close
<1>5. ASSUME NEW s \in Services, NEW o \in Outcomes, Act(s, o)
      PROVE  TypeOK' /\ LoopInv'
  BY <1>5 DEF Act
<1>6. ASSUME NEW s \in Services, Deliver(s)
      PROVE  TypeOK' /\ LoopInv'
  <2>1. errs' \in Seq(Services)
    BY <1>6, AppendProperties DEF Deliver
  <2> QED
    BY <1>6, <2>1 DEF Deliver
<1>7. CASE StartShutdown
  BY <1>7 DEF StartShutdown
<1>8. CASE Return
  BY <1>8 DEF Return
<1>9. CASE Cancel
  BY <1>9 DEF Cancel
<1>10. CASE UNCHANGED vars
  BY <1>10 DEF vars
<1> QED
  BY <1>1, <1>2, <1>3, <1>4, <1>5, <1>6, <1>7, <1>8, <1>9, <1>10
     DEF Next, Mapper, Worker, Consumer

\* A map has launched nothing and collected nothing.
LEMMA IInvInit == Init => IInv
<1> SUFFICES ASSUME Init PROVE IInv
  OBVIOUS
<1> USE NumServicesAssumption DEF Init, Services
<1>1. errs \in Seq(Services) /\ Len(errs) = 0
  BY EmptySeq
<1>2. 1..Len(errs) = {}
  BY <1>1
<1>3. TypeOK /\ LoopInv
  BY <1>1 DEF TypeOK, LoopInv, Outcomes
<1>4. WorkerInv /\ ClosedInv
  BY DEF WorkerInv, ClosedInv
<1>5. ErrsInv
  BY <1>2 DEF ErrsInv
<1> QED
  BY <1>3, <1>4, <1>5 DEF IInv

-----------------------------------------------------------------------------
(* The inductive invariant.                                                *)

\* The next service is launched: nobody has collected an error of it yet.
LEMMA LaunchKeeps ==
  ASSUME IInv, TypeOK', Launch
  PROVE  WorkerInv' /\ ClosedInv' /\ ErrsInv'
<1> USE NumServicesAssumption DEF IInv, TypeOK, Services, Launch
<1>1. index \in Services /\ worker[index] = "none" /\ outcome[index] = "none"
  BY DEF LoopInv, WorkerInv
<1>2. WorkerInv'
  BY <1>1 DEF WorkerInv, Failures
<1>3. ClosedInv'
  BY DEF ClosedInv
<1>4. \A i \in 1..Len(errs) : errs[i] # index
  BY <1>1 DEF ErrsInv
<1>5. \A i \in 1..Len(errs) : errs[i] \in Services
  BY ElementOfSeq
<1>6. ErrsInv'
  BY <1>1, <1>4, <1>5 DEF ErrsInv, Failures
<1> QED
  BY <1>2, <1>3, <1>6

\* A worker has its result: the map is not closed, and has no error of it.
LEMMA ActKeeps ==
  ASSUME IInv, TypeOK', NEW s \in Services, NEW o \in Outcomes, Act(s, o)
  PROVE  WorkerInv' /\ ClosedInv' /\ ErrsInv'
<1> USE NumServicesAssumption DEF IInv, TypeOK, Act, Failures, Outcomes
<1>1. WorkerInv'
  BY DEF WorkerInv
<1>2. ClosedInv'
  BY DEF ClosedInv
<1>3. \A i \in 1..Len(errs) : errs[i] # s /\ errs[i] \in Services
  BY ElementOfSeq DEF ErrsInv
<1>4. ErrsInv'
  BY <1>3 DEF ErrsInv
<1> QED
  BY <1>1, <1>2, <1>4

\* The error is received, once, and its worker leaves.
LEMMA DeliverKeeps ==
  ASSUME IInv, TypeOK', NEW s \in Services, Deliver(s)
  PROVE  WorkerInv' /\ ClosedInv' /\ ErrsInv'
<1> USE NumServicesAssumption DEF IInv, TypeOK, Deliver, Failures
<1>1. WorkerInv'
  BY DEF WorkerInv
<1>2. ClosedInv'
  BY DEF ClosedInv
<1>3. /\ Len(errs) \in Nat /\ Len(errs') = Len(errs) + 1
      /\ \A i \in 1..Len(errs) : errs'[i] = errs[i]
      /\ errs'[Len(errs) + 1] = s
  BY AppendProperties, LenProperties
<1>4. \A i \in 1..Len(errs) : errs[i] # s /\ errs[i] \in Services
  BY ElementOfSeq DEF ErrsInv
<1>5. \A i \in 1..Len(errs') : i \in 1..Len(errs) \/ i = Len(errs) + 1
  BY <1>3
<1>6. \A i \in 1..Len(errs') : worker'[errs'[i]] = "exited" /\ outcome'[errs'[i]] \in Failures
  BY <1>3, <1>4, <1>5 DEF ErrsInv, WorkerInv
<1>7. \A i, j \in 1..Len(errs') : errs'[i] = errs'[j] => i = j
  BY <1>3, <1>4, <1>5 DEF ErrsInv
<1>8. \A t \in Services : worker'[t] = "exited" /\ outcome'[t] \in Failures =>
        \E i \in 1..Len(errs') : errs'[i] = t
  <2> SUFFICES ASSUME NEW t \in Services, worker'[t] = "exited", outcome'[t] \in Failures
               PROVE  \E i \in 1..Len(errs') : errs'[i] = t
    OBVIOUS
  <2>1. CASE t = s
    BY <1>3, <2>1
  <2>2. CASE t # s
    <3>1. PICK i \in 1..Len(errs) : errs[i] = t
      BY <2>2 DEF ErrsInv
    <3> QED
      BY <1>3, <3>1
  <2> QED
    BY <2>1, <2>2
<1>9. ErrsInv'
  BY <1>3, <1>6, <1>7, <1>8 DEF ErrsInv
<1> QED
  BY <1>1, <1>2, <1>9

\* Every step keeps the invariant.
LEMMA IInvStep == IInv /\ [Next]_vars => IInv'
<1> SUFFICES ASSUME IInv, [Next]_vars PROVE IInv'
  OBVIOUS
<1>1. TypeOK' /\ LoopInv'
  BY TypeStep DEF IInv
<1> USE DEF IInv, WorkerInv, ClosedInv, ErrsInv
<1>2. CASE Check
  BY <1>1, <1>2 DEF Check, TypeOK
<1>3. CASE Launch
  BY <1>1, <1>3, LaunchKeeps
<1>4. CASE ReportCtx
  BY <1>1, <1>4 DEF ReportCtx, TypeOK
<1>5. CASE Close
  BY <1>1, <1>5 DEF Close, Launched, TypeOK
<1>6. ASSUME NEW s \in Services, NEW o \in Outcomes, Act(s, o)
      PROVE  IInv'
  BY <1>1, <1>6, ActKeeps
<1>7. ASSUME NEW s \in Services, Deliver(s)
      PROVE  IInv'
  BY <1>1, <1>7, DeliverKeeps
<1>8. CASE StartShutdown
  BY <1>1, <1>8 DEF StartShutdown
<1>9. CASE Return
  BY <1>1, <1>9 DEF Return
<1>10. CASE Cancel
  BY <1>1, <1>10 DEF Cancel
<1>11. CASE UNCHANGED vars
  BY <1>1, <1>11 DEF vars
<1> QED
  BY <1>2, <1>3, <1>4, <1>5, <1>6, <1>7, <1>8, <1>9, <1>10, <1>11
     DEF Next, Mapper, Worker, Consumer

\* Workers, loop, channel and errors always agree as IInv says (mapFuncToValues,
\* runSingleMap and the range loop of mapServices).
THEOREM Invariance == Spec => []IInv
  BY IInvInit, IInvStep, PTL DEF Spec

\* The variables of the map always have the types of TypeOK.
THEOREM TypeCorrect == Spec => []TypeOK
<1>1. IInv => TypeOK
  BY DEF IInv
<1> QED
  BY <1>1, Invariance, PTL

\* However many workers there are, none of them is left when the channel of
\* errors is closed (lines 88 and 137 of concurrentMap.go).
THEOREM NobodySendsAfterClose == Spec => []NoSendAfterClose
<1>1. IInv => NoSendAfterClose
  BY DEF IInv, TypeOK, ClosedInv, NoSendAfterClose, Range
<1> QED
  BY <1>1, Invariance, PTL

\* mapServices returns the error of every action that failed, once (lines
\* 157-166 of manager.go).
THEOREM ErrorsReturned == Spec => []EveryErrorReturned
<1>1. IInv => EveryErrorReturned
  <2> SUFFICES ASSUME IInv, consumer = "returned"
               PROVE  IsInjective(errs) /\ Range(errs) = Failed
    BY DEF EveryErrorReturned
  <2> USE DEF IInv, Failures
  <2>1. DOMAIN errs = 1..Len(errs) /\ \A i \in 1..Len(errs) : errs[i] \in Services
    BY LenProperties, ElementOfSeq DEF TypeOK
  <2>2. IsInjective(errs)
    BY <2>1 DEF IsInjective, ErrsInv
  <2>3. Range(errs) \subseteq Failed
    BY <2>1 DEF Range, Failed, ErrsInv
  <2>4. ASSUME NEW s \in Failed PROVE s \in Range(errs)
    <3>1. s \in Services /\ outcome[s] \in Failures
      BY DEF Failed
    <3>2. worker[s] = "exited"
      BY <3>1 DEF ClosedInv, WorkerInv, TypeOK
    <3>3. PICK i \in 1..Len(errs) : errs[i] = s
      BY <3>1, <3>2 DEF ErrsInv
    <3> QED
      BY <2>1, <3>3 DEF Range
  <2> QED
    BY <2>2, <2>3, <2>4
<1> QED
  BY <1>1, Invariance, PTL

-----------------------------------------------------------------------------
(* The refinement of ServiceMap.                                           *)

\* What ServiceMap sees of the workers, and of the errors.
TaskView == [s \in Services |-> TaskOf(s)]
ErrorView == IF consumer = "shutdown" THEN Front(errs) ELSE errs

\* What ServiceMap sees stays when the workers and the loop are seen as before.
LEMMA Stutters ==
  ASSUME TaskView' = TaskView, ErrorView' = ErrorView, cancelled' = cancelled
  PROVE  UNCHANGED SM!vars
  BY DEF SM!vars, TaskView, ErrorView

\* The error being collected is of a worker that has left.
LEMMA CollectedExited ==
  ASSUME IInv, NEW s \in Services, BeingCollected(s)
  PROVE  worker[s] = "exited" /\ \E i \in 1..Len(errs) : errs[i] = s
  BY LenProperties DEF IInv, TypeOK, ErrsInv, BeingCollected, Last

\* Appending and taking the last away.
LEMMA FrontOfAppend ==
  ASSUME NEW S, NEW seq \in Seq(S), NEW e \in S
  PROVE  Front(Append(seq, e)) = seq /\ Last(Append(seq, e)) = e
<1>1. /\ Append(seq, e) \in Seq(S) /\ Len(Append(seq, e)) = Len(seq) + 1
      /\ \A i \in 1..Len(seq) : Append(seq, e)[i] = seq[i]
      /\ Append(seq, e)[Len(seq) + 1] = e /\ Len(seq) \in Nat
  BY AppendProperties, LenProperties
<1>2. \A i \in 1..Len(seq) : Append(seq, e)[i] \in S
  BY <1>1, ElementOfSeq
<1>3. /\ SubSeq(Append(seq, e), 1, Len(seq)) \in Seq(S)
      /\ Len(SubSeq(Append(seq, e), 1, Len(seq))) = Len(seq)
      /\ \A i \in 1..Len(seq) : SubSeq(Append(seq, e), 1, Len(seq))[i] = Append(seq, e)[i]
  BY <1>1, <1>2, SubSeqProperties
<1>4. SubSeq(Append(seq, e), 1, Len(seq)) = seq
  BY <1>1, <1>3, SeqEqual
<1> QED
  BY <1>1, <1>4 DEF Front, Last

\* The check of the context is the start of the next service, or the end of all
\* starts.
LEMMA CheckRefines ==
  ASSUME IInv, IInv', Check
  PROVE  [SM!Next]_(SM!vars)
<1> USE NumServicesAssumption DEF IInv, TypeOK, Services
<1>1. ErrorView' = ErrorView /\ cancelled' = cancelled
  BY DEF Check, ErrorView
<1>2. \A s \in Services : BeingCollected(s)' = BeingCollected(s)
  BY DEF Check, BeingCollected
<1>3. \A s \in Services : BeingCollected(s) => worker[s] = "exited"
  BY CollectedExited
<1>4. \A s \in Services : TaskView[s] = TaskOf(s) /\ TaskView'[s] = TaskOf(s)'
  BY DEF TaskView
<1>5. \A s \in Services :
        IF s < index THEN TaskOf(s)' = TaskOf(s) /\ TaskOf(s) # "pending"
        ELSE TaskOf(s) = "pending"
  BY <1>2, <1>3 DEF Check, TaskOf, WorkerInv
<1>6. CASE LoopOver
  <2>1. TaskView' = TaskView
    BY <1>5, <1>6 DEF LoopOver, TaskView
  <2> QED
    BY <1>1, <2>1, Stutters
<1>7. CASE ~LoopOver /\ ~cancelled
  <2>1. index \in Services
    BY <1>7 DEF LoopOver
  <2>2. TaskView' = [TaskView EXCEPT ![index] = "active"]
    <3>1. \A s \in Services : TaskOf(s)' = IF s = index THEN "active" ELSE TaskOf(s)
      BY <1>2, <1>3, <1>5, <1>7 DEF Check, TaskOf, WorkerInv
    <3> QED
      BY <3>1 DEF TaskView
  <2>3. /\ TaskView[index] = "pending"
        /\ \A t \in 1..(index - 1) : TaskView[t] # "pending"
    BY <1>4, <1>5, <2>1
  <2>4. SM!Launch(index)
    BY <1>1, <1>7, <2>1, <2>2, <2>3
       DEF SM!Launch, SM!IsNext, TaskView, ErrorView, SM!Services
  <2> QED
    BY <2>1, <2>4 DEF SM!Next, SM!Services
<1>8. CASE ~LoopOver /\ cancelled
  <2>1. index \in Services
    BY <1>8 DEF LoopOver
  <2>2. TaskView' = [s \in Services |->
                       IF TaskView[s] = "pending" THEN "skipped" ELSE TaskView[s]]
    <3>1. \A s \in Services : TaskOf(s)' =
            IF TaskOf(s) = "pending" THEN "skipped" ELSE TaskOf(s)
      BY <1>2, <1>3, <1>5, <1>8 DEF Check, TaskOf, WorkerInv
    <3> QED
      BY <3>1 DEF TaskView
  <2>3. /\ TaskView[index] = "pending"
        /\ \A t \in 1..(index - 1) : TaskView[t] # "pending"
    BY <1>4, <1>5, <2>1
  <2>4. SM!SkipRest
    BY <1>1, <1>8, <2>1, <2>2, <2>3
       DEF SM!SkipRest, SM!IsNext, TaskView, ErrorView, SM!Services
  <2> QED
    BY <2>4 DEF SM!Next
<1> QED
  BY <1>6, <1>7, <1>8

\* The result of an action is its end, or its failure.
LEMMA ActRefines ==
  ASSUME IInv, NEW s \in Services, NEW o \in Outcomes, Act(s, o)
  PROVE  SM!Complete(s) \/ SM!Fail(s)
<1> USE DEF IInv, TypeOK
<1>1. ErrorView' = ErrorView /\ cancelled' = cancelled
  BY DEF Act, ErrorView
<1>2. \A t \in Services : BeingCollected(t)' = BeingCollected(t)
  BY DEF Act, BeingCollected
<1>3. ~BeingCollected(s)
  BY CollectedExited DEF Act
<1>4. mapper = "launch" => s # index
  BY DEF Act, WorkerInv, Services
<1>5. \A t \in Services : t # s => TaskOf(t)' = TaskOf(t)
  BY <1>2 DEF Act, TaskOf
<1>6. TaskOf(s) = "active"
  BY DEF Act, TaskOf
<1>7. TaskOf(s)' = IF o = "nil" THEN "over" ELSE "failing"
  BY <1>2, <1>3, <1>4 DEF Act, TaskOf
<1>8. /\ TaskView[s] = "active"
      /\ TaskView' = [TaskView EXCEPT ![s] = IF o = "nil" THEN "over" ELSE "failing"]
  BY <1>5, <1>6, <1>7 DEF TaskView
<1> QED
  BY <1>1, <1>8 DEF SM!Complete, SM!Fail, TaskView, ErrorView

\* A collected error is the last one appended, whose shutdown was started.
LEMMA StartShutdownRefines ==
  ASSUME IInv, StartShutdown
  PROVE  SM!Next
<1> USE DEF IInv, TypeOK
<1>1. Len(errs) \in Nat /\ Len(errs) > 0 /\ errs # <<>>
  BY LenProperties, EmptySeq DEF ErrsInv, StartShutdown
<1>2. PICK s \in Services : s = Last(errs)
  BY <1>1, ElementOfSeq DEF Last
<1>3. BeingCollected(s) /\ \A t \in Services : t # s => ~BeingCollected(t)
  BY <1>2 DEF BeingCollected, StartShutdown
<1>4. worker[s] = "exited" /\ (mapper = "launch" => s # index)
  BY <1>3, CollectedExited DEF WorkerInv, Services
<1>5. \A t \in Services : ~BeingCollected(t)'
  BY DEF StartShutdown, BeingCollected
<1>6. TaskOf(s) = "failing" /\ TaskOf(s)' = "over"
  BY <1>3, <1>4, <1>5 DEF StartShutdown, TaskOf
<1>7. \A t \in Services : t # s => TaskOf(t)' = TaskOf(t)
  BY <1>3, <1>5 DEF StartShutdown, TaskOf
<1>8. TaskView[s] = "failing" /\ TaskView' = [TaskView EXCEPT ![s] = "over"]
  BY <1>6, <1>7 DEF TaskView
<1>9. ErrorView' = Append(ErrorView, s)
  <2>1. /\ SubSeq(errs, 1, Len(errs)) = errs
        /\ SubSeq(errs, 1, Len(errs)) = SubSeq(errs, 1, Len(errs) - 1) \o <<errs[Len(errs)]>>
    BY <1>1, SubSeqFull, SubSeqRecursiveSecond
  <2>2. Front(errs) \in Seq(Services)
    <3>1. \A i \in 1..(Len(errs) - 1) : errs[i] \in Services
      BY <1>1, ElementOfSeq
    <3> QED
      BY <1>1, <3>1, SubSeqProperties DEF Front
  <2>3. errs = Append(Front(errs), s)
    BY <1>2, <2>1, <2>2, AppendIsConcat DEF Front, Last
  <2> QED
    BY <2>3 DEF StartShutdown, ErrorView
<1>10. SM!Collect(s)
  BY <1>8, <1>9 DEF StartShutdown, SM!Collect, TaskView, ErrorView
<1> QED
  BY <1>10 DEF SM!Next, SM!Services, Services

\* Every step of the map is a step of its promise, or none.
LEMMA RefinesNext == IInv /\ IInv' /\ [Next]_vars => [SM!Next]_(SM!vars)
<1> SUFFICES ASSUME IInv, IInv', [Next]_vars PROVE [SM!Next]_(SM!vars)
  OBVIOUS
<1> USE DEF IInv, TypeOK
<1>1. CASE Check
  BY <1>1, CheckRefines
<1>2. CASE Launch
  <2>1. \A s \in Services : BeingCollected(s)' = BeingCollected(s)
    BY <1>2 DEF Launch, BeingCollected
  <2>2. \A s \in Services : TaskOf(s)' = TaskOf(s)
    BY <1>2, <2>1, NumServicesAssumption
       DEF Launch, TaskOf, WorkerInv, Services
  <2>3. TaskView' = TaskView /\ ErrorView' = ErrorView
    BY <1>2, <2>2 DEF Launch, TaskView, ErrorView
  <2> QED
    BY <1>2, <2>3, Stutters DEF Launch
<1>3. CASE ReportCtx
  <2>1. \A s \in Services : TaskOf(s)' = TaskOf(s)
    BY <1>3 DEF ReportCtx, TaskOf, BeingCollected
  <2>2. TaskView' = TaskView /\ ErrorView' = ErrorView
    BY <1>3, <2>1 DEF ReportCtx, TaskView, ErrorView
  <2> QED
    BY <1>3, <2>2, Stutters DEF ReportCtx
<1>4. CASE Close
  <2>1. \A s \in Services : TaskOf(s)' = TaskOf(s)
    BY <1>4 DEF Close, TaskOf, BeingCollected
  <2>2. TaskView' = TaskView /\ ErrorView' = ErrorView
    BY <1>4, <2>1 DEF Close, TaskView, ErrorView
  <2> QED
    BY <1>4, <2>2, Stutters DEF Close
<1>5. ASSUME NEW s \in Services, NEW o \in Outcomes, Act(s, o)
      PROVE  SM!Next
  BY <1>5, ActRefines DEF SM!Next, SM!Services, Services
<1>6. ASSUME NEW s \in Services, Deliver(s)
      PROVE  UNCHANGED SM!vars
  <2>1. Front(errs') = errs /\ Last(errs') = s
    BY <1>6, FrontOfAppend DEF Deliver
  <2>2. \A t \in Services : ~BeingCollected(t) /\ (BeingCollected(t)' <=> t = s)
    BY <1>6, <2>1 DEF Deliver, BeingCollected
  <2>3. mapper = "launch" => s # index
    BY <1>6 DEF Deliver, WorkerInv, Services
  <2>4. \A t \in Services : TaskOf(t)' = TaskOf(t)
    BY <1>6, <2>2, <2>3 DEF Deliver, TaskOf
  <2>5. TaskView' = TaskView /\ ErrorView' = ErrorView
    BY <1>6, <2>1, <2>4 DEF Deliver, TaskView, ErrorView
  <2> QED
    BY <1>6, <2>5, Stutters DEF Deliver
<1>7. CASE StartShutdown
  BY <1>7, StartShutdownRefines
<1>8. CASE Return
  <2>1. \A s \in Services : TaskOf(s)' = TaskOf(s)
    BY <1>8 DEF Return, TaskOf, BeingCollected
  <2>2. TaskView' = TaskView /\ ErrorView' = ErrorView
    BY <1>8, <2>1 DEF Return, TaskView, ErrorView
  <2> QED
    BY <1>8, <2>2, Stutters DEF Return
<1>9. CASE Cancel
  <2>1. \A s \in Services : TaskOf(s)' = TaskOf(s)
    BY <1>9 DEF Cancel, TaskOf, BeingCollected
  <2>2. TaskView' = TaskView /\ ErrorView' = ErrorView
    BY <1>9, <2>1 DEF Cancel, TaskView, ErrorView
  <2>3. SM!Cancel
    BY <1>9, <2>2 DEF Cancel, SM!Cancel, TaskView, ErrorView
  <2> QED
    BY <2>3 DEF SM!Next
<1>10. CASE UNCHANGED vars
  <2>1. \A s \in Services : TaskOf(s)' = TaskOf(s)
    BY <1>10 DEF vars, TaskOf, BeingCollected
  <2>2. TaskView' = TaskView /\ ErrorView' = ErrorView
    BY <1>10, <2>1 DEF vars, TaskView, ErrorView
  <2> QED
    BY <1>10, <2>2, Stutters DEF vars
<1> QED
  BY <1>1, <1>2, <1>3, <1>4, <1>5, <1>6, <1>7, <1>8, <1>9, <1>10
     DEF Next, Mapper, Worker, Consumer

\* A map that has not begun is a promise of which nothing has begun.
LEMMA RefinesInit == Init => SM!Init
<1> SUFFICES ASSUME Init PROVE SM!Init
  OBVIOUS
<1>1. \A s \in Services : TaskOf(s) = "pending"
  BY DEF Init, TaskOf, BeingCollected
<1> QED
  BY <1>1 DEF Init, SM!Init, SM!NotStarted, SM!Services, Services

\* Loop, workers, channel and caller behave as one map that starts, ends and
\* collects its services atomically: what Manager is built on (lines 132-175 of
\* manager.go).
THEOREM Refinement == Spec => ImplementsServiceMap
  BY RefinesInit, RefinesNext, Invariance, PTL
     DEF Spec, SM!Spec, ImplementsServiceMap

\* mapServices returns only when its promise says that it is finished (lines
\* 157-175 of manager.go).
THEOREM FinishedOnReturn == Spec => []ReturnsWhenFinished
<1>1. IInv => ReturnsWhenFinished
  <2> SUFFICES ASSUME IInv, consumer = "returned" PROVE SM!Finished
    BY DEF ReturnsWhenFinished
  <2>1. \A s \in Services : TaskOf(s) \in {"over", "skipped"}
    BY DEF IInv, ClosedInv, TaskOf, BeingCollected
  <2> QED
    BY <2>1 DEF SM!Finished, SM!Services, Services
<1> QED
  BY <1>1, Invariance, PTL

-----------------------------------------------------------------------------
(* The map ends: what MapReturns of ConcurrentMap asks of the states and of *)
(* the steps, the fairness apart.                                          *)

\* The goroutines that can take a step.
MapperGoes ==
  \/ mapper \in {"check", "launch"}
  \/ mapper = "report" /\ consumer = "receive"
  \/ mapper = "wait" /\ Launched = {}
WorkerGoes(s) ==
  worker[s] = "running" \/ (worker[s] = "sending" /\ consumer = "receive")
ConsumerGoes ==
  consumer = "shutdown" \/ (consumer = "receive" /\ mapper = "closed")

\* As long as mapServices has not returned some goroutine can go on.
NobodyIsStuck == consumer # "returned" =>
  MapperGoes \/ ConsumerGoes \/ \E s \in Services : WorkerGoes(s)

\* What a service goes through: its context is checked, it is launched, it acts,
\* its goroutine leaves, and the shutdown for its error was started.
TaskStages == {"checked", "launched", "acted", "left", "collected"}

Reached(s, stage) ==
  \/ stage = "checked" /\ (s < index \/ (mapper = "launch" /\ s = index))
  \/ stage = "launched" /\ s < index
  \/ stage = "acted" /\ worker[s] \in {"sending", "exited"}
  \/ stage = "left" /\ worker[s] = "exited"
  \/ stage = "collected" /\ worker[s] = "exited" /\ ~BeingCollected(s)

\* The ends of the context, the loop, its report, the channel and the caller.
Ends == {"cancelled", "stopped", "reported", "closed", "returned"}

Ended(e) ==
  \/ e = "cancelled" /\ cancelled
  \/ e = "stopped" /\ mapper \notin {"check", "launch"}
  \/ e = "reported" /\ mapper \in {"wait", "closed"}
  \/ e = "closed" /\ mapper = "closed"
  \/ e = "returned" /\ consumer = "returned"

TasksAhead == {p \in Services \X TaskStages : ~Reached(p[1], p[2])}
EndsAhead == {e \in Ends : ~Ended(e)}

\* What is ahead of the services, the loop and the caller.
StepsLeft == Cardinality(TasksAhead) + Cardinality(EndsAhead)

Advances == StepsLeft \in Nat /\ StepsLeft' < StepsLeft

\* A set of which something is taken away, and nothing is added, has fewer elements.
LEMMA Fewer ==
  ASSUME NEW S, NEW T, IsFiniteSet(S), T \subseteq S
  PROVE  /\ Cardinality(S) \in Nat /\ Cardinality(T) \in Nat
         /\ Cardinality(T) <= Cardinality(S)
         /\ T # S => Cardinality(T) < Cardinality(S)
<1>1. IsFiniteSet(T) /\ Cardinality(T) <= Cardinality(S)
      /\ (Cardinality(S) = Cardinality(T) => S = T)
  BY FS_Subset
<1>2. Cardinality(S) \in Nat /\ Cardinality(T) \in Nat
  BY <1>1, FS_CardinalityType
<1> QED
  BY <1>1, <1>2

\* What is ahead is finite.
LEMMA AheadFinite == IsFiniteSet(TasksAhead) /\ IsFiniteSet(EndsAhead)
<1>1. \A a, b, c, d, e : IsFiniteSet({a, b, c, d, e})
  <2> TAKE a, b, c, d, e
  <2>1. IsFiniteSet({}) /\ IsFiniteSet({} \cup {a}) /\ IsFiniteSet(({} \cup {a}) \cup {b})
    BY FS_EmptySet, FS_AddElement
  <2>2. IsFiniteSet((({} \cup {a}) \cup {b}) \cup {c})
    BY <2>1, FS_AddElement
  <2>3. IsFiniteSet(((({} \cup {a}) \cup {b}) \cup {c}) \cup {d})
    BY <2>2, FS_AddElement
  <2>4. IsFiniteSet((((({} \cup {a}) \cup {b}) \cup {c}) \cup {d}) \cup {e})
    BY <2>3, FS_AddElement
  <2>5. {a, b, c, d, e} = (((({} \cup {a}) \cup {b}) \cup {c}) \cup {d}) \cup {e}
    OBVIOUS
  <2> QED
    BY <2>4, <2>5
<1>2. IsFiniteSet(TaskStages) /\ IsFiniteSet(Ends)
  BY <1>1 DEF TaskStages, Ends
<1>3. IsFiniteSet(Services)
  BY NumServicesAssumption, FS_Interval DEF Services
<1>4. IsFiniteSet(Services \X TaskStages)
  BY <1>2, <1>3, FS_Product
<1>5. TasksAhead \in SUBSET (Services \X TaskStages) /\ EndsAhead \in SUBSET Ends
  BY DEF TasksAhead, EndsAhead
<1> QED
  BY <1>2, <1>4, <1>5, FS_Subset

\* If no stage is undone and one more is reached, less is left.
LEMMA LessLeft ==
  ASSUME \A s \in Services, g \in TaskStages : Reached(s, g) => Reached(s, g)',
         \A e \in Ends : Ended(e) => Ended(e)',
         \/ \E s \in Services, g \in TaskStages : ~Reached(s, g) /\ Reached(s, g)'
         \/ \E e \in Ends : ~Ended(e) /\ Ended(e)'
  PROVE  StepsLeft' < StepsLeft
<1>1. TasksAhead' \subseteq TasksAhead
  BY DEF TasksAhead
<1>2. EndsAhead' \subseteq EndsAhead
  BY DEF EndsAhead
<1>3. TasksAhead' # TasksAhead \/ EndsAhead' # EndsAhead
  <2>1. ASSUME NEW s \in Services, NEW g \in TaskStages, ~Reached(s, g), Reached(s, g)'
        PROVE  TasksAhead' # TasksAhead
    <3>1. <<s, g>> \in TasksAhead /\ <<s, g>> \notin TasksAhead'
      BY <2>1 DEF TasksAhead
    <3> QED
      BY <3>1
  <2>2. ASSUME NEW e \in Ends, ~Ended(e), Ended(e)'
        PROVE  EndsAhead' # EndsAhead
    <3>1. e \in EndsAhead /\ e \notin EndsAhead'
      BY <2>2 DEF EndsAhead
    <3> QED
      BY <3>1
  <2> QED
    BY <2>1, <2>2
<1>4. /\ Cardinality(TasksAhead) \in Nat /\ Cardinality(TasksAhead') \in Nat
      /\ Cardinality(TasksAhead') <= Cardinality(TasksAhead)
      /\ TasksAhead' # TasksAhead => Cardinality(TasksAhead') < Cardinality(TasksAhead)
  BY <1>1, AheadFinite, Fewer
<1>5. /\ Cardinality(EndsAhead) \in Nat /\ Cardinality(EndsAhead') \in Nat
      /\ Cardinality(EndsAhead') <= Cardinality(EndsAhead)
      /\ EndsAhead' # EndsAhead => Cardinality(EndsAhead') < Cardinality(EndsAhead)
  BY <1>2, AheadFinite, Fewer
<1> QED
  BY <1>3, <1>4, <1>5 DEF StepsLeft

\* Every step reaches a stage and undoes none: the loop variable never turns back,
\* and an error is collected once.
LEMMA StepAdvances == IInv /\ Next => StepsLeft' < StepsLeft
<1> SUFFICES ASSUME IInv, Next PROVE StepsLeft' < StepsLeft
  OBVIOUS
<1> USE NumServicesAssumption DEF IInv, TypeOK, Services, Reached, Ended, TaskStages, Ends
<1>1. CASE Check
  <2>1. \A s \in Services, g \in TaskStages : Reached(s, g) => Reached(s, g)'
    BY <1>1 DEF Check, BeingCollected
  <2>2. \A e \in Ends : Ended(e) => Ended(e)'
    BY <1>1 DEF Check
  <2>3. CASE mapper' = "launch"
    <3>1. PICK s \in Services : s = index
      BY <1>1, <2>3 DEF Check, LoopOver
    <3>2. ~Reached(s, "checked") /\ Reached(s, "checked")'
      BY <1>1, <2>3, <3>1 DEF Check
    <3> HIDE DEF Reached, Ended, Ends, Services
    <3> QED
      BY <2>1, <2>2, <3>2, LessLeft
  <2>4. CASE mapper' # "launch"
    <3>1. ~Ended("stopped") /\ Ended("stopped")'
      BY <1>1, <2>4 DEF Check
    <3> HIDE DEF Reached, Ended, TaskStages, Services
    <3> QED
      BY <2>1, <2>2, <3>1, LessLeft
  <2> QED
    BY <2>3, <2>4
<1>2. CASE Launch
  <2>1. \A s \in Services, g \in TaskStages : Reached(s, g) => Reached(s, g)'
    BY <1>2 DEF Launch, BeingCollected, WorkerInv, LoopInv
  <2>2. \A e \in Ends : Ended(e) => Ended(e)'
    BY <1>2 DEF Launch
  <2>3. PICK s \in Services : s = index
    BY <1>2 DEF Launch, LoopInv
  <2>4. ~Reached(s, "launched") /\ Reached(s, "launched")'
    BY <1>2, <2>3 DEF Launch
  <2> HIDE DEF Reached, Ended, Ends, Services
  <2> QED
    BY <2>1, <2>2, <2>4, LessLeft
<1>3. CASE ReportCtx
  <2>1. \A s \in Services, g \in TaskStages : Reached(s, g) => Reached(s, g)'
    BY <1>3 DEF ReportCtx, BeingCollected
  <2>2. \A e \in Ends : Ended(e) => Ended(e)'
    BY <1>3 DEF ReportCtx
  <2>3. ~Ended("reported") /\ Ended("reported")'
    BY <1>3 DEF ReportCtx
  <2> HIDE DEF Reached, Ended, TaskStages, Services
  <2> QED
    BY <2>1, <2>2, <2>3, LessLeft
<1>4. CASE Close
  <2>1. \A s \in Services, g \in TaskStages : Reached(s, g) => Reached(s, g)'
    BY <1>4 DEF Close, BeingCollected
  <2>2. \A e \in Ends : Ended(e) => Ended(e)'
    BY <1>4 DEF Close
  <2>3. ~Ended("closed") /\ Ended("closed")'
    BY <1>4 DEF Close
  <2> HIDE DEF Reached, Ended, TaskStages, Services
  <2> QED
    BY <2>1, <2>2, <2>3, LessLeft
<1>5. ASSUME NEW t \in Services, NEW o \in Outcomes, Act(t, o)
      PROVE  StepsLeft' < StepsLeft
  <2>1. \A s \in Services, g \in TaskStages : Reached(s, g) => Reached(s, g)'
    BY <1>5 DEF Act, BeingCollected
  <2>2. \A e \in Ends : Ended(e) => Ended(e)'
    BY <1>5 DEF Act
  <2>3. ~Reached(t, "acted") /\ Reached(t, "acted")'
    BY <1>5 DEF Act
  <2> HIDE DEF Reached, Ended, Ends, Services
  <2> QED
    BY <2>1, <2>2, <2>3, LessLeft
<1>6. ASSUME NEW t \in Services, Deliver(t)
      PROVE  StepsLeft' < StepsLeft
  <2>1. Last(errs') = t
    BY <1>6, FrontOfAppend DEF Deliver
  <2>2. \A s \in Services, g \in TaskStages : Reached(s, g) => Reached(s, g)'
    BY <1>6, <2>1 DEF Deliver, BeingCollected
  <2>3. \A e \in Ends : Ended(e) => Ended(e)'
    BY <1>6 DEF Deliver
  <2>4. ~Reached(t, "left") /\ Reached(t, "left")'
    BY <1>6 DEF Deliver
  <2> HIDE DEF Reached, Ended, Ends, Services
  <2> QED
    BY <2>2, <2>3, <2>4, LessLeft
<1>7. CASE StartShutdown
  <2>1. \A s \in Services, g \in TaskStages : Reached(s, g) => Reached(s, g)'
    BY <1>7 DEF StartShutdown, BeingCollected
  <2>2. \A e \in Ends : Ended(e) => Ended(e)'
    BY <1>7 DEF StartShutdown
  <2>3. PICK s \in Services : BeingCollected(s)
    <3>1. Len(errs) \in 1..Len(errs) /\ errs[Len(errs)] \in Services
      BY <1>7, LenProperties, ElementOfSeq DEF StartShutdown, ErrsInv
    <3> QED
      BY <1>7, <3>1 DEF StartShutdown, BeingCollected, Last
  <2>4. ~Reached(s, "collected") /\ Reached(s, "collected")'
    <3>1. worker[s] = "exited"
      BY <2>3, CollectedExited
    <3> QED
      BY <1>7, <2>3, <3>1 DEF StartShutdown, BeingCollected
  <2> HIDE DEF Reached, Ended, Ends, Services
  <2> QED
    BY <2>1, <2>2, <2>4, LessLeft
<1>8. CASE Return
  <2>1. \A s \in Services, g \in TaskStages : Reached(s, g) => Reached(s, g)'
    BY <1>8 DEF Return, BeingCollected
  <2>2. \A e \in Ends : Ended(e) => Ended(e)'
    BY <1>8 DEF Return
  <2>3. ~Ended("returned") /\ Ended("returned")'
    BY <1>8 DEF Return
  <2> HIDE DEF Reached, Ended, TaskStages, Services
  <2> QED
    BY <2>1, <2>2, <2>3, LessLeft
<1>9. CASE Cancel
  <2>1. \A s \in Services, g \in TaskStages : Reached(s, g) => Reached(s, g)'
    BY <1>9 DEF Cancel, BeingCollected
  <2>2. \A e \in Ends : Ended(e) => Ended(e)'
    BY <1>9 DEF Cancel
  <2>3. ~Ended("cancelled") /\ Ended("cancelled")'
    BY <1>9 DEF Cancel
  <2> HIDE DEF Reached, Ended, TaskStages, Services
  <2> QED
    BY <2>1, <2>2, <2>3, LessLeft
<1> QED
  BY <1>1, <1>2, <1>3, <1>4, <1>5, <1>6, <1>7, <1>8, <1>9
     DEF Next, Mapper, Worker, Consumer

\* mapServices always ends, with any number of services (lines 29-96, and 153-166
\* of manager.go): until it has returned some goroutine can go on, although all of
\* them share one unbuffered channel, and each step uses up a part of StepsLeft, a
\* number that is never negative.
THEOREM Termination == Spec => []NobodyIsStuck /\ [][Advances]_vars
<1>1. IInv => NobodyIsStuck
  BY DEF IInv, TypeOK, NobodyIsStuck, MapperGoes, WorkerGoes, ConsumerGoes,
     Launched
<1>2. StepsLeft \in Nat
  BY AheadFinite, FS_CardinalityType DEF StepsLeft
<1>3. IInv /\ [Next]_vars => [Advances]_vars
  BY <1>2, StepAdvances DEF Advances
<1> QED
  BY <1>1, <1>3, Invariance, PTL DEF Spec
=============================================================================
