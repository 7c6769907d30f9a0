------------------------- MODULE CtxWaitGroupProofs -------------------------
(***************************************************************************)
(* Proofs about CtxWaitGroup, for any sets of calls and waits, any deltas  *)
(* and any capacity of the queue: types, the inductive invariant, that the *)
(* counter is the sum of the deltas of the calls that succeeded, and the   *)
(* refinement of WaitGroup.                                                *)
(***************************************************************************)
EXTENDS CtxWaitGroup, SequenceTheorems, FiniteSetTheorems, NaturalsInduction,
        WellFoundedInduction, TLAPS

\* The calls whose event the listener has, or will find in the queue: they wait
\* for the reply, or were turned away while they waited for it.
Handed == {"await", "closed", "ctx", "panic"}

\* The listener is at the reply with the event it applied, and between events
\* it has none.
CurrentInv ==
  /\ listener = "reply" => current \in Calls /\ counter >= 0
  /\ listener \in {"select", "close"} => current = NoCall
  /\ current \in Calls => caller[current] \in Handed

\* The group is broken or closed once, by a listener that leaves.
SignalInv ==
  /\ panicked => ~closed
  /\ panicked \/ closed => listener \in {"exit", "stopped"}

\* The events in the queue are of different calls, none of which has succeeded
\* and none of which is being handled.
QueueInv ==
  /\ \A i \in 1..Len(events) : caller[events[i]] \in Handed /\ events[i] # current
  /\ \A i, j \in 1..Len(events) : events[i] = events[j] => i = j

\* A call was turned away for a reason that still holds.
ReasonInv == \A c \in Calls :
  /\ caller[c] = "closed" => closed
  /\ caller[c] = "panic" => panicked

IInv == TypeOK /\ CurrentInv /\ SignalInv /\ QueueInv /\ ReasonInv

-----------------------------------------------------------------------------
\* Types: every step keeps the variables in their sets, in particular the queue
\* within its capacity (the buffered channel of line 187).
LEMMA TypeStep == TypeOK /\ [Next]_vars => TypeOK'
<1> SUFFICES ASSUME TypeOK, [Next]_vars PROVE TypeOK'
  OBVIOUS
<1> USE CallsAssumption, DeltasAssumption, CapacityAssumption DEF TypeOK, Returned
<1>1. CASE CancelCtx
  BY <1>1 DEF CancelCtx
<1>2. ASSUME NEW c \in Calls, NEW d \in Deltas \cup {-1}, Invoke(c, d)
      PROVE  TypeOK'
  BY <1>2 DEF Invoke, contexts
<1>3. ASSUME NEW c \in Calls, Send(c)
      PROVE  TypeOK'
  BY <1>3 DEF Send, HasRoom, contexts
<1>4. ASSUME NEW c \in Calls, NEW why \in Reasons, Refuse(c, why)
      PROVE  TypeOK'
  BY <1>4 DEF Refuse, Reasons, contexts
<1>5. CASE Take
  <2>1. /\ Head(events) \in Calls
        /\ Tail(events) \in Seq(Calls)
        /\ Len(Tail(events)) <= Capacity
    BY <1>5, HeadTailProperties DEF Take
  <2>2. counter + delta[Head(events)] \in Int
    BY <2>1
  <2>3. listener' \in {"reply", "exit"} /\ panicked' \in BOOLEAN
    BY <1>5 DEF Take
  <2> QED
    BY <1>5, <2>1, <2>2, <2>3 DEF Take
<1>6. CASE Reply
  BY <1>6 DEF Reply, contexts
<1>7. CASE SignalClose
  BY <1>7 DEF SignalClose
<1>8. CASE StopOnCtx
  BY <1>8 DEF StopOnCtx, contexts
<1>9. CASE Exit
  BY <1>9 DEF Exit, contexts
<1>10. ASSUME NEW w \in Waits, StartWait(w)
       PROVE  TypeOK'
  BY <1>10 DEF StartWait, contexts
<1>11. ASSUME NEW w \in Waits, NEW why \in Reasons, EndWait(w, why)
       PROVE  TypeOK'
  BY <1>11 DEF EndWait, Reasons, contexts
<1>12. CASE UNCHANGED vars
  BY <1>12 DEF vars
<1> QED
  BY <1>1, <1>2, <1>3, <1>4, <1>5, <1>6, <1>7, <1>8, <1>9, <1>10, <1>11, <1>12
     DEF Next, Continue, Listen

\* A new group is empty (NewCtxWaitGroup).
LEMMA InitTypes == Init => TypeOK
<1> SUFFICES ASSUME Init PROVE TypeOK
  OBVIOUS
<1>1. events \in Seq(Calls) /\ Len(events) = 0
  BY EmptySeq DEF Init
<1>2. Len(events) <= Capacity
  BY <1>1, CapacityAssumption
<1>3. delta \in [Calls -> Int] /\ counter \in Int
  BY DEF Init
<1> QED
  BY <1>1, <1>2, <1>3 DEF Init, TypeOK

\* The variables of the group always have the types of TypeOK.
THEOREM TypeCorrect == Spec => []TypeOK
  BY InitTypes, TypeStep, PTL DEF Spec

-----------------------------------------------------------------------------
(* The inductive invariant.                                                *)

\* A new group has no calls, no events and no context that is done.
LEMMA IInvInit == Init => IInv
<1> SUFFICES ASSUME Init PROVE IInv
  OBVIOUS
<1>1. TypeOK
  BY InitTypes
<1>2. 1..Len(events) = {}
  BY EmptySeq DEF Init
<1>3. CurrentInv /\ SignalInv /\ ReasonInv
  BY CallsAssumption DEF Init, CurrentInv, SignalInv, ReasonInv
<1>4. QueueInv
  BY <1>2 DEF QueueInv
<1> QED
  BY <1>1, <1>3, <1>4 DEF IInv

\* An event enters the queue.
LEMMA SendKeeps ==
  ASSUME IInv, TypeOK', NEW c \in Calls, Send(c)
  PROVE  IInv'
<1> USE DEF TypeOK, Returned, Handed
<1>1. events' = Append(events, c) /\ caller' = [caller EXCEPT ![c] = "await"]
  BY DEF Send
<1>2. /\ Len(events') = Len(events) + 1
      /\ \A i \in 1..Len(events) : events'[i] = events[i]
      /\ events'[Len(events) + 1] = c
  BY <1>1, AppendProperties DEF IInv
<1>3. c # current /\ \A i \in 1..Len(events) : events[i] # c
  BY DEF IInv, Send, CurrentInv, QueueInv
<1>4. Len(events) \in Nat
  BY DEF IInv
<1>5. \A i \in 1..Len(events') : caller'[events'[i]] \in Handed /\ events'[i] # current
  <2> TAKE i \in 1..Len(events')
  <2>1. CASE i = Len(events) + 1
    BY <1>1, <1>2, <1>3, <2>1 DEF IInv
  <2>2. CASE i \in 1..Len(events)
    BY <1>1, <1>2, <1>3, <2>2 DEF IInv, QueueInv
  <2> QED
    BY <1>2, <1>4, <2>1, <2>2
<1>6. \A i, j \in 1..Len(events') : events'[i] = events'[j] => i = j
  <2> SUFFICES ASSUME NEW i \in 1..Len(events'), NEW j \in 1..Len(events'),
                      events'[i] = events'[j]
               PROVE  i = j
    OBVIOUS
  <2>1. i \in 1..Len(events) \/ i = Len(events) + 1
    BY <1>2, <1>4
  <2>2. j \in 1..Len(events) \/ j = Len(events) + 1
    BY <1>2, <1>4
  <2>3. CASE i \in 1..Len(events) /\ j \in 1..Len(events)
    BY <1>2, <2>3 DEF IInv, QueueInv
  <2> QED
    BY <1>2, <1>3, <2>1, <2>2, <2>3
<1>7. QueueInv'
  BY <1>5, <1>6 DEF Send, QueueInv
<1>8. CurrentInv' /\ SignalInv' /\ ReasonInv'
  BY <1>1, <1>3 DEF IInv, Send, contexts, CurrentInv, SignalInv, ReasonInv
<1> QED
  BY <1>7, <1>8 DEF IInv

\* The listener takes the first event of the queue.
LEMMA TakeKeeps ==
  ASSUME IInv, TypeOK', Take
  PROVE  IInv'
<1> USE DEF TypeOK, Returned
<1>1. /\ Head(events) \in Calls
      /\ Len(events') = Len(events) - 1
      /\ \A i \in 1..Len(events') : events'[i] = events[i + 1]
      /\ Len(events) \in Nat \ {0}
  BY HeadTailProperties, EmptySeq DEF IInv, Take
<1>2. Head(events) = events[1] /\ current' = events[1] /\ caller' = caller
  BY <1>1 DEF IInv, Take
<1>3. \A i \in 1..Len(events') : i + 1 \in 1..Len(events) /\ i + 1 # 1
  BY <1>1
<1>4. QueueInv'
  <2>1. ASSUME NEW i \in 1..Len(events')
        PROVE  caller'[events'[i]] \in Handed /\ events'[i] # current'
    <3>1. events'[i] = events[i + 1] /\ i + 1 \in 1..Len(events) /\ i + 1 # 1
      BY <1>1, <1>3
    <3>2. 1 \in 1..Len(events)
      BY <1>1
    <3>3. events[i + 1] # events[1]
      BY <3>1, <3>2 DEF IInv, QueueInv
    <3> QED
      BY <1>2, <3>1, <3>3 DEF IInv, QueueInv
  <2>2. ASSUME NEW i \in 1..Len(events'), NEW j \in 1..Len(events'),
               events'[i] = events'[j]
        PROVE  i = j
    <3>1. events[i + 1] = events[j + 1]
      BY <1>1, <2>2
    <3>2. i + 1 = j + 1
      BY <1>3, <3>1 DEF IInv, QueueInv
    <3> QED
      BY <3>2
  <2> QED
    BY <2>1, <2>2 DEF QueueInv
<1>5. current' \in Calls /\ caller'[current'] \in Handed
  BY <1>1, <1>2 DEF IInv, QueueInv
<1>6. ~closed /\ ~panicked
  BY DEF IInv, SignalInv, Take
<1>7. CurrentInv'
  BY <1>5 DEF Take, Succeeds, CurrentInv
<1>8. SignalInv' /\ ReasonInv'
  BY <1>2, <1>6 DEF IInv, Take, SignalInv, ReasonInv
<1> QED
  BY <1>4, <1>7, <1>8 DEF IInv

\* Every step keeps the invariant.
LEMMA IInvStep == IInv /\ [Next]_vars => IInv'
<1> SUFFICES ASSUME IInv, [Next]_vars PROVE IInv'
  OBVIOUS
<1>0. TypeOK'
  BY TypeStep DEF IInv
<1> USE <1>0 DEF TypeOK, Returned, Handed, IInv, CurrentInv, SignalInv, QueueInv,
        ReasonInv
<1>1. CASE CancelCtx
  BY <1>1 DEF CancelCtx
<1>2. ASSUME NEW c \in Calls, NEW d \in Deltas \cup {-1}, Invoke(c, d)
      PROVE  IInv'
  <2>1. /\ caller' = [caller EXCEPT ![c] = "send"]
           \/ caller' = [caller EXCEPT ![c] = "blocked"]
        /\ caller[c] = "idle"
        /\ events' = events
    BY <1>2 DEF Invoke
  <2>2. c # current /\ \A i \in 1..Len(events) : events[i] # c
    BY <2>1
  <2>3. QueueInv'
    BY <1>2, <2>1, <2>2 DEF Invoke
  <2>4. CurrentInv' /\ SignalInv' /\ ReasonInv'
    BY <1>2, <2>1, <2>2 DEF Invoke, contexts
  <2> QED
    BY <2>3, <2>4
<1>3. ASSUME NEW c \in Calls, Send(c)
      PROVE  IInv'
  BY <1>3, SendKeeps
<1>4. ASSUME NEW c \in Calls, NEW why \in Reasons, Refuse(c, why)
      PROVE  IInv'
  BY <1>4 DEF Refuse, Reason, Reasons, contexts
<1>5. CASE Take
  BY <1>5, TakeKeeps
<1>6. CASE Reply
  <2>1. current \in Calls /\ caller' = [caller EXCEPT ![current] = "ok"]
    BY <1>6 DEF Reply
  <2>2. \A i \in 1..Len(events) : caller'[events[i]] = caller[events[i]]
    BY <2>1
  <2>3. current' = NoCall /\ listener' \in {"select", "close"} /\ events' = events
    BY <1>6 DEF Reply
  <2>4. QueueInv'
    BY <2>2, <2>3, CallsAssumption
  <2>5. CurrentInv' /\ SignalInv' /\ ReasonInv'
    BY <1>6, <2>1, <2>3, CallsAssumption DEF Reply, contexts
  <2> QED
    BY <2>4, <2>5
<1>7. CASE SignalClose
  BY <1>7 DEF SignalClose
<1>8. CASE StopOnCtx
  BY <1>8 DEF StopOnCtx, contexts
<1>9. CASE Exit
  BY <1>9 DEF Exit, contexts
<1>10. ASSUME NEW w \in Waits, StartWait(w)
       PROVE  IInv'
  BY <1>10 DEF StartWait, contexts
<1>11. ASSUME NEW w \in Waits, NEW why \in Reasons, EndWait(w, why)
       PROVE  IInv'
  BY <1>11 DEF EndWait, Reasons, contexts
<1>12. CASE UNCHANGED vars
  BY <1>12 DEF vars
<1> QED
  BY <1>1, <1>2, <1>3, <1>4, <1>5, <1>6, <1>7, <1>8, <1>9, <1>10, <1>11, <1>12
     DEF Next, Continue, Listen

\* The listener, the queue and the three contexts agree, in every reachable
\* state, on which calls can still take effect (handleEvent and listen).
THEOREM Invariance == Spec => []IInv
  BY IInvInit, IInvStep, PTL DEF Spec

-----------------------------------------------------------------------------
(* Sums.  SumFunctionOnSet folds a function over a set through a recursive  *)
(* function on its subsets; what that computes is shown by taking a         *)
(* smallest counterexample.                                                 *)

\* The element that the fold takes first.
First(s) == CHOOSE x \in s : TRUE

\* The recursive function of the fold.
IsFold(f, S, fold) ==
  fold = [s \in SUBSET S |->
            IF s = {} THEN 0 ELSE f[First(s)] + fold[s \ {First(s)}]]

\* Among sets of subsets of a finite set there is a smallest one.
LEMMA SmallestSubset ==
  ASSUME NEW S, IsFiniteSet(S), NEW B \in SUBSET (SUBSET S), B # {}
  PROVE  \E T \in B : \A U \in B : U \subseteq T => U = T
<1>1. B \subseteq FiniteSubsetsOf(S)
  BY FS_Subset DEF FiniteSubsetsOf
<1>2. PICK T \in B : \A U \in B : ~ (<<U, T>> \in StrictSubsetOrdering(S))
  BY <1>1, FS_StrictSubsetOrderingWellFounded, WFMin
<1>3. ASSUME NEW U \in B, U \subseteq T, U # T
      PROVE  FALSE
  <2>1. <<U, T>> \in StrictSubsetOrdering(S)
    BY <1>3 DEF StrictSubsetOrdering
  <2> QED
    BY <1>2, <2>1
<1> QED
  BY <1>3

\* A set of natural numbers has a least member.
LEMMA LeastExists ==
  ASSUME NEW I \in SUBSET Nat, I # {}
  PROVE  \E n \in I : \A m \in I : n <= m
<1>1. PICK n \in I : \A m \in I : ~ (<<m, n>> \in OpToRel(<, Nat))
  BY NatLessThanWellFounded, WFMin
<1>2. \A m \in I : ~(m < n)
  BY <1>1 DEF OpToRel
<1> QED
  BY <1>2

\* The first element of a set that is not empty is one of its elements.
LEMMA FirstIn ==
  ASSUME NEW s, s # {}
  PROVE  First(s) \in s
  BY DEF First

\* The fold over a finite set exists: it does for the subsets of any size.
LEMMA FoldExists ==
  ASSUME NEW D, NEW f \in [D -> Int], NEW S \in SUBSET D, IsFiniteSet(S)
  PROVE  \E g : IsFold(f, S, g)
<1> DEFINE Value(g, s) == IF s = {} THEN 0 ELSE f[First(s)] + g[s \ {First(s)}]
           Upto(n) == \E g \in [SUBSET S -> Int] : \A s \in SUBSET S :
                        Cardinality(s) <= n => g[s] = Value(g, s)
<1>1. ASSUME NEW s \in SUBSET S
      PROVE  /\ Cardinality(s) \in Nat
             /\ Cardinality(s) <= Cardinality(S)
             /\ Cardinality(s) = 0 <=> s = {}
             /\ s # {} => /\ First(s) \in s
                          /\ f[First(s)] \in Int
                          /\ s \ {First(s)} \in SUBSET S
                          /\ Cardinality(s \ {First(s)}) = Cardinality(s) - 1
  <2>1. IsFiniteSet(s) /\ Cardinality(s) <= Cardinality(S)
    BY FS_Subset
  <2>2. Cardinality(s) \in Nat /\ (Cardinality(s) = 0 <=> s = {})
    BY <2>1, FS_CardinalityType, FS_EmptySet
  <2>3. ASSUME s # {}
        PROVE  Cardinality(s \ {First(s)}) = Cardinality(s) - 1
    BY <2>1, <2>3, FirstIn, FS_RemoveElement
  <2> QED
    BY <2>1, <2>2, <2>3, FirstIn
<1>2. Upto(0)
  <2>1. [s \in SUBSET S |-> 0] \in [SUBSET S -> Int]
    OBVIOUS
  <2>2. ASSUME NEW s \in SUBSET S, Cardinality(s) <= 0
        PROVE  [t \in SUBSET S |-> 0][s] = Value([t \in SUBSET S |-> 0], s)
    <3>1. Cardinality(s) \in Nat /\ (Cardinality(s) = 0 <=> s = {})
      BY <1>1
    <3>2. s = {}
      BY <2>2, <3>1
    <3> QED
      BY <3>2
  <2> QED
    BY <2>1, <2>2
<1>3. ASSUME NEW n \in Nat, Upto(n)
      PROVE  Upto(n + 1)
  <2>1. PICK g \in [SUBSET S -> Int] :
          \A s \in SUBSET S : Cardinality(s) <= n => g[s] = Value(g, s)
    BY <1>3
  <2> DEFINE h == [s \in SUBSET S |-> IF Cardinality(s) <= n THEN g[s] ELSE Value(g, s)]
  <2>2. ASSUME NEW s \in SUBSET S
        PROVE  Value(g, s) \in Int
    <3>1. CASE s = {}
      BY <3>1
    <3>2. CASE s # {}
      <4>1. f[First(s)] \in Int /\ g[s \ {First(s)}] \in Int
        BY <1>1, <3>2
      <4> QED
        BY <3>2, <4>1
    <3> QED
      BY <3>1, <3>2
  <2>3. h \in [SUBSET S -> Int]
    BY <2>2
  <2>4. ASSUME NEW s \in SUBSET S, Cardinality(s) <= n + 1
        PROVE  h[s] = Value(h, s)
    <3>1. h[s] = Value(g, s)
      BY <2>1
    <3>2. CASE s = {}
      BY <3>1, <3>2
    <3>3. CASE s # {}
      <4>1. /\ s \ {First(s)} \in SUBSET S
            /\ Cardinality(s \ {First(s)}) <= n
        BY <1>1, <2>4, <3>3
      <4>2. h[s \ {First(s)}] = g[s \ {First(s)}]
        BY <4>1
      <4> QED
        BY <3>1, <3>3, <4>2
    <3> QED
      BY <3>2, <3>3
  <2> QED
    BY <2>3, <2>4
<1>4. ASSUME NEW n \in Nat
      PROVE  Upto(n)
  <2> HIDE DEF Upto
  <2> DEFINE I == {m \in Nat : ~Upto(m)}
  <2>1. ASSUME I # {}
        PROVE  FALSE
    <3>1. PICK m \in I : \A k \in I : m <= k
      BY <2>1, LeastExists
    <3>2. m # 0
      BY <1>2
    <3>3. m - 1 \in Nat /\ m - 1 \notin I
      BY <3>1, <3>2
    <3>4. Upto(m - 1)
      BY <3>3
    <3>5. Upto((m - 1) + 1)
      BY <1>3, <3>3, <3>4
    <3>6. (m - 1) + 1 = m
      OBVIOUS
    <3> QED
      BY <3>5, <3>6
  <2> QED
    BY <2>1
<1>5. PICK g \in [SUBSET S -> Int] : \A s \in SUBSET S :
        Cardinality(s) <= Cardinality(S) => g[s] = Value(g, s)
  <2>1. Cardinality(S) \in Nat
    BY FS_CardinalityType
  <2> QED
    BY <1>4, <2>1
<1>6. g = [s \in SUBSET S |-> Value(g, s)]
  BY <1>1, <1>5
<1> QED
  BY <1>6 DEF IsFold

\* What a fold is at a subset.
LEMMA FoldAt ==
  ASSUME NEW f, NEW S, NEW g, IsFold(f, S, g), NEW s \in SUBSET S
  PROVE  /\ s = {} => g[s] = 0
         /\ s # {} => /\ First(s) \in s
                      /\ s \ {First(s)} \in SUBSET S
                      /\ g[s] = f[First(s)] + g[s \ {First(s)}]
<1>1. g[s] = IF s = {} THEN 0 ELSE f[First(s)] + g[s \ {First(s)}]
  BY Zenon DEF IsFold
<1> QED
  BY <1>1, FirstIn

\* The order in which a fold takes the elements does not matter.
LEMMA FoldAnyOrder ==
  ASSUME NEW D, NEW f \in [D -> Int], NEW S \in SUBSET D, IsFiniteSet(S),
         NEW g, IsFold(f, S, g)
  PROVE  \A s \in SUBSET S : /\ g[s] \in Int
                             /\ \A c \in s : g[s] = f[c] + g[s \ {c}]
<1> DEFINE Good(s) == g[s] \in Int /\ \A c \in s : g[s] = f[c] + g[s \ {c}]
           Bad == {s \in SUBSET S : ~Good(s)}
<1> SUFFICES ASSUME Bad # {} PROVE FALSE
  OBVIOUS
<1>1. PICK s \in Bad : \A u \in Bad : u \subseteq s => u = s
  <2>1. Bad \in SUBSET (SUBSET S)
    OBVIOUS
  <2> HIDE DEF Bad
  <2> QED
    BY <2>1, SmallestSubset
<1>2. \A u \in SUBSET S : u \subseteq s /\ u # s => Good(u)
  BY <1>1
<1> HIDE DEF Good
<1>3. ~Good(s) /\ s \in SUBSET S
  OBVIOUS
<1>4. ASSUME s = {}
      PROVE  FALSE
  <2>1. g[s] = 0
    BY <1>3, <1>4, FoldAt
  <2> QED
    BY <1>3, <1>4, <2>1 DEF Good
<1> DEFINE p == First(s)
<1>5. p \in s /\ s \ {p} \in SUBSET S /\ g[s] = f[p] + g[s \ {p}]
  BY <1>3, <1>4, FoldAt
<1> HIDE DEF p
<1>6. Good(s \ {p})
  BY <1>2, <1>5
<1>7. g[s] \in Int
  BY <1>5, <1>6 DEF Good
<1>8. ASSUME NEW c \in s
      PROVE  g[s] = f[c] + g[s \ {c}]
  <2>1. CASE c = p
    BY <1>5, <2>1
  <2>2. CASE c # p
    <3>1. c \in s \ {p} /\ p \in s \ {c} /\ (s \ {p}) \ {c} = (s \ {c}) \ {p}
      BY <1>5, <2>2
    <3>2. Good(s \ {c}) /\ Good((s \ {p}) \ {c})
      BY <1>2, <1>5, <3>1
    <3>3. g[s \ {p}] = f[c] + g[(s \ {p}) \ {c}]
      BY <1>6, <3>1 DEF Good
    <3>4. g[s \ {c}] = f[p] + g[(s \ {p}) \ {c}]
      BY <3>1, <3>2 DEF Good
    <3>5. /\ g[(s \ {p}) \ {c}] \in Int
          /\ f[c] \in Int /\ f[p] \in Int
      BY <1>3, <1>5, <3>2 DEF Good
    <3> QED
      BY <1>5, <3>3, <3>4, <3>5
  <2> QED
    BY <2>1, <2>2
<1> QED
  BY <1>3, <1>7, <1>8 DEF Good

\* A fold at a set depends on the values at the elements of that set only.
LEMMA FoldSame ==
  ASSUME NEW f, NEW S, NEW g, IsFold(f, S, g),
         NEW h, NEW T, NEW k, IsFold(h, T, k),
         IsFiniteSet(S)
  PROVE  \A s \in SUBSET (S \cap T) :
           (\A x \in s : f[x] = h[x]) => g[s] = k[s]
<1> DEFINE Bad == {s \in SUBSET S :
                     /\ s \in SUBSET T /\ \A x \in s : f[x] = h[x]
                     /\ g[s] # k[s]}
<1> SUFFICES ASSUME Bad # {} PROVE FALSE
  OBVIOUS
<1>1. PICK s \in Bad : \A u \in Bad : u \subseteq s => u = s
  <2>1. Bad \in SUBSET (SUBSET S)
    OBVIOUS
  <2> HIDE DEF Bad
  <2> QED
    BY <2>1, SmallestSubset
<1>2. s # {}
  BY <1>1, FoldAt
<1> DEFINE p == First(s)
<1>3. p \in s /\ g[s] = f[p] + g[s \ {p}] /\ k[s] = h[p] + k[s \ {p}]
  <2>1. s \in SUBSET S /\ s \in SUBSET T
    OBVIOUS
  <2> HIDE DEF Bad
  <2>2. p \in s /\ g[s] = f[p] + g[s \ {p}]
    BY <1>2, <2>1, FoldAt
  <2>3. k[s] = h[p] + k[s \ {p}]
    BY <1>2, <2>1, FoldAt
  <2> QED
    BY <2>2, <2>3
<1> HIDE DEF p
<1>4. g[s \ {p}] = k[s \ {p}]
  BY <1>1, <1>3
<1> QED
  BY <1>3, <1>4

\* The sum of the community modules is such a fold.
LEMMA SumIsFold ==
  ASSUME NEW D, NEW f \in [D -> Int], NEW S \in SUBSET D, IsFiniteSet(S)
  PROVE  \E g : IsFold(f, S, g) /\ SumFunctionOnSet(f, S) = g[S]
<1> DEFINE g == CHOOSE fold : IsFold(f, S, fold)
<1>1. IsFold(f, S, g)
  BY FoldExists, Zenon
<1>2. g = CHOOSE fold : fold = [s \in SUBSET S |->
            IF s = {} THEN 0 ELSE f[First(s)] + fold[s \ {First(s)}]]
  BY Zenon DEF IsFold
<1>3. SumFunctionOnSet(f, S) = g[S]
  BY <1>2, Zenon
     DEF SumFunctionOnSet, FoldFunctionOnSet, MapThenFoldSet, First
<1> QED
  BY <1>1, <1>3

\* The sum over no element is zero.
LEMMA SumEmpty ==
  ASSUME NEW D, NEW f \in [D -> Int]
  PROVE  SumFunctionOnSet(f, {}) = 0
<1>1. PICK g : IsFold(f, {}, g) /\ SumFunctionOnSet(f, {}) = g[{}]
  BY SumIsFold, FS_EmptySet
<1> QED
  BY <1>1, FoldAt

\* A sum of integers is an integer.
LEMMA SumType ==
  ASSUME NEW D, NEW f \in [D -> Int], NEW S \in SUBSET D, IsFiniteSet(S)
  PROVE  SumFunctionOnSet(f, S) \in Int
<1>1. PICK g : IsFold(f, S, g) /\ SumFunctionOnSet(f, S) = g[S]
  BY SumIsFold
<1> QED
  BY <1>1, FoldAnyOrder

\* One more element adds its value.
LEMMA SumAdd ==
  ASSUME NEW D, NEW f \in [D -> Int], NEW S \in SUBSET D, IsFiniteSet(S),
         NEW c \in D, c \notin S
  PROVE  SumFunctionOnSet(f, S \cup {c}) = SumFunctionOnSet(f, S) + f[c]
<1>1. PICK g : IsFold(f, S, g) /\ SumFunctionOnSet(f, S) = g[S]
  BY SumIsFold
<1>2. IsFiniteSet(S \cup {c}) /\ S \cup {c} \in SUBSET D
  BY FS_AddElement
<1>3. PICK h : /\ IsFold(f, S \cup {c}, h)
               /\ SumFunctionOnSet(f, S \cup {c}) = h[S \cup {c}]
  BY <1>2, SumIsFold
<1>4. (S \cup {c}) \ {c} = S
  OBVIOUS
<1>5. h[S \cup {c}] = f[c] + h[S]
  <2>1. S \cup {c} \in SUBSET (S \cup {c}) /\ c \in S \cup {c}
    OBVIOUS
  <2>2. \A s \in SUBSET (S \cup {c}) :
          h[s] \in Int /\ \A x \in s : h[s] = f[x] + h[s \ {x}]
    <3>1. IsFold(f, S \cup {c}, h)
      BY <1>3
    <3> QED
      BY <1>2, <3>1, FoldAnyOrder
  <2>3. h[S \cup {c}] = f[c] + h[(S \cup {c}) \ {c}]
    BY <2>1, <2>2
  <2> QED
    BY <1>4, <2>3
<1>6. h[S] = g[S]
  BY <1>1, <1>3, FoldSame
<1>7. g[S] \in Int /\ f[c] \in Int
  BY <1>1, FoldAnyOrder
<1> QED
  BY <1>1, <1>3, <1>5, <1>6, <1>7

\* Values elsewhere do not matter.
LEMMA SumSame ==
  ASSUME NEW D, NEW f \in [D -> Int], NEW h \in [D -> Int],
         NEW S \in SUBSET D, IsFiniteSet(S), \A x \in S : f[x] = h[x]
  PROVE  SumFunctionOnSet(f, S) = SumFunctionOnSet(h, S)
<1>1. PICK g : IsFold(f, S, g) /\ SumFunctionOnSet(f, S) = g[S]
  BY SumIsFold
<1>2. PICK k : IsFold(h, S, k) /\ SumFunctionOnSet(h, S) = k[S]
  BY SumIsFold
<1> QED
  BY <1>1, <1>2, FoldSame

-----------------------------------------------------------------------------
(* The counter.                                                            *)

\* The group is closed when the counter is zero and no event is being handled,
\* and neither changes after it.
ZeroInv ==
  /\ listener = "close" => counter = 0
  /\ closed => counter = 0 /\ current = NoCall

BalanceInv == CounterBalanced /\ ZeroInv

\* The calls that succeeded are finitely many.
LEMMA SucceededFinite == IsFiniteSet(Succeeded) /\ Succeeded \in SUBSET Calls
<1>1. Succeeded \in SUBSET Calls
  BY DEF Succeeded
<1> QED
  BY <1>1, CallsAssumption, FS_Subset

\* No call has succeeded in a new group, and its counter is zero.
LEMMA BalanceInit == Init => BalanceInv
<1> SUFFICES ASSUME Init PROVE BalanceInv
  OBVIOUS
<1>1. Succeeded = {}
  BY DEF Init, Succeeded
<1>2. SumOk = 0
  <2>1. delta \in [Calls -> Int]
    BY InitTypes DEF TypeOK
  <2> QED
    BY <1>1, <2>1, SumEmpty DEF SumOk
<1> QED
  BY <1>2 DEF Init, BalanceInv, CounterBalanced, ZeroInv

\* The sum stays when neither the calls that succeeded nor their deltas change.
LEMMA SumStays ==
  ASSUME TypeOK, TypeOK', Succeeded' = Succeeded,
         \A c \in Succeeded : delta'[c] = delta[c]
  PROVE  SumOk' = SumOk /\ SumOk \in Int
<1>1. SumFunctionOnSet(delta, Succeeded) = SumFunctionOnSet(delta', Succeeded)
  <2>1. delta \in [Calls -> Int] /\ delta' \in [Calls -> Int]
    BY DEF TypeOK
  <2>2. \A c \in Succeeded : delta[c] = delta'[c]
    OBVIOUS
  <2> QED
    BY <2>1, <2>2, SumSame, SucceededFinite
<1>2. SumFunctionOnSet(delta, Succeeded) \in Int
  BY SumType, SucceededFinite DEF TypeOK
<1> QED
  BY <1>1, <1>2 DEF SumOk

\* A call is made: its delta counts for nothing yet.
LEMMA InvokeBalances ==
  ASSUME IInv, BalanceInv, TypeOK', NEW c \in Calls, NEW d \in Deltas \cup {-1},
         Invoke(c, d)
  PROVE  BalanceInv'
<1> USE DEF IInv, TypeOK, Returned
<1>1. c # current
  BY DEF Invoke, CurrentInv, Handed
<1>2. Succeeded' = Succeeded /\ c \notin Succeeded
  BY DEF Invoke, Succeeded
<1>3. SumOk' = SumOk
  <2>1. \A b \in Succeeded : delta'[b] = delta[b]
    BY <1>2 DEF Invoke, Succeeded
  <2> QED
    BY <1>2, <2>1, SumStays
<1> QED
  BY <1>1, <1>3 DEF Invoke, contexts, BalanceInv, CounterBalanced, ZeroInv

\* A step that ends no call with success and handles no event.
LEMMA QuietBalances ==
  ASSUME IInv, BalanceInv, TypeOK', Succeeded' = Succeeded,
         UNCHANGED <<delta, counter, current>>, ZeroInv'
  PROVE  BalanceInv'
<1>1. SumOk' = SumOk
  BY SumStays DEF IInv
<1> QED
  BY <1>1 DEF BalanceInv, CounterBalanced

\* An event is applied: the sum counts it while it is handled.
LEMMA TakeBalances ==
  ASSUME IInv, BalanceInv, TypeOK', Take
  PROVE  BalanceInv'
<1> USE DEF IInv, TypeOK, Returned
<1>1. /\ current = NoCall /\ current' = Head(events) /\ ~closed /\ ~closed'
      /\ counter' = counter + delta[current'] /\ delta' = delta
      /\ listener' \in {"reply", "exit"} /\ caller' = caller
  BY DEF Take, CurrentInv, SignalInv
<1>2. current' \in Calls
  BY <1>1, HeadTailProperties DEF Take
<1>3. SumOk' = SumOk /\ SumOk \in Int
  BY <1>1, SumStays DEF Succeeded
<1>4. CounterBalanced'
  BY <1>1, <1>2, <1>3, CallsAssumption DEF BalanceInv, CounterBalanced
<1> QED
  BY <1>1, <1>4 DEF BalanceInv, ZeroInv

\* One more call succeeds.
LEMMA SumGains ==
  ASSUME TypeOK, current \in Calls, current \notin Succeeded
  PROVE  SumFunctionOnSet(delta, Succeeded \cup {current})
           = SumFunctionOnSet(delta, Succeeded) + delta[current]
<1>1. delta \in [Calls -> Int]
  BY DEF TypeOK
<1> QED
  BY <1>1, SumAdd, SucceededFinite

\* The reply tells the call of its success: its delta counts for ever.
LEMMA ReplyBalances ==
  ASSUME IInv, BalanceInv, TypeOK', Reply
  PROVE  BalanceInv'
<1> USE DEF IInv, TypeOK, Returned
<1>1. /\ current \in Calls /\ current \notin Succeeded /\ ~closed /\ ~closed'
      /\ current' = NoCall /\ counter' = counter /\ delta' = delta
  BY DEF Reply, contexts, CurrentInv, SignalInv, Succeeded
<1>2. Succeeded' = Succeeded \cup {current}
  BY <1>1 DEF Reply, Succeeded
<1>3. SumOk' = SumOk + delta[current]
  BY <1>1, <1>2, SumGains DEF SumOk
<1>4. CounterBalanced'
  BY <1>1, <1>3, CallsAssumption DEF BalanceInv, CounterBalanced
<1>5. ZeroInv'
  BY <1>1 DEF Reply, ZeroInv
<1> QED
  BY <1>4, <1>5 DEF BalanceInv

\* Every step keeps the balance.
LEMMA BalanceStep == IInv /\ BalanceInv /\ [Next]_vars => BalanceInv'
<1> SUFFICES ASSUME IInv, BalanceInv, [Next]_vars PROVE BalanceInv'
  OBVIOUS
<1>0. TypeOK'
  BY TypeStep DEF IInv
<1> USE <1>0 DEF IInv, TypeOK, Returned
<1>1. CASE CancelCtx
  BY <1>1, QuietBalances DEF CancelCtx, Succeeded, BalanceInv, ZeroInv
<1>2. ASSUME NEW c \in Calls, NEW d \in Deltas \cup {-1}, Invoke(c, d)
      PROVE  BalanceInv'
  BY <1>2, InvokeBalances
<1>3. ASSUME NEW c \in Calls, Send(c)
      PROVE  BalanceInv'
  <2>1. Succeeded' = Succeeded
    BY <1>3 DEF Send, Succeeded
  <2> QED
    BY <1>3, <2>1, QuietBalances DEF Send, contexts, BalanceInv, ZeroInv
<1>4. ASSUME NEW c \in Calls, NEW why \in Reasons, Refuse(c, why)
      PROVE  BalanceInv'
  <2>1. Succeeded' = Succeeded
    BY <1>4 DEF Refuse, Reasons, Succeeded
  <2> QED
    BY <1>4, <2>1, QuietBalances DEF Refuse, contexts, BalanceInv, ZeroInv
<1>5. CASE Take
  BY <1>5, TakeBalances
<1>6. CASE Reply
  BY <1>6, ReplyBalances
<1>7. CASE SignalClose
  <2>1. current = NoCall /\ ZeroInv'
    BY <1>7 DEF SignalClose, CurrentInv, BalanceInv, ZeroInv
  <2> QED
    BY <1>7, <2>1, QuietBalances DEF SignalClose, Succeeded
<1>8. CASE StopOnCtx
  BY <1>8, QuietBalances
     DEF StopOnCtx, contexts, Succeeded, BalanceInv, ZeroInv
<1>9. CASE Exit
  BY <1>9, QuietBalances DEF Exit, contexts, Succeeded, BalanceInv, ZeroInv
<1>10. ASSUME NEW w \in Waits, StartWait(w)
       PROVE  BalanceInv'
  BY <1>10, QuietBalances
     DEF StartWait, contexts, Succeeded, BalanceInv, ZeroInv
<1>11. ASSUME NEW w \in Waits, NEW why \in Reasons, EndWait(w, why)
       PROVE  BalanceInv'
  BY <1>11, QuietBalances
     DEF EndWait, contexts, Succeeded, BalanceInv, ZeroInv
<1>12. CASE UNCHANGED vars
  BY <1>12, QuietBalances DEF vars, Succeeded, BalanceInv, ZeroInv
<1> QED
  BY <1>1, <1>2, <1>3, <1>4, <1>5, <1>6, <1>7, <1>8, <1>9, <1>10, <1>11, <1>12
     DEF Next, Continue, Listen

\* The counter is the sum of the deltas whose calls returned nil, plus that of
\* the event being handled (handleEvent, lines 51-80): for any number of calls.
THEOREM CounterCorrect == Spec => []CounterBalanced
<1>1. BalanceInv => CounterBalanced
  BY DEF BalanceInv
<1> QED
  BY <1>1, BalanceInit, BalanceStep, Invariance, PTL DEF Spec

\* Once the group is closed the calls that returned nil balance exactly (the
\* blocking reply of lines 57-61).
THEOREM ClosedCorrect == Spec => []ClosedBalanced
<1>1. TypeOK /\ BalanceInv => ClosedBalanced
  <2> SUFFICES ASSUME TypeOK, CounterBalanced, ZeroInv, closed PROVE SumOk = 0
    BY DEF BalanceInv, ClosedBalanced
  <2>1. SumOk \in Int
    BY SumType, SucceededFinite DEF TypeOK, SumOk
  <2> QED
    BY <2>1 DEF CounterBalanced, ZeroInv
<1> QED
  BY <1>1, BalanceInit, BalanceStep, Invariance, TypeCorrect, PTL DEF Spec

-----------------------------------------------------------------------------
(* Nobody waits for everybody: what CallsReturn of CtxWaitGroup asks of the *)
(* states, the fairness apart.                                             *)

\* A call that has not returned.
Pending(c) == caller[c] \in {"send", "blocked", "await"}

\* A select of the call, or of a wait, has a branch that is ready, apart from the
\* reply, which is a branch of the listener as well.
CallerGoes(c) == caller[c] = "send" /\ HasRoom
Released == \E why \in Reasons : Reason(why)

\* The listener can receive, reply, or leave.
ListenerGoes ==
  \/ listener = "select" /\ (events # <<>> \/ ctxDone)
  \/ listener = "reply" /\ caller[current] = "await"
  \/ listener \in {"close", "exit"}

\* No call of Add or Done is left with a full queue, a nil queue, or an event that
\* nobody will take, and no wait when calls have succeeded that balance: the
\* goroutine itself can go on, or the listener can.
NobodyIsStuck ==
  /\ \A c \in Calls : Pending(c) => CallerGoes(c) \/ Released \/ ListenerGoes
  /\ \A w \in Waits :
       waiter[w] = "waiting" /\ Succeeded # {} /\ SumOk = 0 /\ current = NoCall
         => Released \/ ListenerGoes

\* A call that waits for its reply is in the queue or in the handler; the queue is
\* nil, and the listener leaves, only when a context has been cancelled.
AwaitInv ==
  /\ \A c \in Calls : caller[c] = "await" =>
       current = c \/ \E i \in 1..Len(events) : events[i] = c
  /\ \A c \in Calls : caller[c] = "blocked" => listener = "stopped"
  /\ \A c \in Calls : caller[c] = "ctx" => ctxDone
  /\ listener \in {"exit", "stopped"} => Released

\* A listener that goes on after a success has not come to zero.
OpenInv == listener = "select" /\ Succeeded # {} => counter # 0

\* A new group.
LEMMA StuckInit == Init => AwaitInv /\ OpenInv
  BY DEF Init, AwaitInv, OpenInv, Succeeded

\* Every step keeps track of the events: each is appended once, and taken once.
LEMMA AwaitStep == IInv /\ AwaitInv /\ [Next]_vars => AwaitInv'
<1> SUFFICES ASSUME IInv, AwaitInv, [Next]_vars PROVE AwaitInv'
  OBVIOUS
<1>0. TypeOK'
  BY TypeStep DEF IInv
<1> USE <1>0 DEF IInv, TypeOK, Returned, AwaitInv, Released, Reason, Reasons
<1>1. CASE CancelCtx
  BY <1>1 DEF CancelCtx
<1>2. ASSUME NEW c \in Calls, NEW d \in Deltas \cup {-1}, Invoke(c, d)
      PROVE  AwaitInv'
  BY <1>2 DEF Invoke, contexts
<1>3. ASSUME NEW c \in Calls, Send(c)
      PROVE  AwaitInv'
  <2>1. /\ Len(events') = Len(events) + 1 /\ events'[Len(events) + 1] = c
        /\ \A i \in 1..Len(events) : events'[i] = events[i]
    BY <1>3, AppendProperties DEF Send
  <2>2. \A b \in Calls : caller'[b] = "await" =>
          current' = b \/ \E i \in 1..Len(events') : events'[i] = b
    BY <1>3, <2>1 DEF Send
  <2> QED
    BY <1>3, <2>2 DEF Send, contexts
<1>4. ASSUME NEW c \in Calls, NEW why \in Reasons, Refuse(c, why)
      PROVE  AwaitInv'
  BY <1>4 DEF Refuse, contexts
<1>5. CASE Take
  <2>1. /\ current' = events[1] /\ Len(events') = Len(events) - 1
        /\ \A i \in 1..Len(events') : events'[i] = events[i + 1]
    BY <1>5, HeadTailProperties DEF Take
  <2>2. current = NoCall /\ NoCall \notin Calls
    BY <1>5, CallsAssumption DEF Take, CurrentInv
  <2>3. \A c \in Calls : caller'[c] = "await" =>
          current' = c \/ \E i \in 1..Len(events') : events'[i] = c
    <3> SUFFICES ASSUME NEW c \in Calls, caller[c] = "await", current' # c
                 PROVE  \E i \in 1..Len(events') : events'[i] = c
      BY <1>5 DEF Take
    <3>1. PICK i \in 1..Len(events) : events[i] = c
      BY <2>2
    <3>2. i # 1
      BY <2>1, <3>1
    <3>3. i - 1 \in 1..Len(events') /\ (i - 1) + 1 = i
      BY <2>1, <3>2
    <3>4. events'[i - 1] = c
      BY <2>1, <3>1, <3>3
    <3> QED
      BY <3>3, <3>4
  <2>4. listener' = "reply" \/ panicked'
    BY <1>5 DEF Take
  <2> QED
    BY <1>5, <2>3, <2>4 DEF Take
<1>6. CASE Reply
  BY <1>6, CallsAssumption DEF Reply, contexts, CurrentInv
<1>7. CASE SignalClose
  BY <1>7 DEF SignalClose
<1>8. CASE StopOnCtx
  BY <1>8 DEF StopOnCtx, contexts
<1>9. CASE Exit
  BY <1>9 DEF Exit, contexts
<1>10. ASSUME NEW w \in Waits, StartWait(w)
       PROVE  AwaitInv'
  BY <1>10 DEF StartWait, contexts
<1>11. ASSUME NEW w \in Waits, NEW why \in Reasons, EndWait(w, why)
       PROVE  AwaitInv'
  BY <1>11 DEF EndWait, contexts
<1>12. CASE UNCHANGED vars
  BY <1>12 DEF vars
<1> QED
  BY <1>1, <1>2, <1>3, <1>4, <1>5, <1>6, <1>7, <1>8, <1>9, <1>10, <1>11, <1>12
     DEF Next, Continue, Listen

\* Only a reply makes a call succeed, and it looks at the counter.
LEMMA OpenStep == IInv /\ OpenInv /\ [Next]_vars => OpenInv'
<1> SUFFICES ASSUME IInv, OpenInv, [Next]_vars PROVE OpenInv'
  OBVIOUS
<1> USE DEF IInv, TypeOK, Returned, OpenInv, Succeeded
<1>1. CASE CancelCtx
  BY <1>1 DEF CancelCtx
<1>2. ASSUME NEW c \in Calls, NEW d \in Deltas \cup {-1}, Invoke(c, d)
      PROVE  OpenInv'
  BY <1>2 DEF Invoke
<1>3. ASSUME NEW c \in Calls, Send(c)
      PROVE  OpenInv'
  BY <1>3 DEF Send
<1>4. ASSUME NEW c \in Calls, NEW why \in Reasons, Refuse(c, why)
      PROVE  OpenInv'
  BY <1>4 DEF Refuse, Reasons
<1>5. CASE Take \/ Reply \/ SignalClose \/ StopOnCtx \/ Exit
  BY <1>5 DEF Take, Reply, SignalClose, StopOnCtx, Exit
<1>6. ASSUME NEW w \in Waits, StartWait(w)
      PROVE  OpenInv'
  BY <1>6 DEF StartWait
<1>7. ASSUME NEW w \in Waits, NEW why \in Reasons, EndWait(w, why)
      PROVE  OpenInv'
  BY <1>7 DEF EndWait
<1>8. CASE UNCHANGED vars
  BY <1>8 DEF vars
<1> QED
  BY <1>1, <1>2, <1>3, <1>4, <1>5, <1>6, <1>7, <1>8 DEF Next, Continue, Listen

\* A call that has not returned can go on, or the listener can: a full queue has
\* an event for the listener, a listener that is at the reply finds its caller or
\* has lost it to the cancelled context, and one that has left has left a reason.
LEMMA CallsGoOn ==
  ASSUME IInv, AwaitInv, NEW c \in Calls, Pending(c)
  PROVE  CallerGoes(c) \/ Released \/ ListenerGoes
<1> SUFFICES ASSUME ~Released, ~ListenerGoes PROVE CallerGoes(c)
  OBVIOUS
<1> USE DEF IInv, TypeOK, Returned
<1>1. listener \notin {"exit", "stopped", "close"}
  BY DEF AwaitInv, ListenerGoes
<1>2. ~closed /\ ~panicked /\ ~ctxDone
  BY DEF Released, Reason, Reasons
<1>3. listener # "reply"
  <2> SUFFICES ASSUME listener = "reply" PROVE FALSE
    OBVIOUS
  <2>1. current \in Calls /\ caller[current] \in {"closed", "ctx", "panic"}
    BY DEF ListenerGoes, CurrentInv, Handed
  <2> QED
    BY <1>2, <2>1 DEF ReasonInv, AwaitInv
<1>4. listener = "select" /\ events = <<>> /\ current = NoCall
  BY <1>1, <1>3 DEF ListenerGoes, CurrentInv
<1>5. caller[c] = "send"
  BY <1>4, CallsAssumption DEF Pending, AwaitInv
<1> QED
  BY <1>4, <1>5, CapacityAssumption DEF CallerGoes, HasRoom

\* In every reachable state each call that has not returned can go on, or the
\* listener can, and so can a wait for calls that balance (lines 57-68, 110-146,
\* 163-173): the reply that blocks, the queue of sixteen and the queue that the
\* listener sets to nil never leave everybody waiting for somebody else.
THEOREM NoDeadlock == Spec => []NobodyIsStuck
<1>1. IInv /\ BalanceInv /\ AwaitInv /\ OpenInv => NobodyIsStuck
  <2> SUFFICES ASSUME IInv, BalanceInv, AwaitInv, OpenInv PROVE NobodyIsStuck
    OBVIOUS
  <2>1. ASSUME Succeeded # {}, SumOk = 0, current = NoCall
        PROVE  Released \/ ListenerGoes
    <3>1. counter = 0
      BY <2>1 DEF BalanceInv, CounterBalanced
    <3>2. listener \notin {"select", "reply"}
      BY <2>1, <3>1, CallsAssumption DEF OpenInv, IInv, CurrentInv
    <3> QED
      BY <3>2 DEF IInv, TypeOK, AwaitInv, ListenerGoes
  <2> QED
    BY <2>1, CallsGoOn DEF NobodyIsStuck
<1> QED
  BY <1>1, StuckInit, AwaitStep, OpenStep, BalanceInit, BalanceStep, Invariance,
     PTL
     DEF Spec

-----------------------------------------------------------------------------
(* Every step brings the end nearer.                                       *)

\* What a call goes through: it is made, its event is handed over or will not be,
\* the event is out of the queue, the call has returned.
CallStages == {"made", "handed", "taken", "returned"}

Reached(c, stage) ==
  \/ stage = "made" /\ caller[c] # "idle"
  \/ stage = "handed" /\ caller[c] \notin {"idle", "send", "blocked"}
  \/ /\ stage = "taken" /\ caller[c] \notin {"idle", "send", "blocked"}
     /\ \A i \in 1..Len(events) : events[i] # c
  \/ stage = "returned" /\ caller[c] \in Returned

WaitStages == {"begun", "ended"}

WaitReached(w, stage) ==
  \/ stage = "begun" /\ waiter[w] # "idle"
  \/ stage = "ended" /\ waiter[w] \notin {"idle", "waiting"}

\* The ends of the context, of the group, and of the listener.
Ends == {"ctx", "closed", "left", "stopped"}

Ended(e) ==
  \/ e = "ctx" /\ ctxDone
  \/ e = "closed" /\ closed
  \/ e = "left" /\ listener \in {"exit", "stopped"}
  \/ e = "stopped" /\ listener = "stopped"

CallsAhead == {p \in Calls \X CallStages : ~Reached(p[1], p[2])}
WaitsAhead == {p \in Waits \X WaitStages : ~WaitReached(p[1], p[2])}
EndsAhead == {e \in Ends : ~Ended(e)}

\* What is ahead of the calls, the waits and the listener.
StepsLeft == Cardinality(CallsAhead) + Cardinality(WaitsAhead) + Cardinality(EndsAhead)

Advances == StepsLeft \in Nat /\ StepsLeft' < StepsLeft

\* A set of which something is taken away, and nothing is added, has fewer elements.
LEMMA Fewer ==
  ASSUME NEW S, NEW T, IsFiniteSet(S), T \subseteq S
  PROVE  /\ Cardinality(S) \in Nat /\ Cardinality(T) \in Nat
         /\ Cardinality(T) <= Cardinality(S)
         /\ T # S => Cardinality(T) < Cardinality(S)
<1>1. IsFiniteSet(T) /\ Cardinality(T) <= Cardinality(S)
      /\ (Cardinality(S) = Cardinality(T) => S = T)
  BY FS_Subset
<1>2. Cardinality(S) \in Nat /\ Cardinality(T) \in Nat
  BY <1>1, FS_CardinalityType
<1> QED
  BY <1>1, <1>2

\* What is ahead is finite.
LEMMA AheadFinite ==
  IsFiniteSet(CallsAhead) /\ IsFiniteSet(WaitsAhead) /\ IsFiniteSet(EndsAhead)
<1>1. IsFiniteSet(CallStages) /\ IsFiniteSet(WaitStages) /\ IsFiniteSet(Ends)
  <2>1. \A a, b, c, d : IsFiniteSet({a, b, c, d}) /\ IsFiniteSet({a, b})
    <3> TAKE a, b, c, d
    <3>1. IsFiniteSet({}) /\ IsFiniteSet({} \cup {a}) /\ IsFiniteSet(({} \cup {a}) \cup {b})
      BY FS_EmptySet, FS_AddElement
    <3>2. IsFiniteSet((({} \cup {a}) \cup {b}) \cup {c})
      BY <3>1, FS_AddElement
    <3>3. IsFiniteSet(((({} \cup {a}) \cup {b}) \cup {c}) \cup {d})
      BY <3>2, FS_AddElement
    <3>4. /\ {a, b, c, d} = ((({} \cup {a}) \cup {b}) \cup {c}) \cup {d}
          /\ {a, b} = ({} \cup {a}) \cup {b}
      OBVIOUS
    <3> QED
      BY <3>1, <3>3, <3>4
  <2> QED
    BY <2>1 DEF CallStages, WaitStages, Ends
<1>2. IsFiniteSet(Calls \X CallStages) /\ IsFiniteSet(Waits \X WaitStages)
  BY <1>1, CallsAssumption, WaitsAssumption, FS_Product
<1>3. /\ CallsAhead \in SUBSET (Calls \X CallStages)
      /\ WaitsAhead \in SUBSET (Waits \X WaitStages)
      /\ EndsAhead \in SUBSET Ends
  BY DEF CallsAhead, WaitsAhead, EndsAhead
<1> QED
  BY <1>1, <1>2, <1>3, FS_Subset

\* If no stage is undone and one more is reached, less is left.
LEMMA LessLeft ==
  ASSUME \A c \in Calls, s \in CallStages : Reached(c, s) => Reached(c, s)',
         \A w \in Waits, s \in WaitStages : WaitReached(w, s) => WaitReached(w, s)',
         \A e \in Ends : Ended(e) => Ended(e)',
         \/ \E c \in Calls, s \in CallStages : ~Reached(c, s) /\ Reached(c, s)'
         \/ \E w \in Waits, s \in WaitStages : ~WaitReached(w, s) /\ WaitReached(w, s)'
         \/ \E e \in Ends : ~Ended(e) /\ Ended(e)'
  PROVE  StepsLeft' < StepsLeft
<1>1. CallsAhead' \subseteq CallsAhead
  BY DEF CallsAhead
<1>2. WaitsAhead' \subseteq WaitsAhead
  BY DEF WaitsAhead
<1>3. EndsAhead' \subseteq EndsAhead
  BY DEF EndsAhead
<1>4. \/ CallsAhead' # CallsAhead \/ WaitsAhead' # WaitsAhead \/ EndsAhead' # EndsAhead
  <2>1. ASSUME NEW c \in Calls, NEW s \in CallStages, ~Reached(c, s), Reached(c, s)'
        PROVE  CallsAhead' # CallsAhead
    <3>1. <<c, s>> \in CallsAhead /\ <<c, s>> \notin CallsAhead'
      BY <2>1 DEF CallsAhead
    <3> QED
      BY <3>1
  <2>2. ASSUME NEW w \in Waits, NEW s \in WaitStages,
               ~WaitReached(w, s), WaitReached(w, s)'
        PROVE  WaitsAhead' # WaitsAhead
    <3>1. <<w, s>> \in WaitsAhead /\ <<w, s>> \notin WaitsAhead'
      BY <2>2 DEF WaitsAhead
    <3> QED
      BY <3>1
  <2>3. ASSUME NEW e \in Ends, ~Ended(e), Ended(e)'
        PROVE  EndsAhead' # EndsAhead
    <3>1. e \in EndsAhead /\ e \notin EndsAhead'
      BY <2>3 DEF EndsAhead
    <3> QED
      BY <3>1
  <2> QED
    BY <2>1, <2>2, <2>3
<1>5. /\ Cardinality(CallsAhead) \in Nat /\ Cardinality(CallsAhead') \in Nat
      /\ Cardinality(CallsAhead') <= Cardinality(CallsAhead)
      /\ CallsAhead' # CallsAhead => Cardinality(CallsAhead') < Cardinality(CallsAhead)
  BY <1>1, AheadFinite, Fewer
<1>6. /\ Cardinality(WaitsAhead) \in Nat /\ Cardinality(WaitsAhead') \in Nat
      /\ Cardinality(WaitsAhead') <= Cardinality(WaitsAhead)
      /\ WaitsAhead' # WaitsAhead => Cardinality(WaitsAhead') < Cardinality(WaitsAhead)
  BY <1>2, AheadFinite, Fewer
<1>7. /\ Cardinality(EndsAhead) \in Nat /\ Cardinality(EndsAhead') \in Nat
      /\ Cardinality(EndsAhead') <= Cardinality(EndsAhead)
      /\ EndsAhead' # EndsAhead => Cardinality(EndsAhead') < Cardinality(EndsAhead)
  BY <1>3, AheadFinite, Fewer
<1> QED
  BY <1>4, <1>5, <1>6, <1>7 DEF StepsLeft

\* Every step reaches a stage and undoes none.
LEMMA StepAdvances == IInv /\ Next => StepsLeft' < StepsLeft
<1> SUFFICES ASSUME IInv, Next PROVE StepsLeft' < StepsLeft
  OBVIOUS
<1>0. TypeOK'
  BY TypeStep DEF IInv
<1> USE <1>0 DEF IInv, TypeOK, Returned, Reached, WaitReached, Ended, CallStages,
        WaitStages, Ends
<1>1. CASE CancelCtx
  BY <1>1, LessLeft DEF CancelCtx
<1>2. ASSUME NEW c \in Calls, NEW d \in Deltas \cup {-1}, Invoke(c, d)
      PROVE  StepsLeft' < StepsLeft
  <2>1. ~Reached(c, "made") /\ Reached(c, "made")'
    BY <1>2 DEF Invoke
  <2> QED
    BY <1>2, <2>1, LessLeft DEF Invoke, contexts
<1>3. ASSUME NEW c \in Calls, Send(c)
      PROVE  StepsLeft' < StepsLeft
  <2>1. ~Reached(c, "handed") /\ Reached(c, "handed")'
    BY <1>3 DEF Send
  <2>2. \A i \in 1..Len(events') :
          events'[i] = c \/ (i \in 1..Len(events) /\ events'[i] = events[i])
    <3>1. /\ Len(events') = Len(events) + 1 /\ events'[Len(events) + 1] = c
          /\ \A i \in 1..Len(events) : events'[i] = events[i]
          /\ Len(events) \in Nat
      BY <1>3, AppendProperties DEF Send
    <3>2. \A i \in 1..Len(events') : i \in 1..Len(events) \/ i = Len(events) + 1
      BY <3>1
    <3> TAKE i \in 1..Len(events')
    <3>3. CASE i \in 1..Len(events)
      BY <3>1, <3>3
    <3>4. CASE i = Len(events) + 1
      BY <3>1, <3>4
    <3> QED
      BY <3>2, <3>3, <3>4
  <2>3. \A b \in Calls, s \in CallStages : Reached(b, s) => Reached(b, s)'
    BY <1>3, <2>2 DEF Send
  <2> HIDE DEF Reached
  <2> QED
    BY <1>3, <2>1, <2>3, LessLeft DEF Send, contexts
<1>4. ASSUME NEW c \in Calls, NEW why \in Reasons, Refuse(c, why)
      PROVE  StepsLeft' < StepsLeft
  <2>1. ~Reached(c, "returned") /\ Reached(c, "returned")'
    BY <1>4 DEF Refuse, Reasons
  <2>2. \A b \in Calls, s \in CallStages : Reached(b, s) => Reached(b, s)'
    BY <1>4 DEF Refuse, Reasons
  <2> HIDE DEF Reached
  <2> QED
    BY <1>4, <2>1, <2>2, LessLeft DEF Refuse, contexts
<1>5. CASE Take
  <2>1. /\ Len(events') = Len(events) - 1 /\ Len(events) \in Nat
        /\ \A i \in 1..Len(events') : events'[i] = events[i + 1]
        /\ events[1] \in Calls /\ 1 \in 1..Len(events)
    BY <1>5, HeadTailProperties, ElementOfSeq DEF Take
  <2>2. PICK c \in Calls : c = events[1]
    BY <2>1
  <2>3. \A i \in 1..Len(events') : events'[i] # c
    <3> TAKE i \in 1..Len(events')
    <3>1. i + 1 \in 1..Len(events) /\ i + 1 # 1
      BY <2>1
    <3> QED
      BY <2>1, <2>2, <3>1 DEF QueueInv
  <2>4. caller[c] \in Handed
    BY <2>1, <2>2 DEF QueueInv
  <2>5. ~Reached(c, "taken") /\ Reached(c, "taken")'
    BY <1>5, <2>1, <2>2, <2>3, <2>4 DEF Take, Handed
  <2>6. \A b \in Calls, s \in CallStages : Reached(b, s) => Reached(b, s)'
    <3>1. \A b \in Calls :
            (\A i \in 1..Len(events) : events[i] # b)
              => \A i \in 1..Len(events') : events'[i] # b
      <4>1. \A i \in 1..Len(events') : i + 1 \in 1..Len(events)
        BY <2>1
      <4> QED
        BY <2>1, <4>1
    <3> QED
      BY <1>5, <3>1 DEF Take
  <2>7. "taken" \in CallStages
    OBVIOUS
  <2>8. /\ \A w \in Waits, s \in WaitStages : WaitReached(w, s) => WaitReached(w, s)'
        /\ \A e \in Ends : Ended(e) => Ended(e)'
    BY <1>5 DEF Take
  <2> HIDE DEF Reached, WaitReached, Ended, CallStages, WaitStages, Ends
  <2> QED
    BY <2>5, <2>6, <2>7, <2>8, LessLeft
<1>6. CASE Reply
  <2>1. listener' \in {"select", "close"}
    BY <1>6 DEF Reply
  <2>2. PICK c \in Calls : c = current
    BY <1>6 DEF Reply, CurrentInv
  <2>3. ~Reached(c, "returned") /\ Reached(c, "returned")'
    BY <1>6, <2>2 DEF Reply
  <2>4. \A b \in Calls, s \in CallStages : Reached(b, s) => Reached(b, s)'
    BY <1>6, <2>2 DEF Reply
  <2>5. "returned" \in CallStages
    OBVIOUS
  <2>6. /\ \A w \in Waits, s \in WaitStages : WaitReached(w, s) => WaitReached(w, s)'
        /\ \A e \in Ends : Ended(e) => Ended(e)'
    BY <1>6, <2>1 DEF Reply, contexts
  <2> HIDE DEF Reached, WaitReached, Ended, CallStages, WaitStages, Ends
  <2> QED
    BY <2>3, <2>4, <2>5, <2>6, LessLeft
<1>7. CASE SignalClose
  <2>1. ~Ended("left") /\ Ended("left")'
    BY <1>7 DEF SignalClose
  <2> QED
    BY <1>7, <2>1, LessLeft DEF SignalClose
<1>8. CASE StopOnCtx
  <2>1. ~Ended("left") /\ Ended("left")'
    BY <1>8 DEF StopOnCtx
  <2> QED
    BY <1>8, <2>1, LessLeft DEF StopOnCtx, contexts
<1>9. CASE Exit
  <2>1. ~Ended("stopped") /\ Ended("stopped")'
    BY <1>9 DEF Exit
  <2> QED
    BY <1>9, <2>1, LessLeft DEF Exit, contexts
<1>10. ASSUME NEW w \in Waits, StartWait(w)
       PROVE  StepsLeft' < StepsLeft
  <2>1. ~WaitReached(w, "begun") /\ WaitReached(w, "begun")'
    BY <1>10 DEF StartWait
  <2> QED
    BY <1>10, <2>1, LessLeft DEF StartWait, contexts
<1>11. ASSUME NEW w \in Waits, NEW why \in Reasons, EndWait(w, why)
       PROVE  StepsLeft' < StepsLeft
  <2>1. ~WaitReached(w, "ended") /\ WaitReached(w, "ended")'
    BY <1>11 DEF EndWait, Reasons
  <2> QED
    BY <1>11, <2>1, LessLeft DEF EndWait, Reasons, contexts
<1> QED
  BY <1>1, <1>2, <1>3, <1>4, <1>5, <1>6, <1>7, <1>8, <1>9, <1>10, <1>11
     DEF Next, Continue, Listen

\* No step of the object goes in a circle: each uses up a part of StepsLeft, a
\* number that is never negative.  With NoDeadlock: from any state, if goroutines
\* that can go on do, all calls have returned after so many steps (listen, the
\* loop of lines 86-103, and sendWaitEvent).
THEOREM Termination == Spec => [][Advances]_vars
<1>1. StepsLeft \in Nat
  BY AheadFinite, FS_CardinalityType DEF StepsLeft
<1>2. IInv /\ [Next]_vars => [Advances]_vars
  BY <1>1, StepAdvances DEF Advances
<1> QED
  BY <1>2, Invariance, PTL DEF Spec

-----------------------------------------------------------------------------
(* The refinement of WaitGroup.                                            *)

\* The variables of WaitGroup that the refinement computes.
Status == IF panicked THEN "panicked"
          ELSE IF closed \/ listener = "close" THEN "closed" ELSE "open"

Total == IF current = NoCall THEN counter ELSE counter - delta[current]

CallView == [c \in Calls |-> IF caller[c] \in {"send", "blocked", "await"}
                               THEN "pending" ELSE caller[c]]

\* A new group is a new WaitGroup.
LEMMA RefinesInit == Init => WG!Init
<1> SUFFICES ASSUME Init PROVE WG!Init
  OBVIOUS
<1>1. Status = "open" /\ Total = 0
  BY DEF Init, Status, Total
<1>2. CallView = [c \in Calls |-> "idle"]
  BY DEF Init, CallView
<1> QED
  BY <1>1, <1>2 DEF Init, WG!Init, Status, Total, CallView

\* A step that changes nothing that WaitGroup shows.
LEMMA Stutters ==
  ASSUME ctxDone' = ctxDone, Status' = Status, Total' = Total, delta' = delta,
         CallView' = CallView, waiter' = waiter
  PROVE  UNCHANGED WG!vars
  BY DEF WG!vars, Status, Total, CallView

\* A context gives WaitGroup the same reason to turn a call away.
LEMMA ReasonRefines ==
  ASSUME IInv, NEW why \in Reasons, Reason(why)
  PROVE  WG!Reason(why)
  BY DEF IInv, SignalInv, Reason, Reasons, WG!Reason

\* A call is seen as soon as it is made, and takes effect later.
LEMMA InvokeRefines ==
  ASSUME IInv, NEW c \in Calls, NEW d \in Deltas \cup {-1}, Invoke(c, d)
  PROVE  WG!Invoke(c, d)
<1> USE DEF IInv, TypeOK, Returned
<1>1. c # current
  BY DEF Invoke, CurrentInv, Handed
<1>2. Total' = Total
  BY <1>1 DEF Invoke, Total
<1>3. Status' = Status
  BY DEF Invoke, contexts, Status
<1>4. CallView[c] = "idle" /\ CallView' = [CallView EXCEPT ![c] = "pending"]
  BY DEF Invoke, CallView
<1> QED
  BY <1>2, <1>3, <1>4 DEF Invoke, contexts, WG!Invoke, Status, Total, CallView

\* That an event is queued, or not, is not seen.
LEMMA SendRefines ==
  ASSUME IInv, NEW c \in Calls, Send(c)
  PROVE  UNCHANGED WG!vars
<1>1. CallView' = CallView
  BY DEF IInv, TypeOK, Send, CallView
<1>2. Status' = Status /\ Total' = Total
  BY DEF Send, contexts, Status, Total
<1> QED
  BY <1>1, <1>2, Stutters DEF Send, contexts

\* A call is turned away for the reason that WaitGroup has too.
LEMMA RefuseRefines ==
  ASSUME IInv, NEW c \in Calls, NEW why \in Reasons, Refuse(c, why)
  PROVE  WG!Refuse(c, why)
<1>1. CallView[c] = "pending" /\ CallView' = [CallView EXCEPT ![c] = why]
  BY DEF IInv, TypeOK, Refuse, Reasons, CallView
<1>2. Status' = Status /\ Total' = Total
  BY DEF Refuse, contexts, Status, Total
<1>3. WG!Reason(why)
  BY ReasonRefines DEF Refuse
<1> QED
  BY <1>1, <1>2, <1>3 DEF Refuse, contexts, WG!Refuse, Status, Total, CallView

\* The event that the listener applies is not counted yet, or breaks the group.
LEMMA TakeRefines ==
  ASSUME IInv, IInv', Take
  PROVE  WG!Overdraw(current') \/ UNCHANGED WG!vars
<1> USE DEF IInv, TypeOK, Returned
<1>1. /\ current' \in Calls /\ current' # NoCall /\ current = NoCall
      /\ counter' = counter + delta[current'] /\ delta' = delta
      /\ ~closed /\ ~panicked /\ closed' = closed /\ caller' = caller
  BY CallsAssumption, HeadTailProperties DEF Take, CurrentInv, SignalInv
<1>2. Total' = Total /\ Total = counter
  BY <1>1 DEF Total
<1>3. CallView' = CallView
  BY <1>1 DEF CallView
<1>4. CASE Succeeds(counter')
  <2>1. Status' = Status
    BY <1>1, <1>4 DEF Take, Status
  <2> QED
    BY <1>1, <1>2, <1>3, <2>1, Stutters DEF Take
<1>5. CASE ~Succeeds(counter')
  <2>1. Status = "open" /\ Status' = "panicked"
    BY <1>1, <1>5 DEF Take, Status
  <2>2. Total + delta[current'] < 0
    BY <1>1, <1>2, <1>5 DEF Succeeds
  <2>3. CallView[current'] \in {"pending", "ctx"}
    BY <1>1 DEF CurrentInv, ReasonInv, Handed, CallView
  <2> QED
    BY <1>1, <1>2, <1>3, <2>1, <2>2, <2>3
       DEF Take, WG!Overdraw, Status, Total, CallView
<1> QED
  BY <1>4, <1>5

\* The reply is the moment at which the call takes effect.
LEMMA ReplyRefines ==
  ASSUME IInv, Reply, NEW c \in Calls, c = current
  PROVE  WG!Succeed(c)
<1> USE DEF IInv, TypeOK, Returned
<1>1. /\ current \in Calls /\ current # NoCall /\ counter >= 0
      /\ ~closed /\ ~panicked
  BY CallsAssumption DEF Reply, CurrentInv, SignalInv
<1>2. /\ Total = counter - delta[c] /\ Total' = counter
      /\ Total + delta[c] = counter
  BY <1>1 DEF Reply, Total
<1>3. Status = "open" /\ Status' = IF counter = 0 THEN "closed" ELSE "open"
  BY <1>1 DEF Reply, contexts, Status
<1>4. /\ CallView[c] = "pending"
      /\ CallView' = [CallView EXCEPT ![c] = "ok"]
  BY <1>1 DEF Reply, CallView
<1> QED
  BY <1>1, <1>2, <1>3, <1>4
     DEF Reply, contexts, WG!Succeed, Status, Total, CallView

\* Wait returns when WaitGroup lets it return.
LEMMA EndWaitRefines ==
  ASSUME IInv, NEW w \in Waits, NEW why \in Reasons, EndWait(w, why)
  PROVE  WG!EndWait(w, why)
<1>1. CallView' = CallView /\ Status' = Status /\ Total' = Total
  BY DEF EndWait, contexts, CallView, Status, Total
<1>2. WG!Reason(why)
  BY ReasonRefines DEF EndWait
<1> QED
  BY <1>1, <1>2 DEF EndWait, contexts, WG!EndWait, Status, Total, CallView

\* Every step of the detailed group is a step of the abstract one, or none.
LEMMA RefinesNext == IInv /\ IInv' /\ [Next]_vars => [WG!Next]_(WG!vars)
<1> SUFFICES ASSUME IInv, IInv', [Next]_vars PROVE [WG!Next]_(WG!vars)
  OBVIOUS
<1>1. CASE CancelCtx
  <2>1. CallView' = CallView /\ Status' = Status /\ Total' = Total
    BY <1>1 DEF CancelCtx, CallView, Status, Total
  <2>2. WG!Cancel
    BY <1>1, <2>1 DEF CancelCtx, WG!Cancel, CallView, Status, Total
  <2> QED
    BY <2>2 DEF WG!Next
<1>2. ASSUME NEW c \in Calls, NEW d \in Deltas \cup {-1}, Invoke(c, d)
      PROVE  WG!Next
  BY <1>2, InvokeRefines DEF WG!Next
<1>3. ASSUME NEW c \in Calls, Send(c)
      PROVE  UNCHANGED WG!vars
  BY <1>3, SendRefines
<1>4. ASSUME NEW c \in Calls, NEW why \in Reasons, Refuse(c, why)
      PROVE  WG!Next
  BY <1>4, RefuseRefines DEF WG!Next, Reasons
<1>5. CASE Take
  <2>1. current' \in Calls
    BY <1>5, HeadTailProperties DEF IInv, TypeOK, Take
  <2> QED
    BY <1>5, <2>1, TakeRefines DEF WG!Next
<1>6. CASE Reply
  <2>1. current \in Calls
    BY <1>6 DEF Reply, IInv, CurrentInv
  <2>2. PICK c \in Calls : c = current
    BY <2>1
  <2>3. WG!Succeed(c)
    BY <1>6, <2>2, ReplyRefines
  <2> QED
    BY <2>3 DEF WG!Next
<1>7. CASE SignalClose
  <2>1. CallView' = CallView /\ Status' = Status /\ Total' = Total
    BY <1>7 DEF SignalClose, CallView, Status, Total
  <2> QED
    BY <1>7, <2>1, Stutters DEF SignalClose
<1>8. CASE StopOnCtx
  <2>1. CallView' = CallView /\ Status' = Status /\ Total' = Total
    BY <1>8 DEF StopOnCtx, contexts, CallView, Status, Total
  <2> QED
    BY <1>8, <2>1, Stutters DEF StopOnCtx, contexts
<1>9. CASE Exit
  <2>1. CallView' = CallView /\ Status' = Status /\ Total' = Total
    BY <1>9 DEF Exit, contexts, CallView, Status, Total
  <2> QED
    BY <1>9, <2>1, Stutters DEF Exit, contexts
<1>10. ASSUME NEW w \in Waits, StartWait(w)
       PROVE  WG!Next
  <2>1. CallView' = CallView /\ Status' = Status /\ Total' = Total
    BY <1>10 DEF StartWait, contexts, CallView, Status, Total
  <2>2. WG!StartWait(w)
    BY <1>10, <2>1
       DEF StartWait, contexts, WG!StartWait, CallView, Status, Total
  <2> QED
    BY <2>2 DEF WG!Next
<1>11. ASSUME NEW w \in Waits, NEW why \in Reasons, EndWait(w, why)
       PROVE  WG!Next
  BY <1>11, EndWaitRefines DEF WG!Next, Reasons
<1>12. CASE UNCHANGED vars
  <2>1. CallView' = CallView /\ Status' = Status /\ Total' = Total
    BY <1>12 DEF vars, CallView, Status, Total
  <2> QED
    BY <1>12, <2>1, Stutters DEF vars
<1> QED
  BY <1>1, <1>2, <1>3, <1>4, <1>5, <1>6, <1>7, <1>8, <1>9, <1>10, <1>11, <1>12
     DEF Next, Continue, Listen

\* The goroutine, the queue and the three contexts behave as one total that
\* every call moves atomically (ctxWaitGroup.go as a whole).
THEOREM Refinement == Spec => ImplementsWaitGroup
  BY RefinesInit, RefinesNext, Invariance, PTL
     DEF Spec, WG!Spec, ImplementsWaitGroup
=============================================================================
