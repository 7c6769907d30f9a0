------------------------ MODULE ErrorPropagationProofs ------------------------
(***************************************************************************)
(* Proofs about ErrorPropagation, for chains of any length, with any       *)
(* options and any sentinels.                                              *)
(***************************************************************************)
EXTENDS ErrorPropagation, SequenceTheorems, NaturalsInduction,
        WellFoundedInduction, TLAPS

-----------------------------------------------------------------------------
(* Errors.                                                                 *)

\* What an error is sent as by process p, before the context is added.
ConvProto(p, e) == Convert(p, e)[1].proto

\* Every layer is of one of the seven kinds, and has the fields of its kind.
LEMMA LayerFields ==
  ASSUME NEW layer \in Layers
  PROVE  /\ layer.kind = "sentinel" => layer.sentinel \in Sentinels
         /\ layer.kind = "api" => layer.proto \in Protos
         /\ layer.kind = "status" => layer.proto \in Protos \cup {NoProto}
  BY DEF Layers, Wrap, Panic, Plain, ClientErr, Sentinel

\* A non-empty set of positions has a least one.
LEMMA LeastExists ==
  ASSUME NEW I \in SUBSET Nat, I # {}
  PROVE  \E i \in I : \A j \in I : i =< j
<1>1. \E i \in I : \A j \in I : ~(<<j, i>> \in OpToRel(<, Nat))
  BY NatLessThanWellFounded, WFMin
<1>2. PICK i \in I : \A j \in I : ~(<<j, i>> \in OpToRel(<, Nat))
  BY <1>1
<1>3. \A j \in I : ~(j < i)
  BY <1>2 DEF OpToRel
<1> QED
  BY <1>3

\* FirstOf is the first position of a layer of these kinds, or 0.
LEMMA FirstOfIs ==
  ASSUME NEW e \in Seq(Layers), NEW kinds
  PROVE  /\ FirstOf(kinds, e) \in 0..Len(e)
         /\ FirstOf(kinds, e) # 0 =>
              /\ e[FirstOf(kinds, e)].kind \in kinds
              /\ \A j \in 1..(FirstOf(kinds, e) - 1) : e[j].kind \notin kinds
         /\ FirstOf(kinds, e) = 0 => \A j \in 1..Len(e) : e[j].kind \notin kinds
<1> DEFINE I == {i \in 1..Len(e) : e[i].kind \in kinds}
<1>1. FirstOf(kinds, e) = IF I # {} THEN Min(I) ELSE 0
  BY DEF FirstOf, SelectInSeq
<1>2. I \in SUBSET Nat /\ Len(e) \in Nat
  BY LenProperties
<1>3. ASSUME I # {}
      PROVE  Min(I) \in I /\ \A j \in I : Min(I) =< j
  BY <1>2, <1>3, LeastExists DEF Min
<1>4. \A i : i \in I <=> i \in 1..Len(e) /\ e[i].kind \in kinds
  OBVIOUS
<1> HIDE DEF I
<1>5. CASE I # {}
  <2> DEFINE m == Min(I)
  <2>1. m \in 1..Len(e) /\ e[m].kind \in kinds /\ \A j \in I : m =< j
    BY <1>3, <1>4, <1>5
  <2>2. FirstOf(kinds, e) = m
    BY <1>1, <1>5
  <2> HIDE DEF m
  <2>3. \A j \in 1..(m - 1) : j \in 1..Len(e) /\ j \notin I
    BY <1>2, <1>4, <2>1
  <2> QED
    BY <1>2, <1>4, <2>1, <2>2, <2>3
<1>6. CASE I = {}
  BY <1>1, <1>2, <1>4, <1>6
<1> QED
  BY <1>5, <1>6

\* It is known by where it is.
LEMMA FirstOfAt ==
  ASSUME NEW e \in Seq(Layers), NEW kinds, NEW i \in 1..Len(e),
         e[i].kind \in kinds, \A j \in 1..(i - 1) : e[j].kind \notin kinds
  PROVE  FirstOf(kinds, e) = i
<1> DEFINE f == FirstOf(kinds, e)
<1>1. f \in 0..Len(e) /\ i \in Nat /\ Len(e) \in Nat
  BY FirstOfIs, LenProperties
<1>2. f # 0
  BY FirstOfIs
<1>3. ~(i < f) /\ ~(f < i)
  BY <1>1, <1>2, FirstOfIs
<1> QED
  BY <1>1, <1>3

\* No layer of these kinds, no position.
LEMMA FirstOfNone ==
  ASSUME NEW e \in Seq(Layers), NEW kinds, \A j \in 1..Len(e) : e[j].kind \notin kinds
  PROVE  FirstOf(kinds, e) = 0
  BY FirstOfIs, LenProperties

\* One layer of another kind around an error moves what it has by one.
LEMMA FirstOfAround ==
  ASSUME NEW e \in Seq(Layers), NEW kinds, NEW layer \in Layers,
         layer.kind \notin kinds
  PROVE  FirstOf(kinds, <<layer>> \o e)
           = IF FirstOf(kinds, e) = 0 THEN 0 ELSE FirstOf(kinds, e) + 1
<1> DEFINE w == <<layer>> \o e
<1>1. /\ w \in Seq(Layers) /\ Len(w) = Len(e) + 1 /\ Len(e) \in Nat
      /\ w[1] = layer /\ \A i \in 1..Len(e) : w[i + 1] = e[i]
  <2>1. <<layer>> \in Seq(Layers) /\ Len(<<layer>>) = 1 /\ <<layer>>[1] = layer
    OBVIOUS
  <2>2. Len(e) \in Nat
    BY LenProperties
  <2> QED
    BY <2>1, <2>2, ConcatProperties
<1> HIDE DEF w
<1>2. CASE FirstOf(kinds, e) = 0
  <2>1. \A j \in 1..Len(w) : w[j].kind \notin kinds
    <3> TAKE j \in 1..Len(w)
    <3>1. j = 1 \/ (j - 1 \in 1..Len(e) /\ w[j] = e[j - 1])
      BY <1>1
    <3> QED
      BY <1>1, <1>2, <3>1, FirstOfIs
  <2> QED
    BY <1>1, <1>2, <2>1, FirstOfNone DEF w
<1>3. CASE FirstOf(kinds, e) # 0
  <2> DEFINE f == FirstOf(kinds, e)
  <2>1. f \in 1..Len(e) /\ e[f].kind \in kinds
    BY <1>3, FirstOfIs
  <2>2. \A j \in 1..(f - 1) : e[j].kind \notin kinds
    BY <1>3, FirstOfIs
  <2> HIDE DEF f
  <2>3. w[f + 1].kind \in kinds /\ f + 1 \in 1..Len(w)
    BY <1>1, <2>1
  <2>4. \A j \in 1..((f + 1) - 1) : w[j].kind \notin kinds
    <3> TAKE j \in 1..((f + 1) - 1)
    <3>1. j = 1 \/ (j - 1 \in 1..(f - 1) /\ j - 1 \in 1..Len(e))
      BY <1>1, <2>1
    <3>2. j # 1 => w[(j - 1) + 1] = e[j - 1] /\ (j - 1) + 1 = j
      BY <1>1, <3>1
    <3> QED
      BY <1>1, <2>2, <3>1, <3>2
  <2>5. FirstOf(kinds, w) = f + 1
    BY <1>1, <2>3, <2>4, FirstOfAt
  <2> QED
    BY <1>3, <2>5 DEF f, w
<1> QED
  BY <1>2, <1>3

-----------------------------------------------------------------------------
(* Conversions.                                                            *)

\* What NewErr gives process p: one frame, of p, with the settings of p.
Own(p, proto) ==
  /\ proto \in Protos
  /\ Len(proto.trace) = 1
  /\ proto.trace[1].app = p
  /\ proto.trace[1].stack = Gen(p).stack
  /\ proto.trace[1].context = FALSE
  /\ proto.source => Gen(p).source

\* The trace of a message.
LEMMA TraceType ==
  ASSUME NEW proto \in Protos
  PROVE  /\ proto.sentinel \in Sentinels /\ proto.source \in BOOLEAN
         /\ proto.trace \in Seq(Frames)
         /\ Len(proto.trace) \in Nat \ {0}
         /\ \A i \in 1..Len(proto.trace) : proto.trace[i] \in Frames
<1>1. proto.trace \in Seq(Frames) /\ proto.trace # <<>>
  BY DEF Protos
<1> QED
  BY <1>1, EmptySeq, ElementOfSeq DEF Protos

\* A message with another last frame.
LEMMA LastFrame ==
  ASSUME NEW trace \in Seq(Frames), Len(trace) \in Nat \ {0}, NEW frame \in Frames
  PROVE  LET t == [trace EXCEPT ![Len(trace)] = frame]
         IN  /\ t \in Seq(Frames) \ {<<>>} /\ Len(t) = Len(trace)
             /\ \A i \in 1..(Len(trace) - 1) : t[i] = trace[i]
             /\ t[Len(trace)] = frame
<1> DEFINE t == [trace EXCEPT ![Len(trace)] = frame]
<1>1. Len(trace) \in 1..Len(trace)
  OBVIOUS
<1>2. /\ t \in Seq(Frames) /\ Len(t) = Len(trace)
      /\ \A j \in 1..Len(trace) : t[j] = IF j = Len(trace) THEN frame ELSE trace[j]
  BY <1>1, ExceptSeq
<1> HIDE DEF t
<1>3. t # <<>>
  BY <1>2
<1>4. t \in Seq(Frames) \ {<<>>} /\ Len(t) = Len(trace) /\ t[Len(trace)] = frame
  BY <1>1, <1>2, <1>3
<1>5. \A i \in 1..(Len(trace) - 1) : t[i] = trace[i]
  BY <1>2
<1> QED
  BY <1>4, <1>5 DEF t

\* applySettings changes the last frame and the source, and only takes away.
LEMMA ApplySettingsIs ==
  ASSUME NEW p \in Procs, Gen(p) \in Settings, NEW proto \in Protos
  PROVE  LET q == ApplySettings(p, proto)
             n == Len(proto.trace)
         IN  /\ q \in Protos
             /\ q.sentinel = proto.sentinel
             /\ q.source => proto.source /\ Gen(p).source
             /\ Len(q.trace) = n
             /\ \A i \in 1..(n - 1) : q.trace[i] = proto.trace[i]
             /\ q.trace[n].app = p
             /\ q.trace[n].stack = (proto.trace[n].stack /\ Gen(p).stack)
             /\ q.trace[n].context => proto.trace[n].context
<1> DEFINE q == ApplySettings(p, proto)
           n == Len(proto.trace)
           last == proto.trace[n]
           frame == [app |-> p, stack |-> last.stack /\ Gen(p).stack,
                     context |-> last.context /\ Gen(p).context]
           t == [proto.trace EXCEPT ![n] = frame]
<1>1. n \in Nat \ {0} /\ proto.trace \in Seq(Frames) /\ last \in Frames
  BY TraceType
<1>2. frame \in Frames
  BY DEF Frames
<1>3. /\ t \in Seq(Frames) \ {<<>>} /\ Len(t) = n
      /\ \A i \in 1..(n - 1) : t[i] = proto.trace[i]
      /\ t[n] = frame
  BY <1>1, <1>2, LastFrame
<1>4. q.sentinel = proto.sentinel /\ q.source = (proto.source /\ Gen(p).source)
  BY DEF ApplySettings, Protos
<1>5. q.trace = t
  BY DEF ApplySettings, Protos
<1>6. q \in Protos
  <2>1. q = [proto EXCEPT !.source = @ /\ Gen(p).source, !.trace = t]
    BY DEF ApplySettings
  <2>2. (proto.source /\ Gen(p).source) \in BOOLEAN
    OBVIOUS
  <2> HIDE DEF t, q
  <2> QED
    BY <1>3, <2>1, <2>2 DEF Protos
<1> HIDE DEF q, t
<1>7. q.source => proto.source /\ Gen(p).source
  BY <1>4
<1>8. frame.app = p /\ frame.stack = (last.stack /\ Gen(p).stack)
  OBVIOUS
<1>9. frame.context => last.context
  OBVIOUS
<1> HIDE DEF frame
<1> QED
  BY <1>3, <1>4, <1>5, <1>6, <1>7, <1>8, <1>9 DEF q

\* The first layer of an error with one more layer around it.
LEMMA FirstLayer ==
  ASSUME NEW layer \in Layers, NEW e \in Seq(Layers)
  PROVE  /\ <<layer>> \o e \in Seq(Layers) /\ (<<layer>> \o e)[1] = layer
         /\ Len(<<layer>> \o e) = Len(e) + 1 /\ <<layer>> \o e # <<>>
<1>1. <<layer>> \in Seq(Layers) /\ Len(<<layer>>) = 1 /\ <<layer>>[1] = layer
  OBVIOUS
<1>2. Len(e) \in Nat
  BY LenProperties
<1>3. /\ <<layer>> \o e \in Seq(Layers) /\ (<<layer>> \o e)[1] = layer
      /\ Len(<<layer>> \o e) = Len(e) + 1
  BY <1>1, <1>2, ConcatProperties
<1> QED
  BY <1>2, <1>3, EmptySeq

\* A layer for a message.
LEMMA ApiLayer ==
  ASSUME NEW proto \in Protos
  PROVE  Api(proto) \in Layers /\ Api(proto).kind = "api" /\ Api(proto).proto = proto
  BY DEF Api, Layers

\* NewErr: an error of process p.
LEMMA NewErrIs ==
  ASSUME NEW p \in Procs, Gen(p) \in Settings, NEW s \in Sentinels,
         NEW source \in Seq(Layers)
  PROVE  /\ NewErr(p, s, source) \in Seq(Layers) /\ NewErr(p, s, source) # <<>>
         /\ NewErr(p, s, source)[1].kind = "api"
         /\ Own(p, NewErr(p, s, source)[1].proto)
         /\ NewErr(p, s, source)[1].proto.sentinel = s
         /\ NewErr(p, s, source) = <<NewErr(p, s, source)[1]>> \o source
<1> DEFINE basic == [sentinel |-> s, source |-> source # <<>>,
                     trace |-> <<[app |-> p, stack |-> TRUE, context |-> FALSE]>>]
           q == ApplySettings(p, basic)
           e == NewErr(p, s, source)
<1>1. [app |-> p, stack |-> TRUE, context |-> FALSE] \in Frames
  BY DEF Frames
<1>2. basic \in Protos
  BY <1>1 DEF Protos
<1>3. /\ basic.sentinel = s /\ Len(basic.trace) = 1
      /\ basic.trace[1].stack = TRUE /\ basic.trace[1].context = FALSE
  OBVIOUS
<1> HIDE DEF basic
<1>4. /\ q \in Protos /\ q.sentinel = s /\ Len(q.trace) = 1 /\ q.trace[1].app = p
      /\ q.source => Gen(p).source
      /\ q.trace[1].stack = (TRUE /\ Gen(p).stack)
      /\ q.trace[1].context => FALSE
  BY <1>2, <1>3, ApplySettingsIs
<1>5. q.trace[1].context \in BOOLEAN /\ Gen(p).stack \in BOOLEAN
  BY <1>4, TraceType DEF Frames, Settings
<1>6. Own(p, q)
  BY <1>4, <1>5 DEF Own
<1>7. e = <<Api(q)>> \o source
  BY DEF NewErr, basic
<1> HIDE DEF e, q
<1>8. e \in Seq(Layers) /\ e # <<>> /\ e[1] = Api(q)
  BY <1>4, <1>7, ApiLayer, FirstLayer
<1>9. e[1].kind = "api" /\ e[1].proto = q
  BY <1>4, <1>8, ApiLayer
<1> QED
  BY <1>4, <1>6, <1>7, <1>8, <1>9 DEF e

\* What an error is sent as depends on its first sentinel, or on its first API
\* error.
LEMMA ConvertIs ==
  ASSUME NEW p \in Procs, Gen(p) \in Settings, NEW e \in Seq(Layers)
  PROVE  LET s == FirstOf({"sentinel"}, e)
             a == FirstOf({"api"}, e)
             q == ConvProto(p, e)
         IN  /\ q \in Protos
             /\ s # 0 => Own(p, q) /\ q.sentinel = e[s].sentinel
             /\ s = 0 /\ a = 0 => Own(p, q) /\ q.sentinel = ErrUnknown
             /\ s = 0 /\ a # 0 => e[a].proto \in Protos
                                    /\ q = ApplySettings(p, e[a].proto)
<1> DEFINE s == FirstOf({"sentinel"}, e)
           a == FirstOf({"api"}, e)
           q == ConvProto(p, e)
<1>1. s \in 0..Len(e) /\ a \in 0..Len(e) /\ Len(e) \in Nat
  BY FirstOfIs, LenProperties
<1>2. s # 0 => e[s].sentinel \in Sentinels
  BY <1>1, FirstOfIs, LayerFields, ElementOfSeq
<1>3. a # 0 => e[a].proto \in Protos
  BY <1>1, FirstOfIs, LayerFields, ElementOfSeq
<1> HIDE DEF s, a
<1>4. CASE s # 0
  <2>1. q = NewErr(p, e[s].sentinel, e)[1].proto
    BY <1>4 DEF ConvProto, Convert, s, a
  <2> DEFINE r == NewErr(p, e[s].sentinel, e)[1].proto
  <2>a. Own(p, r) /\ r.sentinel = e[s].sentinel
    BY <1>2, <1>4, NewErrIs
  <2> HIDE DEF q, r
  <2>2. Own(p, q) /\ q.sentinel = e[s].sentinel
    BY <2>1, <2>a DEF r
  <2> QED
    BY <1>4, <2>2 DEF Own, s, a, q
<1>5. CASE s = 0 /\ a = 0
  <2>1. q = NewErr(p, ErrUnknown, e)[1].proto
    BY <1>5 DEF ConvProto, Convert, s, a
  <2>2. ErrUnknown \in Sentinels
    BY DEF Sentinels
  <2> DEFINE r == NewErr(p, ErrUnknown, e)[1].proto
  <2>a. Own(p, r) /\ r.sentinel = ErrUnknown
    BY <2>2, NewErrIs
  <2> HIDE DEF q, r
  <2>3. Own(p, q) /\ q.sentinel = ErrUnknown
    BY <2>1, <2>a DEF r
  <2> QED
    BY <1>5, <2>3 DEF Own, s, a, q
<1>6. CASE s = 0 /\ a # 0
  <2>1. q = (<<Api(ApplySettings(p, e[a].proto))>> \o SubSeq(e, a + 1, Len(e)))[1].proto
    BY <1>6 DEF ConvProto, Convert, s, a
  <2>2. SubSeq(e, a + 1, Len(e)) \in Seq(Layers)
    BY <1>1, <1>6, SubSeqProperties, ElementOfSeq
  <2>3. ApplySettings(p, e[a].proto) \in Protos
    BY <1>3, <1>6, ApplySettingsIs
  <2>4. q = ApplySettings(p, e[a].proto)
    BY <2>1, <2>2, <2>3, ApiLayer, FirstLayer
  <2> QED
    BY <1>3, <1>6, <2>3, <2>4 DEF s, a
<1> QED
  BY <1>4, <1>5, <1>6

\* Text, or a panic, around an error changes neither the message it is sent as...
LEMMA ConvertAround ==
  ASSUME NEW p \in Procs, Gen(p) \in Settings, NEW e \in Seq(Layers), e # <<>>,
         NEW layer \in {Wrap, Panic}
  PROVE  ConvProto(p, <<layer>> \o e) = ConvProto(p, e)
<1> DEFINE w == <<layer>> \o e
           s == FirstOf({"sentinel"}, e)
           a == FirstOf({"api"}, e)
<1>1. layer \in Layers /\ layer.kind \notin {"sentinel"} /\ layer.kind \notin {"api"}
  BY DEF Layers, Wrap, Panic
<1>2. FirstOf({"sentinel"}, w) = IF s = 0 THEN 0 ELSE s + 1
  BY <1>1, FirstOfAround
<1>3. FirstOf({"api"}, w) = IF a = 0 THEN 0 ELSE a + 1
  BY <1>1, FirstOfAround
<1>4. /\ w \in Seq(Layers) /\ Len(w) = Len(e) + 1 /\ Len(e) \in Nat /\ w # <<>>
      /\ \A i \in 1..Len(e) : w[i + 1] = e[i]
  <2>1. <<layer>> \in Seq(Layers) /\ Len(<<layer>>) = 1
    BY <1>1
  <2>2. Len(e) \in Nat
    BY LenProperties
  <2>3. \A i \in 1..Len(e) : w[i + 1] = e[i]
    BY <2>1, <2>2, ConcatProperties
  <2> QED
    BY <1>1, <2>2, <2>3, FirstLayer
<1>5. s \in 0..Len(e) /\ a \in 0..Len(e)
  BY FirstOfIs
<1> HIDE DEF w, s, a
<1>6. \A t : NewErr(p, t, w)[1].proto = NewErr(p, t, e)[1].proto
  <2> TAKE t
  <2> DEFINE basic == [sentinel |-> t, source |-> TRUE,
                       trace |-> <<[app |-> p, stack |-> TRUE, context |-> FALSE]>>]
             q == Api(ApplySettings(p, basic))
  <2>1. NewErr(p, t, w) = <<q>> \o w /\ NewErr(p, t, e) = <<q>> \o e
    BY <1>4 DEF NewErr
  <2> HIDE DEF q
  <2>2. (<<q>> \o w)[1] = q /\ (<<q>> \o e)[1] = q
    BY <1>4
  <2> QED
    BY <2>1, <2>2
<1>7. CASE s # 0
  <2>1. w[s + 1] = e[s]
    BY <1>4, <1>5, <1>7
  <2>2. s + 1 # 0
    BY <1>4, <1>5, <1>7
  <2> QED
    BY <1>2, <1>6, <1>7, <2>1, <2>2 DEF ConvProto, Convert, s, w
<1>8. CASE s = 0 /\ a = 0
  BY <1>2, <1>3, <1>6, <1>8 DEF ConvProto, Convert, s, a, w
<1>9. CASE s = 0 /\ a # 0
  <2>1. w[a + 1] = e[a] /\ a + 1 # 0 /\ a + 1 \in 1..Len(w)
    BY <1>4, <1>5, <1>9
  <2>2. ConvProto(p, e) = ApplySettings(p, e[a].proto)
    BY <1>9, ConvertIs DEF s, a
  <2>3. ConvProto(p, w) = ApplySettings(p, w[a + 1].proto)
    BY <1>2, <1>3, <1>4, <1>9, <2>1, ConvertIs DEF s, a
  <2> QED
    BY <2>1, <2>2, <2>3 DEF w
<1> QED
  BY <1>7, <1>8, <1>9 DEF w

\* How a handler leaves with the error e.
Left(e, panics, isWrapped) ==
  LET w == IF isWrapped THEN <<Wrap>> \o e ELSE e
  IN  IF panics THEN <<Panic>> \o w ELSE w

Known(e) == FirstOf({"sentinel"}, e) # 0 \/ FirstOf({"api"}, e) # 0

\* ... nor whether it is known, but is context of a known one.
LEMMA AroundKnown ==
  ASSUME NEW e \in Seq(Layers), NEW layer \in {Wrap, Panic}
  PROVE  /\ Known(<<layer>> \o e) <=> Known(e)
         /\ HasContext(<<layer>> \o e) <=> Known(e)
<1> DEFINE s == FirstOf({"sentinel"}, e)
           a == FirstOf({"api"}, e)
<1>1. layer \in Layers /\ layer.kind \notin {"sentinel"} /\ layer.kind \notin {"api"}
  BY DEF Layers, Wrap, Panic
<1>2. FirstOf({"sentinel"}, <<layer>> \o e) = IF s = 0 THEN 0 ELSE s + 1
  BY <1>1, FirstOfAround
<1>3. FirstOf({"api"}, <<layer>> \o e) = IF a = 0 THEN 0 ELSE a + 1
  BY <1>1, FirstOfAround
<1>4. s \in Nat /\ a \in Nat
  BY FirstOfIs, LenProperties
<1> HIDE DEF s, a
<1> QED
  BY <1>2, <1>3, <1>4 DEF Known, HasContext, s, a

LEMMA LeftIs ==
  ASSUME NEW e \in Seq(Layers), e # <<>>, NEW panics \in BOOLEAN,
         NEW isWrapped \in BOOLEAN
  PROVE  LET l == Left(e, panics, isWrapped)
         IN  /\ l \in Seq(Layers) /\ l # <<>>
             /\ HasContext(l) <=>
                  IF panics \/ isWrapped THEN Known(e) ELSE HasContext(e)
             /\ \A p \in Procs :
                  Gen(p) \in Settings => ConvProto(p, l) = ConvProto(p, e)
<1> DEFINE w == IF isWrapped THEN <<Wrap>> \o e ELSE e
           l == Left(e, panics, isWrapped)
<1>1. Wrap \in Layers /\ Panic \in Layers
  BY DEF Layers
<1>2. w \in Seq(Layers) /\ w # <<>>
  BY <1>1, FirstLayer
<1>3. /\ Known(w) <=> Known(e)
      /\ HasContext(w) <=> IF isWrapped THEN Known(e) ELSE HasContext(e)
  BY AroundKnown
<1>4. \A p \in Procs : Gen(p) \in Settings => ConvProto(p, w) = ConvProto(p, e)
  BY ConvertAround
<1>5. l = IF panics THEN <<Panic>> \o w ELSE w
  BY DEF Left
<1> HIDE DEF l, w
<1>6. l \in Seq(Layers) /\ l # <<>>
  BY <1>1, <1>2, <1>5, FirstLayer
<1>7. HasContext(l) <=> IF panics \/ isWrapped THEN Known(e) ELSE HasContext(e)
  BY <1>2, <1>3, <1>5, AroundKnown
<1>8. \A p \in Procs : Gen(p) \in Settings => ConvProto(p, l) = ConvProto(p, e)
  BY <1>2, <1>4, <1>5, ConvertAround
<1> QED
  BY <1>6, <1>7, <1>8 DEF l

\* errToStatus: the message, with the context in its last frame.
LEMMA ErrToStatusIs ==
  ASSUME NEW p \in Procs, Gen(p) \in Settings, NEW e \in Seq(Layers)
  PROVE  LET status == ErrToStatus(p, e)
             q == ConvProto(p, e)
             n == Len(q.trace)
             r == status[1].proto
         IN  /\ status \in Seq(Layers) /\ Len(status) = 1 /\ status # <<>>
             /\ status[1].kind = "status"
             /\ r \in Protos /\ r.sentinel = q.sentinel /\ r.source = q.source
             /\ Len(r.trace) = n
             /\ \A i \in 1..n : /\ r.trace[i].app = q.trace[i].app
                                /\ r.trace[i].stack = q.trace[i].stack
             /\ \A i \in 1..(n - 1) : r.trace[i].context = q.trace[i].context
             /\ r.trace[n].context <=> HasContext(e) \/ q.trace[n].context
<1> DEFINE status == ErrToStatus(p, e)
           q == ConvProto(p, e)
           n == Len(q.trace)
           frame == [q.trace[n] EXCEPT !.context = TRUE]
           t == [q.trace EXCEPT ![n] = frame]
           r == IF HasContext(e) THEN [q EXCEPT !.trace[n].context = TRUE] ELSE q
<1>1. q \in Protos
  BY ConvertIs
<1>2. n \in Nat \ {0} /\ q.trace \in Seq(Frames) /\ q.trace[n] \in Frames
  BY <1>1, TraceType
<1>3. status = <<Status(r)>>
  BY DEF ErrToStatus, ConvProto
<1>4. /\ frame \in Frames /\ frame.app = q.trace[n].app
      /\ frame.stack = q.trace[n].stack /\ frame.context = TRUE
  BY <1>2 DEF Frames
<1>5. /\ t \in Seq(Frames) \ {<<>>} /\ Len(t) = n
      /\ \A i \in 1..(n - 1) : t[i] = q.trace[i]
      /\ t[n] = frame
  BY <1>2, <1>4, LastFrame
<1>6. LET x == [q EXCEPT !.trace[n].context = TRUE]
      IN  x \in Protos /\ x.sentinel = q.sentinel /\ x.source = q.source /\ x.trace = t
  <2> DEFINE x == [q EXCEPT !.trace[n].context = TRUE]
  <2> HIDE DEF q
  <2>1. x.sentinel = q.sentinel /\ x.source = q.source
    BY <1>1 DEF Protos
  <2>2. x.trace = t
    BY <1>1 DEF Protos
  <2>3. x = [q EXCEPT !.trace = t]
    OBVIOUS
  <2> HIDE DEF t, x
  <2>4. x \in Protos
    BY <1>1, <1>5, <2>3 DEF Protos
  <2> QED
    BY <2>1, <2>2, <2>4 DEF x
<1> HIDE DEF t, frame, q, status
<1>7. /\ r \in Protos /\ r.sentinel = q.sentinel /\ r.source = q.source
      /\ r.trace = IF HasContext(e) THEN t ELSE q.trace
  BY <1>1, <1>5, <1>6, TraceType DEF Protos
<1> HIDE DEF r
<1>8. Status(r) \in Layers /\ Status(r).kind = "status" /\ Status(r).proto = r
  BY <1>7 DEF Status, Layers
<1>9. /\ status \in Seq(Layers) /\ Len(status) = 1 /\ status # <<>>
      /\ status[1].kind = "status" /\ status[1].proto = r
  BY <1>3, <1>8
<1>10. /\ Len(r.trace) = n
       /\ \A i \in 1..n : /\ r.trace[i].app = q.trace[i].app
                          /\ r.trace[i].stack = q.trace[i].stack
       /\ \A i \in 1..(n - 1) : r.trace[i].context = q.trace[i].context
  <2>1. \A i \in 1..n : i = n \/ i \in 1..(n - 1)
    BY <1>2
  <2> QED
    BY <1>4, <1>5, <1>7, <2>1
<1>11. r.trace[n].context <=> HasContext(e) \/ q.trace[n].context
  BY <1>4, <1>5, <1>7
<1> QED
  BY <1>7, <1>9, <1>10, <1>11 DEF q, status

\* A client middleware keeps the types of the error.
LEMMA FromStatusType ==
  ASSUME NEW p \in Procs, Gen(p) \in Settings, NEW e \in Seq(Layers)
  PROVE  FromStatus(p, e) \in Seq(Layers) /\ (FromStatus(p, e) = <<>> <=> e = <<>>)
<1>1. CASE e = <<>> \/ e[1].kind # "status" \/ e[1].proto = NoProto
  BY <1>1 DEF FromStatus
<1>2. CASE ~(e = <<>> \/ e[1].kind # "status" \/ e[1].proto = NoProto)
  <2> DEFINE frame == [app |-> p, stack |-> Gen(p).stack, context |-> FALSE]
             r == [e[1].proto EXCEPT !.trace = Append(@, frame)]
  <2>1. 1 \in 1..Len(e)
    BY <1>2, EmptySeq
  <2>2. e[1].proto \in Protos
    BY <1>2, <2>1, ElementOfSeq, LayerFields
  <2>3. frame \in Frames
    BY DEF Frames, Settings
  <2>4. r \in Protos
    <3> HIDE DEF frame
    <3>1. e[1].proto.trace \in Seq(Frames)
      BY <2>2, TraceType
    <3>2. Append(e[1].proto.trace, frame) \in Seq(Frames) \ {<<>>}
      BY <2>3, <3>1, AppendProperties, EmptySeq
    <3> QED
      BY <2>2, <3>2 DEF Protos
  <2>5. FromStatus(p, e) = <<Api(r), ClientErr>> \o e
    BY <1>2 DEF FromStatus
  <2> HIDE DEF r
  <2>6. Api(r) \in Layers /\ ClientErr \in Layers
    BY <2>4, ApiLayer DEF Layers
  <2>7. <<Api(r), ClientErr>> \in Seq(Layers) /\ Len(<<Api(r), ClientErr>>) = 2
    BY <2>6
  <2> QED
    BY <1>2, <2>5, <2>7, ConcatProperties, EmptySeq
<1> QED
  BY <1>1, <1>2

\* extractClientErrorFromInvoker: the message that was sent, with one frame more.
LEMMA FromStatusIs ==
  ASSUME NEW p \in Procs, Gen(p) \in Settings, NEW e \in Seq(Layers),
         Len(e) = 1, e[1].kind = "status", e[1].proto \in Protos
  PROVE  LET f == FromStatus(p, e)
             q == e[1].proto
             n == Len(q.trace)
             r == f[1].proto
         IN  /\ f # <<>> /\ f[1].kind = "api"
             /\ FirstOf({"sentinel"}, f) = 0 /\ FirstOf({"api"}, f) = 1
             /\ r \in Protos /\ r.sentinel = q.sentinel /\ r.source = q.source
             /\ Len(r.trace) = n + 1
             /\ \A i \in 1..n : r.trace[i] = q.trace[i]
             /\ r.trace[n + 1].app = p
             /\ r.trace[n + 1].stack = Gen(p).stack
             /\ r.trace[n + 1].context = FALSE
<1> DEFINE f == FromStatus(p, e)
           q == e[1].proto
           n == Len(q.trace)
           frame == [app |-> p, stack |-> Gen(p).stack, context |-> FALSE]
           r == [q EXCEPT !.trace = Append(@, frame)]
           two == <<Api(r), ClientErr>>
<1>1. e # <<>> /\ q # NoProto
  <2> HIDE DEF f, q, r, frame, two
  <2>1. e # <<>>
    <3>1. Len(<<>>) = 0 /\ 0 # 1
      OBVIOUS
    <3> QED
      BY <3>1, Zenon
  <2>2. q # NoProto
    BY NoProtoAssumption DEF q
  <2> QED
    BY <2>1, <2>2
<1>2. f = two \o e
  BY <1>1 DEF FromStatus
<1>3. frame \in Frames
  BY DEF Frames, Settings
<1>4. n \in Nat /\ q.trace \in Seq(Frames)
  BY TraceType
<1>5. /\ Append(q.trace, frame) \in Seq(Frames) /\ Append(q.trace, frame) # <<>>
      /\ Len(Append(q.trace, frame)) = n + 1
      /\ \A i \in 1..n : Append(q.trace, frame)[i] = q.trace[i]
      /\ Append(q.trace, frame)[n + 1] = frame
  <2> HIDE DEF q, frame
  <2> QED
    BY <1>3, <1>4, AppendProperties, EmptySeq
<1>6. /\ r \in Protos /\ r.sentinel = q.sentinel /\ r.source = q.source
      /\ r.trace = Append(q.trace, frame)
  BY <1>5 DEF Protos
<1> HIDE DEF r, f
<1>7. /\ Api(r) \in Layers /\ ClientErr \in Layers
      /\ Api(r).kind = "api" /\ Api(r).proto = r /\ ClientErr.kind = "client"
  BY <1>6, ApiLayer DEF Layers, ClientErr
<1>8. two \in Seq(Layers) /\ Len(two) = 2 /\ two[1] = Api(r) /\ two[2] = ClientErr
  BY <1>7
<1> HIDE DEF two
<1>9. /\ f \in Seq(Layers) /\ Len(f) = 3
      /\ f[1] = Api(r) /\ f[2] = ClientErr /\ f[3] = e[1]
  <2> HIDE DEF q
  <2>1. /\ f \in Seq(Layers) /\ Len(f) = Len(two) + Len(e)
        /\ \A i \in 1..(Len(two) + Len(e)) :
             f[i] = IF i <= Len(two) THEN two[i] ELSE e[i - Len(two)]
    BY <1>2, <1>8, ConcatProperties
  <2>2. f[1] = two[1] /\ f[2] = two[2] /\ f[3] = e[1]
    BY <1>8, <2>1
  <2> QED
    BY <1>8, <2>1, <2>2
<1>10. f # <<>> /\ f[1].kind = "api" /\ f[1].proto = r
  BY <1>7, <1>9
<1>11. FirstOf({"sentinel"}, f) = 0
  <2>1. \A j \in 1..Len(f) : f[j].kind \notin {"sentinel"}
    BY <1>7, <1>9
  <2> QED
    BY <1>9, <2>1, FirstOfNone
<1>12. FirstOf({"api"}, f) = 1
  <2>1. 1 \in 1..Len(f) /\ \A j \in 1..(1 - 1) : FALSE
    BY <1>9
  <2> QED
    BY <1>9, <1>10, <2>1, FirstOfAt
<1>13. frame.app = p /\ frame.stack = Gen(p).stack /\ frame.context = FALSE
  OBVIOUS
<1> HIDE DEF frame
<1> QED
  BY <1>5, <1>6, <1>10, <1>11, <1>12, <1>13 DEF f

-----------------------------------------------------------------------------
(* The invariant.                                                          *)

\* Where the middleware of the generator stands, in a process that has one.
ErrorsAt(p) == IF rpc[p] = "unary" /\ config[p].notFound THEN 2 ELSE 1

\* The result has passed it.
Converted == phase = "layers" /\ passed >= ErrorsAt(proc)

\* Where the result is, and whose.
PlaceInv ==
  /\ phase \in {"layers", "crashed"} => proc \in Servers
  /\ phase \in {"handler", "wire"} => passed = 0
  /\ maker \in 1..proc
  /\ phase \in {"wire", "done"} => maker < proc
  /\ phase = "done" => proc = N
  /\ phase = "handler" /\ err # <<>> => maker < proc
  /\ wrapped \subseteq maker..proc
  /\ phase \notin {"layers", "crashed"} => proc \notin wrapped
  /\ err = <<>> => wrapped = {}
  /\ meant # Nothing => err # <<>>

\* The result of the process that it is in, and what those before have logged.
LogInv ==
  /\ Converted /\ Gen(proc) # NoGen =>
       /\ ~panicking
       /\ err = <<>> \/ err[1].kind = "status"
       /\ passed = ErrorsAt(proc) + 1 => seen[proc] = err
  /\ phase = "crashed" => Gen(proc) = NoGen
  /\ \A p \in Servers : p >= proc => sent[p] = <<Nothing>>
  /\ \A p \in Servers : p < proc /\ Gen(p) # NoGen => seen[p] = sent[p]

\* The frames of a message are those of the processes from the maker to p; they
\* have their stack, and context only where it was added.
Tracked(proto, p) ==
  /\ proto \in Protos
  /\ Len(proto.trace) = p - maker + 1
  /\ \A i \in 1..Len(proto.trace) :
       /\ proto.trace[i].app = maker + i - 1
       /\ proto.trace[i].stack = Gen(maker + i - 1).stack
  /\ ~masked => proto.sentinel = meant

\* Up to process p, the message has the source only if all send it, and the text
\* that was put around the error, whatever the settings.
Explained(proto, p) ==
  /\ proto.source => \A m \in maker..p : m < N => Gen(m).source
  /\ ~masked => \A i \in 1..Len(proto.trace) :
       /\ proto.trace[i].context => maker + i - 1 \in wrapped
       /\ maker + i - 1 <= p /\ maker + i - 1 \in wrapped => proto.trace[i].context

\* Process p has sent the error, or will.
Reported(p) ==
  /\ Len(err) = 1 /\ err[1].kind = "status"
  /\ Tracked(err[1].proto, p) /\ Explained(err[1].proto, p)

\* Its handler, or the client, has received it.
Obtained ==
  /\ err[1].kind = "api"
  /\ FirstOf({"sentinel"}, err) = 0 /\ FirstOf({"api"}, err) = 1
  /\ Tracked(err[1].proto, proc) /\ Explained(err[1].proto, proc - 1)

\* It is on its way to the middleware of the generator.
Leaving ==
  /\ Tracked(ConvProto(proc, err), proc) /\ Explained(ConvProto(proc, err), proc - 1)
  /\ ~masked => (HasContext(err) <=> proc \in wrapped)

\* The error that is on its way is that of its maker.
ChainInv ==
  Complete /\ err # <<>> =>
    /\ phase \in {"handler", "done"} => Obtained
    /\ phase = "layers" /\ ~Converted => Leaving
    /\ Converted => Reported(proc)
    /\ phase = "wire" => Reported(proc - 1)

IInv == TypeOK /\ PlaceInv /\ LogInv /\ ChainInv

-----------------------------------------------------------------------------
(* What handlers and middlewares do.                                       *)

\* A process that has a generator has its settings, and one whose clients have
\* the middleware has a generator.
LEMMA GenType ==
  ASSUME TypeOK, NEW p \in Procs
  PROVE  /\ Gen(p) # NoGen => Gen(p) \in Settings
         /\ config[p].client => Gen(p) # NoGen
  BY ErrorsAssumption DEF TypeOK, Options, Gen

\* Made by the handler, whose error stands for this sentinel.
MeantBy(e) ==
  LET outer == FirstOf({"sentinel", "api"}, e)
  IN  CASE outer = 0 -> ErrUnknown
        [] outer # 0 /\ e[outer].kind = "sentinel" -> e[outer].sentinel
        [] OTHER -> e[outer].proto.sentinel

Masked(e) == FirstOf({"sentinel"}, e) > FirstOf({"sentinel", "api"}, e)

\* The three kinds of errors that a handler makes.
LEMMA MadeKinds ==
  ASSUME TypeOK, proc \in Procs, NEW e \in Made(proc)
  PROVE  \/ e = <<Plain>>
         \/ \E s \in Sentinels : e = <<Sentinel(s)>>
         \/ /\ Gen(proc) \in Settings
            /\ \E s \in Sentinels, source \in Seq(Layers) : e = NewErr(proc, s, source)
<1> DEFINE sources == {<<>>, <<Plain>>, err} \cup {<<Sentinel(s)>> : s \in Thrown}
<1>1. Plain \in Layers /\ \A s \in Sentinels : Sentinel(s) \in Layers
  BY DEF Layers
<1>2. Thrown \subseteq Sentinels /\ err \in Seq(Layers)
  BY DEF Sentinels, TypeOK
<1>3. sources \subseteq Seq(Layers)
  <2>1. <<>> \in Seq(Layers) /\ <<Plain>> \in Seq(Layers)
    BY <1>1
  <2>2. \A s \in Thrown : <<Sentinel(s)>> \in Seq(Layers)
    BY <1>1, <1>2
  <2> QED
    BY <1>2, <2>1, <2>2
<1> HIDE DEF sources
<1>4. e \in {<<Plain>>} \cup {<<Sentinel(s)>> : s \in Thrown}
            \cup (IF Gen(proc) = NoGen THEN {}
                  ELSE {NewErr(proc, s, source) : s \in Thrown, source \in sources})
  BY DEF Made, sources
<1>5. CASE e \in {<<Plain>>} \cup {<<Sentinel(s)>> : s \in Thrown}
  BY <1>2, <1>5
<1>6. CASE Gen(proc) # NoGen /\ \E s \in Thrown, source \in sources :
             e = NewErr(proc, s, source)
  BY <1>2, <1>3, <1>6, GenType
<1> QED
  BY <1>4, <1>5, <1>6

\* An error of one layer.
LEMMA OneLayer ==
  ASSUME NEW layer \in Layers, NEW kinds
  PROVE  /\ <<layer>> \in Seq(Layers) /\ <<layer>> # <<>>
         /\ FirstOf(kinds, <<layer>>) = IF layer.kind \in kinds THEN 1 ELSE 0
<1> DEFINE e == <<layer>>
<1>1. e \in Seq(Layers) /\ Len(e) = 1 /\ e[1] = layer /\ e # <<>>
  OBVIOUS
<1> HIDE DEF e
<1>2. CASE layer.kind \in kinds
  <2>1. 1 \in 1..Len(e) /\ e[1].kind \in kinds /\ \A j \in 1..(1 - 1) : FALSE
    BY <1>1, <1>2
  <2>2. FirstOf(kinds, e) = 1
    BY <1>1, <2>1, FirstOfAt
  <2> QED
    BY <1>1, <1>2, <2>2 DEF e
<1>3. CASE layer.kind \notin kinds
  <2>1. \A j \in 1..Len(e) : e[j].kind \notin kinds
    BY <1>1, <1>3
  <2>2. FirstOf(kinds, e) = 0
    BY <1>1, <2>1, FirstOfNone
  <2> QED
    BY <1>1, <1>3, <2>2 DEF e
<1> QED
  BY <1>2, <1>3

\* An error with an API error around it.
LEMMA ApiFirst ==
  ASSUME NEW e \in Seq(Layers), e # <<>>, e[1].kind = "api"
  PROVE  /\ FirstOf({"api"}, e) = 1 /\ FirstOf({"sentinel", "api"}, e) = 1
         /\ FirstOf({"sentinel"}, e) # 1
         /\ e[1].proto \in Protos
<1>1. 1 \in 1..Len(e) /\ \A j \in 1..(1 - 1) : FALSE
  BY EmptySeq
<1>2. FirstOf({"api"}, e) = 1 /\ FirstOf({"sentinel", "api"}, e) = 1
  BY <1>1, FirstOfAt
<1>3. FirstOf({"sentinel"}, e) # 1
  BY FirstOfIs
<1>4. e[1].proto \in Protos
  BY <1>1, ElementOfSeq, LayerFields
<1> QED
  BY <1>2, <1>3, <1>4

\* The settings of a process do not change an error of its own.
LEMMA OwnSettings ==
  ASSUME NEW p \in Procs, Gen(p) \in Settings, NEW proto, Own(p, proto)
  PROVE  /\ Own(p, ApplySettings(p, proto))
         /\ ApplySettings(p, proto).sentinel = proto.sentinel
<1> DEFINE q == ApplySettings(p, proto)
<1>1. proto \in Protos /\ Len(proto.trace) = 1
  BY DEF Own
<1>2. /\ q \in Protos /\ q.sentinel = proto.sentinel
      /\ q.source => Gen(p).source
      /\ Len(q.trace) = 1 /\ q.trace[1].app = p
  BY <1>1, ApplySettingsIs
<1>3. q.trace[1].stack = (proto.trace[1].stack /\ Gen(p).stack)
  BY <1>1, ApplySettingsIs
<1>4. q.trace[1].context => proto.trace[1].context
  BY <1>1, ApplySettingsIs
<1>5. /\ proto.trace[1].stack = Gen(p).stack /\ proto.trace[1].context = FALSE
      /\ Gen(p).stack \in BOOLEAN
  BY DEF Own, Settings
<1>6. q.trace[1].context \in BOOLEAN
  BY <1>2, TraceType DEF Frames
<1> HIDE DEF q
<1>7. q.trace[1].stack = Gen(p).stack
  BY <1>3, <1>5
<1>8. q.trace[1].context = FALSE
  BY <1>4, <1>5, <1>6
<1> QED
  BY <1>2, <1>7, <1>8 DEF Own, q

\* What a handler makes is an error.
LEMMA MadeType ==
  ASSUME TypeOK, proc \in Procs, NEW e \in Made(proc)
  PROVE  e \in Seq(Layers) /\ e # <<>> /\ MeantBy(e) \in Sentinels
<1>1. CASE e = <<Plain>>
  <2>1. Plain \in Layers /\ Plain.kind = "plain" /\ ErrUnknown \in Sentinels
    BY DEF Layers, Plain, Sentinels
  <2>2. FirstOf({"sentinel", "api"}, e) = 0
    BY <1>1, <2>1, OneLayer
  <2> QED
    BY <1>1, <2>1, <2>2, OneLayer DEF MeantBy
<1>2. ASSUME NEW s \in Sentinels, e = <<Sentinel(s)>>
      PROVE  e \in Seq(Layers) /\ e # <<>> /\ MeantBy(e) \in Sentinels
  <2>1. /\ Sentinel(s) \in Layers /\ Sentinel(s).kind = "sentinel"
        /\ Sentinel(s).sentinel = s
    BY DEF Layers, Sentinel
  <2>2. FirstOf({"sentinel", "api"}, e) = 1 /\ e[1] = Sentinel(s)
    BY <1>2, <2>1, OneLayer
  <2> QED
    BY <1>2, <2>1, <2>2, OneLayer DEF MeantBy
<1>3. ASSUME NEW s \in Sentinels, NEW source \in Seq(Layers), Gen(proc) \in Settings,
             e = NewErr(proc, s, source)
      PROVE  e \in Seq(Layers) /\ e # <<>> /\ MeantBy(e) \in Sentinels
  <2>1. e \in Seq(Layers) /\ e # <<>> /\ e[1].kind = "api" /\ e[1].proto.sentinel = s
    BY <1>3, NewErrIs
  <2>2. FirstOf({"sentinel", "api"}, e) = 1
    BY <2>1, ApiFirst
  <2> QED
    BY <2>1, <2>2 DEF MeantBy
<1> QED
  BY <1>1, <1>2, <1>3, MadeKinds

\* It is sent with one frame, as what it stands for.
LEMMA MadeOwn ==
  ASSUME TypeOK, proc \in Procs, Gen(proc) # NoGen, NEW e \in Made(proc)
  PROVE  /\ Own(proc, ConvProto(proc, e))
         /\ ~Masked(e) => /\ ConvProto(proc, e).sentinel = MeantBy(e)
                          /\ ~HasContext(e)
         /\ Known(e) <=> FirstOf({"sentinel", "api"}, e) # 0
<1>0. Gen(proc) \in Settings
  BY GenType
<1>1. CASE e = <<Plain>>
  <2>1. Plain \in Layers /\ Plain.kind = "plain"
    BY DEF Layers, Plain
  <2>2. /\ FirstOf({"sentinel", "api"}, e) = 0 /\ FirstOf({"sentinel"}, e) = 0
        /\ FirstOf({"api"}, e) = 0 /\ e \in Seq(Layers)
    BY <1>1, <2>1, OneLayer
  <2>3. Own(proc, ConvProto(proc, e)) /\ ConvProto(proc, e).sentinel = ErrUnknown
    BY <1>0, <2>2, ConvertIs
  <2> QED
    BY <2>2, <2>3 DEF MeantBy, Known, HasContext
<1>2. ASSUME NEW s \in Sentinels, e = <<Sentinel(s)>>
      PROVE  /\ Own(proc, ConvProto(proc, e))
             /\ ConvProto(proc, e).sentinel = MeantBy(e) /\ ~HasContext(e)
             /\ Known(e) /\ FirstOf({"sentinel", "api"}, e) # 0
  <2>1. /\ Sentinel(s) \in Layers /\ Sentinel(s).kind = "sentinel"
        /\ Sentinel(s).sentinel = s
    BY DEF Layers, Sentinel
  <2>2. /\ FirstOf({"sentinel", "api"}, e) = 1 /\ FirstOf({"sentinel"}, e) = 1
        /\ e \in Seq(Layers) /\ e[1] = Sentinel(s)
    BY <1>2, <2>1, OneLayer
  <2>3. Own(proc, ConvProto(proc, e)) /\ ConvProto(proc, e).sentinel = s
    BY <1>0, <2>1, <2>2, ConvertIs
  <2> QED
    BY <2>1, <2>2, <2>3 DEF MeantBy, Known, HasContext
<1>3. ASSUME NEW s \in Sentinels, NEW source \in Seq(Layers),
             e = NewErr(proc, s, source)
      PROVE  /\ Own(proc, ConvProto(proc, e))
             /\ ~Masked(e) => /\ ConvProto(proc, e).sentinel = MeantBy(e)
                              /\ ~HasContext(e)
             /\ Known(e) /\ FirstOf({"sentinel", "api"}, e) # 0
  <2>1. /\ e \in Seq(Layers) /\ e # <<>> /\ e[1].kind = "api"
        /\ Own(proc, e[1].proto) /\ e[1].proto.sentinel = s
    BY <1>0, <1>3, NewErrIs
  <2>2. /\ FirstOf({"sentinel", "api"}, e) = 1 /\ FirstOf({"api"}, e) = 1
        /\ FirstOf({"sentinel"}, e) # 1 /\ FirstOf({"sentinel"}, e) \in Nat
    BY <2>1, ApiFirst, FirstOfIs, LenProperties
  <2>3. MeantBy(e) = s
    BY <2>1, <2>2 DEF MeantBy
  <2>4. CASE FirstOf({"sentinel"}, e) = 0
    <3>1. ConvProto(proc, e) = ApplySettings(proc, e[1].proto)
      BY <1>0, <2>1, <2>2, <2>4, ConvertIs
    <3>2. Own(proc, ConvProto(proc, e)) /\ ConvProto(proc, e).sentinel = s
      BY <1>0, <2>1, <3>1, OwnSettings
    <3> QED
      BY <2>2, <2>3, <2>4, <3>2 DEF Known, HasContext
  <2>5. CASE FirstOf({"sentinel"}, e) # 0
    <3>1. Masked(e)
      BY <2>2, <2>5 DEF Masked
    <3>2. Own(proc, ConvProto(proc, e))
      BY <1>0, <2>1, <2>5, ConvertIs
    <3> QED
      BY <2>2, <3>1, <3>2 DEF Known
  <2> QED
    BY <2>4, <2>5
<1> QED
  BY <1>1, <1>2, <1>3, MadeKinds

\* Lists are put together.
LEMMA Joined ==
  ASSUME NEW x, NEW y, NEW z
  PROVE  /\ <<>> \o <<x>> = <<x>> /\ <<x>> \o <<>> = <<x>> /\ <<>> \o <<>> = <<>>
         /\ <<x>> \o <<y>> = <<x, y>>
         /\ <<x, y>> \o <<z>> = <<x, y, z>>
<1> DEFINE S == {x, y, z}
           a == <<x>>
           b == <<y>>
           c == <<x, y>>
           d == <<z>>
           f == <<x, y, z>>
<1>1. /\ a \in Seq(S) /\ Len(a) = 1 /\ a[1] = x
      /\ b \in Seq(S) /\ Len(b) = 1 /\ b[1] = y
      /\ c \in Seq(S) /\ Len(c) = 2 /\ c[1] = x /\ c[2] = y
      /\ d \in Seq(S) /\ Len(d) = 1 /\ d[1] = z
      /\ f \in Seq(S) /\ Len(f) = 3 /\ f[1] = x /\ f[2] = y /\ f[3] = z
      /\ <<>> \in Seq(S)
  OBVIOUS
<1> HIDE DEF S, a, b, c, d, f
<1>2. /\ a \o b \in Seq(S) /\ Len(a \o b) = 2
      /\ (a \o b)[1] = x /\ (a \o b)[2] = y
  <2>1. /\ a \o b \in Seq(S) /\ Len(a \o b) = Len(a) + Len(b)
        /\ \A i \in 1..(Len(a) + Len(b)) :
             (a \o b)[i] = IF i <= Len(a) THEN a[i] ELSE b[i - Len(a)]
    BY <1>1, ConcatProperties
  <2> QED
    BY <1>1, <2>1
<1>3. a \o b = c
  BY <1>1, <1>2, SeqEqual
<1>4. /\ c \o d \in Seq(S) /\ Len(c \o d) = 3
      /\ (c \o d)[1] = x /\ (c \o d)[2] = y /\ (c \o d)[3] = z
  <2>1. /\ c \o d \in Seq(S) /\ Len(c \o d) = Len(c) + Len(d)
        /\ \A i \in 1..(Len(c) + Len(d)) :
             (c \o d)[i] = IF i <= Len(c) THEN c[i] ELSE d[i - Len(c)]
    BY <1>1, ConcatProperties
  <2> QED
    BY <1>1, <2>1
<1>5. c \o d = f
  BY <1>1, <1>4, SeqEqual
<1>6. <<>> \o a = a /\ a \o <<>> = a /\ <<>> \o <<>> = <<>>
  BY <1>1, ConcatEmptySeq
<1> QED
  BY <1>3, <1>5, <1>6 DEF a, b, c, d, f

\* The middlewares of a process: the log is behind the conversion, and
\* not-found before it.
LEMMA MiddlewareIs ==
  ASSUME TypeOK, NEW p \in Procs
  PROVE  LET m == Middleware(p)
         IN  /\ Len(m) \in 1..3
             /\ \A i \in 1..Len(m) :
                  /\ m[i] = "errors" => Gen(p) # NoGen
                  /\ Gen(p) # NoGen =>
                       /\ m[i] = "errors" <=> i = ErrorsAt(p)
                       /\ m[i] = "notFound" => i < ErrorsAt(p)
                       /\ m[i] = "logging" <=> i = ErrorsAt(p) + 1
             /\ Gen(p) # NoGen => Len(m) = ErrorsAt(p) + 1
<1> USE DEF Middleware, UnaryMiddleware, StreamMiddleware, ErrorsAt, Gen
<1>1. config[p].notFound \in BOOLEAN /\ rpc[p] \in {"unary", "stream"}
  BY ErrorsAssumption DEF TypeOK, Options
<1>2. CASE rpc[p] = "unary" /\ config[p].notFound /\ Gen(p) # NoGen
  <2>1. Middleware(p) = <<"notFound", "errors", "logging">>
    BY <1>2, Joined
  <2> QED
    BY <1>2, <2>1
<1>3. CASE rpc[p] = "unary" /\ config[p].notFound /\ Gen(p) = NoGen
  <2>1. Middleware(p) = <<"notFound", "logging">>
    BY <1>3, Joined
  <2> QED
    BY <1>3, <2>1
<1>4. CASE ~(rpc[p] = "unary" /\ config[p].notFound) /\ Gen(p) # NoGen
  <2>1. Middleware(p) = <<"errors", "logging">>
    BY <1>1, <1>4, Joined
  <2> QED
    BY <1>4, <2>1
<1>5. CASE ~(rpc[p] = "unary" /\ config[p].notFound) /\ Gen(p) = NoGen
  <2>1. Middleware(p) = <<"logging">>
    BY <1>1, <1>5, Joined
  <2> QED
    BY <1>5, <2>1
<1> QED
  BY <1>2, <1>3, <1>4, <1>5

\* The steps of a handler that has an error.
LEMMA HandlerLeaves ==
  ASSUME NEW panics \in BOOLEAN, NEW isWrapped \in BOOLEAN
  PROVE  /\ Relay(panics, isWrapped) => err' = Left(err, panics, isWrapped)
         /\ \A e : Fail(e, panics, isWrapped) =>
              /\ err' = Left(e, panics, isWrapped)
              /\ meant' = MeantBy(e) /\ masked' = Masked(e) /\ maker' = proc
              /\ wrapped' = IF FirstOf({"sentinel", "api"}, e) = 0 THEN {}
                            ELSE AddText({}, panics, isWrapped)
  BY DEF Relay, Fail, Leave, Left, MeantBy, Masked

\* The result is at a middleware of a server.
LEMMA ReachesIs ==
  ASSUME IInv, NEW name, Reaches(name)
  PROVE  /\ phase = "layers" /\ proc \in Servers /\ proc \in Procs
         /\ passed \in Nat /\ passed' = passed + 1 /\ passed' \in 0..3
         /\ name = "errors" => Gen(proc) # NoGen
         /\ Gen(proc) # NoGen =>
              /\ name = "errors" <=> passed' = ErrorsAt(proc)
              /\ name = "notFound" => passed' < ErrorsAt(proc)
              /\ name = "logging" <=> passed' = ErrorsAt(proc) + 1
<1>1. phase = "layers" /\ proc \in Servers /\ proc \in Procs
  BY ErrorsAssumption DEF IInv, PlaceInv, Reaches, Servers, Procs
<1>2. passed \in 0..3 /\ passed < Len(Middleware(proc)) /\ passed' = passed + 1
  BY DEF Reaches, IInv, TypeOK
<1>3. Len(Middleware(proc)) \in 1..3
  BY <1>1, MiddlewareIs DEF IInv
<1>4. passed + 1 \in 1..Len(Middleware(proc)) /\ Middleware(proc)[passed + 1] = name
  BY <1>2, <1>3 DEF Reaches
<1>5. /\ name = "errors" => Gen(proc) # NoGen
      /\ Gen(proc) # NoGen =>
           /\ name = "errors" <=> passed + 1 = ErrorsAt(proc)
           /\ name = "notFound" => passed + 1 < ErrorsAt(proc)
           /\ name = "logging" <=> passed + 1 = ErrorsAt(proc) + 1
  BY <1>1, <1>4, MiddlewareIs DEF IInv
<1>6. passed \in Nat /\ passed' \in 0..3
  <2> DEFINE n == Len(Middleware(proc))
  <2>1. n \in 1..3 /\ passed \in 0..3 /\ passed < n /\ passed' = passed + 1
    BY <1>2, <1>3
  <2> HIDE DEF n
  <2> QED
    BY <2>1
<1>7. /\ name = "errors" => Gen(proc) # NoGen
      /\ Gen(proc) # NoGen =>
           /\ name = "errors" <=> passed' = ErrorsAt(proc)
           /\ name = "notFound" => passed' < ErrorsAt(proc)
           /\ name = "logging" <=> passed' = ErrorsAt(proc) + 1
  BY <1>2, <1>5
<1> QED
  BY <1>1, <1>2, <1>6, <1>7

-----------------------------------------------------------------------------
(* Every step keeps the invariant.                                         *)

\* Types.
LEMMA TypeStep == IInv /\ [Next]_vars => TypeOK'
<1> SUFFICES ASSUME IInv, [Next]_vars PROVE TypeOK'
  OBVIOUS
<1> USE DEF IInv, options, purpose
<1>1. /\ proc \in Procs /\ Servers \subseteq Procs /\ err \in Seq(Layers)
      /\ \A p \in Servers : p + 1 \in Procs
  BY ErrorsAssumption DEF TypeOK, Servers, Procs
<1>2. ASSUME NEW panics \in BOOLEAN, NEW isWrapped \in BOOLEAN,
             Relay(panics, isWrapped)
      PROVE  TypeOK'
  <2>1. err' = Left(err, panics, isWrapped) /\ err # <<>>
    BY <1>2, HandlerLeaves DEF Relay
  <2>2. err' \in Seq(Layers)
    BY <1>1, <2>1, LeftIs
  <2> QED
    BY <1>1, <1>2, <2>2 DEF TypeOK, Relay, Leave, AddText
<1>3. ASSUME NEW panics \in BOOLEAN, NEW isWrapped \in BOOLEAN, NEW e \in Made(proc),
             Fail(e, panics, isWrapped)
      PROVE  TypeOK'
  <2>1. /\ err' = Left(e, panics, isWrapped) /\ meant' = MeantBy(e)
        /\ maker' = proc /\ masked' = Masked(e) /\ wrapped' \subseteq {proc}
    BY <1>3, HandlerLeaves DEF AddText
  <2>2. e \in Seq(Layers) /\ e # <<>> /\ MeantBy(e) \in Sentinels
    BY <1>1, MadeType
  <2>3. err' \in Seq(Layers)
    BY <2>1, <2>2, LeftIs
  <2>4. masked' \in BOOLEAN
    BY <2>1 DEF Masked
  <2> QED
    BY <1>1, <1>3, <2>1, <2>2, <2>3, <2>4 DEF TypeOK, Fail, Leave
<1>4. ASSUME NEW r \in {"value", "nil"}, Answer(r)
      PROVE  TypeOK'
  <2>1. err' \in Seq(Layers)
    BY <1>4 DEF Answer
  <2> QED
    BY <1>1, <1>4, <2>1 DEF TypeOK, Answer
<1>5. CASE NotFound
  <2>1. proc \in Procs /\ passed' \in 0..3
    BY <1>5, ReachesIs DEF NotFound
  <2>2. Panic \in Layers /\ Plain \in Layers /\ ErrNotFound \in Sentinels
    BY DEF Layers, Sentinels
  <2>3. <<Panic, Plain>> \in Seq(Layers)
    BY <2>2
  <2>4. Gen(proc) # NoGen => NewErr(proc, ErrNotFound, <<>>) \in Seq(Layers)
    <3>1. <<>> \in Seq(Layers)
      OBVIOUS
    <3> QED
      BY <1>1, <2>2, <3>1, GenType, NewErrIs
  <2>5. err' \in Seq(Layers) /\ panicking' \in BOOLEAN /\ resp' \in {"none", "value", "nil"}
    BY <1>1, <1>5, <2>3, <2>4 DEF NotFound, TypeOK
  <2>6. meant' \in Sentinels \cup {Nothing} /\ maker' \in Procs
    BY <1>1, <1>5, <2>2 DEF NotFound, TypeOK
  <2> QED
    BY <1>5, <2>1, <2>5, <2>6 DEF NotFound, Reaches, TypeOK
<1>6. CASE Errors
  <2>1. passed' \in 0..3 /\ Gen(proc) # NoGen
    BY <1>6, ReachesIs DEF Errors
  <2>2. err' \in Seq(Layers)
    BY <1>1, <1>6, <2>1, GenType, ErrToStatusIs DEF Errors
  <2> QED
    BY <1>6, <2>1, <2>2 DEF Errors, Reaches, TypeOK
<1>7. CASE Logging
  <2>1. passed' \in 0..3
    BY <1>7, ReachesIs DEF Logging
  <2> QED
    BY <1>1, <1>7, <2>1 DEF Logging, Reaches, TypeOK
<1>8. CASE Send
  <2>1. proc \in Servers
    BY <1>8 DEF Send, PlaceInv
  <2>2. Status(NoProto) \in Layers
    BY DEF Status, Layers
  <2>3. err' \in Seq(Layers)
    BY <1>1, <1>8, <2>2 DEF Send
  <2> QED
    BY <1>1, <1>8, <2>1, <2>3 DEF Send, TypeOK
<1>9. CASE Crash
  BY <1>9 DEF Crash, TypeOK
<1>10. CASE Receive
  <2>1. err' \in Seq(Layers)
    BY <1>1, <1>10, GenType, FromStatusType DEF Receive
  <2> QED
    BY <1>10, <2>1 DEF Receive, TypeOK
<1>11. CASE UNCHANGED vars
  BY <1>11 DEF vars, TypeOK
<1> QED
  BY <1>2, <1>3, <1>4, <1>5, <1>6, <1>7, <1>8, <1>9, <1>10, <1>11 DEF Next

\* Where the result is.
LEMMA PlaceStep == IInv /\ [Next]_vars => PlaceInv'
<1> SUFFICES ASSUME IInv, [Next]_vars PROVE PlaceInv'
  OBVIOUS
<1> USE DEF IInv, options, purpose
<1>1. /\ proc \in Procs /\ Servers \subseteq Procs /\ err \in Seq(Layers)
      /\ proc \in Nat \ {0} /\ \A p \in Servers : p + 1 \in Procs
      /\ maker \in 1..proc
  BY ErrorsAssumption DEF TypeOK, Servers, Procs, PlaceInv
<1>2. ASSUME NEW panics \in BOOLEAN, NEW isWrapped \in BOOLEAN,
             Relay(panics, isWrapped)
      PROVE  PlaceInv'
  <2>1. err' = Left(err, panics, isWrapped) /\ err # <<>>
    BY <1>2, HandlerLeaves DEF Relay
  <2>2. err' # <<>>
    BY <1>1, <2>1, LeftIs
  <2> QED
    BY <1>1, <1>2, <2>2 DEF PlaceInv, Relay, Leave, AddText
<1>3. ASSUME NEW panics \in BOOLEAN, NEW isWrapped \in BOOLEAN, NEW e \in Made(proc),
             Fail(e, panics, isWrapped)
      PROVE  PlaceInv'
  <2>1. /\ err' = Left(e, panics, isWrapped) /\ maker' = proc
        /\ wrapped' \subseteq {proc}
    BY <1>3, HandlerLeaves DEF AddText
  <2>2. err' # <<>>
    BY <1>1, <2>1, MadeType, LeftIs
  <2> QED
    BY <1>1, <1>3, <2>1, <2>2 DEF PlaceInv, Fail, Leave
<1>4. ASSUME NEW r \in {"value", "nil"}, Answer(r)
      PROVE  PlaceInv'
  BY <1>1, <1>4 DEF PlaceInv, Answer
<1>5. CASE NotFound
  <2>1. phase = "layers" /\ phase' = "layers" /\ proc' = proc /\ proc \in Servers
    BY <1>5, ReachesIs DEF NotFound, Reaches
  <2>2. Gen(proc) # NoGen => NewErr(proc, ErrNotFound, <<>>) # <<>>
    <3>1. <<>> \in Seq(Layers) /\ ErrNotFound \in Sentinels
      BY DEF Sentinels
    <3> QED
      BY <1>1, <3>1, GenType, NewErrIs
  <2>3. CASE err = <<>> /\ resp = "nil"
    <3>1. err' # <<>> /\ maker' = proc /\ wrapped' = {}
      BY <1>5, <2>2, <2>3 DEF NotFound, PlaceInv
    <3> QED
      BY <1>1, <2>1, <3>1 DEF PlaceInv
  <2>4. CASE ~(err = <<>> /\ resp = "nil")
    <3>1. UNCHANGED <<err, meant, maker, wrapped>>
      BY <1>5, <2>4 DEF NotFound
    <3> QED
      BY <1>1, <2>1, <3>1 DEF PlaceInv
  <2> QED
    BY <2>3, <2>4
<1>6. CASE Errors
  <2>1. phase = "layers" /\ phase' = "layers" /\ proc' = proc /\ Gen(proc) # NoGen
    BY <1>6, ReachesIs DEF Errors, Reaches
  <2>2. err' = <<>> <=> err = <<>>
    BY <1>1, <1>6, <2>1, GenType, ErrToStatusIs DEF Errors
  <2> QED
    BY <1>1, <1>6, <2>1, <2>2 DEF PlaceInv, Errors
<1>7. CASE Logging
  <2>1. phase = "layers" /\ phase' = "layers" /\ proc' = proc
    BY <1>7, ReachesIs DEF Logging, Reaches
  <2> QED
    BY <1>7, <2>1 DEF PlaceInv, Logging
<1>8. CASE Send
  <2>1. err' = <<>> <=> err = <<>>
    BY <1>8 DEF Send
  <2> QED
    BY <1>1, <1>8, <2>1 DEF PlaceInv, Send
<1>9. CASE Crash
  BY <1>9 DEF PlaceInv, Crash
<1>10. CASE Receive
  <2>1. err' = <<>> <=> err = <<>>
    BY <1>1, <1>10, GenType, FromStatusType DEF Receive
  <2> QED
    BY <1>10, <2>1 DEF PlaceInv, Receive
<1>11. CASE UNCHANGED vars
  BY <1>11 DEF vars, PlaceInv
<1> QED
  BY <1>2, <1>3, <1>4, <1>5, <1>6, <1>7, <1>8, <1>9, <1>10, <1>11 DEF Next

\* The log.
LEMMA LogStep == IInv /\ [Next]_vars => LogInv'
<1> SUFFICES ASSUME IInv, [Next]_vars PROVE LogInv'
  OBVIOUS
<1> USE DEF IInv, options, purpose
<1>1. /\ proc \in Procs /\ Servers \subseteq Procs /\ proc \in Nat \ {0}
      /\ Servers \subseteq Nat /\ err \in Seq(Layers) /\ passed \in Nat
      /\ \A p \in Procs : ErrorsAt(p) \in {1, 2}
  BY ErrorsAssumption DEF TypeOK, Servers, Procs, ErrorsAt
<1>2. UNCHANGED options => \A p : Gen(p)' = Gen(p) /\ ErrorsAt(p)' = ErrorsAt(p)
  BY DEF Gen, ErrorsAt
<1> DEFINE Past == /\ \A p \in Servers : p >= proc => sent[p] = <<Nothing>>
                   /\ \A p \in Servers : p < proc /\ Gen(p) # NoGen => seen[p] = sent[p]
<1>3. Past
  BY DEF LogInv
<1>4. ASSUME UNCHANGED <<options, proc, seen, sent>>, phase' # "crashed",
             phase' = "layers" /\ Gen(proc) # NoGen => passed' < ErrorsAt(proc)
      PROVE  LogInv'
  <2>1. Past'
    BY <1>2, <1>3, <1>4
  <2>2. ~(Converted' /\ Gen(proc)' # NoGen)
    <3> SUFFICES ASSUME Converted', Gen(proc)' # NoGen PROVE FALSE
      OBVIOUS
    <3>1. phase' = "layers" /\ passed' >= ErrorsAt(proc) /\ Gen(proc) # NoGen
      BY <1>2, <1>4 DEF Converted
    <3>2. passed' \in 0..3
      BY TypeStep DEF TypeOK
    <3>3. passed' < ErrorsAt(proc)
      BY <1>4, <3>1
    <3> QED
      BY <1>1, <3>1, <3>2, <3>3
  <2> QED
    BY <1>4, <2>1, <2>2 DEF LogInv
<1>5. ASSUME NEW panics \in BOOLEAN, NEW isWrapped \in BOOLEAN,
             Relay(panics, isWrapped)
      PROVE  LogInv'
  BY <1>1, <1>4, <1>5 DEF Relay, Leave, PlaceInv
<1>6. ASSUME NEW panics \in BOOLEAN, NEW isWrapped \in BOOLEAN, NEW e \in Made(proc),
             Fail(e, panics, isWrapped)
      PROVE  LogInv'
  BY <1>1, <1>4, <1>6 DEF Fail, Leave, PlaceInv
<1>7. ASSUME NEW r \in {"value", "nil"}, Answer(r)
      PROVE  LogInv'
  BY <1>1, <1>4, <1>7 DEF Answer, PlaceInv
<1>8. CASE NotFound
  <2>1. phase' = "layers" /\ (Gen(proc) # NoGen => passed' < ErrorsAt(proc))
    BY <1>8, ReachesIs DEF NotFound, Reaches
  <2> QED
    BY <1>4, <1>8, <2>1 DEF NotFound, Reaches
<1>9. CASE Errors
  <2>1. /\ phase' = "layers" /\ UNCHANGED <<options, proc, seen, sent>>
        /\ passed' = ErrorsAt(proc) /\ Gen(proc) # NoGen /\ proc \in Procs
    BY <1>9, ReachesIs DEF Errors, Reaches
  <2>2. Past'
    BY <1>2, <1>3, <2>1
  <2>3. ~panicking' /\ (err' = <<>> \/ err'[1].kind = "status")
    BY <1>1, <1>9, <2>1, GenType, ErrToStatusIs DEF Errors
  <2>4. ~(passed' = ErrorsAt(proc)' + 1)
    BY <1>1, <1>2, <2>1
  <2> QED
    BY <2>1, <2>2, <2>3, <2>4 DEF LogInv
<1>10. CASE Logging
  <2>1. /\ phase = "layers" /\ phase' = "layers" /\ proc \in Servers
        /\ UNCHANGED <<options, proc, sent, err, panicking>>
        /\ passed' = passed + 1
        /\ Gen(proc) # NoGen => passed' = ErrorsAt(proc) + 1
    BY <1>10, ReachesIs DEF Logging, Reaches
  <2>2. \A p \in Servers : p # proc => seen'[p] = seen[p]
    BY <1>10 DEF Logging, TypeOK
  <2>3. Past'
    BY <1>1, <1>2, <1>3, <2>1, <2>2
  <2>4. ASSUME Gen(proc) # NoGen
        PROVE  /\ ~panicking' /\ (err' = <<>> \/ err'[1].kind = "status")
               /\ seen'[proc] = err'
    <3>1. Converted
      BY <1>1, <2>1, <2>4 DEF Converted
    <3>2. ~panicking /\ (err = <<>> \/ err[1].kind = "status")
      BY <2>4, <3>1 DEF LogInv
    <3>3. seen' = [seen EXCEPT ![proc] = err]
      BY <1>10, <3>2 DEF Logging
    <3>4. seen'[proc] = err
      BY <2>1, <3>3 DEF TypeOK
    <3> QED
      BY <2>1, <3>2, <3>4
  <2>5. Gen(proc)' = Gen(proc) /\ proc' = proc
    BY <1>2, <2>1
  <2> QED
    BY <2>1, <2>3, <2>4, <2>5 DEF LogInv
<1>11. CASE Send
  <2>1. /\ phase = "layers" /\ phase' = "wire" /\ proc \in Servers /\ proc' = proc + 1
        /\ UNCHANGED <<options, seen>>
        /\ passed = Len(Middleware(proc))
        /\ sent' = [sent EXCEPT ![proc] = err']
    BY <1>11 DEF Send, PlaceInv
  <2>2. sent'[proc] = err' /\ \A p \in Servers : p # proc => sent'[p] = sent[p]
    BY <2>1 DEF TypeOK
  <2>3. Gen(proc) # NoGen => seen[proc] = err'
    <3> SUFFICES ASSUME Gen(proc) # NoGen PROVE seen[proc] = err'
      OBVIOUS
    <3>1. passed = ErrorsAt(proc) + 1
      BY <1>1, <2>1, MiddlewareIs
    <3>2. Converted
      BY <1>1, <2>1, <3>1 DEF Converted
    <3>3. (err = <<>> \/ err[1].kind = "status") /\ seen[proc] = err
      BY <3>1, <3>2 DEF LogInv
    <3> QED
      BY <1>11, <3>3 DEF Send
  <2>4. Past'
    <3>1. \A p \in Servers : p >= proc + 1 => sent'[p] = <<Nothing>>
      BY <1>1, <1>3, <2>2
    <3>2. \A p \in Servers : p < proc + 1 /\ Gen(p) # NoGen => seen[p] = sent'[p]
      <4> SUFFICES ASSUME NEW p \in Servers, p < proc + 1, Gen(p) # NoGen
                   PROVE  seen[p] = sent'[p]
        OBVIOUS
      <4>1. CASE p = proc
        BY <2>2, <2>3, <4>1
      <4>2. CASE p # proc
        <5>1. p < proc
          BY <1>1, <4>2
        <5> QED
          BY <1>3, <2>2, <4>2, <5>1
      <4> QED
        BY <4>1, <4>2
    <3> QED
      BY <1>2, <2>1, <3>1, <3>2
  <2> QED
    BY <2>1, <2>4 DEF LogInv, Converted
<1>12. CASE Crash
  <2>1. /\ phase = "layers" /\ phase' = "crashed" /\ panicking
        /\ UNCHANGED <<options, proc, seen, sent>>
        /\ passed = Len(Middleware(proc))
    BY <1>12 DEF Crash
  <2>2. Gen(proc) = NoGen
    <3> SUFFICES ASSUME Gen(proc) # NoGen PROVE FALSE
      OBVIOUS
    <3>1. passed = ErrorsAt(proc) + 1
      BY <1>1, <2>1, MiddlewareIs
    <3>2. Converted
      BY <1>1, <2>1, <3>1 DEF Converted
    <3> QED
      BY <2>1, <3>2 DEF LogInv
  <2>3. Past'
    BY <1>2, <1>3, <2>1
  <2>4. Gen(proc)' = NoGen
    BY <1>2, <2>1, <2>2
  <2> QED
    BY <2>1, <2>3, <2>4 DEF LogInv, Converted
<1>13. CASE Receive
  <2>1. phase' \in {"done", "handler"} /\ UNCHANGED <<options, proc, seen, sent>>
    BY <1>13 DEF Receive
  <2> QED
    BY <1>4, <2>1
<1>14. CASE UNCHANGED vars
  <2>1. Past'
    BY <1>2, <1>3, <1>14 DEF vars
  <2> QED
    BY <1>2, <1>14, <2>1 DEF LogInv, Converted, vars
<1> QED
  BY <1>5, <1>6, <1>7, <1>8, <1>9, <1>10, <1>11, <1>12, <1>13, <1>14 DEF Next

\* Nothing about the error changes but where it is.
LEMMA SameError ==
  ASSUME UNCHANGED <<options, maker, meant, masked>>
  PROVE  /\ Complete' <=> Complete
         /\ \A p : Gen(p)' = Gen(p)
         /\ \A p, e : ConvProto(p, e)' = ConvProto(p, e)
         /\ \A q, p : Tracked(q, p)' <=> Tracked(q, p)
         /\ UNCHANGED wrapped => \A q, p : Explained(q, p)' <=> Explained(q, p)
<1> USE DEF options
<1>1. Complete' <=> Complete
  BY DEF Complete, Gen
<1>2. \A p : Gen(p)' = Gen(p)
  BY DEF Gen
<1>3. \A p, e : ConvProto(p, e)' = ConvProto(p, e)
  BY DEF ConvProto, Convert, NewErr, ApplySettings, Gen
<1>4. \A q, p : Tracked(q, p)' <=> Tracked(q, p)
  BY DEF Tracked, Gen
<1>5. UNCHANGED wrapped => \A q, p : Explained(q, p)' <=> Explained(q, p)
  BY DEF Explained, Gen
<1> QED
  BY <1>1, <1>2, <1>3, <1>4, <1>5

\* A process that the error passes has a generator, and the middleware of its
\* clients.
LEMMA CompleteIs ==
  ASSUME TypeOK, Complete, maker \in 1..proc
  PROVE  /\ proc \in Servers => Gen(proc) # NoGen /\ Gen(proc) \in Settings
         /\ maker < proc => config[proc].client /\ Gen(proc) \in Settings
<1>1. /\ N \in Nat /\ proc \in 1..N /\ Servers = 1..(N - 1) /\ proc \in Procs
      /\ maker \in Nat /\ proc \in Nat
  BY ErrorsAssumption DEF TypeOK, Procs, Servers
<1>2. proc \in Servers => proc \in maker..(N - 1)
  BY <1>1
<1>3. maker < proc => proc \in (maker + 1)..N
  BY <1>1
<1>4. proc \in Servers => Gen(proc) # NoGen
  BY <1>2 DEF Complete
<1>5. maker < proc => config[proc].client
  BY <1>3 DEF Complete
<1> QED
  BY <1>1, <1>4, <1>5, GenType

\* The error that a handler received is sent on as what it is.
LEMMA RelayedMessage ==
  ASSUME IInv, Complete, Obtained, proc \in Servers, maker < proc
  PROVE  LET q == err[1].proto
             r == ConvProto(proc, err)
             n == proc - maker + 1
         IN  /\ q \in Protos /\ Len(q.trace) = n /\ r \in Protos
             /\ r.sentinel = q.sentinel
             /\ r.source => q.source /\ Gen(proc).source
             /\ Len(r.trace) = n /\ n \in Nat \ {0}
             /\ \A i \in 1..(n - 1) : r.trace[i] = q.trace[i]
             /\ r.trace[n].app = proc
             /\ r.trace[n].stack = Gen(proc).stack
             /\ r.trace[n].context => q.trace[n].context
             /\ q.trace[n].stack = Gen(proc).stack
             /\ Known(err) /\ ~HasContext(err)
<1> DEFINE q == err[1].proto
           n == proc - maker + 1
           r == ConvProto(proc, err)
<1>1. /\ proc \in Procs /\ proc \in Nat /\ maker \in 1..proc /\ maker \in Nat
      /\ err \in Seq(Layers)
  BY ErrorsAssumption DEF IInv, TypeOK, PlaceInv, Procs
<1>2. Gen(proc) \in Settings
  BY <1>1, CompleteIs DEF IInv
<1>3. q \in Protos /\ Len(q.trace) = n
  BY DEF Obtained, Tracked
<1>4. n \in Nat /\ n # 0 /\ n \in 1..n /\ maker + n - 1 = proc
  BY <1>1
<1>5. q.trace[n].stack = Gen(proc).stack
  BY <1>3, <1>4 DEF Obtained, Tracked
<1>6. FirstOf({"sentinel"}, err) = 0 /\ FirstOf({"api"}, err) = 1
  BY DEF Obtained
<1>7. r = ApplySettings(proc, q)
  BY <1>1, <1>2, <1>6, ConvertIs
<1> HIDE DEF q, r, n
<1>8. /\ r \in Protos /\ r.sentinel = q.sentinel
      /\ r.source => q.source /\ Gen(proc).source
      /\ Len(r.trace) = n
      /\ \A i \in 1..(n - 1) : r.trace[i] = q.trace[i]
      /\ r.trace[n].app = proc
      /\ r.trace[n].stack = (q.trace[n].stack /\ Gen(proc).stack)
      /\ r.trace[n].context => q.trace[n].context
  BY <1>1, <1>2, <1>3, <1>7, ApplySettingsIs
<1>9. r.trace[n].stack = Gen(proc).stack
  <2>1. Gen(proc).stack \in BOOLEAN
    BY <1>2 DEF Settings
  <2> QED
    BY <1>5, <1>8, <2>1
<1>10. Known(err) /\ ~HasContext(err)
  BY <1>6 DEF Known, HasContext
<1> QED
  BY <1>3, <1>4, <1>5, <1>8, <1>9, <1>10 DEF q, r, n

\* What a process does not send of the source of an error is not in its message.
LEMMA ConvertSource ==
  ASSUME NEW p \in Procs, Gen(p) \in Settings, NEW e \in Seq(Layers)
  PROVE  ConvProto(p, e).source => Gen(p).source
<1> DEFINE s == FirstOf({"sentinel"}, e)
           a == FirstOf({"api"}, e)
<1>1. CASE s # 0 \/ a = 0
  BY <1>1, ConvertIs DEF Own
<1>2. CASE s = 0 /\ a # 0
  BY <1>2, ConvertIs, ApplySettingsIs
<1> QED
  BY <1>1, <1>2

\* Relay.
LEMMA RelayChain ==
  ASSUME IInv, NEW panics \in BOOLEAN, NEW isWrapped \in BOOLEAN,
         Relay(panics, isWrapped)
  PROVE  ChainInv'
<1> USE DEF IInv
<1>1. /\ phase = "handler" /\ phase' = "layers" /\ proc \in Servers /\ proc' = proc
      /\ passed' = passed /\ err # <<>>
      /\ UNCHANGED <<options, maker, meant, masked>>
      /\ wrapped' = AddText(wrapped, panics, isWrapped)
      /\ err' = Left(err, panics, isWrapped)
  BY HandlerLeaves DEF Relay, Leave, purpose
<1>2. /\ passed = 0 /\ maker < proc /\ proc \notin wrapped /\ wrapped \subseteq maker..proc
      /\ maker \in 1..proc /\ proc \in Nat /\ maker \in Nat
      /\ proc \in Procs /\ err \in Seq(Layers)
  BY <1>1, ErrorsAssumption DEF PlaceInv, TypeOK, Procs
<1>3. ~Converted'
  BY <1>1, <1>2 DEF Converted, ErrorsAt
<1> SUFFICES ASSUME Complete' PROVE Leaving'
  BY <1>1, <1>3 DEF ChainInv
<1>4. Complete
  BY <1>1, SameError
<1>5. Obtained
  BY <1>1, <1>4 DEF ChainInv
<1>6. Gen(proc) \in Settings
  BY <1>1, <1>2, <1>4, CompleteIs
<1> DEFINE q == err[1].proto
<1>7. PICK r : r = ConvProto(proc, err)
  OBVIOUS
<1>8. PICK n : n = proc - maker + 1
  OBVIOUS
<1>9. /\ q \in Protos /\ Len(q.trace) = n /\ r \in Protos
      /\ r.sentinel = q.sentinel
      /\ r.source => q.source
      /\ Len(r.trace) = n /\ n \in Nat \ {0}
      /\ \A i \in 1..(n - 1) : r.trace[i] = q.trace[i]
      /\ r.trace[n].app = proc
      /\ r.trace[n].stack = Gen(proc).stack
      /\ r.trace[n].context => q.trace[n].context
      /\ Known(err) /\ ~HasContext(err)
  BY <1>1, <1>2, <1>4, <1>5, <1>7, <1>8, RelayedMessage
<1>10. Tracked(q, proc) /\ Explained(q, proc - 1)
  BY <1>5 DEF Obtained
<1> HIDE DEF q
<1>11. ConvProto(proc, err)' = r
  <2>1. ConvProto(proc, err') = r
    BY <1>1, <1>2, <1>6, <1>7, LeftIs
  <2> QED
    BY <1>1, <2>1, SameError
<1>12. \A i \in 1..n : i = n \/ i \in 1..(n - 1)
  BY <1>9
<1>13. Tracked(r, proc)'
  <2>1. Tracked(r, proc)
    <3>1. maker + n - 1 = proc
      BY <1>2, <1>8
    <3>2. ASSUME NEW i \in 1..n
          PROVE  r.trace[i].app = maker + i - 1 /\ r.trace[i].stack = Gen(maker + i - 1).stack
      <4>1. CASE i = n
        BY <1>9, <3>1, <4>1
      <4>2. CASE i \in 1..(n - 1)
        BY <1>9, <1>10, <4>2 DEF Tracked
      <4> QED
        BY <1>12, <4>1, <4>2
    <3>3. ~masked => r.sentinel = meant
      BY <1>9, <1>10 DEF Tracked
    <3> QED
      BY <1>8, <1>9, <3>2, <3>3 DEF Tracked
  <2> QED
    BY <1>1, <2>1, SameError
<1>14. Explained(r, proc - 1)'
  <2>1. r.source => \A m \in maker..(proc - 1) : m < N => Gen(m).source
    BY <1>9, <1>10 DEF Explained
  <2>2. ASSUME ~masked, NEW i \in 1..n
        PROVE  /\ r.trace[i].context => maker + i - 1 \in wrapped'
               /\ maker + i - 1 <= proc - 1 /\ maker + i - 1 \in wrapped'
                    => r.trace[i].context
    <3>1. /\ q.trace[i].context => maker + i - 1 \in wrapped
          /\ maker + i - 1 <= proc - 1 /\ maker + i - 1 \in wrapped => q.trace[i].context
      BY <1>9, <1>10, <2>2 DEF Explained
    <3>2. wrapped \subseteq wrapped' /\ wrapped' \subseteq wrapped \cup {proc}
      BY <1>1 DEF AddText
    <3>3. CASE i = n
      <4>1. maker + i - 1 = proc
        BY <1>2, <1>8, <3>3
      <4>2. ~r.trace[i].context
        BY <1>2, <1>9, <3>1, <3>3, <4>1
      <4> QED
        BY <1>2, <4>1, <4>2
    <3>4. CASE i \in 1..(n - 1)
      <4>1. r.trace[i] = q.trace[i]
        BY <1>9, <3>4
      <4>2. maker + i - 1 # proc
        BY <1>2, <1>8, <3>4
      <4>3. maker + i - 1 \in wrapped' <=> maker + i - 1 \in wrapped
        BY <3>2, <4>2
      <4> QED
        BY <3>1, <4>1, <4>3
    <3> QED
      BY <1>12, <3>3, <3>4
  <2>3. masked' = masked /\ maker' = maker /\ proc' = proc /\ \A p : Gen(p)' = Gen(p)
    BY <1>1, SameError
  <2> QED
    BY <1>9, <2>1, <2>2, <2>3 DEF Explained
<1>15. (~masked => (HasContext(err) <=> proc \in wrapped))'
  <2>1. HasContext(err') <=> (panics \/ isWrapped)
    BY <1>1, <1>2, <1>9, LeftIs
  <2>2. proc \in wrapped' <=> (panics \/ isWrapped)
    BY <1>1, <1>2 DEF AddText
  <2> QED
    BY <1>1, <2>1, <2>2 DEF HasContext
<1> QED
  BY <1>1, <1>11, <1>13, <1>14, <1>15 DEF Leaving

\* A message of one frame, of the process that the result is in.
LEMMA OwnMessage ==
  \A q : Own(proc, q) /\ maker = proc /\ proc \in Nat /\ (~masked => q.sentinel = meant)
    => Tracked(q, proc) /\ Explained(q, proc - 1)
<1> SUFFICES ASSUME NEW q, Own(proc, q), maker = proc, proc \in Nat,
                    ~masked => q.sentinel = meant
             PROVE  Tracked(q, proc) /\ Explained(q, proc - 1)
  OBVIOUS
<1>1. /\ q \in Protos /\ Len(q.trace) = 1 /\ q.trace[1].app = proc
      /\ q.trace[1].stack = Gen(proc).stack /\ q.trace[1].context = FALSE
  BY DEF Own
<1>2. maker + 1 - 1 = proc /\ proc - maker + 1 = 1 /\ ~(proc <= proc - 1)
  BY DEF Own
<1>3. \A i \in 1..1 : i = 1
  OBVIOUS
<1>4. \A m \in maker..(proc - 1) : FALSE
  BY <1>2
<1>5. Tracked(q, proc)
  BY <1>1, <1>2, <1>3 DEF Tracked
<1>6. Explained(q, proc - 1)
  BY <1>1, <1>2, <1>3, <1>4 DEF Explained
<1> QED
  BY <1>5, <1>6

\* Fail.
LEMMA FailChain ==
  ASSUME IInv, NEW panics \in BOOLEAN, NEW isWrapped \in BOOLEAN,
         NEW e \in Made(proc), Fail(e, panics, isWrapped)
  PROVE  ChainInv'
<1> USE DEF IInv
<1>1. /\ phase = "handler" /\ phase' = "layers" /\ proc \in Servers /\ proc' = proc
      /\ passed' = passed /\ UNCHANGED options
      /\ meant' = MeantBy(e) /\ masked' = Masked(e) /\ maker' = proc
      /\ wrapped' = IF FirstOf({"sentinel", "api"}, e) = 0 THEN {}
                    ELSE AddText({}, panics, isWrapped)
      /\ err' = Left(e, panics, isWrapped)
  BY HandlerLeaves DEF Fail, Leave
<1>2. passed = 0 /\ proc \in Procs /\ proc \in Nat /\ Servers = 1..(N - 1) /\ N \in Nat
  BY <1>1, ErrorsAssumption DEF PlaceInv, TypeOK, Procs, Servers
<1>3. ~Converted'
  BY <1>1, <1>2 DEF Converted, ErrorsAt
<1> SUFFICES ASSUME Complete' PROVE Leaving'
  BY <1>1, <1>3 DEF ChainInv
<1>4. \A p : Gen(p)' = Gen(p)
  BY <1>1 DEF Gen, options
<1>5. Gen(proc) # NoGen /\ Gen(proc) \in Settings
  <2>1. proc \in proc..(N - 1)
    BY <1>1, <1>2
  <2>2. Gen(proc) # NoGen
    BY <1>1, <1>4, <2>1 DEF Complete
  <2> QED
    BY <1>2, <2>2, GenType
<1>6. /\ Own(proc, ConvProto(proc, e))
      /\ ~Masked(e) => ConvProto(proc, e).sentinel = MeantBy(e) /\ ~HasContext(e)
      /\ Known(e) <=> FirstOf({"sentinel", "api"}, e) # 0
      /\ e \in Seq(Layers) /\ e # <<>>
  BY <1>2, <1>5, MadeOwn, MadeType
<1>7. PICK r : r = ConvProto(proc, e)
  OBVIOUS
<1>8. ConvProto(proc, err') = r
  BY <1>1, <1>2, <1>5, <1>6, <1>7, LeftIs
<1>9. ConvProto(proc, err)' = r
  BY <1>1, <1>8 DEF ConvProto, Convert, NewErr, ApplySettings, Gen, options
<1>10. Own(proc, r)'
  BY <1>1, <1>4, <1>6, <1>7 DEF Own
<1>11. (~masked => r.sentinel = meant)'
  BY <1>1, <1>6, <1>7
<1>12. Tracked(r, proc)' /\ Explained(r, proc - 1)'
  <2>1. (\A q : Own(proc, q) /\ maker = proc /\ proc \in Nat
                /\ (~masked => q.sentinel = meant)
           => Tracked(q, proc) /\ Explained(q, proc - 1))'
    BY OwnMessage, PTL
  <2> QED
    BY <1>1, <1>2, <1>10, <1>11, <2>1
<1>13. (~masked => (HasContext(err) <=> proc \in wrapped))'
  <2>1. ~Masked(e) => (HasContext(err') <=> Known(e) /\ (panics \/ isWrapped))
    BY <1>1, <1>6, LeftIs
  <2>2. proc \in wrapped' <=> Known(e) /\ (panics \/ isWrapped)
    BY <1>1, <1>6 DEF AddText
  <2> QED
    BY <1>1, <2>1, <2>2 DEF HasContext
<1> QED
  BY <1>1, <1>9, <1>12, <1>13 DEF Leaving

\* NotFound.
LEMMA NotFoundChain == IInv /\ NotFound => ChainInv'
<1> SUFFICES ASSUME IInv, NotFound PROVE ChainInv'
  OBVIOUS
<1> USE DEF IInv
<1>1. /\ phase = "layers" /\ phase' = "layers" /\ proc \in Servers /\ proc \in Procs
      /\ proc' = proc /\ passed' = passed + 1 /\ passed \in Nat
      /\ Gen(proc) # NoGen => passed' < ErrorsAt(proc)
      /\ UNCHANGED <<options, masked, wrapped>>
  BY ReachesIs DEF NotFound, Reaches
<1>2. /\ maker \in 1..proc /\ maker \in Nat /\ proc \in Nat
      /\ ErrorsAt(proc) \in {1, 2}
      /\ Servers = 1..(N - 1) /\ N \in Nat
  BY <1>1, ErrorsAssumption DEF PlaceInv, Procs, Servers, ErrorsAt
<1>3. Gen(proc) # NoGen => ~Converted /\ ~Converted'
  BY <1>1, <1>2 DEF Converted, ErrorsAt, options
<1> SUFFICES ASSUME Complete', err' # <<>> PROVE Gen(proc) # NoGen /\ Leaving'
  BY <1>1, <1>3 DEF ChainInv
<1>4. CASE ~(err = <<>> /\ resp = "nil")
  <2>1. UNCHANGED <<options, err, meant, maker, masked, wrapped, proc>>
    BY <1>1, <1>4 DEF NotFound
  <2>2. Complete /\ err # <<>>
    BY <2>1, SameError
  <2>3. Gen(proc) # NoGen
    BY <1>1, <1>2, <2>2, CompleteIs
  <2>4. Leaving
    BY <1>1, <1>3, <2>2, <2>3 DEF ChainInv
  <2> QED
    BY <2>1, <2>3, <2>4, SameError DEF Leaving, HasContext
<1>5. CASE err = <<>> /\ resp = "nil"
  <2>1. maker' = proc /\ meant' = ErrNotFound /\ wrapped = {}
    BY <1>5 DEF NotFound, PlaceInv
  <2>2. \A p : Gen(p)' = Gen(p)
    BY <1>1 DEF Gen, options
  <2>3. Gen(proc) # NoGen /\ Gen(proc) \in Settings
    <3>1. proc \in proc..(N - 1)
      BY <1>1, <1>2
    <3>2. Gen(proc) # NoGen
      BY <2>1, <2>2, <3>1 DEF Complete
    <3> QED
      BY <1>1, <3>2, GenType
  <2>4. err' = NewErr(proc, ErrNotFound, <<>>)
    BY <1>5, <2>3 DEF NotFound
  <2>5. <<>> \in Seq(Layers) /\ ErrNotFound \in Sentinels
    BY DEF Sentinels
  <2>6. PICK api : api = err'[1]
    OBVIOUS
  <2>7. /\ err' \in Seq(Layers) /\ err' # <<>> /\ api.kind = "api"
        /\ Own(proc, api.proto) /\ api.proto.sentinel = ErrNotFound
        /\ err' = <<api>> \o <<>>
    BY <1>1, <2>3, <2>4, <2>5, <2>6, NewErrIs
  <2>8. err' = <<api>> /\ api \in Layers
    <3>1. err' = <<api>>
      BY <2>7, Joined
    <3>2. 1 \in 1..Len(err')
      BY <2>7, EmptySeq
    <3> QED
      BY <2>6, <2>7, <3>1, <3>2, ElementOfSeq
  <2>9. FirstOf({"sentinel"}, err') = 0 /\ FirstOf({"api"}, err') = 1
    BY <2>7, <2>8, OneLayer
  <2>10. PICK r : r = ConvProto(proc, err')
    OBVIOUS
  <2>11. Own(proc, r) /\ r.sentinel = ErrNotFound
    <3>1. r = ApplySettings(proc, api.proto)
      <4> PICK e : e = err'
        OBVIOUS
      <4>1. e \in Seq(Layers) /\ FirstOf({"sentinel"}, e) = 0 /\ FirstOf({"api"}, e) = 1
        BY <2>7, <2>9
      <4>2. ConvProto(proc, e) = ApplySettings(proc, e[1].proto)
        BY <1>1, <2>3, <4>1, ConvertIs
      <4> QED
        BY <2>6, <2>10, <4>2
    <3> QED
      BY <1>1, <2>3, <2>7, <3>1, OwnSettings
  <2>12. ConvProto(proc, err)' = r
    BY <1>1, <2>10 DEF ConvProto, Convert, NewErr, ApplySettings, Gen, options
  <2>13. Tracked(r, proc)' /\ Explained(r, proc - 1)'
    <3>1. (\A q : Own(proc, q) /\ maker = proc /\ proc \in Nat
                  /\ (~masked => q.sentinel = meant)
             => Tracked(q, proc) /\ Explained(q, proc - 1))'
      BY OwnMessage, PTL
    <3>2. Own(proc, r)'
      BY <1>1, <2>2, <2>11 DEF Own
    <3> QED
      BY <1>1, <1>2, <2>1, <2>11, <3>1, <3>2
  <2>14. ~HasContext(err') /\ proc \notin wrapped'
    BY <1>1, <2>1, <2>9 DEF HasContext
  <2> QED
    BY <1>1, <2>3, <2>12, <2>13, <2>14 DEF Leaving, HasContext
<1> QED
  BY <1>4, <1>5

\* errToStatus makes of a message on its way the one that is sent.
LEMMA ConvertedMessage ==
  ASSUME IInv, Leaving, proc \in Servers, Gen(proc) \in Settings
  PROVE  LET status == ErrToStatus(proc, err)
         IN  /\ Len(status) = 1 /\ status[1].kind = "status"
             /\ Tracked(status[1].proto, proc) /\ Explained(status[1].proto, proc)
<1> DEFINE q == ConvProto(proc, err)
           n == Len(q.trace)
           status == ErrToStatus(proc, err)
           r == status[1].proto
<1>1. /\ proc \in Procs /\ err \in Seq(Layers) /\ maker \in 1..proc /\ proc \in Nat
      /\ maker \in Nat
  BY ErrorsAssumption DEF IInv, TypeOK, PlaceInv, Servers, Procs
<1>2. Tracked(q, proc) /\ Explained(q, proc - 1)
  BY DEF Leaving
<1>3. ~masked => (HasContext(err) <=> proc \in wrapped)
  BY DEF Leaving
<1>4. q.source => Gen(proc).source
  BY <1>1, ConvertSource
<1>5. /\ Len(status) = 1 /\ status[1].kind = "status"
      /\ r \in Protos /\ r.sentinel = q.sentinel /\ r.source = q.source
      /\ Len(r.trace) = n
      /\ \A i \in 1..n : /\ r.trace[i].app = q.trace[i].app
                         /\ r.trace[i].stack = q.trace[i].stack
      /\ \A i \in 1..(n - 1) : r.trace[i].context = q.trace[i].context
      /\ r.trace[n].context <=> HasContext(err) \/ q.trace[n].context
  BY <1>1, ErrToStatusIs
<1> HIDE DEF q, status, r
<1>6. n = proc - maker + 1 /\ n \in Nat \ {0} /\ maker + n - 1 = proc
  BY <1>1, <1>2 DEF Tracked
<1> HIDE DEF n
<1>7. Len(q.trace) = n
  BY DEF n
<1>8. Tracked(r, proc)
  BY <1>2, <1>5, <1>6, <1>7 DEF Tracked
<1>9. Explained(r, proc)
  <2>1. r.source => \A m \in maker..proc : m < N => Gen(m).source
    <3> SUFFICES ASSUME r.source, NEW m \in maker..proc, m < N PROVE Gen(m).source
      OBVIOUS
    <3>1. m = proc \/ m \in maker..(proc - 1)
      BY <1>1
    <3> QED
      BY <1>2, <1>4, <1>5, <3>1 DEF Explained
  <2>2. ASSUME ~masked, NEW i \in 1..n
        PROVE  /\ r.trace[i].context => maker + i - 1 \in wrapped
               /\ maker + i - 1 <= proc /\ maker + i - 1 \in wrapped => r.trace[i].context
    <3>1. /\ q.trace[i].context => maker + i - 1 \in wrapped
          /\ maker + i - 1 <= proc - 1 /\ maker + i - 1 \in wrapped => q.trace[i].context
      BY <1>2, <1>7, <2>2 DEF Explained
    <3>2. CASE i = n
      BY <1>3, <1>5, <1>6, <2>2, <3>1, <3>2
    <3>3. CASE i # n
      <4>1. i \in 1..(n - 1) /\ maker + i - 1 <= proc - 1
        BY <1>1, <1>6, <3>3
      <4> QED
        BY <1>5, <3>1, <4>1
    <3> QED
      BY <3>2, <3>3
  <2> QED
    BY <1>5, <2>1, <2>2 DEF Explained
<1> QED
  BY <1>5, <1>8, <1>9 DEF status, r

\* Errors.
LEMMA ErrorsChain == IInv /\ Errors => ChainInv'
<1> SUFFICES ASSUME IInv, Errors PROVE ChainInv'
  OBVIOUS
<1> USE DEF IInv
<1>1. /\ phase = "layers" /\ phase' = "layers" /\ proc \in Servers /\ proc' = proc
      /\ passed' = passed + 1 /\ passed \in Nat /\ passed' = ErrorsAt(proc)
      /\ UNCHANGED <<options, maker, meant, masked, wrapped>>
      /\ err' = IF err = <<>> THEN err ELSE ErrToStatus(proc, err)
  BY ReachesIs DEF Errors, Reaches, purpose
<1>2. ~Converted /\ Converted'
  BY <1>1 DEF Converted, ErrorsAt, options
<1> SUFFICES ASSUME Complete', err' # <<>> PROVE Reported(proc)'
  BY <1>1, <1>2 DEF ChainInv
<1>3. Complete /\ err # <<>> /\ err' = ErrToStatus(proc, err)
  BY <1>1, SameError
<1>4. Leaving /\ Gen(proc) \in Settings
  BY <1>1, <1>2, <1>3, CompleteIs DEF ChainInv, PlaceInv
<1>5. PICK status : status = ErrToStatus(proc, err)
  OBVIOUS
<1>6. /\ Len(status) = 1 /\ status[1].kind = "status"
      /\ Tracked(status[1].proto, proc) /\ Explained(status[1].proto, proc)
  BY <1>1, <1>4, <1>5, ConvertedMessage
<1> QED
  BY <1>1, <1>3, <1>5, <1>6, SameError DEF Reported

\* Logging.
LEMMA LoggingChain == IInv /\ Logging => ChainInv'
<1> SUFFICES ASSUME IInv, Logging PROVE ChainInv'
  OBVIOUS
<1> USE DEF IInv
<1>1. /\ phase = "layers" /\ phase' = "layers" /\ proc \in Servers /\ proc' = proc
      /\ proc \in Procs
      /\ passed' = passed + 1 /\ passed \in Nat
      /\ Gen(proc) # NoGen => passed' = ErrorsAt(proc) + 1
      /\ UNCHANGED <<options, err, maker, meant, masked, wrapped>>
  BY ReachesIs DEF Logging, Reaches, purpose
<1> SUFFICES ASSUME Complete', err' # <<>> PROVE Converted' /\ Reported(proc)'
  BY <1>1 DEF ChainInv
<1>2. Complete /\ err # <<>>
  BY <1>1, SameError
<1>3. Gen(proc) # NoGen
  BY <1>1, <1>2, CompleteIs DEF PlaceInv
<1>4. ErrorsAt(proc) \in {1, 2}
  BY DEF ErrorsAt
<1>5. Converted
  BY <1>1, <1>3, <1>4 DEF Converted
<1>6. Converted'
  BY <1>1, <1>3, <1>4 DEF Converted, ErrorsAt, options
<1>7. Reported(proc)
  BY <1>2, <1>5 DEF ChainInv
<1> QED
  BY <1>1, <1>6, <1>7, SameError DEF Reported

\* Send.
LEMMA SendChain == IInv /\ Send => ChainInv'
<1> SUFFICES ASSUME IInv, Send PROVE ChainInv'
  OBVIOUS
<1> USE DEF IInv
<1>1. /\ phase = "layers" /\ phase' = "wire" /\ proc \in Servers /\ proc' = proc + 1
      /\ passed = Len(Middleware(proc))
      /\ UNCHANGED <<options, maker, meant, masked, wrapped>>
  BY DEF Send, PlaceInv, purpose
<1>2. maker \in 1..proc /\ proc \in Procs /\ proc \in Nat
  BY <1>1, ErrorsAssumption DEF PlaceInv, TypeOK, Procs
<1> SUFFICES ASSUME Complete', err' # <<>> PROVE Reported(proc - 1)'
  BY <1>1 DEF ChainInv, Converted
<1>3. Complete /\ err # <<>>
  BY <1>1, SameError DEF Send
<1>4. Gen(proc) # NoGen
  BY <1>1, <1>2, <1>3, CompleteIs
<1>5. passed = ErrorsAt(proc) + 1
  BY <1>1, <1>2, <1>4, MiddlewareIs
<1>6. Converted
  <2>1. ErrorsAt(proc) \in {1, 2}
    BY DEF ErrorsAt
  <2> QED
    BY <1>1, <1>5, <2>1 DEF Converted
<1>7. Reported(proc)
  BY <1>3, <1>6 DEF ChainInv
<1>8. err' = err
  BY <1>7 DEF Send, Reported
<1>9. proc' - 1 = proc
  BY <1>1, <1>2
<1> QED
  BY <1>1, <1>7, <1>8, <1>9, SameError DEF Reported

\* Receive.
LEMMA ReceiveChain == IInv /\ Receive => ChainInv'
<1> SUFFICES ASSUME IInv, Receive PROVE ChainInv'
  OBVIOUS
<1> USE DEF IInv
<1>1. /\ phase = "wire" /\ phase' \in {"done", "handler"} /\ proc' = proc
      /\ UNCHANGED <<options, maker, meant, masked, wrapped>>
      /\ err' = IF config[proc].client THEN FromStatus(proc, err) ELSE err
  BY DEF Receive, purpose
<1>2. /\ proc \in Procs /\ proc \in Nat /\ maker \in 1..proc /\ maker \in Nat
      /\ maker < proc /\ err \in Seq(Layers) /\ proc \notin wrapped
  BY <1>1, ErrorsAssumption DEF PlaceInv, TypeOK, Procs
<1> SUFFICES ASSUME Complete', err' # <<>> PROVE Obtained'
  BY <1>1 DEF ChainInv, Converted
<1>3. Complete
  BY <1>1, SameError
<1>4. config[proc].client /\ Gen(proc) \in Settings
  BY <1>2, <1>3, CompleteIs
<1>5. err # <<>> /\ err' = FromStatus(proc, err)
  BY <1>1, <1>4 DEF FromStatus
<1>6. Reported(proc - 1)
  BY <1>1, <1>3, <1>5 DEF ChainInv
<1> DEFINE q == err[1].proto
<1>7. /\ Len(err) = 1 /\ err[1].kind = "status" /\ q \in Protos
      /\ Tracked(q, proc - 1) /\ Explained(q, proc - 1)
  BY <1>6 DEF Reported, Tracked
<1> HIDE DEF q
<1>8. PICK n : n = Len(q.trace)
  OBVIOUS
<1>9. n = proc - maker /\ n \in Nat \ {0} /\ maker + (n + 1) - 1 = proc
  BY <1>2, <1>7, <1>8 DEF Tracked
<1>10. PICK r : r = err'[1].proto
  OBVIOUS
<1>11. /\ err'[1].kind = "api"
       /\ FirstOf({"sentinel"}, err') = 0 /\ FirstOf({"api"}, err') = 1
       /\ r \in Protos /\ r.sentinel = q.sentinel /\ r.source = q.source
       /\ Len(r.trace) = n + 1
       /\ \A i \in 1..n : r.trace[i] = q.trace[i]
       /\ r.trace[n + 1].app = proc
       /\ r.trace[n + 1].stack = Gen(proc).stack
       /\ r.trace[n + 1].context = FALSE
  <2>1. /\ err[1].proto \in Protos /\ err[1].kind = "status" /\ Len(err) = 1
        /\ err \in Seq(Layers) /\ proc \in Procs /\ Gen(proc) \in Settings
    BY <1>2, <1>4, <1>7 DEF q
  <2> DEFINE f == FromStatus(proc, err)
  <2>2. /\ f # <<>> /\ f[1].kind = "api"
        /\ FirstOf({"sentinel"}, f) = 0 /\ FirstOf({"api"}, f) = 1
        /\ f[1].proto \in Protos /\ f[1].proto.sentinel = err[1].proto.sentinel
        /\ f[1].proto.source = err[1].proto.source
        /\ Len(f[1].proto.trace) = Len(err[1].proto.trace) + 1
        /\ \A i \in 1..Len(err[1].proto.trace) :
             f[1].proto.trace[i] = err[1].proto.trace[i]
        /\ f[1].proto.trace[Len(err[1].proto.trace) + 1].app = proc
        /\ f[1].proto.trace[Len(err[1].proto.trace) + 1].stack = Gen(proc).stack
        /\ f[1].proto.trace[Len(err[1].proto.trace) + 1].context = FALSE
    BY <2>1, FromStatusIs
  <2>3. err' = f
    BY <1>5
  <2> HIDE DEF f
  <2> QED
    BY <1>8, <1>10, <2>2, <2>3 DEF q
<1>12. \A i \in 1..(n + 1) : i = n + 1 \/ i \in 1..n
  BY <1>9
<1>13. Tracked(r, proc)
  <2>1. ASSUME NEW i \in 1..(n + 1)
        PROVE  r.trace[i].app = maker + i - 1 /\ r.trace[i].stack = Gen(maker + i - 1).stack
    <3>1. CASE i = n + 1
      BY <1>9, <1>11, <3>1
    <3>2. CASE i \in 1..n
      BY <1>7, <1>8, <1>11, <3>2 DEF Tracked
    <3> QED
      BY <1>12, <3>1, <3>2
  <2>2. Len(r.trace) = proc - maker + 1
    BY <1>2, <1>9, <1>11
  <2>3. ~masked => r.sentinel = meant
    BY <1>7, <1>11 DEF Tracked
  <2> QED
    BY <1>11, <2>1, <2>2, <2>3 DEF Tracked
<1>14. Explained(r, proc - 1)
  <2>1. r.source => \A m \in maker..(proc - 1) : m < N => Gen(m).source
    BY <1>7, <1>11 DEF Explained
  <2>2. ASSUME ~masked, NEW i \in 1..(n + 1)
        PROVE  /\ r.trace[i].context => maker + i - 1 \in wrapped
               /\ maker + i - 1 <= proc - 1 /\ maker + i - 1 \in wrapped
                    => r.trace[i].context
    <3>1. CASE i = n + 1
      BY <1>2, <1>9, <1>11, <3>1
    <3>2. CASE i \in 1..n
      <4>1. /\ q.trace[i].context => maker + i - 1 \in wrapped
            /\ maker + i - 1 <= proc - 1 /\ maker + i - 1 \in wrapped => q.trace[i].context
        BY <1>7, <1>8, <2>2, <3>2 DEF Explained
      <4> QED
        BY <1>11, <3>2, <4>1
    <3> QED
      BY <1>12, <3>1, <3>2
  <2> QED
    BY <1>11, <2>1, <2>2 DEF Explained
<1>15. Tracked(r, proc)' /\ Explained(r, proc - 1)'
  BY <1>1, <1>13, <1>14, SameError
<1>16. (FirstOf({"sentinel"}, err) = 0 /\ FirstOf({"api"}, err) = 1)'
  BY <1>11
<1> QED
  BY <1>1, <1>10, <1>11, <1>15, <1>16 DEF Obtained

\* The error on its way.
LEMMA ChainStep == IInv /\ [Next]_vars => ChainInv'
<1> SUFFICES ASSUME IInv, [Next]_vars PROVE ChainInv'
  OBVIOUS
<1>1. ASSUME NEW r \in {"value", "nil"}, Answer(r)
      PROVE  ChainInv'
  BY <1>1 DEF Answer, ChainInv
<1>2. CASE Crash
  BY <1>2 DEF Crash, ChainInv, Converted
<1>3. CASE UNCHANGED vars
  <2>1. /\ UNCHANGED <<options, proc, phase, passed, err>>
        /\ UNCHANGED <<maker, meant, masked, wrapped>>
    BY <1>3 DEF vars, options
  <2>2. Complete /\ err # <<>> <=> Complete' /\ err' # <<>>
    BY <2>1, SameError
  <2>3. Converted' <=> Converted
    BY <2>1 DEF Converted, ErrorsAt, options
  <2>4. Obtained => Obtained'
    BY <2>1, SameError DEF Obtained
  <2>5. Leaving => Leaving'
    BY <2>1, SameError DEF Leaving, HasContext
  <2>6. \A p : Reported(p) => Reported(p)'
    BY <2>1, SameError DEF Reported
  <2>7. ChainInv
    BY DEF IInv
  <2> QED
    BY <2>1, <2>2, <2>3, <2>4, <2>5, <2>6, <2>7 DEF ChainInv
<1> QED
  BY <1>1, <1>2, <1>3, RelayChain, FailChain, NotFoundChain, ErrorsChain,
     LoggingChain, SendChain, ReceiveChain
     DEF Next

LEMMA IInvInit == Init => IInv
<1> SUFFICES ASSUME Init PROVE IInv
  OBVIOUS
<1>1. 1 \in Procs /\ N \in Nat
  BY ErrorsAssumption DEF Procs
<1>2. PICK kind \in {"unary", "stream"} : rpc = [p \in Procs |-> kind]
  BY DEF Init
<1>3. err \in Seq(Layers)
  BY DEF Init
<1>4. TypeOK
  <2>1. <<Nothing>> \in Seq(Layers) \cup {<<Nothing>>}
    OBVIOUS
  <2>2. seen \in [Servers -> Seq(Layers) \cup {<<Nothing>>}]
    BY <2>1 DEF Init
  <2>3. sent \in [Servers -> Seq(Layers) \cup {<<Nothing>>}]
    BY <2>1 DEF Init
  <2>4. rpc \in [Procs -> {"unary", "stream"}] /\ config \in [Procs -> Configs]
    BY <1>2 DEF Init
  <2>5. /\ proc \in Procs /\ phase = "handler" /\ passed \in 0..3 /\ resp = "none"
        /\ panicking = FALSE /\ meant = Nothing /\ maker \in Procs /\ masked = FALSE
        /\ wrapped = {}
    BY <1>1 DEF Init
  <2> QED
    BY <1>3, <2>2, <2>3, <2>4, <2>5 DEF TypeOK
<1>5. PlaceInv
  BY DEF Init, PlaceInv
<1>6. LogInv
  BY <1>1, ErrorsAssumption DEF Init, LogInv, Converted, Servers
<1>7. ChainInv
  BY DEF Init, ChainInv
<1> QED
  BY <1>4, <1>5, <1>6, <1>7 DEF IInv

-----------------------------------------------------------------------------
(* The theorems.                                                           *)

\* The invariant holds for every length of the chain and all options.
THEOREM Invariance == Spec => []IInv
<1>1. IInv /\ [Next]_vars => IInv'
  BY TypeStep, PlaceStep, LogStep, ChainStep DEF IInv
<1> QED
  BY <1>1, IInvInit, PTL DEF Spec

\* The result that passes the chain is an error of the layers of the code, in a
\* process of the chain.
THEOREM TypeCorrect == Spec => []TypeOK
<1>1. IInv => TypeOK
  BY DEF IInv
<1> QED
  BY <1>1, Invariance, PTL

\* What the logging middleware saw is what the server sends (managerOpts.go,
\* lines 200-202).
THEOREM LogsWhatIsSent == Spec => []LoggedIsSent
<1>1. IInv => LoggedIsSent
  <2> SUFFICES ASSUME IInv, NEW p \in Servers, Gen(p) # NoGen, sent[p] # <<Nothing>>
               PROVE  seen[p] = sent[p]
    BY DEF LoggedIsSent
  <2>1. ~(p >= proc)
    BY DEF IInv, LogInv
  <2>2. p < proc
    BY <2>1, ErrorsAssumption DEF IInv, TypeOK, Procs, Servers
  <2> QED
    BY <2>2 DEF IInv, LogInv
<1> QED
  BY <1>1, Invariance, PTL

\* A panic does not end a process with a generator (generatorMiddleware.go, lines
\* 230-236 and 258-260).
THEOREM PanicsRecovered == Spec => []GeneratorRecovers
<1>1. IInv => GeneratorRecovers
  BY DEF IInv, LogInv, GeneratorRecovers
<1> QED
  BY <1>1, Invariance, PTL

\* What the client has, when it has the error of a complete chain.
LEMMA ClientHas ==
  ASSUME IInv, phase = "done", err # <<>>, Complete
  PROVE  Obtained /\ maker \in 1..(proc - 1) /\ proc \in 1..N
<1>1. Obtained
  BY DEF IInv, ChainInv
<1>2. proc \in 1..N /\ maker \in 1..proc /\ maker < proc
  BY ErrorsAssumption DEF IInv, TypeOK, PlaceInv, Procs
<1> QED
  BY <1>1, <1>2

\* The sentinel of the handler's error reaches the client, through any number of
\* processes.
THEOREM SentinelsSurvive == Spec => []SentinelSurvives
<1>1. IInv => SentinelSurvives
  <2> SUFFICES ASSUME IInv, phase = "done", meant # Nothing, Complete, ~masked
               PROVE  Received /\ err[1].proto.sentinel = meant
    BY DEF SentinelSurvives
  <2>1. err # <<>>
    BY DEF IInv, PlaceInv
  <2> QED
    BY <2>1, ClientHas DEF Received, Obtained, Tracked
<1> QED
  BY <1>1, Invariance, PTL

\* The client's error has one frame of every process from its maker on
\* (generator.go, lines 42-44; generatorMiddleware.go, lines 57-65).
THEOREM TracesComplete == Spec => []TraceComplete
<1>1. IInv => TraceComplete
  <2> SUFFICES ASSUME IInv, Received, Complete
               PROVE  [i \in 1..Len(err[1].proto.trace) |-> err[1].proto.trace[i].app]
                        = [i \in 1..(N - maker + 1) |-> maker + i - 1]
    BY DEF TraceComplete
  <2>1. Obtained /\ proc = N
    BY ClientHas DEF Received, IInv, PlaceInv, TypeOK
  <2>2. /\ Len(err[1].proto.trace) = N - maker + 1
        /\ \A i \in 1..Len(err[1].proto.trace) : err[1].proto.trace[i].app = maker + i - 1
    BY <2>1 DEF Obtained, Tracked
  <2> QED
    BY <2>2
<1> QED
  BY <1>1, Invariance, PTL

\* The stack of a frame is the choice of its process; the source error is sent
\* only by a chain that sends it (generator.go, lines 35-52).
THEOREM SettingsAreKept == Spec => []SettingsKept
<1>1. IInv => SettingsKept
  <2> SUFFICES ASSUME IInv, Received, Complete
               PROVE  LET proto == err[1].proto
                      IN  /\ \A i \in 1..Len(proto.trace) :
                               proto.trace[i].stack = Gen(proto.trace[i].app).stack
                          /\ proto.source => \A p \in maker..(N - 1) : Gen(p).source
    BY DEF SettingsKept
  <2>1. Obtained /\ proc = N /\ N \in Nat
    BY ClientHas, ErrorsAssumption DEF Received, IInv, PlaceInv, TypeOK
  <2>2. /\ Tracked(err[1].proto, proc) /\ Explained(err[1].proto, proc - 1)
    BY <2>1 DEF Obtained
  <2> DEFINE proto == err[1].proto
  <2>3. \A i \in 1..Len(proto.trace) : proto.trace[i].stack = Gen(proto.trace[i].app).stack
    BY <2>2 DEF Tracked
  <2>4. proto.source => \A p \in maker..(proc - 1) : p < N => Gen(p).source
    BY <2>2 DEF Explained
  <2>5. \A p \in maker..(proc - 1) : p < N
    BY <2>1, ClientHas DEF Received
  <2> QED
    BY <2>1, <2>3, <2>4, <2>5
<1> QED
  BY <1>1, Invariance, PTL

\* The additional context is in the frames of exactly the processes that put text
\* around the error, whatever their settings are (generatorMiddleware.go, lines
\* 180-186).
THEOREM ContextsPlaced == Spec => []ContextWhereAdded
<1>1. IInv => ContextWhereAdded
  <2> SUFFICES ASSUME IInv, Received, Complete, ~masked,
                      NEW i \in 1..Len(err[1].proto.trace)
               PROVE  LET frame == err[1].proto.trace[i]
                      IN  frame.context <=> frame.app \in wrapped
    BY DEF ContextWhereAdded
  <2>1. /\ Tracked(err[1].proto, proc) /\ Explained(err[1].proto, proc - 1)
        /\ maker \in Nat /\ proc \in Nat
    BY ClientHas DEF Received, Obtained
  <2>2. /\ err[1].proto.trace[i].app = maker + i - 1
        /\ Len(err[1].proto.trace) = proc - maker + 1
    BY <2>1 DEF Tracked
  <2>3. proc \notin wrapped
    BY DEF IInv, PlaceInv, Received
  <2>4. maker + i - 1 \in wrapped => maker + i - 1 <= proc - 1
    BY <2>1, <2>2, <2>3
  <2> QED
    BY <2>1, <2>2, <2>4 DEF Explained
<1> QED
  BY <1>1, Invariance, PTL
===============================================================================
