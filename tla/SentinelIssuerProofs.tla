-------------------------- MODULE SentinelIssuerProofs --------------------------
(***************************************************************************)
(* Proofs about SentinelIssuer, for any issuers, names, codes and offsets, *)
(* and any width of a code.                                                *)
(***************************************************************************)
EXTENDS SentinelIssuer, TLAPS

-----------------------------------------------------------------------------
(* Codes.                                                                  *)

\* A shifted code is again a code.
LEMMA ShiftedIsCode ==
  ASSUME NEW c \in Codes, NEW o \in Int
  PROVE  Shifted(c, o) \in 0..(Width - 1)
<1>1. c \in Int
  BY WidthAssumption, CodesAssumption
<1> QED
  BY <1>1, WidthAssumption DEF Shifted

\* A multiple of w that is closer to zero than w is zero.
LEMMA SmallMultiple ==
  ASSUME NEW w \in Nat \ {0}, NEW k \in Int, w * k < w, -w < w * k
  PROVE  k = 0
<1>1. ASSUME k >= 1 PROVE FALSE
  <2>1. PICK j \in Nat : k = j + 1
    <3>1. k - 1 \in Nat /\ k = (k - 1) + 1
      BY <1>1
    <3> QED
      BY <3>1
  <2>2. w * k = w * j + w /\ w * j >= 0
    BY <2>1
  <2> QED
    BY <2>2, <2>1
<1>2. ASSUME k <= -1 PROVE FALSE
  <2>1. PICK j \in Nat : k = -j - 1
    <3>1. -k - 1 \in Nat /\ k = -(-k - 1) - 1
      BY <1>2
    <3> QED
      BY <3>1
  <2>2. w * k = -(w * j) - w /\ w * j >= 0
    BY <2>1
  <2> QED
    BY <2>2, <2>1
<1> QED
  BY <1>1, <1>2

\* Shifting keeps different codes different, although it wraps.
LEMMA ShiftedInjective ==
  ASSUME NEW c \in Codes, NEW d \in Codes, NEW o \in Int,
         Shifted(c, o) = Shifted(d, o)
  PROVE  c = d
<1> DEFINE qc == (c + o) \div Width
           qd == (d + o) \div Width
<1>1. c \in 0..(Width - 1) /\ d \in 0..(Width - 1) /\ Width \in Nat \ {0}
  BY WidthAssumption, CodesAssumption
<1>2. /\ qc \in Int /\ c + o = Width * qc + ((c + o) % Width)
      /\ qd \in Int /\ d + o = Width * qd + ((d + o) % Width)
      /\ (c + o) % Width \in Int
  BY <1>1
<1>3. c - d = Width * qc - Width * qd
  <2>1. (c + o) % Width = (d + o) % Width
    BY DEF Shifted
  <2> QED
    BY <2>1, <1>1, <1>2
<1>4. Width * qc - Width * qd = Width * (qc - qd)
  BY <1>1, <1>2
<1> HIDE DEF qc, qd
<1>5. qc - qd = 0
  <2>1. qc - qd \in Int /\ Width * (qc - qd) < Width /\ -Width < Width * (qc - qd)
    BY <1>1, <1>2, <1>3, <1>4
  <2> QED
    BY <2>1, <1>1, SmallMultiple
<1> QED
  BY <1>1, <1>2, <1>3, <1>5

-----------------------------------------------------------------------------
(* Sentinels and errors.                                                   *)

\* An API error has the code that its sentinel had when it was made.
ErrorsIssued == \A e \in errors : e.code = Shifted(e.from[1], e.from[2])

\* UniformOffset is inductive; ErrorsIssued, which follows from it when an error
\* is made, is what Recognised needs later, when the sentinel may have changed.
IInv == TypeOK /\ UniformOffset /\ ErrorsIssued

\* An issued sentinel is one.
LEMMA IssueType ==
  ASSUME NEW n \in Names, NEW c \in Codes, NEW o \in Int
  PROVE  Issue(n, c, o) \in Sentinels
BY ShiftedIsCode DEF Issue, Sentinels

\* So is a sentinel that was issued again; its code is the original one, shifted.
LEMMA ReissueType ==
  ASSUME NEW s \in Sentinels, NEW n \in Names, NEW o \in Int
  PROVE  /\ Reissue(s, n, o) \in Sentinels
         /\ Reissue(s, n, o).issuer = n
         /\ Reissue(s, n, o).codeOriginal = s.codeOriginal
         /\ Reissue(s, n, o).code = Shifted(s.codeOriginal, o)
<1>1. s.codeOriginal \in Codes
  BY DEF Sentinels
<1>2. Shifted(s.codeOriginal, o) \in 0..(Width - 1)
  BY <1>1, ShiftedIsCode
<1> QED
  BY <1>1, <1>2 DEF Reissue, Sentinels

\* No issuer has sentinels at first, and there are no errors.
LEMMA InitIInv == Init => IInv
<1> SUFFICES ASSUME Init PROVE IInv
  OBVIOUS
<1>1. TypeOK
  <2>1. <<>> \in Seq(Sentinels)
    OBVIOUS
  <2> QED
    BY <2>1, OffsetsAssumption DEF Init, TypeOK
<1>2. \A i \in Issuers : 1..Len(createdSentinels[i]) = {}
  BY DEF Init
<1>3. UniformOffset
  BY <1>2 DEF UniformOffset
<1>4. ErrorsIssued
  BY DEF Init, ErrorsIssued
<1> QED
  BY <1>1, <1>3, <1>4 DEF IInv

\* A new sentinel has the name and the offset of its issuer.
LEMMA NewSentinelKeeps ==
  ASSUME IInv, NEW i \in Issuers, NEW c \in Codes, NewSentinel(i, c)
  PROVE  IInv'
<1> USE DEF IInv
<1> DEFINE s == Issue(sentinelIssuer[i], c, sentinelOffset[i])
<1>1. s \in Sentinels
  BY IssueType DEF TypeOK
<1>2. createdSentinels' = [createdSentinels EXCEPT ![i] = Append(createdSentinels[i], s)]
  BY DEF NewSentinel, TypeOK
<1>3. UNCHANGED <<sentinelIssuer, sentinelOffset, errors>>
  BY DEF NewSentinel
<1>4. s.issuer = sentinelIssuer[i] /\ s.codeOriginal = c
        /\ s.code = Shifted(c, sentinelOffset[i])
  BY DEF Issue
<1> HIDE DEF s
<1>5. TypeOK'
  BY <1>1, <1>2, <1>3 DEF TypeOK
<1>6. UniformOffset'
  <2> SUFFICES ASSUME NEW j \in Issuers, NEW k \in 1..Len(createdSentinels'[j])
               PROVE  LET t == createdSentinels'[j][k]
                      IN  /\ t.issuer = sentinelIssuer[j]
                          /\ t.code = Shifted(t.codeOriginal, sentinelOffset[j])
    BY <1>3 DEF UniformOffset, Shifted
  <2>1. CASE j = i /\ k = Len(createdSentinels[i]) + 1
    <3>1. createdSentinels'[j][k] = s
      BY <2>1, <1>1, <1>2 DEF TypeOK
    <3> QED
      BY <3>1, <2>1, <1>4
  <2>2. CASE ~(j = i /\ k = Len(createdSentinels[i]) + 1)
    <3>1. k \in 1..Len(createdSentinels[j])
            /\ createdSentinels'[j][k] = createdSentinels[j][k]
      BY <2>2, <1>1, <1>2 DEF TypeOK
    <3> QED
      BY <3>1 DEF UniformOffset
  <2> QED
    BY <2>1, <2>2
<1>7. ErrorsIssued'
  BY <1>3 DEF ErrorsIssued, Shifted
<1> QED
  BY <1>5, <1>6, <1>7

\* Every sentinel of the issuer is issued again.
LEMMA ApplyNewIssuerKeeps ==
  ASSUME IInv, NEW i \in Issuers, NEW n \in Names, NEW o \in Offsets,
         ApplyNewIssuer(i, n, o)
  PROVE  IInv'
<1> USE DEF IInv
<1> DEFINE again == [k \in 1..Len(createdSentinels[i]) |->
                       Reissue(createdSentinels[i][k], n, o)]
<1>1. o \in Int
  BY OffsetsAssumption
<1>2. createdSentinels[i] \in Seq(Sentinels)
  BY DEF TypeOK
<1>3. ASSUME NEW k \in 1..Len(createdSentinels[i])
      PROVE  /\ again[k] \in Sentinels
             /\ again[k].issuer = n
             /\ again[k].code = Shifted(again[k].codeOriginal, o)
  <2>1. createdSentinels[i][k] \in Sentinels
    BY <1>2
  <2>2. again[k] = Reissue(createdSentinels[i][k], n, o)
    OBVIOUS
  <2> QED
    BY <2>1, <2>2, <1>1, ReissueType
<1>4. again \in Seq(Sentinels) /\ Len(again) = Len(createdSentinels[i])
  <2>1. Len(createdSentinels[i]) \in Nat
    BY <1>2
  <2>2. again \in [1..Len(createdSentinels[i]) -> Sentinels]
    BY <1>3
  <2> QED
    BY <2>1, <2>2
<1>5. /\ createdSentinels' = [createdSentinels EXCEPT ![i] = again]
      /\ sentinelIssuer' = [sentinelIssuer EXCEPT ![i] = n]
      /\ sentinelOffset' = [sentinelOffset EXCEPT ![i] = o]
      /\ errors' = errors
  BY DEF ApplyNewIssuer
<1> HIDE DEF again
<1>6. TypeOK'
  BY <1>1, <1>4, <1>5 DEF TypeOK
<1>7. UniformOffset'
  <2> SUFFICES ASSUME NEW j \in Issuers, NEW k \in 1..Len(createdSentinels'[j])
               PROVE  LET t == createdSentinels'[j][k]
                      IN  /\ t.issuer = sentinelIssuer'[j]
                          /\ t.code = Shifted(t.codeOriginal, sentinelOffset'[j])
    BY DEF UniformOffset, Shifted
  <2>1. CASE j = i
    BY <2>1, <1>3, <1>4, <1>5 DEF TypeOK
  <2>2. CASE j # i
    BY <2>2, <1>5 DEF TypeOK, UniformOffset
  <2> QED
    BY <2>1, <2>2
<1>8. ErrorsIssued'
  BY <1>5 DEF ErrorsIssued, Shifted
<1> QED
  BY <1>6, <1>7, <1>8

\* A new error has the code of its sentinel.
LEMMA NewErrKeeps ==
  ASSUME IInv, NEW i \in Issuers, NEW k \in 1..Len(createdSentinels[i]), NewErr(i, k)
  PROVE  IInv'
<1> USE DEF IInv
<1> DEFINE s == createdSentinels[i][k]
           e == [issuer |-> s.issuer, code |-> s.code,
                 from |-> <<s.codeOriginal, sentinelOffset[i]>>]
<1>1. s \in Sentinels /\ sentinelOffset[i] \in Int
  BY DEF TypeOK
<1>2. s.code = Shifted(s.codeOriginal, sentinelOffset[i])
  BY DEF UniformOffset
<1>3. /\ errors' = errors \cup {e}
      /\ UNCHANGED <<sentinelIssuer, sentinelOffset, createdSentinels>>
  BY DEF NewErr
<1>4. e \in Errors
  BY <1>1 DEF Sentinels, Errors
<1>5. e.code = Shifted(e.from[1], e.from[2])
  BY <1>2
<1> HIDE DEF s, e
<1>6. TypeOK'
  BY <1>3, <1>4 DEF TypeOK
<1>7. UniformOffset'
  BY <1>3 DEF UniformOffset, Shifted
<1>8. ErrorsIssued'
  BY <1>3, <1>5 DEF ErrorsIssued, Shifted
<1> QED
  BY <1>6, <1>7, <1>8

\* The inductive invariant holds whatever is issued, renamed and made, in any order.
THEOREM Invariance == Spec => []IInv
<1>1. ASSUME IInv, [Next]_vars PROVE IInv'
  <2>1. ASSUME NEW i \in Issuers, NEW c \in Codes, NewSentinel(i, c) PROVE IInv'
    BY <2>1, <1>1, NewSentinelKeeps
  <2>2. ASSUME NEW i \in Issuers, NEW n \in Names, NEW o \in Offsets,
               ApplyNewIssuer(i, n, o)
        PROVE  IInv'
    BY <2>2, <1>1, ApplyNewIssuerKeeps
  <2>3. ASSUME NEW i \in Issuers, NEW k \in 1..Len(createdSentinels[i]), NewErr(i, k)
        PROVE  IInv'
    BY <2>3, <1>1, NewErrKeeps
  <2>4. CASE UNCHANGED vars
    BY <2>4, <1>1 DEF vars, IInv, TypeOK, UniformOffset, ErrorsIssued, Shifted
  <2> QED
    BY <2>1, <2>2, <2>3, <2>4, <1>1 DEF Next
<1> QED
  BY <1>1, InitIInv, PTL DEF Spec

\* The type invariant.
THEOREM TypeCorrect == Spec => []TypeOK
<1>1. IInv => TypeOK
  BY DEF IInv
<1> QED
  BY <1>1, Invariance, PTL

\* ApplyNewIssuer reaches every sentinel, and the offset is applied once.
THEOREM OffsetsUniform == Spec => []UniformOffset
<1>1. IInv => UniformOffset
  BY DEF IInv
<1> QED
  BY <1>1, Invariance, PTL

\* An API error is recognised as its own sentinel, and as no other, wherever the
\* issuer has the settings that it was made with.
THEOREM ErrorsRecognised == Spec => []Recognised
<1>1. IInv => Recognised
  <2> SUFFICES ASSUME IInv, NEW e \in errors, NEW i \in Issuers,
                      sentinelIssuer[i] = e.issuer, sentinelOffset[i] = e.from[2],
                      NEW k \in 1..Len(createdSentinels[i])
               PROVE  Is(e, createdSentinels[i][k])
                        <=> createdSentinels[i][k].codeOriginal = e.from[1]
    BY DEF Recognised
  <2> DEFINE s == createdSentinels[i][k]
             o == sentinelOffset[i]
  <2>1. s \in Sentinels /\ e \in Errors /\ o \in Int
    BY DEF IInv, TypeOK
  <2>2. s.codeOriginal \in Codes /\ e.from[1] \in Codes
    BY <2>1 DEF Sentinels, Errors
  <2>3. s.issuer = e.issuer /\ s.code = Shifted(s.codeOriginal, o)
    BY DEF IInv, UniformOffset
  <2>4. e.code = Shifted(e.from[1], o)
    BY DEF IInv, ErrorsIssued
  <2> HIDE DEF s, o
  <2>5. e.code = s.code => s.codeOriginal = e.from[1]
    BY <2>1, <2>2, <2>3, <2>4, ShiftedInjective
  <2>6. s.codeOriginal = e.from[1] => e.code = s.code
    BY <2>3, <2>4
  <2>7. Is(e, s) <=> s.codeOriginal = e.from[1]
    BY <2>3, <2>5, <2>6 DEF Is
  <2> QED
    BY <2>7 DEF s
<1> QED
  BY <1>1, Invariance, PTL
=============================================================================
