----------------------------- MODULE SentinelIssuer -----------------------------
(***************************************************************************)
(* pkerr.SentinelIssuer (src/pkerr/sentinelIssuer.go): the issuers of one  *)
(* or several processes, the sentinels they have created, and the API      *)
(* errors made from them.  An error is identified by an issuer name and a  *)
(* code, one of Width values (2^32 in the code); the name and the offset   *)
(* of an issuer can be changed at any time, before and after it creates    *)
(* sentinels, and an API error keeps the identity it was made with.        *)
(***************************************************************************)
EXTENDS Integers, Sequences, FiniteSets

CONSTANTS Issuers,       \* the SentinelIssuer values
          Names,         \* the names they may have
          Codes,         \* the codes given to NewSentinel
          Offsets,       \* the offsets given to ApplyNewIssuer
          Width,         \* the number of values of a uint32
          MaxSentinels,  \* a bound on the sentinels of an issuer
          MaxErrors      \* a bound on the API errors

ASSUME WidthAssumption == Width \in Nat \ {0}
ASSUME CodesAssumption == Codes \subseteq 0..(Width - 1)
ASSUME OffsetsAssumption == Offsets \subseteq Int

VARIABLES sentinelIssuer,    \* issuer -> its name
          sentinelOffset,    \* issuer -> the offset of its codes
          createdSentinels,  \* issuer -> its sentinels, in order
          errors             \* the API errors

vars == <<sentinelIssuer, sentinelOffset, createdSentinels, errors>>

Sentinels == [issuer : Names, code : 0..(Width - 1), codeOriginal : Codes]

\* What identifies an API error; from, the original code of its sentinel and the
\* offset at that time, is what it stands for.
Errors == [issuer : Names, code : 0..(Width - 1), from : Codes \X Int]

TypeOK ==
  /\ sentinelIssuer \in [Issuers -> Names]
  /\ sentinelOffset \in [Issuers -> Int]
  /\ createdSentinels \in [Issuers -> Seq(Sentinels)]
  /\ errors \subseteq Errors

\* NewSentinelIssuer, with or without settings from the environment.
Init ==
  /\ sentinelIssuer \in [Issuers -> Names]
  /\ sentinelOffset \in [Issuers -> Offsets]
  /\ createdSentinels = [i \in Issuers |-> <<>>]
  /\ errors = {}

\* Mutation of Shifted: no cast back to 32 bits.
ShiftedMutant(code, offset) == code + offset

\* uint32(int64(code) + int64(offset))
Shifted(code, offset) == (code + offset) % Width

\* Mutation of Issue: the offset is for ApplyNewIssuer only.
IssueMutant(name, code, offset) ==
  [issuer |-> name, code |-> code, codeOriginal |-> code]

\* The sentinel that NewSentinel makes.
Issue(name, code, offset) ==
  [issuer |-> name, code |-> Shifted(code, offset), codeOriginal |-> code]

NewSentinel(i, code) ==
  /\ Len(createdSentinels[i]) < MaxSentinels
  /\ createdSentinels' = [createdSentinels EXCEPT ![i] =
       Append(@, Issue(sentinelIssuer[i], code, sentinelOffset[i]))]
  /\ UNCHANGED <<sentinelIssuer, sentinelOffset, errors>>

\* Mutation of Reissue: the offset is added to the code as it is.
ReissueMutant(s, name, offset) ==
  [s EXCEPT !.issuer = name, !.code = Shifted(s.code, offset)]

\* What ApplyNewIssuer makes of a sentinel: the shift is of the original code.
Reissue(s, name, offset) ==
  [s EXCEPT !.issuer = name, !.code = Shifted(s.codeOriginal, offset)]

ApplyNewIssuer(i, name, offset) ==
  /\ sentinelIssuer' = [sentinelIssuer EXCEPT ![i] = name]
  /\ sentinelOffset' = [sentinelOffset EXCEPT ![i] = offset]
  /\ createdSentinels' = [createdSentinels EXCEPT ![i] =
       [k \in 1..Len(createdSentinels[i]) |->
          Reissue(createdSentinels[i][k], name, offset)]]
  /\ UNCHANGED errors

\* newAPIErrBasic: the error has the issuer and the code of the sentinel.
NewErr(i, k) ==
  /\ Cardinality(errors) < MaxErrors
  /\ LET s == createdSentinels[i][k]
     IN  errors' = errors \cup {[issuer |-> s.issuer, code |-> s.code,
                                 from |-> <<s.codeOriginal, sentinelOffset[i]>>]}
  /\ UNCHANGED <<sentinelIssuer, sentinelOffset, createdSentinels>>

\* APIError.Is, for a sentinel.
Is(e, s) == e.code = s.code /\ e.issuer = s.issuer

Next == \E i \in Issuers :
  \/ \E c \in Codes : NewSentinel(i, c)
  \/ \E n \in Names, o \in Offsets : ApplyNewIssuer(i, n, o)
  \/ \E k \in 1..Len(createdSentinels[i]) : NewErr(i, k)

Spec == Init /\ [][Next]_vars

-----------------------------------------------------------------------------
(* What must hold.                                                         *)

\* Whenever an issuer is renamed, all its sentinels, those made before and those
\* made after, have its name and the original code shifted once.
UniformOffset ==
  \A i \in Issuers : \A k \in 1..Len(createdSentinels[i]) :
    LET s == createdSentinels[i][k]
    IN  s.issuer = sentinelIssuer[i] /\ s.code = Shifted(s.codeOriginal, sentinelOffset[i])

\* errors.Is finds the sentinel of an API error and no other, in any process that
\* has the issuer and the offset the error was made with, although codes wrap.
Recognised ==
  \A e \in errors, i \in Issuers :
    sentinelIssuer[i] = e.issuer /\ sentinelOffset[i] = e.from[2] =>
      \A k \in 1..Len(createdSentinels[i]) :
        LET s == createdSentinels[i][k]
        IN  Is(e, s) <=> s.codeOriginal = e.from[1]
=============================================================================
