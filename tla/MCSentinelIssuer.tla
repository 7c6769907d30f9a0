---------------------------- MODULE MCSentinelIssuer ----------------------------
(***************************************************************************)
(* An instance of SentinelIssuer for TLC: two issuers that may have the    *)
(* same name, codes of two bits, and offsets that make them wrap at both   *)
(* ends.                                                                   *)
(***************************************************************************)
EXTENDS SentinelIssuer, TLC

SomeOffsets == {-1, 0, 3}

\* Issuers and names are told apart only by equality.
Symmetry == Permutations(Issuers) \cup Permutations(Names)
=============================================================================
