--------------------------- MODULE MCCtxWaitGroup ---------------------------
(***************************************************************************)
(* Instances of CtxWaitGroup for TLC.                                      *)
(***************************************************************************)
EXTENDS CtxWaitGroup

\* Add(1) and Done() are what the manager uses; Add(2), Add(0) and Add(-2) are
\* the other ways to zero and below it.
OneDelta == {1}
MoreDeltas == {-2, 0, 1, 2}
=============================================================================
