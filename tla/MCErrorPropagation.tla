------------------------- MODULE MCErrorPropagation -------------------------
(***************************************************************************)
(* Instances of ErrorPropagation for TLC: a handler, a relay and a client, *)
(* each with one of a few combinations of options.                         *)
(***************************************************************************)
EXTENDS ErrorPropagation

AllOn == [stack |-> TRUE, context |-> TRUE, source |-> TRUE]
AllOff == [stack |-> FALSE, context |-> FALSE, source |-> FALSE]

OptionsOf(gen, notFound, client) ==
  [gen |-> gen, notFound |-> notFound, client |-> client]

\* Everything, nothing sent, a server only, and no generator.
SomeConfigs ==
  {OptionsOf(AllOn, TRUE, TRUE), OptionsOf(AllOff, FALSE, TRUE),
   OptionsOf(AllOn, FALSE, FALSE),
   OptionsOf(NoGen, TRUE, FALSE), OptionsOf(NoGen, FALSE, FALSE)}

FullConfig == {OptionsOf(AllOn, TRUE, TRUE)}

NothingSent == {OptionsOf(AllOff, TRUE, TRUE)}
=============================================================================
