SPECIFICATION FairSpec
CONSTANTS
  NumServices = 2
  Generic = {1, 2}
  Grpc = {2}
  Holders = {1}
  Limits = {TRUE, FALSE}
  MaxRpcs = 1
INVARIANTS
  TypeOK
  RunsAfterSetup
  ServesWhenReady
  CancelCascade
  ResourcesOutliveRuns
  ResourcesOutliveRpcs
  CleanReturn
  ErrorsReported
PROPERTIES
  ImplementsLifecycle
  ShutdownTerminates
  FailureStopsRun
CHECK_DEADLOCK FALSE
