SPECIFICATION FairSpec
CONSTANTS
  NumSuites = 3
  WithGrpc = {1, 3}
  Cancellable = {3}
INVARIANTS
  TypeOK
  TornDown
PROPERTIES
  PingMeansServed
  SuitesEnd
CHECK_DEADLOCK FALSE
