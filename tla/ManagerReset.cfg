SPECIFICATION FairSpec
CONSTANTS
  MayForget = TRUE
  Managers = {{"generic"}, {"grpc"}}
INVARIANTS
  TypeOK
  CrashesExplained
PROPERTIES
  Isolated
  ShutdownEndsNext
CHECK_DEADLOCK FALSE
