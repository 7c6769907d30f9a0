SPECIFICATION Spec
CONSTANTS
  N = 3
  Thrown = {errA, errB}
  ErrUnknown = ErrUnknown
  ErrNotFound = ErrNotFound
  Configs <- SomeConfigs
  NoGen = NoGen
  NoProto = NoProto
  Nothing = Nothing
INVARIANTS
  TypeOK
  SentinelSurvives
  TraceComplete
  SettingsKept
  ContextWhereAdded
  LoggedIsSent
  GeneratorRecovers
CHECK_DEADLOCK FALSE
