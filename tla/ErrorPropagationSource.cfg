SPECIFICATION Spec
CONSTANTS
  N = 2
  Thrown = {errA, errB}
  ErrUnknown = ErrUnknown
  ErrNotFound = ErrNotFound
  Configs <- FullConfig
  NoGen = NoGen
  NoProto = NoProto
  Nothing = Nothing
INVARIANTS
  HandlerErrorReported
CHECK_DEADLOCK FALSE
