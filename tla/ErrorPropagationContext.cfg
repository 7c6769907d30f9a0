SPECIFICATION Spec
CONSTANTS
  N = 2
  Thrown = {errA, errB}
  ErrUnknown = ErrUnknown
  ErrNotFound = ErrNotFound
  Configs <- NothingSent
  NoGen = NoGen
  NoProto = NoProto
  Nothing = Nothing
INVARIANTS
  ContextAsSet
CHECK_DEADLOCK FALSE
