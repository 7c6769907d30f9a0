SPECIFICATION Spec
CONSTANTS
  NumServices = 1
  Generic = {1}
  Grpc = {}
  Holders = {}
  Limits = {TRUE}
  MaxRpcs = 0
INVARIANTS
  NoCrash
CHECK_DEADLOCK FALSE
