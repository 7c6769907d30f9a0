SPECIFICATION Spec
CONSTANTS
  NumServices = 1
  Generic = {}
  Grpc = {1}
  Holders = {1}
  Limits = {TRUE}
  MaxRpcs = 1
INVARIANTS
  ResourcesOutliveServer
CHECK_DEADLOCK FALSE
