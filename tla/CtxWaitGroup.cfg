SPECIFICATION FairSpec
CONSTANTS
  Calls = {c1, c2, c3}
  Waits = {w1}
  Deltas <- MoreDeltas
  Capacity = 1
  NoCall = NoCall
INVARIANTS
  TypeOK
  CounterBalanced
  ClosedBalanced
PROPERTIES
  ImplementsWaitGroup
  CallsReturn
CHECK_DEADLOCK FALSE
