SPECIFICATION FairSpec
CONSTANT NumServices = 3
INVARIANTS
  TypeOK
  EveryErrorReturned
  NoSendAfterClose
  ReturnsWhenFinished
PROPERTIES
  ImplementsServiceMap
  MapReturns
CHECK_DEADLOCK FALSE
