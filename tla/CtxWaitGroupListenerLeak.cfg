SPECIFICATION FairSpec
CONSTANTS
  Calls = {c1}
  Waits = {}
  Deltas <- OneDelta
  Capacity = 16
  NoCall = NoCall
PROPERTIES
  ListenerStopsOnCancel
CHECK_DEADLOCK FALSE
