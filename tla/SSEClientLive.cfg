SPECIFICATION FairSpec
CONSTANTS
  MaxConns = 2
  MaxEvents = 2
  Routed = {1, 2}
  ChanCap = 1
  Stoppers = {s1}
  OptionSet <- LiveOptions
PROPERTIES
  StopReturns ReadersEnd EventuallyDelivered
CHECK_DEADLOCK FALSE
