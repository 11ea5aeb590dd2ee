SPECIFICATION Spec
CONSTANTS
  MaxConns = 3
  MaxEvents = 3
  Routed <- RoutedEvents
  ChanCap = 2
  Stoppers = {s1, s2}
  OptionSet <- SafetyOptions
SYMMETRY StopperSymmetry
INVARIANTS
  TypeOK OneStream NoOrphanStream HandlersDrained StopLosesNothing
PROPERTIES
  DeliverySpec
CHECK_DEADLOCK FALSE
