SPECIFICATION Spec
CONSTANTS
  MaxConns = 2
  MaxEvents = 1
  Routed = {1}
  ChanCap = 1
  Stoppers = {s1}
  OptionSet <- TelemetryOptions
INVARIANTS
  TelemetryDrained
CHECK_DEADLOCK FALSE
