SPECIFICATION Spec
CONSTANTS
  MaxSize = 4
  Limit = 2
  InitialChunk = 3
  MaxRedirectHops = 3
  StartPositions = {0}
  PartialCreate = TRUE
INVARIANTS
  TusWhole
CHECK_DEADLOCK FALSE
