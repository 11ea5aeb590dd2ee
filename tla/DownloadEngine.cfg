SPECIFICATION FairSpec
CONSTANTS
  Callers = {c1, c2}
  Sized = TRUE
  Workers = 1
  Attempts = 2
  MaxTries = 4
INVARIANTS
  TypeOK FailuresSpent
PROPERTIES
  ReadsSpec CancelReturns TasksDrain StopEnds
CHECK_DEADLOCK FALSE
