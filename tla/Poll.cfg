SPECIFICATION FairSpec
CONSTANT
  Attempts = 2
INVARIANT
  TypeOK
  SettledIsCurrent
PROPERTY
  NoLateRequest
  WaitEnds
CHECK_DEADLOCK FALSE
